----------------------------- MODULE ListLemmas -----------------------------
(***************************************************************************)
(* Facts about lists and about what is computed along a list, item after   *)
(* item.  The induction theorems of the library are about an operator, so  *)
(* that induction is stated here on sets: a set of numbers that has 0 and  *)
(* the successor of each of its elements has them all; and so is recursion *)
(* over things made of smaller ones, which no theorem of the library has.  *)
(***************************************************************************)
EXTENDS SequencesExt, SequenceTheorems, WellFoundedInduction, TLAPS

\* A set of numbers has a smallest element.
LEMMA SmallestOf ==
  ASSUME NEW T, T \subseteq Nat, T # {}
  PROVE  \E m \in T : \A n \in T : m <= n
  <1> DEFINE less == OpToRel(<, Nat)
  <1>1. IsWellFoundedOn(less, Nat)
    BY NatLessThanWellFounded
  <1>2. \A x, y \in Nat : x < y => <<x, y>> \in less
    BY DEF OpToRel
  <1> HIDE DEF less
  <1>3. PICK m \in T : \A n \in T : ~(<<n, m>> \in less)
    BY <1>1, WFMin
  <1>4. \A n \in T : ~(n < m)
    BY <1>2, <1>3
  <1> QED
    BY <1>3, <1>4

LEMMA SetInduction ==
  ASSUME NEW S, 0 \in S, \A n \in Nat : n \in S => n + 1 \in S
  PROVE  Nat \subseteq S
  <1> DEFINE T == Nat \ S
  <1>1. SUFFICES ASSUME T # {} PROVE FALSE
    OBVIOUS
  <1>2. T \subseteq Nat
    OBVIOUS
  <1>3. PICK m \in T : \A n \in T : m <= n
    <2> HIDE DEF T
    <2> QED
      BY <1>1, <1>2, SmallestOf
  <1>4. m \in Nat /\ m # 0
    OBVIOUS
  <1>5. m - 1 \in Nat /\ ~(m <= m - 1) /\ (m - 1) + 1 = m
    BY <1>4
  <1>6. m - 1 \in S
    BY <1>3, <1>5
  <1> QED
    BY <1>5, <1>6

\* What holds of the empty list, and of a list with one item more when it holds
\* of the list, holds of every list.
LEMMA ListInduction ==
  ASSUME NEW S, NEW Q, <<>> \in Q,
         \A s \in Seq(S) : \A e \in S : s \in Q => Append(s, e) \in Q
  PROVE  Seq(S) \subseteq Q
  <1> DEFINE T == {n \in Nat : \A s \in Seq(S) : Len(s) = n => s \in Q}
  <1>1. 0 \in T
    <2>1. \A s \in Seq(S) : Len(s) = 0 => s = <<>>
      BY EmptySeq
    <2> QED
      BY <2>1
  <1>2. ASSUME NEW n \in Nat, n \in T PROVE n + 1 \in T
    <2> SUFFICES ASSUME NEW s \in Seq(S), Len(s) = n + 1 PROVE s \in Q
      OBVIOUS
    <2>1. s # <<>>
      BY EmptySeq
    <2>2. PICK front \in Seq(S), e \in S : s = Append(front, e)
      BY <2>1, SequenceEmptyOrAppend
    <2>3. Len(front) = n
      BY <2>2, AppendProperties, LenProperties
    <2> QED
      BY <1>2, <2>2, <2>3
  <1>3. Nat \subseteq T
    <2> HIDE DEF T
    <2> QED
      BY <1>1, <1>2, SetInduction
  <1> QED
    BY <1>3, LenProperties

-----------------------------------------------------------------------------
(* FlattenSeq *)

\* The function FlattenSeq is defined with exists.
LEMMA FlattenExists ==
  ASSUME NEW seqs, NEW len \in Nat
  PROVE  \E f : f = [i \in 1 .. len |-> IF i = 1 THEN seqs[i] ELSE f[i-1] \o seqs[i]]
  <1> DEFINE Fits(f, n) ==
               f = [i \in 1 .. n |-> IF i = 1 THEN seqs[i] ELSE f[i-1] \o seqs[i]]
             S == {n \in Nat : \E f : Fits(f, n)}
  <1>1. 0 \in S
    <2>1. Fits([i \in 1 .. 0 |-> <<>>], 0)
      OBVIOUS
    <2> HIDE DEF Fits
    <2> QED
      BY <2>1
  <1>2. ASSUME NEW n \in Nat, n \in S PROVE n + 1 \in S
    <2>1. PICK f : Fits(f, n)
      BY <1>2
    <2> DEFINE g == [i \in 1 .. n + 1 |->
                        IF i <= n THEN f[i] ELSE IF i = 1 THEN seqs[i] ELSE f[i-1] \o seqs[i]]
    <2>2. ASSUME NEW i \in 1 .. n + 1
          PROVE  g[i] = IF i = 1 THEN seqs[i] ELSE g[i-1] \o seqs[i]
      <3>1. i # 1 => g[i-1] = f[i-1]
        OBVIOUS
      <3>2. g[i] = IF i = 1 THEN seqs[i] ELSE f[i-1] \o seqs[i]
        <4>1. CASE i <= n
          <5>1. i \in 1 .. n
            BY <4>1
          <5>2. f[i] = IF i = 1 THEN seqs[i] ELSE f[i-1] \o seqs[i]
            BY <2>1, <5>1
          <5> QED
            BY <4>1, <5>2
        <4>2. CASE ~(i <= n)
          BY <4>2
        <4> QED
          BY <4>1, <4>2
      <3> QED
        BY <3>1, <3>2
    <2>3. g = [i \in 1 .. n + 1 |-> g[i]]
      OBVIOUS
    <2>4. Fits(g, n + 1)
      <3> HIDE DEF g
      <3> QED
        BY <2>2, <2>3
    <2> HIDE DEF Fits
    <2> QED
      BY <2>4
  <1>3. Nat \subseteq S
    <2> HIDE DEF S
    <2> QED
      BY <1>1, <1>2, SetInduction
  <1> QED
    BY <1>3

\* The items of a list of lists that is flattened are those of its lists.
LEMMA FlattenItems ==
  ASSUME NEW S, NEW seqs \in Seq(Seq(S))
  PROVE  /\ FlattenSeq(seqs) \in Seq(S)
         /\ Range(FlattenSeq(seqs)) = UNION {Range(seqs[i]) : i \in DOMAIN seqs}
  <1>1. CASE Len(seqs) = 0
    <2>1. seqs = <<>> /\ FlattenSeq(seqs) = <<>>
      BY <1>1 DEF FlattenSeq
    <2>2. DOMAIN <<>> = {} /\ <<>> \in Seq(S)
      BY EmptySeq
    <2>3. Range(FlattenSeq(seqs)) = {}
      BY <2>1, <2>2 DEF Range
    <2> QED
      BY <2>1, <2>2, <2>3
  <1>2. CASE Len(seqs) # 0
    <2> DEFINE f == CHOOSE f : f = [i \in 1 .. Len(seqs) |->
                                      IF i = 1 THEN seqs[i] ELSE f[i-1] \o seqs[i]]
    <2>1. FlattenSeq(seqs) = f[Len(seqs)]
      BY <1>2 DEF FlattenSeq
    <2>2. Len(seqs) \in Nat
      OBVIOUS
    <2>3. f = [i \in 1 .. Len(seqs) |-> IF i = 1 THEN seqs[i] ELSE f[i-1] \o seqs[i]]
      BY <2>2, FlattenExists
    <2> HIDE DEF f
    <2> DEFINE Until(n) == UNION {Range(seqs[i]) : i \in 1 .. n}
               T == {n \in Nat : n + 1 <= Len(seqs) =>
                         f[n + 1] \in Seq(S) /\ Range(f[n + 1]) = Until(n + 1)}
    <2>4. \A i \in 1 .. Len(seqs) : seqs[i] \in Seq(S)
      OBVIOUS
    <2>5. 0 \in T
      <3>1. f[1] = seqs[1] /\ 1 \in 1 .. Len(seqs)
        BY <1>2, <2>2, <2>3
      <3>2. Until(1) = Range(seqs[1])
        OBVIOUS
      <3>3. f[1] \in Seq(S) /\ Range(f[1]) = Until(1)
        BY <2>4, <3>1, <3>2
      <3> HIDE DEF Until
      <3> QED
        BY <3>3
    <2>6. ASSUME NEW n \in Nat, n \in T PROVE n + 1 \in T
      <3>1. PICK m \in Nat : m = n + 1
        OBVIOUS
      <3>2. SUFFICES ASSUME m + 1 <= Len(seqs)
                     PROVE  f[m + 1] \in Seq(S) /\ Range(f[m + 1]) = Until(m + 1)
        BY <3>1
      <3>3. f[m] \in Seq(S) /\ Range(f[m]) = Until(m)
        <4>1. n + 1 <= Len(seqs)
          BY <2>2, <3>1, <3>2
        <4> QED
          BY <2>6, <3>1, <4>1
      <3>4. f[m + 1] = f[m] \o seqs[m + 1] /\ m + 1 \in 1 .. Len(seqs)
        <4>1. m + 1 \in 1 .. Len(seqs) /\ m + 1 # 1 /\ (m + 1) - 1 = m
          BY <2>2, <3>1, <3>2
        <4> QED
          BY <2>3, <4>1
      <3>5. Until(m + 1) = Until(m) \cup Range(seqs[m + 1])
        <4>1. 1 .. m + 1 = (1 .. m) \cup {m + 1}
          OBVIOUS
        <4> QED
          BY <4>1
      <3>6. seqs[m + 1] \in Seq(S)
        BY <2>4, <3>4
      <3>7. Range(f[m + 1]) = Range(f[m]) \cup Range(seqs[m + 1])
        BY <3>3, <3>4, <3>6, RangeConcatenation
      <3>8. f[m + 1] \in Seq(S)
        BY <3>3, <3>4, <3>6, ConcatProperties
      <3> QED
        BY <3>3, <3>5, <3>7, <3>8
    <2>7. Nat \subseteq T
      <3> HIDE DEF T
      <3> QED
        BY <2>5, <2>6, SetInduction
    <2>8. f[Len(seqs)] \in Seq(S) /\ Range(f[Len(seqs)]) = Until(Len(seqs))
      <3>1. PICK n \in Nat : Len(seqs) = n + 1
        <4>1. Len(seqs) - 1 \in Nat /\ Len(seqs) = (Len(seqs) - 1) + 1
          BY <1>2, <2>2
        <4> QED
          BY <4>1
      <3>2. n \in T
        BY <2>7
      <3> QED
        BY <3>1, <3>2
    <2>9. DOMAIN seqs = 1 .. Len(seqs)
      OBVIOUS
    <2> QED
      BY <2>1, <2>8, <2>9
  <1> QED
    BY <1>1, <1>2

LEMMA ConcatAppend ==
    ASSUME NEW S, NEW s \in Seq(S), NEW t \in Seq(S), NEW e \in S
    PROVE  s \o Append(t, e) = Append(s \o t, e)
  <1>1. <<e>> \in Seq(S)
    BY AppendProperties, EmptySeq
  <1> QED
    BY <1>1, AppendIsConcat, ConcatAssociative, ConcatProperties

\* A function on an interval of numbers from one is a list.
LEMMA ListOf ==
    ASSUME NEW S, NEW n \in Nat, NEW f \in [1 .. n -> S]
    PROVE  f \in Seq(S) /\ Len(f) = n /\ DOMAIN f = 1 .. n
  <1>1. f \in Seq(S)
    BY SeqDef
  <1>2. /\ Len(f) \in Nat /\ 1 .. Len(f) = 1 .. n
    BY <1>1, LenProperties
  <1>3. PICK m \in Nat : m = Len(f) /\ 1 .. m = 1 .. n
    BY <1>2
  <1>4. m <= n
    <2>1. m = 0 \/ m \in 1 .. m
      OBVIOUS
    <2> QED
      BY <1>3, <2>1
  <1>5. n <= m
    <2>1. n = 0 \/ n \in 1 .. n
      OBVIOUS
    <2> QED
      BY <1>3, <2>1
  <1> QED
    BY <1>1, <1>3, <1>4, <1>5

\* FlattenSeq joins the lists one after the other.
LEMMA FlattenAppend ==
  ASSUME NEW S, NEW seqs \in Seq(Seq(S)), NEW s \in Seq(S)
  PROVE  /\ FlattenSeq(<<>>) = <<>>
         /\ FlattenSeq(Append(seqs, s)) = FlattenSeq(seqs) \o s
  <1>1. FlattenSeq(<<>>) = <<>>
    BY EmptySeq DEF FlattenSeq
  <1>2. /\ Append(seqs, s) \in Seq(Seq(S))
        /\ Len(Append(seqs, s)) = Len(seqs) + 1
        /\ \A i \in 1 .. Len(seqs) : Append(seqs, s)[i] = seqs[i]
        /\ Append(seqs, s)[Len(seqs) + 1] = s
        /\ Len(seqs) \in Nat
    BY AppendProperties, LenProperties
  <1> DEFINE all == Append(seqs, s)
             g == CHOOSE g : g = [i \in 1 .. Len(all) |->
                                    IF i = 1 THEN all[i] ELSE g[i-1] \o all[i]]
             f == CHOOSE f : f = [i \in 1 .. Len(seqs) |->
                                    IF i = 1 THEN seqs[i] ELSE f[i-1] \o seqs[i]]
  <1>3. FlattenSeq(all) = g[Len(all)]
    <2>1. Len(all) # 0
      BY <1>2
    <2> HIDE DEF all
    <2> QED
      BY <2>1 DEF FlattenSeq
  <1>4. Len(seqs) # 0 => FlattenSeq(seqs) = f[Len(seqs)]
    BY DEF FlattenSeq
  <1>5. g = [i \in 1 .. Len(all) |-> IF i = 1 THEN all[i] ELSE g[i-1] \o all[i]]
    <2>1. Len(all) \in Nat
      BY <1>2
    <2> QED
      BY <2>1, FlattenExists
  <1>6. f = [i \in 1 .. Len(seqs) |-> IF i = 1 THEN seqs[i] ELSE f[i-1] \o seqs[i]]
    BY <1>2, FlattenExists
  <1> HIDE DEF g, f, all
  <1>7. /\ Len(all) = Len(seqs) + 1 /\ Len(seqs) \in Nat
        /\ \A i \in 1 .. Len(seqs) : all[i] = seqs[i]
        /\ all[Len(seqs) + 1] = s
    BY <1>2 DEF all
  <1>8. CASE Len(seqs) = 0
    <2>1. g[1] = s
      BY <1>5, <1>7, <1>8
    <2>2. seqs = <<>>
      BY <1>8, EmptySeq
    <2>3. <<>> \o s = s
      BY ConcatEmptySeq
    <2> QED
      BY <1>1, <1>3, <1>7, <1>8, <2>1, <2>2, <2>3 DEF all
  <1>9. CASE Len(seqs) # 0
    <2> DEFINE T == {n \in Nat : n + 1 <= Len(seqs) => g[n + 1] = f[n + 1]}
    <2>1. 0 \in T
      <3>1. 1 \in 1 .. Len(seqs) /\ 1 \in 1 .. Len(all)
        BY <1>7, <1>9
      <3> QED
        BY <1>5, <1>6, <1>7, <3>1
    <2>2. ASSUME NEW n \in Nat, n \in T PROVE n + 1 \in T
      <3>1. PICK m \in Nat : m = n + 1
        OBVIOUS
      <3>2. SUFFICES ASSUME m + 1 <= Len(seqs) PROVE g[m + 1] = f[m + 1]
        BY <3>1
      <3>3. g[m] = f[m]
        BY <1>7, <2>2, <3>1, <3>2
      <3>4. /\ m + 1 \in 1 .. Len(seqs) /\ m + 1 \in 1 .. Len(all)
            /\ m + 1 # 1 /\ (m + 1) - 1 = m
        BY <1>7, <3>1, <3>2
      <3>5. g[m + 1] = g[m] \o all[m + 1] /\ f[m + 1] = f[m] \o seqs[m + 1]
        BY <1>5, <1>6, <3>4
      <3> QED
        BY <1>7, <3>3, <3>4, <3>5
    <2>3. Nat \subseteq T
      <3> HIDE DEF T
      <3> QED
        BY <2>1, <2>2, SetInduction
    <2>4. g[Len(seqs)] = f[Len(seqs)]
      <3>1. PICK n \in Nat : Len(seqs) = n + 1
        <4>1. Len(seqs) - 1 \in Nat /\ Len(seqs) = (Len(seqs) - 1) + 1
          BY <1>7, <1>9
        <4> QED
          BY <4>1
      <3>2. n \in T
        BY <2>3
      <3> QED
        BY <3>1, <3>2
    <2>5. g[Len(seqs) + 1] = g[Len(seqs)] \o s
      <3>1. /\ Len(seqs) + 1 \in 1 .. Len(all)
            /\ Len(seqs) + 1 # 1 /\ (Len(seqs) + 1) - 1 = Len(seqs)
        BY <1>7, <1>9
      <3> QED
        BY <1>5, <1>7, <3>1
    <2> QED
      BY <1>1, <1>3, <1>4, <1>7, <1>9, <2>4, <2>5 DEF all
  <1> QED
    BY <1>8, <1>9

\* step[t] gives the value of t from any function that is known on its parts,
\* and whatever holds of what it holds of the parts of holds of all of W.
Recursion(W, V, parts, step) ==
    /\ parts \in [W -> SUBSET W]
    /\ step \in [W -> [[W -> V] -> V]]
    /\ \A C \in SUBSET W : (\A t \in W : parts[t] \subseteq C => t \in C) => C = W
    /\ \A t \in W : \A f, g \in [W -> V] :
          (\A u \in parts[t] : f[u] = g[u]) => step[t][f] = step[t][g]

\* A definition by recursion is that of a function.
LEMMA FoundedRecursion ==
  ASSUME NEW W, NEW V, NEW v0 \in V, NEW parts, NEW step, Recursion(W, V, parts, step)
  PROVE  \E f \in [W -> V] : f = [t \in W |-> step[t][f]]
  <1> USE DEF Recursion
  <1> DEFINE Solves(C, f) == \A t \in C : parts[t] \subseteq C /\ f[t] = step[t][f]
  <1> DEFINE Same(t, f, g) == \A u \in parts[t] : f[u] = g[u]
  <1>0. \A t \in W : \A f, g \in [W -> V] : Same(t, f, g) => step[t][f] = step[t][g]
    OBVIOUS
  <1> HIDE DEF Same
  <1>1. ASSUME NEW C \in SUBSET W, NEW D \in SUBSET W, NEW f \in [W -> V], NEW g \in [W -> V],
               Solves(C, f), Solves(D, g)
        PROVE  \A t \in C \cap D : f[t] = g[t]
    <2>1. PICK A \in SUBSET W : A = {t \in W : t \in C \cap D => f[t] = g[t]}
      OBVIOUS
    <2>2. ASSUME NEW t \in W, parts[t] \subseteq A PROVE t \in A
      <3>1. CASE t \in C \cap D
        <4>1. Same(t, f, g)
          <5>1. \A u \in parts[t] : f[u] = g[u]
            BY <1>1, <2>1, <2>2, <3>1
          <5> QED
            BY <5>1 DEF Same
        <4>2. step[t][f] = step[t][g]
          BY <1>0, <4>1
        <4> QED
          BY <1>1, <2>1, <3>1, <4>2
      <3> QED
        BY <2>1, <3>1
    <2>3. A = W
      BY <2>2
    <2> QED
      BY <2>1, <2>3
  <1>2. PICK G \in SUBSET W :
           \A t \in W : t \in G <=> \E C \in SUBSET W : \E f \in [W -> V] : t \in C /\ Solves(C, f)
    <2>1. {t \in W : \E C \in SUBSET W : \E f \in [W -> V] : t \in C /\ Solves(C, f)} \in SUBSET W
      OBVIOUS
    <2> HIDE DEF Solves
    <2> QED
      BY <2>1
  <1>3. PICK val \in [W -> V] :
           \A t \in G : \E C \in SUBSET W : \E f \in [W -> V] :
              t \in C /\ Solves(C, f) /\ val[t] = f[t]
    <2> DEFINE Value(t, v) == \E C \in SUBSET W : \E f \in [W -> V] :
                                 t \in C /\ Solves(C, f) /\ v = f[t]
    <2>1. ASSUME NEW t \in G PROVE \E v \in V : Value(t, v)
      <3> HIDE DEF Solves
      <3>1. PICK C \in SUBSET W, f \in [W -> V] : t \in C /\ Solves(C, f)
        BY <1>2
      <3>2. f[t] \in V
        BY <3>1
      <3>3. Value(t, f[t])
        BY <3>1
      <3> HIDE DEF Value
      <3> QED
        BY <3>2, <3>3
    <2> HIDE DEF Solves, Value
    <2> DEFINE w == [t \in W |-> IF t \in G THEN CHOOSE v \in V : Value(t, v) ELSE v0]
    <2>2. w \in [W -> V] /\ \A t \in G : Value(t, w[t])
      BY <2>1
    <2> HIDE DEF w
    <2> QED
      BY <2>2 DEF Value
  <1>4. ASSUME NEW C \in SUBSET W, NEW f \in [W -> V], Solves(C, f)
        PROVE  \A t \in C : val[t] = f[t]
    <2> TAKE t \in C
    <2> HIDE DEF Solves
    <2>1. t \in G
      BY <1>2, <1>4
    <2>2. PICK D \in SUBSET W, g \in [W -> V] : t \in D /\ Solves(D, g) /\ val[t] = g[t]
      BY <1>3, <2>1
    <2> QED
      BY <1>1, <1>4, <2>2
  <1>5. Solves(G, val)
    <2> SUFFICES ASSUME NEW t \in G PROVE parts[t] \subseteq G /\ val[t] = step[t][val]
      OBVIOUS
    <2>1. PICK C \in SUBSET W, f \in [W -> V] : t \in C /\ Solves(C, f)
      <3> HIDE DEF Solves
      <3> QED
        BY <1>2
    <2>2. C \subseteq G
      <3> HIDE DEF Solves
      <3> QED
        BY <1>2, <2>1
    <2>3. parts[t] \subseteq C /\ f[t] = step[t][f]
      BY <2>1
    <2>4. \A u \in C : val[u] = f[u]
      <3> HIDE DEF Solves
      <3> QED
        BY <1>4, <2>1
    <2>5. Same(t, val, f)
      BY <2>3, <2>4 DEF Same
    <2>6. step[t][val] = step[t][f]
      BY <1>0, <2>5
    <2> QED
      BY <2>1, <2>2, <2>3, <2>4, <2>6
  <1>6. ASSUME NEW t \in W, parts[t] \subseteq G, t \notin G PROVE FALSE
    <2>1. PICK g \in [W -> V] : g = [val EXCEPT ![t] = step[t][val]]
      <3>1. step[t][val] \in V
        OBVIOUS
      <3>2. [val EXCEPT ![t] = step[t][val]] \in [W -> V]
        BY <3>1
      <3> QED
        BY <3>2
    <2>2. g[t] = step[t][val] /\ \A u \in G : g[u] = val[u]
      BY <1>6, <2>1
    <2>3. ASSUME NEW u \in G \cup {t} PROVE parts[u] \subseteq G \cup {t} /\ g[u] = step[u][g]
      <3>1. parts[u] \subseteq G
        BY <1>5, <1>6
      <3>2. step[u][g] = step[u][val]
        <4>1. Same(u, g, val) /\ u \in W
          BY <2>2, <3>1 DEF Same
        <4> QED
          BY <1>0, <4>1
      <3>3. g[u] = step[u][val]
        BY <1>5, <2>2
      <3> QED
        BY <3>1, <3>2, <3>3
    <2>4. Solves(G \cup {t}, g)
      BY <2>3
    <2> HIDE DEF Solves
    <2> QED
      <3>1. G \cup {t} \in SUBSET W /\ t \in G \cup {t}
        OBVIOUS
      <3>2. t \in G
        BY <1>2, <2>4, <3>1
      <3> QED
        BY <1>6, <3>2
  <1>7. G = W
    BY <1>6
  <1>8. val = [t \in W |-> step[t][val]]
    BY <1>5, <1>7
  <1> QED
    BY <1>8
=============================================================================
