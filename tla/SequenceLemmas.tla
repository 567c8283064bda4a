--------------------------- MODULE SequenceLemmas ---------------------------
(***************************************************************************)
(* Lemmas on sequences for the proofs of the components: induction over    *)
(* the numbers in the form of a set that contains them, and by it what     *)
(* Keep, and FlattenSeq of the community modules, compute for sequences of *)
(* any length; sequences without repetitions; sets made sequences; and     *)
(* sequences that begin with others.                                       *)
(***************************************************************************)
EXTENDS Keeping, Integers, SequencesExt, FiniteSetTheorems, FunctionTheorems, SequenceTheorems,
        WellFoundedInduction, TLAPS

\* A set of numbers that is not empty has a least one.
LEMMA Least ==
    ASSUME NEW S \in SUBSET Nat, S # {}
    PROVE  \E n \in S : \A m \in S : n <= m
<1> DEFINE R == OpToRel(<, Nat)
<1>1. IsWellFoundedOn(R, Nat)
  BY NatLessThanWellFounded
<1>2. R = {ss \in Nat \X Nat : ss[1] < ss[2]}
  BY DEF OpToRel
<1> HIDE DEF R
<1>3. PICK n \in S : \A m \in S : ~(<<m, n>> \in R)
  BY <1>1, WFMin
<1>4. \A m \in S : m \in Nat /\ n \in Nat /\ ~(m < n)
  BY <1>2, <1>3
<1>5. QED BY <1>4

\* A set of numbers that has 0, and with each number the next, has them all.
LEMMA NatInd ==
    ASSUME NEW S, 0 \in S, \A n \in Nat : n \in S => n + 1 \in S
    PROVE  Nat \subseteq S
<1> SUFFICES ASSUME NEW k \in Nat, k \notin S PROVE FALSE
  OBVIOUS
<1> DEFINE T == {n \in Nat : n \notin S}
<1>1. PICK n \in T : \A m \in T : n <= m
  BY Least
<1>2. n # 0 /\ n - 1 \in Nat /\ n - 1 \notin T
  BY <1>1
<1>3. QED BY <1>1, <1>2

\* A function that satisfies the equation of the function in Keep.
IsKept(f, s, T, n) ==
    f = [k \in 0..n |->
            IF k = 0 THEN <<>>
            ELSE IF s[k] \in T THEN Append(f[k - 1], s[k])
            ELSE f[k - 1]]

\* There is one.
LEMMA KeptExists ==
    ASSUME NEW s, NEW T
    PROVE  \A n \in Nat : \E f : IsKept(f, s, T, n)
<1> DEFINE Eq(f, n) == IsKept(f, s, T, n)
           S == {n \in Nat : \E f : Eq(f, n)}
<1>1. 0 \in S
  <2> DEFINE f == [k \in 0..0 |-> <<>>]
  <2>1. Eq(f, 0)
    BY DEF IsKept
  <2>2. QED BY <2>1
<1>2. ASSUME NEW n \in Nat, n \in S PROVE n + 1 \in S
  <2>1. PICK f : Eq(f, n)
    BY <1>2
  <2> DEFINE last == IF s[n + 1] \in T THEN Append(f[n], s[n + 1]) ELSE f[n]
             g == [k \in 0..(n + 1) |-> IF k = n + 1 THEN last ELSE f[k]]
  <2>2. ASSUME NEW k \in 0..(n + 1)
        PROVE  g[k] = IF k = 0 THEN <<>> ELSE IF s[k] \in T THEN Append(g[k - 1], s[k]) ELSE g[k - 1]
    <3>1. CASE k = n + 1
      <4>1. g[k] = last /\ g[k - 1] = f[n] /\ k # 0
        BY <3>1
      <4> HIDE DEF g
      <4>2. QED BY <3>1, <4>1
    <3>2. CASE k \in 0..n
      <4>1. g[k] = f[k] /\ (k # 0 => g[k - 1] = f[k - 1])
        BY <3>2
      <4> HIDE DEF g
      <4>2. f[k] = IF k = 0 THEN <<>> ELSE IF s[k] \in T THEN Append(f[k - 1], s[k]) ELSE f[k - 1]
        BY <2>1, <3>2 DEF IsKept
      <4>3. QED BY <4>1, <4>2
    <3>3. QED BY <3>1, <3>2
  <2>3. Eq(g, n + 1)
    <3>1. g = [k \in 0..(n + 1) |-> g[k]]
      OBVIOUS
    <3> HIDE DEF g
    <3>2. QED BY <2>2, <3>1 DEF IsKept
  <2> HIDE DEF g, Eq
  <2>4. QED BY <2>3
<1>3. Nat \subseteq S
  <2> HIDE DEF S
  <2>1. QED BY <1>1, <1>2, NatInd
<1>4. QED BY <1>3

\* Keep keeps what is in T, in its order, no element twice that was there once, and the last
\* element last.
LEMMA KeepProperties ==
    ASSUME NEW S, NEW s \in Seq(S), NEW T
    PROVE  /\ Keep(s, T) \in Seq(S)
           /\ Range(Keep(s, T)) = Range(s) \cap T
           /\ IsInjective(s) => IsInjective(Keep(s, T))
           /\ s # <<>> /\ s[Len(s)] \in T =>
                 /\ Keep(s, T) # <<>>
                 /\ Keep(s, T)[Len(Keep(s, T))] = s[Len(s)]
<1> DEFINE Next(f, k) == IF k = 0 THEN <<>> ELSE IF s[k] \in T THEN Append(f[k - 1], s[k]) ELSE f[k - 1]
           Eq(f) == IsKept(f, s, T, Len(s))
           kept == CHOOSE f : Eq(f)
<1>1. Len(s) \in Nat
  OBVIOUS
<1>2. Eq(kept)
  <2>1. \E f : Eq(f)
    BY <1>1, KeptExists
  <2> HIDE DEF Eq
  <2>2. QED BY <2>1
<1>3. Keep(s, T) = kept[Len(s)]
  BY DEF Keep, IsKept
<1> HIDE DEF kept
<1>a. \A k \in 0..Len(s) : kept[k] = Next(kept, k)
  <2> HIDE DEF Next
  <2> SUFFICES ASSUME NEW k \in 0..Len(s) PROVE kept[k] = Next(kept, k)
    OBVIOUS
  <2>1. kept = [j \in 0..Len(s) |-> Next(kept, j)]
    BY <1>2 DEF IsKept, Next
  <2>2. QED BY <2>1
<1>4. kept[0] = <<>>
  BY <1>1, <1>a
<1>5. ASSUME NEW k \in 1..Len(s)
      PROVE  kept[k] = IF s[k] \in T THEN Append(kept[k - 1], s[k]) ELSE kept[k - 1]
  BY <1>1, <1>a
<1> HIDE DEF Eq, Next
<1> DEFINE Upto(k) == {s[j] : j \in 1..k}
           Good(k) == /\ kept[k] \in Seq(S)
                      /\ Range(kept[k]) = Upto(k) \cap T
                      /\ IsInjective(s) => IsInjective(kept[k])
           G == {k \in Nat : k <= Len(s) => Good(k)}
<1>6. 0 \in G
  <2>1. Upto(0) = {} /\ Range(<<>>) = {} /\ IsInjective(<<>>)
    BY DEF Range, IsInjective
  <2>2. kept[0] \in Seq(S)
    BY <1>4
  <2>3. QED BY <1>4, <2>1, <2>2
<1>7. ASSUME NEW n \in Nat, n \in G PROVE n + 1 \in G
  <2> SUFFICES ASSUME n + 1 <= Len(s) PROVE Good(n + 1)
    OBVIOUS
  <2>1. Good(n)
    BY <1>1, <1>7
  <2>2. n + 1 \in 1..Len(s) /\ (n + 1) - 1 = n
    BY <1>1
  <2>3. kept[n + 1] = IF s[n + 1] \in T THEN Append(kept[n], s[n + 1]) ELSE kept[n]
    BY <1>5, <2>2
  <2>4. Upto(n + 1) = Upto(n) \cup {s[n + 1]}
    <3>1. 1..(n + 1) = (1..n) \cup {n + 1}
      OBVIOUS
    <3>2. QED BY <3>1
  <2>5. CASE s[n + 1] \notin T
    BY <2>1, <2>3, <2>4, <2>5
  <2>6. CASE s[n + 1] \in T
    <3> DEFINE x == s[n + 1]
               t == kept[n]
    <3>1. x \in S /\ t \in Seq(S) /\ kept[n + 1] = Append(t, x)
      BY <2>1, <2>2, <2>3, <2>6
    <3>2. IsInjective(s) => x \notin Range(t)
      BY <2>1, <2>2 DEF IsInjective
    <3> HIDE DEF x, t
    <3>3. Append(t, x) \in Seq(S) /\ Range(Append(t, x)) = Range(t) \cup {x}
      <4>1. /\ Append(t, x) \in Seq(S) /\ Len(Append(t, x)) = Len(t) + 1
            /\ \A j \in 1..Len(t) : Append(t, x)[j] = t[j]
            /\ Append(t, x)[Len(t) + 1] = x
        BY <3>1, AppendProperties
      <4>2. DOMAIN t = 1..Len(t) /\ DOMAIN Append(t, x) = 1..(Len(t) + 1) /\ Len(t) \in Nat
        BY <3>1, <4>1
      <4>3. QED BY <4>1, <4>2 DEF Range
    <3>4. IsInjective(s) => IsInjective(Append(t, x))
      <4>1. IsInjective(s) => IsInjective(t)
        BY <2>1 DEF t
      <4>2. QED BY <3>1, <3>2, <4>1 DEF IsInjective, Range
    <3>5. QED BY <2>1, <2>4, <2>6, <3>1, <3>3, <3>4 DEF x, t
  <2>7. QED BY <2>5, <2>6
<1>8. Good(Len(s))
  <2>1. Nat \subseteq G
    <3> HIDE DEF G
    <3>1. QED BY <1>6, <1>7, NatInd
  <2> HIDE DEF Good
  <2>2. QED BY <1>1, <2>1
<1>9. Upto(Len(s)) = Range(s)
  BY DEF Range
<1>10. ASSUME s # <<>>, s[Len(s)] \in T
       PROVE  Keep(s, T) # <<>> /\ Keep(s, T)[Len(Keep(s, T))] = s[Len(s)]
  <2> DEFINE n == Len(s) - 1
             fore == kept[n]
             e == s[Len(s)]
  <2>1. n \in Nat /\ n + 1 = Len(s) /\ n \in 0..Len(s) /\ Len(s) \in 1..Len(s)
    BY <1>1, <1>10
  <2>2. kept[Len(s)] = Append(fore, e)
    BY <1>5, <1>10, <2>1
  <2>3. fore \in Seq(S)
    <3>1. n \in G
      <4> HIDE DEF G, n
      <4>1. Nat \subseteq G
        BY <1>6, <1>7, NatInd
      <4>2. QED BY <2>1, <4>1
    <3>2. QED BY <2>1, <3>1
  <2>4. e \in S
    BY <2>1
  <2> HIDE DEF fore, e, n, Good, G
  <2>5. Append(fore, e) # <<>> /\ Append(fore, e)[Len(Append(fore, e))] = e
    <3>1. Len(Append(fore, e)) = Len(fore) + 1 /\ Append(fore, e)[Len(fore) + 1] = e
          /\ Append(fore, e) # <<>>
      BY <2>3, <2>4, AppendProperties
    <3>2. QED BY <3>1
  <2>6. QED BY <1>3, <2>2, <2>5 DEF e
<1>11. QED BY <1>3, <1>8, <1>9, <1>10

-----------------------------------------------------------------------------
\* A function that satisfies the equation of the function in FlattenSeq.
IsFlattening(f, seqs, n) ==
    f = [k \in 1..n |-> IF k = 1 THEN seqs[k] ELSE f[k - 1] \o seqs[k]]

\* There is one.
LEMMA FlatteningExists ==
    ASSUME NEW seqs
    PROVE  \A n \in Nat : \E f : IsFlattening(f, seqs, n)
<1> DEFINE S == {n \in Nat : \E f : IsFlattening(f, seqs, n)}
<1>1. 0 \in S
  <2> DEFINE f == [k \in 1..0 |-> <<>>]
  <2>1. IsFlattening(f, seqs, 0)
    BY DEF IsFlattening
  <2>2. QED BY <2>1
<1>2. ASSUME NEW n \in Nat, n \in S PROVE n + 1 \in S
  <2>1. PICK f : IsFlattening(f, seqs, n)
    BY <1>2
  <2> DEFINE last == IF n = 0 THEN seqs[1] ELSE f[n] \o seqs[n + 1]
             g == [k \in 1..(n + 1) |-> IF k = n + 1 THEN last ELSE f[k]]
  <2>2. ASSUME NEW k \in 1..(n + 1)
        PROVE  g[k] = IF k = 1 THEN seqs[k] ELSE g[k - 1] \o seqs[k]
    <3>1. CASE k = n + 1
      <4>1. g[k] = last /\ (k # 1 => g[k - 1] = f[n])
        BY <3>1
      <4> HIDE DEF g
      <4>2. QED BY <3>1, <4>1
    <3>2. CASE k \in 1..n
      <4>1. g[k] = f[k] /\ (k # 1 => g[k - 1] = f[k - 1])
        BY <3>2
      <4> HIDE DEF g
      <4>2. f[k] = IF k = 1 THEN seqs[k] ELSE f[k - 1] \o seqs[k]
        BY <2>1, <3>2 DEF IsFlattening
      <4>3. QED BY <4>1, <4>2
    <3>3. QED BY <3>1, <3>2
  <2>3. IsFlattening(g, seqs, n + 1)
    <3>1. g = [k \in 1..(n + 1) |-> g[k]]
      OBVIOUS
    <3> HIDE DEF g
    <3>2. QED BY <2>2, <3>1 DEF IsFlattening
  <2> HIDE DEF g
  <2>4. QED BY <2>3
<1>3. Nat \subseteq S
  <2> HIDE DEF S
  <2>1. QED BY <1>1, <1>2, NatInd
<1>4. QED BY <1>3

\* The equation of FlattenSeq.
LEMMA FlattenDef ==
    ASSUME NEW S, NEW seqs \in Seq(Seq(S))
    PROVE  \E f : /\ \A k \in 1..Len(seqs) :
                        /\ f[k] = IF k = 1 THEN seqs[k] ELSE f[k - 1] \o seqs[k]
                        /\ f[k] \in Seq(S)
                  /\ FlattenSeq(seqs) = IF seqs = <<>> THEN <<>> ELSE f[Len(seqs)]
<1> DEFINE f == CHOOSE f : IsFlattening(f, seqs, Len(seqs))
<1>1. Len(seqs) \in Nat
  OBVIOUS
<1>2. IsFlattening(f, seqs, Len(seqs))
  BY <1>1, FlatteningExists
<1>3. FlattenSeq(seqs) = IF seqs = <<>> THEN <<>> ELSE f[Len(seqs)]
  <2>1. FlattenSeq(seqs) = IF Len(seqs) = 0 THEN seqs ELSE f[Len(seqs)]
    BY DEF FlattenSeq, IsFlattening
  <2> HIDE DEF f
  <2>2. Len(seqs) = 0 <=> seqs = <<>>
    OBVIOUS
  <2>3. QED BY <2>1, <2>2
<1> HIDE DEF f
<1>4. ASSUME NEW k \in 1..Len(seqs)
      PROVE  f[k] = IF k = 1 THEN seqs[k] ELSE f[k - 1] \o seqs[k]
  <2>1. f = [j \in 1..Len(seqs) |-> IF j = 1 THEN seqs[j] ELSE f[j - 1] \o seqs[j]]
    BY <1>2 DEF IsFlattening
  <2>2. QED BY <2>1
<1> DEFINE T == {n \in Nat : n + 1 <= Len(seqs) => f[n + 1] \in Seq(S)}
<1>5. 0 \in T
  BY <1>4
<1>6. ASSUME NEW n \in Nat, n \in T PROVE n + 1 \in T
  <2> SUFFICES ASSUME (n + 1) + 1 <= Len(seqs) PROVE f[(n + 1) + 1] \in Seq(S)
    OBVIOUS
  <2> DEFINE a == f[n + 1]
             b == seqs[(n + 1) + 1]
  <2>1. a \in Seq(S) /\ b \in Seq(S)
    BY <1>1, <1>6
  <2>2. f[(n + 1) + 1] = a \o b
    <3>1. (n + 1) + 1 \in 1..Len(seqs) /\ (n + 1) + 1 # 1 /\ ((n + 1) + 1) - 1 = n + 1
      BY <1>1
    <3>2. QED BY <1>4, <3>1
  <2> HIDE DEF a, b
  <2>3. QED BY <2>1, <2>2, ConcatProperties
<1>7. Nat \subseteq T
  <2> HIDE DEF T
  <2>1. QED BY <1>5, <1>6, NatInd
<1>8. \A k \in 1..Len(seqs) : f[k] \in Seq(S)
  <2> SUFFICES ASSUME NEW k \in 1..Len(seqs) PROVE f[k] \in Seq(S)
    OBVIOUS
  <2>1. k - 1 \in T
    <3>1. k - 1 \in Nat
      OBVIOUS
    <3> HIDE DEF T
    <3>2. QED BY <1>7, <3>1
  <2>2. QED BY <1>1, <2>1
<1>9. QED BY <1>3, <1>4, <1>8

\* Nothing, flattened.
LEMMA FlattenEmpty == FlattenSeq(<<>>) = <<>>
<1>1. <<>> \in Seq(Seq({}))
  OBVIOUS
<1>2. QED BY <1>1, FlattenDef

\* A sequence more comes last.
LEMMA FlattenAppend ==
    ASSUME NEW S, NEW seqs \in Seq(Seq(S)), NEW s \in Seq(S)
    PROVE  FlattenSeq(Append(seqs, s)) = FlattenSeq(seqs) \o s
<1> DEFINE more == Append(seqs, s)
<1>1. /\ more \in Seq(Seq(S)) /\ more # <<>> /\ Len(more) = Len(seqs) + 1
      /\ \A k \in 1..Len(seqs) : more[k] = seqs[k]
      /\ more[Len(seqs) + 1] = s
  BY AppendProperties
<1> HIDE DEF more
<1>2. Len(seqs) \in Nat
  OBVIOUS
<1>3. PICK f : /\ \A k \in 1..Len(more) : f[k] = IF k = 1 THEN more[k] ELSE f[k - 1] \o more[k]
               /\ FlattenSeq(more) = f[Len(more)]
  <2>1. PICK f : /\ \A k \in 1..Len(more) :
                       /\ f[k] = IF k = 1 THEN more[k] ELSE f[k - 1] \o more[k]
                       /\ f[k] \in Seq(S)
                 /\ FlattenSeq(more) = IF more = <<>> THEN <<>> ELSE f[Len(more)]
    BY <1>1, FlattenDef
  <2>2. FlattenSeq(more) = f[Len(more)]
    BY <1>1, <2>1
  <2>3. QED BY <2>1, <2>2
<1>4. PICK g : /\ \A k \in 1..Len(seqs) : g[k] = IF k = 1 THEN seqs[k] ELSE g[k - 1] \o seqs[k]
               /\ FlattenSeq(seqs) = IF seqs = <<>> THEN <<>> ELSE g[Len(seqs)]
  BY FlattenDef
<1> DEFINE T == {n \in Nat : n + 1 <= Len(seqs) => f[n + 1] = g[n + 1]}
<1>5. 0 \in T
  BY <1>1, <1>2, <1>3, <1>4
<1>6. ASSUME NEW n \in Nat, n \in T PROVE n + 1 \in T
  <2> SUFFICES ASSUME (n + 1) + 1 <= Len(seqs) PROVE f[(n + 1) + 1] = g[(n + 1) + 1]
    OBVIOUS
  <2>1. f[n + 1] = g[n + 1]
    BY <1>2, <1>6
  <2>2. (n + 1) + 1 \in 1..Len(seqs) /\ (n + 1) + 1 \in 1..Len(more) /\ (n + 1) + 1 # 1
        /\ ((n + 1) + 1) - 1 = n + 1
    BY <1>1, <1>2
  <2>3. QED BY <1>1, <1>3, <1>4, <2>1, <2>2
<1>7. Nat \subseteq T
  <2> HIDE DEF T
  <2>1. QED BY <1>5, <1>6, NatInd
<1>8. CASE seqs = <<>>
  <2>1. FlattenSeq(more) = s
    BY <1>1, <1>3, <1>8
  <2>2. FlattenSeq(seqs) \o s = s
    BY <1>8, <1>4, ConcatEmptySeq
  <2>3. QED BY <2>1, <2>2 DEF more
<1>9. CASE seqs # <<>>
  <2>1. Len(seqs) \in 1..Len(seqs) /\ Len(seqs) - 1 \in Nat
    BY <1>2, <1>9
  <2>2. f[Len(seqs)] = g[Len(seqs)]
    <3>1. Len(seqs) - 1 \in T
      BY <1>7, <2>1
    <3>2. QED BY <1>2, <2>1, <3>1
  <2>3. f[Len(more)] = f[Len(seqs)] \o s
    <3>1. Len(more) \in 1..Len(more) /\ Len(more) # 1 /\ Len(more) - 1 = Len(seqs)
      BY <1>1, <1>2, <2>1
    <3>2. f[Len(more)] = f[Len(seqs)] \o more[Len(more)]
      BY <1>3, <3>1
    <3>3. QED BY <1>1, <3>2
  <2>4. QED BY <1>3, <1>4, <1>9, <2>2, <2>3 DEF more
<1>10. QED BY <1>8, <1>9

\* A sequence that begins as one and goes on as another.
LEMMA ConcatIs ==
    ASSUME NEW S, NEW s \in Seq(S), NEW t \in Seq(S), NEW u \in Seq(S),
           Len(u) = Len(s) + Len(t),
           \A k \in 1..Len(s) : u[k] = s[k],
           \A k \in 1..Len(t) : u[Len(s) + k] = t[k]
    PROVE  u = s \o t
<1>1. /\ s \o t \in Seq(S) /\ Len(s \o t) = Len(s) + Len(t)
      /\ \A k \in 1..Len(s) + Len(t) : (s \o t)[k] = IF k <= Len(s) THEN s[k] ELSE t[k - Len(s)]
  BY ConcatProperties
<1>2. Len(s) \in Nat /\ Len(t) \in Nat
  OBVIOUS
<1>3. ASSUME NEW k \in 1..Len(u) PROVE u[k] = (s \o t)[k]
  <2>1. CASE k <= Len(s)
    BY <1>1, <1>2, <2>1
  <2>2. CASE ~(k <= Len(s))
    <3>1. k - Len(s) \in 1..Len(t) /\ Len(s) + (k - Len(s)) = k
      BY <1>2, <2>2
    <3>2. u[k] = t[k - Len(s)]
      BY <3>1
    <3>3. QED BY <1>1, <2>2, <3>2
  <2>3. QED BY <2>1, <2>2
<1>4. QED BY <1>1, <1>3, SeqEqual

\* A function on 1..n is a sequence.
LEMMA FunctionIsSeq ==
    ASSUME NEW S, NEW n \in Nat, NEW f \in [1..n -> S]
    PROVE  f \in Seq(S) /\ Len(f) = n
  OBVIOUS

\* Two sequences, one of which is the other and one element more.
LEMMA LongerByOne ==
    ASSUME NEW S, NEW g \in Seq(S), NEW f, NEW e \in S,
           DOMAIN f = 1..(Len(g) + 1), f = [k \in DOMAIN f |-> f[k]],
           \A k \in 1..Len(g) : f[k] = g[k], f[Len(g) + 1] = e
    PROVE  f = Append(g, e)
<1>1. Len(g) \in Nat /\ \A k \in 1..Len(g) : g[k] \in S
  OBVIOUS
<1>2. f \in Seq(S) /\ Len(f) = Len(g) + 1
  <2>1. \A k \in 1..(Len(g) + 1) : f[k] \in S
    BY <1>1
  <2>2. f \in [1..(Len(g) + 1) -> S]
    BY <2>1
  <2>3. QED BY <1>1, <2>2
<1>3. /\ Append(g, e) \in Seq(S) /\ Len(Append(g, e)) = Len(g) + 1
      /\ \A k \in 1..Len(g) : Append(g, e)[k] = g[k]
      /\ Append(g, e)[Len(g) + 1] = e
  BY AppendProperties
<1>4. ASSUME NEW k \in 1..Len(f) PROVE f[k] = Append(g, e)[k]
  BY <1>1, <1>2, <1>3
<1>5. QED BY <1>2, <1>3, <1>4, SeqEqual

\* Sequences over S make one over S.
LEMMA FlattenType ==
    ASSUME NEW S, NEW seqs \in Seq(Seq(S))
    PROVE  FlattenSeq(seqs) \in Seq(S)
<1>1. PICK f : /\ \A k \in 1..Len(seqs) : f[k] \in Seq(S)
               /\ FlattenSeq(seqs) = IF seqs = <<>> THEN <<>> ELSE f[Len(seqs)]
  BY FlattenDef
<1>2. seqs # <<>> => Len(seqs) \in 1..Len(seqs)
  OBVIOUS
<1>3. QED BY <1>1, <1>2

\* A name for concatenation that hides it from the provers' own axioms.
Cat(s, t) == s \o t

\* Concatenation is associative.
LEMMA CatAssociative ==
    ASSUME NEW S, NEW s \in Seq(S), NEW t \in Seq(S), NEW u \in Seq(S)
    PROVE  Cat(Cat(s, t), u) = Cat(s, Cat(t, u))
  BY ConcatAssociative DEF Cat

\* An element added to the second of two sequences.
LEMMA AppendToConcat ==
    ASSUME NEW S, NEW s \in Seq(S), NEW t \in Seq(S), NEW e \in S
    PROVE  s \o Append(t, e) = Append(s \o t, e)
<1>1. PICK one \in Seq(S) : one = <<e>>
  <2>1. <<e>> \in Seq(S)
    OBVIOUS
  <2>2. QED BY <2>1, Zenon
<1>2. Append(t, e) = t \o one
  BY <1>1, AppendIsConcat
<1>3. s \o t \in Seq(S)
  BY ConcatProperties
<1>4. Append(s \o t, e) = (s \o t) \o one
  BY <1>1, <1>3, AppendIsConcat
<1>5. Cat(Cat(s, t), one) = Cat(s, Cat(t, one))
  BY CatAssociative
<1>6. QED BY <1>2, <1>4, <1>5 DEF Cat

\* Two sequences of sequences, flattened together or each by itself.
LEMMA FlattenConcat ==
    ASSUME NEW S, NEW ss \in Seq(Seq(S)), NEW tt \in Seq(Seq(S))
    PROVE  FlattenSeq(ss \o tt) = FlattenSeq(ss) \o FlattenSeq(tt)
<1> DEFINE Good(t) == FlattenSeq(ss \o t) = FlattenSeq(ss) \o FlattenSeq(t)
           T == {n \in Nat : \A t \in Seq(Seq(S)) : Len(t) = n => Good(t)}
<1>1. 0 \in T
  <2> SUFFICES ASSUME NEW t \in Seq(Seq(S)), Len(t) = 0 PROVE Good(t)
    OBVIOUS
  <2>1. t = <<>>
    OBVIOUS
  <2>2. ss \o <<>> = ss
    BY ConcatEmptySeq
  <2>3. FlattenSeq(ss) \o <<>> = FlattenSeq(ss)
    BY FlattenType, ConcatEmptySeq
  <2>4. QED BY <2>1, <2>2, <2>3, FlattenEmpty
<1>2. ASSUME NEW n \in Nat, n \in T PROVE n + 1 \in T
  <2> SUFFICES ASSUME NEW t \in Seq(Seq(S)), Len(t) = n + 1 PROVE Good(t)
    OBVIOUS
  <2> DEFINE Q == Seq(S)
  <2>1. PICK u \in Seq(Seq(S)), e \in Seq(S) : t = Append(u, e)
    <3>1. t \in Seq(Q) /\ t # <<>>
      OBVIOUS
    <3> HIDE DEF Q
    <3>2. \E u \in Seq(Q), e \in Q : t = Append(u, e)
      BY <3>1, SequenceEmptyOrAppend
    <3>3. QED BY <3>2 DEF Q
  <2>2. Len(u) = n /\ t = u \o <<e>>
    BY <2>1, AppendProperties, AppendIsConcat
  <2>3. FlattenSeq(ss \o u) = FlattenSeq(ss) \o FlattenSeq(u)
    BY <1>2, <2>2
  <2>4. ss \o u \in Seq(Seq(S)) /\ ss \o t = Append(ss \o u, e)
    BY <2>1, ConcatProperties, AppendToConcat
  <2>5. FlattenSeq(ss \o t) = (FlattenSeq(ss) \o FlattenSeq(u)) \o e
    BY <2>3, <2>4, FlattenAppend
  <2>6. FlattenSeq(t) = FlattenSeq(u) \o e
    BY <2>1, FlattenAppend
  <2>7. (FlattenSeq(ss) \o FlattenSeq(u)) \o e = FlattenSeq(ss) \o (FlattenSeq(u) \o e)
    <3>1. FlattenSeq(ss) \in Seq(S) /\ FlattenSeq(u) \in Seq(S)
      BY FlattenType
    <3>2. Cat(Cat(FlattenSeq(ss), FlattenSeq(u)), e) = Cat(FlattenSeq(ss), Cat(FlattenSeq(u), e))
      BY <3>1, CatAssociative
    <3>3. QED BY <3>2 DEF Cat
  <2>8. QED BY <2>5, <2>6, <2>7
<1>3. Nat \subseteq T
  <2> HIDE DEF T
  <2>1. QED BY <1>1, <1>2, NatInd
<1>4. Len(tt) \in T
  BY <1>3
<1>5. QED BY <1>4

\* A sequence of sequences of one element each.
LEMMA FlattenSingletons ==
    ASSUME NEW S, NEW s \in Seq(S)
    PROVE  FlattenSeq([k \in 1..Len(s) |-> <<s[k]>>]) = s
<1> DEFINE Good(t) == FlattenSeq([k \in 1..Len(t) |-> <<t[k]>>]) = t
           T == {n \in Nat : \A t \in Seq(S) : Len(t) = n => Good(t)}
<1>1. 0 \in T
  <2> SUFFICES ASSUME NEW t \in Seq(S), Len(t) = 0 PROVE Good(t)
    OBVIOUS
  <2>1. t = <<>> /\ [k \in 1..Len(t) |-> <<t[k]>>] = <<>>
    OBVIOUS
  <2>2. QED BY <2>1, FlattenEmpty
<1>2. ASSUME NEW n \in Nat, n \in T PROVE n + 1 \in T
  <2> SUFFICES ASSUME NEW t \in Seq(S), Len(t) = n + 1 PROVE Good(t)
    OBVIOUS
  <2>1. t # <<>>
    OBVIOUS
  <2>2. PICK u \in Seq(S), e \in S : t = Append(u, e)
    BY <2>1, SequenceEmptyOrAppend
  <2>3. Len(u) = n /\ (\A k \in 1..n : t[k] = u[k]) /\ t[n + 1] = e
    BY <2>2, AppendProperties
  <2>4. Good(u)
    BY <1>2, <2>3
  <2> DEFINE f == [k \in 1..Len(t) |-> <<t[k]>>]
             g == [k \in 1..Len(u) |-> <<u[k]>>]
             one == <<e>>
  <2>5. /\ g \in Seq(Seq(S)) /\ Len(g) = n /\ one \in Seq(S)
        /\ DOMAIN f = 1..(Len(g) + 1) /\ f = [k \in DOMAIN f |-> f[k]]
        /\ \A k \in 1..Len(g) : f[k] = g[k]
        /\ f[Len(g) + 1] = one
    <3>1. one \in Seq(S) /\ \A k \in 1..Len(u) : <<u[k]>> \in Seq(S)
      OBVIOUS
    <3>2. g \in [1..n -> Seq(S)]
      BY <2>3, <3>1
    <3>3. g \in Seq(Seq(S)) /\ Len(g) = n
      BY <3>2
    <3>4. DOMAIN f = 1..(Len(g) + 1) /\ f = [k \in DOMAIN f |-> f[k]]
      BY <3>3
    <3>5. (\A k \in 1..Len(g) : f[k] = g[k]) /\ f[Len(g) + 1] = one
      BY <2>3, <3>3
    <3> HIDE DEF f, g, one
    <3>6. QED BY <3>1, <3>3, <3>4, <3>5
  <2>6. FlattenSeq(g) = u
    BY <2>4
  <2>7. t = u \o one
    BY <2>2, AppendIsConcat
  <2> DEFINE Q == Seq(S)
  <2>8. f = Append(g, one)
    <3>1. g \in Seq(Q) /\ one \in Q
      BY <2>5
    <3> HIDE DEF f, g, one, Q
    <3>2. QED BY <2>5, <3>1, LongerByOne
  <2> HIDE DEF f, g, one
  <2>9. FlattenSeq(f) = u \o one
    BY <2>5, <2>6, <2>8, FlattenAppend
  <2>10. QED BY <2>7, <2>9 DEF f
<1>3. Nat \subseteq T
  <2> HIDE DEF T
  <2>1. QED BY <1>1, <1>2, NatInd
<1>4. Len(s) \in T
  BY <1>3
<1>5. QED BY <1>4

-----------------------------------------------------------------------------
\* A finite set, as a sequence, has each of its elements once.
LEMMA SetToSeqIsBijection ==
    ASSUME NEW S, IsFiniteSet(S)
    PROVE  /\ SetToSeq(S) \in Seq(S)
           /\ Range(SetToSeq(S)) = S
           /\ IsInjective(SetToSeq(S))
<1>1. PICK n \in Nat : ExistsBijection(1..n, S)
  BY FS_NatBijection
<1>2. Cardinality(S) = n
  BY <1>1, FS_CountingElements
<1>3. \E f \in [1..Cardinality(S) -> S] : IsInjective(f)
  BY <1>1, <1>2 DEF ExistsBijection, Bijection, Injection
<1>4. SetToSeq(S) \in [1..n -> S] /\ IsInjective(SetToSeq(S))
  BY <1>2, <1>3 DEF SetToSeq
<1>5. SetToSeq(S) \in Injection(1..n, S) /\ IsFiniteSet(1..n) /\ Cardinality(1..n) = n
  BY <1>4, FS_Interval DEF Injection
<1>6. SetToSeq(S) \in Surjection(1..n, S)
  BY <1>2, <1>5, FS_Injection
<1>7. Range(SetToSeq(S)) = S
  BY <1>4, <1>6 DEF Surjection, Range
<1>8. QED BY <1>4, <1>7

\* What is sent later comes after what was sent before.
LEMMA Concatenation ==
    ASSUME NEW s, NEW t, s \in Seq(Range(s)), t \in Seq(Range(t))
    PROVE  s \o t \in Seq(Range(s \o t)) /\ Range(s \o t) = Range(s) \cup Range(t)
<1> DEFINE S == Range(s) \cup Range(t)
<1>1. s \in Seq(S) /\ t \in Seq(S)
  OBVIOUS
<1> HIDE DEF S
<1>2. s \o t \in Seq(S) /\ Range(s \o t) = Range(s) \cup Range(t)
  BY <1>1, ConcatProperties, RangeConcatenation
<1>3. QED BY <1>2 DEF S

\* The first of a sequence without repetitions, and its rest.
LEMMA HeadAndRest ==
    ASSUME NEW S, NEW s \in Seq(S), s # <<>>, IsInjective(s)
    PROVE  /\ Tail(s) \in Seq(S) /\ IsInjective(Tail(s))
           /\ Range(s) = {Head(s)} \cup Range(Tail(s))
           /\ Head(s) \notin Range(Tail(s))
<1>1. /\ Len(s) \in Nat \ {0} /\ DOMAIN s = 1..Len(s)
      /\ Tail(s) \in Seq(S) /\ Len(Tail(s)) = Len(s) - 1
      /\ DOMAIN Tail(s) = 1..(Len(s) - 1)
      /\ Head(s) = s[1]
      /\ \A k \in 1..(Len(s) - 1) : Tail(s)[k] = s[k + 1]
  BY HeadTailProperties
<1>2. IsInjective(Tail(s))
  BY <1>1 DEF IsInjective
<1>3. Head(s) \notin Range(Tail(s))
  BY <1>1 DEF IsInjective, Range
<1>4. Range(s) = {Head(s)} \cup Range(Tail(s))
  <2>1. ASSUME NEW x \in Range(s) PROVE x \in {Head(s)} \cup Range(Tail(s))
    <3>1. PICK k \in 1..Len(s) : x = s[k]
      BY <1>1, <2>1 DEF Range
    <3>2. CASE k = 1
      BY <1>1, <3>1, <3>2
    <3>3. CASE k # 1
      <4>1. k - 1 \in 1..(Len(s) - 1) /\ Tail(s)[k - 1] = x
        BY <1>1, <3>1, <3>3
      <4>2. QED BY <1>1, <4>1 DEF Range
    <3>4. QED BY <3>2, <3>3
  <2>2. ASSUME NEW x \in {Head(s)} \cup Range(Tail(s)) PROVE x \in Range(s)
    BY <1>1, <2>2 DEF Range
  <2>3. QED BY <2>1, <2>2
<1>5. QED BY <1>1, <1>2, <1>3, <1>4

\* Two sequences that repeat nothing and share nothing repeat nothing one after the other.
LEMMA InjectiveConcat ==
    ASSUME NEW s, NEW t, s \in Seq(Range(s)), t \in Seq(Range(t)),
           IsInjective(s), IsInjective(t), Range(s) \cap Range(t) = {}
    PROVE  IsInjective(s \o t)
<1> DEFINE S == Range(s) \cup Range(t)
<1>1. s \in Seq(S) /\ t \in Seq(S)
  OBVIOUS
<1>2. /\ Len(s \o t) = Len(s) + Len(t) /\ s \o t \in Seq(S)
      /\ \A k \in 1..Len(s) + Len(t) : (s \o t)[k] = IF k <= Len(s) THEN s[k] ELSE t[k - Len(s)]
  <2> HIDE DEF S
  <2>1. QED BY <1>1, ConcatProperties
<1>3. /\ DOMAIN s = 1..Len(s) /\ DOMAIN t = 1..Len(t) /\ Len(s) \in Nat /\ Len(t) \in Nat
      /\ DOMAIN (s \o t) = 1..Len(s) + Len(t)
  BY <1>1, <1>2
<1>4. ASSUME NEW j \in 1..Len(s) + Len(t), NEW k \in 1..Len(s) + Len(t), (s \o t)[j] = (s \o t)[k]
      PROVE  j = k
  <2>1. CASE j <= Len(s) /\ k <= Len(s)
    <3>1. j \in DOMAIN s /\ k \in DOMAIN s /\ s[j] = s[k]
      BY <1>2, <1>3, <1>4, <2>1
    <3>2. QED BY <3>1 DEF IsInjective
  <2>2. CASE ~(j <= Len(s)) /\ ~(k <= Len(s))
    <3>1. j - Len(s) \in DOMAIN t /\ k - Len(s) \in DOMAIN t /\ t[j - Len(s)] = t[k - Len(s)]
      BY <1>2, <1>3, <1>4, <2>2
    <3>2. j - Len(s) = k - Len(s)
      BY <3>1 DEF IsInjective
    <3>3. QED BY <1>3, <3>2
  <2>3. CASE j <= Len(s) /\ ~(k <= Len(s))
    <3>1. j \in DOMAIN s /\ k - Len(s) \in DOMAIN t /\ s[j] = t[k - Len(s)]
      BY <1>2, <1>3, <1>4, <2>3
    <3>2. s[j] \in Range(s) /\ t[k - Len(s)] \in Range(t)
      BY <3>1 DEF Range
    <3>3. QED BY <3>1, <3>2
  <2>4. CASE ~(j <= Len(s)) /\ k <= Len(s)
    <3>1. k \in DOMAIN s /\ j - Len(s) \in DOMAIN t /\ s[k] = t[j - Len(s)]
      BY <1>2, <1>3, <1>4, <2>4
    <3>2. s[k] \in Range(s) /\ t[j - Len(s)] \in Range(t)
      BY <3>1 DEF Range
    <3>3. QED BY <3>1, <3>2
  <2>5. QED BY <2>1, <2>2, <2>3, <2>4
<1>5. QED BY <1>3, <1>4 DEF IsInjective

-----------------------------------------------------------------------------
(***************************************************************************)
(* Sequences that begin with others: paths.                                *)
(***************************************************************************)

\* A path begins with another one if it has its keys, in its places.
LEMMA PrefixIs ==
    ASSUME NEW S, NEW s \in Seq(S), NEW t \in Seq(S)
    PROVE  IsPrefix(s, t) <=> Len(s) <= Len(t) /\ \A i \in 1..Len(s) : s[i] = t[i]
<1>1. Len(s) \in Nat /\ Len(t) \in Nat /\ \A i \in 1..Len(s) : s[i] \in S
  OBVIOUS
<1>2. CASE Len(s) <= Len(t)
  <2>1. /\ SubSeq(s, 1, Len(s)) \in Seq(S) /\ Len(SubSeq(s, 1, Len(s))) = Len(s)
        /\ \A i \in 1..Len(s) : SubSeq(s, 1, Len(s))[i] = s[i]
    BY <1>1
  <2>2. /\ SubSeq(t, 1, Len(s)) \in Seq(S) /\ Len(SubSeq(t, 1, Len(s))) = Len(s)
        /\ \A i \in 1..Len(s) : SubSeq(t, 1, Len(s))[i] = t[i]
    BY <1>1, <1>2
  <2>3. (\A i \in 1..Len(s) : s[i] = t[i]) => SubSeq(s, 1, Len(s)) = SubSeq(t, 1, Len(s))
    <3> SUFFICES ASSUME \A i \in 1..Len(s) : s[i] = t[i]
                 PROVE  SubSeq(s, 1, Len(s)) = SubSeq(t, 1, Len(s))
      OBVIOUS
    <3> DEFINE a == SubSeq(s, 1, Len(s))
               b == SubSeq(t, 1, Len(s))
    <3>1. a \in Seq(S) /\ b \in Seq(S) /\ Len(a) = Len(b) /\ \A i \in 1..Len(a) : a[i] = b[i]
      BY <2>1, <2>2
    <3> HIDE DEF a, b
    <3>2. a = b
      BY <3>1, SeqEqual
    <3>3. QED BY <3>2 DEF a, b
  <2>4. QED BY <1>2, <2>1, <2>2, <2>3 DEF IsPrefix
<1>3. QED BY <1>1, <1>2 DEF IsPrefix

\* The two directions.
LEMMA PrefixFrom ==
    ASSUME NEW S, NEW s \in Seq(S), NEW t \in Seq(S), Len(s) <= Len(t), \A i \in 1..Len(s) : s[i] = t[i]
    PROVE  IsPrefix(s, t)
BY PrefixIs

LEMMA PrefixGives ==
    ASSUME NEW S, NEW s \in Seq(S), NEW t \in Seq(S), IsPrefix(s, t)
    PROVE  Len(s) <= Len(t) /\ \A i \in 1..Len(s) : s[i] = t[i]
BY PrefixIs

\* A path goes on with a key exactly if it begins with what ends in the key.
LEMMA StepStrict ==
    ASSUME NEW S, NEW at \in Seq(S), NEW p \in Seq(S), NEW k \in S, IsPrefix(Append(at, k), p)
    PROVE  IsStrictPrefix(at, p) /\ p[Len(at) + 1] = k /\ Len(at) < Len(p)
<1>0. PICK next : next = Append(at, k)
  OBVIOUS
<1>1. /\ next \in Seq(S) /\ Len(next) = Len(at) + 1
      /\ \A i \in 1..Len(at) : next[i] = at[i]
      /\ next[Len(at) + 1] = k
  BY <1>0, AppendProperties
<1>2. Len(next) <= Len(p) /\ \A i \in 1..Len(next) : next[i] = p[i]
  BY <1>0, <1>1, PrefixGives
<1>3. Len(at) \in Nat /\ Len(p) \in Nat
  OBVIOUS
<1>4. Len(at) <= Len(p) /\ \A i \in 1..Len(at) : at[i] = p[i]
  BY <1>1, <1>2, <1>3
<1>5. IsPrefix(at, p)
  BY <1>4, PrefixFrom
<1>6. at # p
  BY <1>1, <1>2, <1>3
<1>7. p[Len(at) + 1] = k
  BY <1>1, <1>2, <1>3
<1>8. QED BY <1>1, <1>2, <1>3, <1>5, <1>6, <1>7 DEF IsStrictPrefix

\* A longer path goes on with its next key.
LEMMA StrictStep ==
    ASSUME NEW S, NEW at \in Seq(S), NEW p \in Seq(S), IsStrictPrefix(at, p)
    PROVE  /\ Len(at) < Len(p) /\ p[Len(at) + 1] \in S
           /\ Append(at, p[Len(at) + 1]) \in Seq(S) /\ IsPrefix(Append(at, p[Len(at) + 1]), p)
<1>0. IsPrefix(at, p) /\ at # p
  BY DEF IsStrictPrefix
<1>1. Len(at) <= Len(p) /\ \A i \in 1..Len(at) : at[i] = p[i]
  BY <1>0, PrefixGives
<1>2. Len(at) # Len(p)
  BY <1>0, <1>1, SeqEqual
<1>3. Len(at) < Len(p) /\ Len(at) + 1 \in 1..Len(p)
  BY <1>1, <1>2
<1>4. p[Len(at) + 1] \in S
  BY <1>3
<1>5. PICK k \in S : k = p[Len(at) + 1]
  BY <1>4
<1>6. PICK next : next = Append(at, k)
  OBVIOUS
<1>7. /\ next \in Seq(S) /\ Len(next) = Len(at) + 1
      /\ \A i \in 1..Len(at) : next[i] = at[i]
      /\ next[Len(at) + 1] = k
  BY <1>6, AppendProperties
<1>8. Len(next) <= Len(p) /\ \A i \in 1..Len(next) : next[i] = p[i]
  BY <1>1, <1>3, <1>5, <1>7
<1>9. IsPrefix(next, p)
  BY <1>7, <1>8, PrefixFrom
<1>10. QED BY <1>3, <1>4, <1>5, <1>6, <1>7, <1>9

\* A path begins with itself; what begins with a path begins with what that begins with; and a
\* key more makes a path longer.
LEMMA PrefixReflexive ==
    ASSUME NEW S, NEW s \in Seq(S)
    PROVE  IsPrefix(s, s)
BY PrefixFrom

LEMMA PrefixTransitive ==
    ASSUME NEW S, NEW s \in Seq(S), NEW t \in Seq(S), NEW u \in Seq(S), IsPrefix(s, t), IsPrefix(t, u)
    PROVE  IsPrefix(s, u)
<1>1. Len(s) \in Nat /\ Len(t) \in Nat /\ Len(u) \in Nat
  OBVIOUS
<1>2. /\ Len(s) <= Len(t) /\ \A i \in 1..Len(s) : s[i] = t[i]
      /\ Len(t) <= Len(u) /\ \A i \in 1..Len(t) : t[i] = u[i]
  BY PrefixGives
<1>3. Len(s) <= Len(u) /\ \A i \in 1..Len(s) : s[i] = u[i]
  BY <1>1, <1>2
<1>4. QED BY <1>3, PrefixFrom

LEMMA PrefixAppend ==
    ASSUME NEW S, NEW s \in Seq(S), NEW k \in S
    PROVE  Append(s, k) \in Seq(S) /\ IsPrefix(s, Append(s, k)) /\ IsStrictPrefix(s, Append(s, k))
<1>0. PICK next : next = Append(s, k)
  OBVIOUS
<1>1. /\ next \in Seq(S) /\ Len(next) = Len(s) + 1
      /\ \A i \in 1..Len(s) : next[i] = s[i]
  BY <1>0, AppendProperties
<1>2. Len(s) \in Nat /\ s # next
  BY <1>1
<1>3. Len(s) <= Len(next) /\ \A i \in 1..Len(s) : s[i] = next[i]
  BY <1>1, <1>2
<1>4. IsPrefix(s, next)
  BY <1>1, <1>3, PrefixFrom
<1>5. QED BY <1>0, <1>1, <1>2, <1>4 DEF IsStrictPrefix

\* The rest of a path begins with the rest of another that has the same first key, if the path
\* begins with the other.
LEMMA TailPrefix ==
    ASSUME NEW S, NEW s \in Seq(S), NEW t \in Seq(S), s # <<>>, t # <<>>, s[1] = t[1],
           IsPrefix(Tail(s), Tail(t))
    PROVE  IsPrefix(s, t)
<1>1. Tail(s) \in Seq(S) /\ Tail(t) \in Seq(S)
  OBVIOUS
<1>2. PICK a \in Seq(S), b \in Seq(S) : a = Tail(s) /\ b = Tail(t)
  BY <1>1
<1>3. Len(a) <= Len(b) /\ \A i \in 1..Len(a) : a[i] = b[i]
  BY <1>2, PrefixGives
<1>4. /\ Len(s) \in Nat /\ Len(t) \in Nat /\ Len(a) = Len(s) - 1 /\ Len(b) = Len(t) - 1
      /\ \A i \in 1..Len(a) : a[i] = s[i + 1]
      /\ \A i \in 1..Len(b) : b[i] = t[i + 1]
  BY <1>2, HeadTailProperties
<1>5. ASSUME NEW i \in 1..Len(s) PROVE s[i] = t[i]
  <2>1. CASE i = 1
    BY <2>1
  <2>2. CASE i # 1
    <3>1. i - 1 \in 1..Len(a) /\ i - 1 \in 1..Len(b) /\ i = (i - 1) + 1
      BY <1>3, <1>4, <2>2
    <3>2. a[i - 1] = s[i] /\ b[i - 1] = t[i] /\ a[i - 1] = b[i - 1]
      BY <1>3, <1>4, <3>1
    <3>3. QED BY <3>2
  <2>3. QED BY <2>1, <2>2
<1>6. Len(s) <= Len(t)
  BY <1>3, <1>4
<1>7. QED BY <1>5, <1>6, PrefixFrom

\* The converse.
LEMMA PrefixTail ==
    ASSUME NEW S, NEW s \in Seq(S), NEW t \in Seq(S), s # <<>>, t # <<>>, IsPrefix(s, t)
    PROVE  s[1] = t[1] /\ IsPrefix(Tail(s), Tail(t))
<1>0. Tail(s) \in Seq(S) /\ Tail(t) \in Seq(S)
  OBVIOUS
<1>1. PICK a \in Seq(S), b \in Seq(S) : a = Tail(s) /\ b = Tail(t)
  BY <1>0
<1>2. Len(s) <= Len(t) /\ \A i \in 1..Len(s) : s[i] = t[i]
  BY PrefixGives
<1>3. /\ Len(s) \in Nat \ {0} /\ Len(t) \in Nat \ {0} /\ Len(a) = Len(s) - 1 /\ Len(b) = Len(t) - 1
      /\ \A i \in 1..Len(a) : a[i] = s[i + 1]
      /\ \A i \in 1..Len(b) : b[i] = t[i + 1]
  BY <1>1, HeadTailProperties, EmptySeq
<1>4. Len(a) <= Len(b) /\ \A i \in 1..Len(a) : a[i] = b[i]
  BY <1>2, <1>3
<1>5. IsPrefix(a, b)
  BY <1>4, PrefixFrom
<1>6. QED BY <1>1, <1>2, <1>3, <1>5

\* Both, for paths that are not the same.
LEMMA TailStrict ==
    ASSUME NEW S, NEW s \in Seq(S), NEW t \in Seq(S), s # <<>>, t # <<>>
    PROVE  IsStrictPrefix(s, t) <=> s[1] = t[1] /\ IsStrictPrefix(Tail(s), Tail(t))
<1>1. s[1] = t[1] /\ Tail(s) = Tail(t) => s = t
  <2> SUFFICES ASSUME s[1] = t[1], Tail(s) = Tail(t) PROVE s = t
    OBVIOUS
  <2>1. PICK a \in Seq(S) : a = Tail(s) /\ a = Tail(t)
    BY HeadTailProperties
  <2>2. /\ Len(s) \in Nat \ {0} /\ Len(a) = Len(s) - 1 /\ Len(a) = Len(t) - 1 /\ Len(t) \in Nat
        /\ \A i \in 1..Len(a) : a[i] = s[i + 1]
        /\ \A i \in 1..Len(a) : a[i] = t[i + 1]
    BY <2>1, HeadTailProperties, EmptySeq
  <2>3. ASSUME NEW i \in 1..Len(s) PROVE s[i] = t[i]
    <3>1. CASE i = 1
      BY <3>1
    <3>2. CASE i # 1
      <4>1. i - 1 \in 1..Len(a) /\ i = (i - 1) + 1
        BY <2>2, <3>2
      <4>2. QED BY <2>2, <4>1
    <3>3. QED BY <3>1, <3>2
  <2>4. QED BY <2>2, <2>3, SeqEqual
<1>2. ASSUME IsStrictPrefix(s, t) PROVE s[1] = t[1] /\ IsStrictPrefix(Tail(s), Tail(t))
  BY <1>1, <1>2, PrefixTail DEF IsStrictPrefix
<1>3. ASSUME s[1] = t[1], IsStrictPrefix(Tail(s), Tail(t)) PROVE IsStrictPrefix(s, t)
  BY <1>1, <1>3, TailPrefix DEF IsStrictPrefix
<1>4. QED BY <1>2, <1>3

\* The elements of a sequence of one, and of none.
LEMMA OneRange ==
    ASSUME NEW e
    PROVE  <<e>> \in Seq(Range(<<e>>)) /\ Range(<<e>>) = {e}
<1>1. <<e>> \in Seq({e})
  OBVIOUS
<1>2. PICK s : s = <<e>>
  OBVIOUS
<1>3. s \in Seq({e}) /\ Len(s) = 1 /\ s[1] = e
  BY <1>1, <1>2
<1>4. DOMAIN s = {1}
  BY <1>3
<1>5. Range(s) = {e}
  BY <1>3, <1>4 DEF Range
<1>6. QED BY <1>2, <1>3, <1>5

LEMMA NoRange == <<>> \in Seq(Range(<<>>)) /\ Range(<<>>) = {}
  BY DEF Range

\* Sequences of one, two and three.
LEMMA ShortSeqs ==
    ASSUME NEW S, NEW a \in S, NEW b \in S, NEW c \in S
    PROVE  <<a>> \in Seq(S) /\ <<a, b>> \in Seq(S) /\ <<a, b, c>> \in Seq(S)
  OBVIOUS
=============================================================================
