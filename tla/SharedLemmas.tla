---------------------------- MODULE SharedLemmas ----------------------------
(***************************************************************************)
(* What a counted loop computes, whatever its body does, and where a word  *)
(* of a data bank stands. The loops of the code are folds over sequences   *)
(* and functions defined by recursion; their results are functions g with  *)
(* g[0] = base and g[k] = step[k][g[k - 1]]. The induction is over sets of *)
(* naturals, which the provers can instantiate, and not over predicates,   *)
(* which they cannot. The last part is about the positions in a data bank: *)
(* the block that a word is in, and the events before it.                  *)
(***************************************************************************)
EXTENDS DataWords, SequencesExt, TLAPS, FiniteSetTheorems, SequenceTheorems,
        WellFoundedInduction

(* A set of naturals that holds 0 and the successor of each member holds   *)
(* all of them.                                                            *)
LEMMA NatSetInduction ==
    ASSUME NEW S \in SUBSET Nat, 0 \in S, \A n \in S : n + 1 \in S
    PROVE  S = Nat
  <1> DEFINE T == Nat \ S
  <1>1. SUFFICES ASSUME T # {} PROVE FALSE
    OBVIOUS
  <1>2. \E x \in T : \A y \in T : ~(<<y, x>> \in OpToRel(<, Nat))
    <2>1. T \subseteq Nat
      OBVIOUS
    <2> HIDE DEF T
    <2> QED BY <1>1, <2>1, NatLessThanWellFounded, WFMin
  <1>3. PICK x \in T : \A y \in T : ~(<<y, x>> \in OpToRel(<, Nat))
    BY <1>2
  <1>4. x \in Nat /\ x # 0 /\ x - 1 \in Nat
    OBVIOUS
  <1>5. x - 1 \in T
    BY <1>4
  <1>6. <<x - 1, x>> \in OpToRel(<, Nat)
    BY <1>4 DEF OpToRel
  <1> QED BY <1>3, <1>5, <1>6

(* The bodies of the n turns of a loop whose state is in T.                *)
Turns(n, T) == [1..n -> [T -> T]]

(* The states such a loop runs through from base.                          *)
Results(n, T, base, step) ==
    {g \in [0..n -> T] : g[0] = base /\ \A k \in 1..n : g[k] = step[k][g[k - 1]]}

(* Every loop has a result.                                                *)
LEMMA LoopHasResult ==
    ASSUME NEW n \in Nat, NEW T, NEW base \in T, NEW step \in Turns(n, T)
    PROVE  \E g : g \in Results(n, T, base, step)
  <1> USE DEF Turns, Results
  <1> DEFINE Reaches(m, g) == g[0] = base /\ \A k \in 1..m : g[k] = step[k][g[k - 1]]
             S == {m \in Nat : m <= n => \E g \in [0..m -> T] : Reaches(m, g)}
  <1>1. 0 \in S
    <2> DEFINE g == [k \in 0..0 |-> base]
    <2>1. g \in [0..0 -> T] /\ Reaches(0, g)
      OBVIOUS
    <2> QED BY <2>1
  <1>2. ASSUME NEW m \in S PROVE m + 1 \in S
    <2>1. SUFFICES ASSUME m + 1 <= n PROVE \E g \in [0..(m + 1) -> T] : Reaches(m + 1, g)
      OBVIOUS
    <2>2. PICK h \in [0..m -> T] : Reaches(m, h)
      BY <2>1
    <2> DEFINE g == [k \in 0..(m + 1) |-> IF k <= m THEN h[k] ELSE step[m + 1][h[m]]]
    <2>3. step[m + 1][h[m]] \in T
      BY <2>1
    <2>4. g \in [0..(m + 1) -> T]
      BY <2>3
    <2>5. Reaches(m + 1, g)
      <3>1. g[0] = base
        BY <2>2
      <3>2. ASSUME NEW k \in 1..(m + 1) PROVE g[k] = step[k][g[k - 1]]
        <4>1. CASE k <= m
          <5>1. g[k] = h[k] /\ g[k - 1] = h[k - 1]
            BY <4>1
          <5> QED BY <5>1, <4>1, <2>2
        <4>2. CASE k = m + 1
          <5>1. g[k] = step[m + 1][h[m]] /\ g[k - 1] = h[m]
            BY <4>2
          <5> QED BY <5>1, <4>2
        <4> QED BY <4>1, <4>2
      <3> QED BY <3>1, <3>2
    <2> QED BY <2>4, <2>5
  <1> HIDE DEF S
  <1>3. S = Nat
    <2>1. S \in SUBSET Nat
      BY DEF S
    <2> QED BY <1>1, <1>2, <2>1, NatSetInduction
  <1>4. n \in S
    BY <1>3
  <1> QED BY <1>4 DEF S

(* Two loops that start alike and do alike end alike.                      *)
LEMMA LoopsAgree ==
    ASSUME NEW n \in Nat, NEW g, NEW h, g[0] = h[0],
           \A k \in 1..n : g[k - 1] = h[k - 1] => g[k] = h[k]
    PROVE  g[n] = h[n]
  <1> DEFINE S == {k \in Nat : k <= n => g[k] = h[k]}
  <1>1. 0 \in S
    OBVIOUS
  <1>2. ASSUME NEW k \in S PROVE k + 1 \in S
    <2>1. SUFFICES ASSUME k + 1 <= n PROVE g[k + 1] = h[k + 1]
      OBVIOUS
    <2>2. k + 1 \in 1..n /\ (k + 1) - 1 = k
      BY <2>1
    <2> QED BY <2>1, <2>2
  <1>3. S = Nat
    <2>1. S \in SUBSET Nat
      OBVIOUS
    <2> HIDE DEF S
    <2> QED BY <1>1, <1>2, <2>1, NatSetInduction
  <1>4. n \in S
    BY <1>3
  <1> QED BY <1>4

(* What holds at first and is kept by every turn holds at the end.         *)
LEMMA LoopInvariant ==
    ASSUME NEW n \in Nat, NEW T, NEW base \in T, NEW step \in Turns(n, T),
           NEW g \in Results(n, T, base, step),
           NEW I, base \in I[0],
           \A k \in 1..n : \A t \in T : t \in I[k - 1] => step[k][t] \in I[k]
    PROVE  g[n] \in I[n] /\ g[n] \in T
  <1> DEFINE S == {k \in Nat : k <= n => g[k] \in I[k] /\ g[k] \in T}
  <1>1. g \in [0..n -> T] /\ g[0] = base /\ \A k \in 1..n : g[k] = step[k][g[k - 1]]
    BY DEF Results
  <1>2. 0 \in S
    BY <1>1
  <1>3. ASSUME NEW k \in S PROVE k + 1 \in S
    <2>1. SUFFICES ASSUME k + 1 <= n PROVE g[k + 1] \in I[k + 1] /\ g[k + 1] \in T
      OBVIOUS
    <2>2. k + 1 \in 1..n /\ (k + 1) - 1 = k /\ k + 1 \in 0..n
      BY <2>1
    <2>3. g[k] \in I[k] /\ g[k] \in T
      BY <2>1
    <2>4. g[k + 1] = step[k + 1][g[k]] /\ g[k + 1] \in T
      BY <1>1, <2>2
    <2> QED BY <2>2, <2>3, <2>4
  <1>4. S = Nat
    <2>1. S \in SUBSET Nat
      OBVIOUS
    <2> HIDE DEF S
    <2> QED BY <1>2, <1>3, <2>1, NatSetInduction
  <1>5. n \in S
    BY <1>4
  <1> QED BY <1>5

(* A non-empty set of integers that is bounded below has a least member.   *)
LEMMA LeastOfIntegers ==
    ASSUME NEW low \in Int, NEW S \in SUBSET Int, \A n \in S : low <= n, S # {}
    PROVE  \E n \in S : \A m \in S : n <= m
  <1> DEFINE T == {n \in Nat : \A m \in S : low + n <= m}
  <1>1. SUFFICES ASSUME \A n \in S : \E m \in S : m < n PROVE FALSE
    OBVIOUS
  <1>2. 0 \in T
    OBVIOUS
  <1>3. ASSUME NEW n \in T PROVE n + 1 \in T
    BY <1>1
  <1>4. T = Nat
    <2> HIDE DEF T
    <2>1. T \in SUBSET Nat
      BY DEF T
    <2> QED BY <1>2, <1>3, <2>1, NatSetInduction
  <1>5. PICK m \in S : TRUE
    OBVIOUS
  <1>6. m - low + 1 \in Nat
    BY <1>5
  <1>7. m - low + 1 \in T
    <2> HIDE DEF T
    <2> QED BY <1>4, <1>6
  <1> QED BY <1>7, <1>5

-----------------------------------------------------------------------------
(* Sequences.                                                              *)

(* FlattenSeq is a loop that starts from the empty sequence.               *)
LEMMA FlattenLoop ==
    ASSUME NEW S, NEW ss \in Seq(Seq(S))
    PROVE  \E g \in [0..Len(ss) -> Seq(S)] :
              /\ g[0] = << >>
              /\ \A k \in 1..Len(ss) : g[k] = g[k - 1] \o ss[k]
              /\ FlattenSeq(ss) = g[Len(ss)]
  <1> DEFINE n == Len(ss)
             T == Seq(S)
             base == << >>
             step == [k \in 1..n |-> [t \in T |-> t \o ss[k]]]
             Body(f, i) == IF i = 1 THEN ss[i] ELSE f[i - 1] \o ss[i]
             flatten == CHOOSE f : f = [i \in 1..n |-> Body(f, i)]
  <1>1. n \in Nat /\ base \in T /\ \A k \in 1..n : ss[k] \in T
    BY LenProperties, ElementOfSeq, EmptySeq
  <1>2. FlattenSeq(ss) = IF n = 0 THEN ss ELSE flatten[n]
    BY DEF FlattenSeq
  <1>3. n = 0 => ss = << >>
    BY EmptySeq
  <1>4. \A t \in T, k \in 1..n : t \o ss[k] \in T
    BY <1>1
  <1>5. \A t \in T : base \o t = t
    BY ConcatEmptySeq
  <1> HIDE DEF n, T, base
  <1>6. step \in Turns(n, T)
    BY <1>4 DEF Turns
  <1>7. PICK g : g \in Results(n, T, base, step)
    <2> HIDE DEF step
    <2> QED BY <1>1, <1>6, LoopHasResult
  <1>8. g \in [0..n -> T] /\ g[0] = base /\ \A k \in 1..n : g[k] = step[k][g[k - 1]]
    BY <1>7 DEF Results
  <1>9. ASSUME NEW k \in 1..n PROVE g[k] = g[k - 1] \o ss[k]
    <2>1. g[k - 1] \in T
      BY <1>1, <1>8
    <2> QED BY <1>8, <2>1
  <1>10. CASE n = 0
    BY <1>2, <1>3, <1>8, <1>9, <1>10 DEF n, T, base
  <1>11. CASE n # 0
    <2> DEFINE h == [i \in 1..n |-> g[i]]
    <2>0. 1 \in 1..n /\ g[1] = ss[1]
      <3>1. 1 \in 1..n /\ ss[1] \in T /\ 1 - 1 = 0
        BY <1>1, <1>11
      <3>2. g[1] = base \o ss[1]
        BY <1>8, <1>9, <3>1
      <3> QED BY <1>5, <3>1, <3>2
    <2>1. ASSUME NEW i \in 1..n PROVE h[i] = Body(h, i)
      <3>1. CASE i = 1
        BY <2>0, <3>1
      <3>2. CASE i # 1
        <4>1. i - 1 \in 1..n
          BY <1>1, <3>2
        <4> QED BY <1>9, <3>2, <4>1
      <3> QED BY <3>1, <3>2
    <2>2. h = [i \in 1..n |-> Body(h, i)]
      BY <2>1
    <2>3. flatten = [i \in 1..n |-> Body(flatten, i)]
      <3> HIDE DEF h, Body
      <3> QED BY <2>2
    <2> HIDE DEF flatten
    <2>4. flatten[1] = g[1]
      BY <2>0, <2>3
    <2>5. ASSUME NEW i \in 1..n, i # 1 PROVE flatten[i] = flatten[i - 1] \o ss[i]
      BY <2>3, <2>5
    <2> DEFINE Q == {i \in Nat : i + 1 <= n => flatten[i + 1] = g[i + 1]}
    <2>6. 0 \in Q
      BY <2>4
    <2>7. ASSUME NEW i \in Q PROVE i + 1 \in Q
      <3>1. SUFFICES ASSUME i + 2 <= n PROVE flatten[i + 2] = g[i + 2]
        OBVIOUS
      <3>2. i + 2 \in 1..n /\ i + 2 # 1 /\ (i + 2) - 1 = i + 1
        BY <1>1, <3>1
      <3>3. flatten[i + 1] = g[i + 1]
        BY <1>1, <3>1
      <3> HIDE DEF Q
      <3> QED BY <1>9, <2>5, <3>2, <3>3
    <2>8. Q = Nat
      <3>1. Q \in SUBSET Nat
        OBVIOUS
      <3> HIDE DEF Q
      <3> QED BY <2>6, <2>7, <3>1, NatSetInduction
    <2>9. n - 1 \in Q
      <3>1. n - 1 \in Nat
        BY <1>1, <1>11
      <3> HIDE DEF Q
      <3> QED BY <2>8, <3>1
    <2>10. flatten[n] = g[n]
      BY <1>1, <2>9
    <2> QED BY <1>2, <1>8, <1>9, <1>11, <2>10 DEF n, T, base
  <1> QED BY <1>10, <1>11

(* Flattening one sequence more adds its elements at the end.              *)
LEMMA FlattenAppend ==
    ASSUME NEW S, NEW ss \in Seq(Seq(S)), NEW s \in Seq(S)
    PROVE  /\ FlattenSeq(ss) \in Seq(S)
           /\ FlattenSeq(Append(ss, s)) = FlattenSeq(ss) \o s
  <1> DEFINE n == Len(ss)
             longer == Append(ss, s)
  <1>1. /\ n \in Nat /\ longer \in Seq(Seq(S)) /\ Len(longer) = n + 1
        /\ \A k \in 1..n : longer[k] = ss[k]
        /\ longer[n + 1] = s
    BY AppendProperties, LenProperties
  <1>2. PICK g \in [0..n -> Seq(S)] :
              /\ g[0] = << >>
              /\ \A k \in 1..n : g[k] = g[k - 1] \o ss[k]
              /\ FlattenSeq(ss) = g[n]
    BY FlattenLoop
  <1> HIDE DEF longer
  <1>3. PICK h \in [0..Len(longer) -> Seq(S)] :
              /\ h[0] = << >>
              /\ \A k \in 1..Len(longer) : h[k] = h[k - 1] \o longer[k]
              /\ FlattenSeq(longer) = h[Len(longer)]
    BY <1>1, FlattenLoop
  <1> HIDE DEF n
  <1>4. g[n] = h[n]
    <2>1. g[0] = h[0]
      BY <1>2, <1>3
    <2>2. ASSUME NEW k \in 1..n, g[k - 1] = h[k - 1] PROVE g[k] = h[k]
      <3>1. k \in 1..Len(longer) /\ longer[k] = ss[k]
        BY <1>1
      <3> QED BY <1>2, <1>3, <2>2, <3>1
    <2> QED BY <1>1, <2>1, <2>2, LoopsAgree
  <1>5. h[n + 1] = h[n] \o s
    <2>1. n + 1 \in 1..Len(longer) /\ (n + 1) - 1 = n
      BY <1>1
    <2> QED BY <1>1, <1>3, <2>1
  <1>6. FlattenSeq(ss) \in Seq(S)
    BY <1>1, <1>2
  <1> QED BY <1>1, <1>2, <1>3, <1>4, <1>5, <1>6 DEF longer

(* The sequence s, mapped by the function F.                               *)
Mapped(F, s) == [i \in DOMAIN s |-> F[s[i]]]

(* F maps S to T; named so that the provers can match it.                 *)
IsMap(F, S, T) == F \in [S -> T]

(* Mapping commutes with appending.                                        *)
LEMMA MapAppend ==
    ASSUME NEW S, NEW T, NEW F, IsMap(F, S, T), NEW s \in Seq(S), NEW x \in S
    PROVE  /\ Mapped(F, s) \in Seq(T)
           /\ Len(Mapped(F, s)) = Len(s)
           /\ Mapped(F, Append(s, x)) = Append(Mapped(F, s), F[x])
  <1> DEFINE n == Len(s)
             longer == Append(s, x)
             f == [i \in DOMAIN s |-> F[s[i]]]
             g == [i \in DOMAIN longer |-> F[longer[i]]]
             h == Append(f, F[x])
  <1>1. /\ n \in Nat /\ DOMAIN s = 1..n /\ \A i \in 1..n : s[i] \in S
        /\ longer \in Seq(S) /\ Len(longer) = n + 1
        /\ \A i \in 1..n : longer[i] = s[i]
        /\ longer[n + 1] = x
    BY LenProperties, ElementOfSeq, AppendProperties
  <1>2. DOMAIN longer = 1..(n + 1) /\ \A i \in 1..(n + 1) : longer[i] \in S
    <2> HIDE DEF longer
    <2> QED BY <1>1, LenProperties, ElementOfSeq
  <1> HIDE DEF n, longer
  <1>3. f \in [1..n -> T] /\ g \in [1..(n + 1) -> T]
    BY <1>1, <1>2 DEF IsMap
  <1>4. \A i \in 1..n : g[i] = f[i]
    BY <1>1, <1>2
  <1>5. g[n + 1] = F[x]
    BY <1>1, <1>2
  <1> HIDE DEF f, g
  <1>6. f \in Seq(T) /\ g \in Seq(T)
    <2>1. n + 1 \in Nat
      BY <1>1
    <2> QED BY <1>1, <1>3, <2>1, SeqDef
  <1>7. Len(f) = n /\ Len(g) = n + 1
    <2>1. DOMAIN f = 1..n /\ DOMAIN f = 1..Len(f) /\ Len(f) \in Nat
      BY <1>3, <1>6, LenProperties
    <2>2. DOMAIN g = 1..(n + 1) /\ DOMAIN g = 1..Len(g) /\ Len(g) \in Nat
      BY <1>3, <1>6, LenProperties
    <2> QED BY <1>1, <2>1, <2>2
  <1>8. F[x] \in T
    BY DEF IsMap
  <1>9. /\ h \in Seq(T) /\ Len(h) = n + 1 /\ h[n + 1] = F[x]
        /\ \A i \in 1..n : h[i] = f[i]
    <2>1. ASSUME NEW u \in Seq(T), NEW y \in T, Len(u) = n
          PROVE  LET v == Append(u, y)
                 IN  /\ v \in Seq(T) /\ Len(v) = n + 1 /\ v[n + 1] = y
                     /\ \A i \in 1..n : v[i] = u[i]
      BY <2>1, AppendProperties
    <2> HIDE DEF h
    <2> QED BY <1>6, <1>7, <1>8, <2>1 DEF h
  <1> HIDE DEF h
  <1>10. \A i \in 1..(n + 1) : g[i] = h[i]
    BY <1>1, <1>4, <1>5, <1>9
  <1>11. g = h
    BY <1>6, <1>7, <1>9, <1>10, SeqEqual
  <1> QED BY <1>6, <1>7, <1>11 DEF f, g, h, n, longer, Mapped

(* Nothing flattens to nothing.                                            *)
LEMMA FlattenEmpty == FlattenSeq(<< >>) = << >>
  BY DEF FlattenSeq

(* What s \o t is at each position, element by element.                    *)
LEMMA ConcatByElement ==
    ASSUME NEW S, NEW s \in Seq(S), NEW t \in Seq(S)
    PROVE  /\ s \o t \in Seq(S) /\ Len(s) \in Nat /\ Len(t) \in Nat
           /\ Len(s \o t) = Len(s) + Len(t)
           /\ DOMAIN s = 1..Len(s) /\ DOMAIN t = 1..Len(t)
           /\ DOMAIN (s \o t) = 1..(Len(s) + Len(t))
           /\ \A i \in 1..Len(s) : (s \o t)[i] = s[i]
           /\ \A i \in 1..Len(t) : (s \o t)[Len(s) + i] = t[i]
  <1>1. Len(s) \in Nat /\ Len(t) \in Nat /\ DOMAIN s = 1..Len(s) /\ DOMAIN t = 1..Len(t)
    BY LenProperties
  <1> DEFINE u == s \o t
  <1>2. /\ u \in Seq(S) /\ Len(u) = Len(s) + Len(t)
        /\ \A i \in 1..(Len(s) + Len(t)) : u[i] = IF i <= Len(s) THEN s[i] ELSE t[i - Len(s)]
    BY ConcatProperties
  <1> HIDE DEF u
  <1>3. DOMAIN u = 1..(Len(s) + Len(t))
    BY <1>2, LenProperties
  <1>4. ASSUME NEW i \in 1..Len(s) PROVE u[i] = s[i]
    BY <1>1, <1>2
  <1>5. ASSUME NEW i \in 1..Len(t) PROVE u[Len(s) + i] = t[i]
    <2>1. Len(s) + i \in 1..(Len(s) + Len(t)) /\ ~(Len(s) + i <= Len(s)) /\ (Len(s) + i) - Len(s) = i
      BY <1>1
    <2> QED BY <1>2, <2>1
  <1> QED BY <1>1, <1>2, <1>3, <1>4, <1>5 DEF u

(* A function on 1..n is a sequence of length n.                           *)
LEMMA SeqOfFunction ==
    ASSUME NEW T, NEW n \in Nat, NEW f \in [1..n -> T]
    PROVE  f \in Seq(T) /\ Len(f) = n /\ DOMAIN f = 1..n
  <1>1. f \in Seq(T)
    BY SeqDef
  <1>2. DOMAIN f = 1..n /\ DOMAIN f = 1..Len(f) /\ Len(f) \in Nat
    BY <1>1, LenProperties
  <1> QED BY <1>1, <1>2

(* Mapping commutes with concatenation.                                    *)
LEMMA MapConcat ==
    ASSUME NEW S, NEW T, NEW F, IsMap(F, S, T), NEW s \in Seq(S), NEW t \in Seq(S)
    PROVE  /\ Mapped(F, s) \in Seq(T) /\ Len(Mapped(F, s)) = Len(s)
           /\ Mapped(F, s \o t) = Mapped(F, s) \o Mapped(F, t)
  <1>1. ASSUME NEW u \in Seq(S)
        PROVE  /\ Mapped(F, u) \in Seq(T) /\ Len(Mapped(F, u)) = Len(u)
               /\ \A i \in 1..Len(u) : Mapped(F, u)[i] = F[u[i]]
    <2>1. Len(u) \in Nat /\ DOMAIN u = 1..Len(u) /\ \A i \in 1..Len(u) : u[i] \in S
      BY LenProperties, ElementOfSeq
    <2> DEFINE f == [i \in DOMAIN u |-> F[u[i]]]
    <2>2. f \in [1..Len(u) -> T] /\ \A i \in 1..Len(u) : f[i] = F[u[i]]
      BY <2>1 DEF IsMap
    <2> HIDE DEF f
    <2>3. f \in Seq(T) /\ Len(f) = Len(u)
      BY <2>1, <2>2, SeqOfFunction
    <2> QED BY <2>2, <2>3 DEF f, Mapped
  <1> DEFINE n == Len(s)
             m == Len(t)
             ms == Mapped(F, s)
             mt == Mapped(F, t)
             st == s \o t
             left == Mapped(F, st)
             right == ms \o mt
  <1>2. /\ st \in Seq(S) /\ n \in Nat /\ m \in Nat /\ Len(st) = n + m
        /\ \A i \in 1..n : st[i] = s[i]
        /\ \A i \in 1..m : st[n + i] = t[i]
    BY ConcatByElement
  <1>3. /\ ms \in Seq(T) /\ Len(ms) = n /\ \A i \in 1..n : ms[i] = F[s[i]]
        /\ mt \in Seq(T) /\ Len(mt) = m /\ \A i \in 1..m : mt[i] = F[t[i]]
    BY <1>1
  <1> HIDE DEF st, ms, mt
  <1>4. left \in Seq(T) /\ Len(left) = n + m /\ \A i \in 1..(n + m) : left[i] = F[st[i]]
    BY <1>1, <1>2
  <1>5. /\ right \in Seq(T) /\ Len(right) = n + m
        /\ \A i \in 1..n : right[i] = ms[i]
        /\ \A i \in 1..m : right[n + i] = mt[i]
    <2>1. ms \o mt \in Seq(T) /\ Len(ms \o mt) = Len(ms) + Len(mt)
      BY <1>3, ConcatByElement
    <2>2. /\ \A i \in 1..Len(ms) : (ms \o mt)[i] = ms[i]
          /\ \A i \in 1..Len(mt) : (ms \o mt)[Len(ms) + i] = mt[i]
      BY <1>3, ConcatByElement
    <2> HIDE DEF n, m
    <2> QED BY <1>3, <2>1, <2>2
  <1> HIDE DEF n, m, left, right
  <1>6. ASSUME NEW i \in 1..(n + m) PROVE left[i] = right[i]
    <2>1. CASE i \in 1..n
      <3>1. left[i] = F[st[i]] /\ right[i] = ms[i]
        BY <1>4, <1>5, <2>1
      <3> QED BY <1>2, <1>3, <2>1, <3>1
    <2>2. CASE i \notin 1..n
      <3>1. i - n \in 1..m /\ n + (i - n) = i
        BY <1>2, <2>2
      <3>2. right[i] = F[t[i - n]] /\ st[i] = t[i - n]
        BY <1>2, <1>3, <1>5, <3>1
      <3> QED BY <1>4, <3>2
    <2> QED BY <2>1, <2>2
  <1>7. left = right
    BY <1>2, <1>4, <1>5, <1>6, SeqEqual
  <1> QED BY <1>3, <1>7 DEF left, right, ms, mt, st, n

\* Each of the sequences, mapped by F.
MapEach(F, ss) == [k \in DOMAIN ss |-> Mapped(F, ss[k])]

(* Mapping what was flattened is flattening what was mapped.               *)
LEMMA FlattenMap ==
    ASSUME NEW S, NEW T, NEW F, IsMap(F, S, T), NEW ss \in Seq(Seq(S))
    PROVE  /\ MapEach(F, ss) \in Seq(Seq(T))
           /\ FlattenSeq(ss) \in Seq(S)
           /\ Mapped(F, FlattenSeq(ss)) = FlattenSeq(MapEach(F, ss))
  <1> DEFINE n == Len(ss)
             mapped == [k \in DOMAIN ss |-> Mapped(F, ss[k])]
  <1>1. n \in Nat /\ DOMAIN ss = 1..n /\ \A k \in 1..n : ss[k] \in Seq(S)
    BY LenProperties, ElementOfSeq
  <1>2. \A k \in 1..n : Mapped(F, ss[k]) \in Seq(T)
    BY <1>1, MapConcat
  <1>3. mapped \in [1..n -> Seq(T)] /\ \A k \in 1..n : mapped[k] = Mapped(F, ss[k])
    BY <1>1, <1>2
  <1> HIDE DEF mapped
  <1>4. mapped \in Seq(Seq(T)) /\ Len(mapped) = n
    BY <1>1, <1>3, SeqOfFunction
  <1>6. PICK g \in [0..n -> Seq(S)] :
              /\ g[0] = << >>
              /\ \A k \in 1..n : g[k] = g[k - 1] \o ss[k]
              /\ FlattenSeq(ss) = g[n]
    BY FlattenLoop
  <1>7. PICK h \in [0..n -> Seq(T)] :
              /\ h[0] = << >>
              /\ \A k \in 1..n : h[k] = h[k - 1] \o mapped[k]
              /\ FlattenSeq(mapped) = h[n]
    <2>1. \E h \in [0..Len(mapped) -> Seq(T)] :
              /\ h[0] = << >>
              /\ \A k \in 1..Len(mapped) : h[k] = h[k - 1] \o mapped[k]
              /\ FlattenSeq(mapped) = h[Len(mapped)]
      BY <1>4, FlattenLoop
    <2> QED BY <1>4, <2>1
  <1> HIDE DEF n
  <1> DEFINE mg == [k \in 0..n |-> Mapped(F, g[k])]
  <1>8. mg[n] = h[n]
    <2>1. mg[0] = h[0]
      <3>1. Mapped(F, << >>) \in Seq(T) /\ Len(Mapped(F, << >>)) = 0
        <4>1. << >> \in Seq(S) /\ Len(<< >>) = 0
          BY EmptySeq
        <4>2. \A u \in Seq(S) : Mapped(F, u) \in Seq(T) /\ Len(Mapped(F, u)) = Len(u)
          BY MapConcat
        <4> QED BY <4>1, <4>2
      <3>2. Mapped(F, << >>) = << >>
        BY <3>1, EmptySeq
      <3> QED BY <1>1, <1>6, <1>7, <3>2
    <2>2. ASSUME NEW k \in 1..n, mg[k - 1] = h[k - 1] PROVE mg[k] = h[k]
      <3>1. k \in 0..n /\ k - 1 \in 0..n /\ g[k - 1] \in Seq(S) /\ ss[k] \in Seq(S)
        BY <1>1
      <3>2. Mapped(F, g[k - 1] \o ss[k]) = Mapped(F, g[k - 1]) \o Mapped(F, ss[k])
        <4>1. \A u, v \in Seq(S) : Mapped(F, u \o v) = Mapped(F, u) \o Mapped(F, v)
          BY MapConcat
        <4> QED BY <3>1, <4>1
      <3>3. mg[k] = Mapped(F, g[k]) /\ mg[k - 1] = Mapped(F, g[k - 1])
        BY <3>1
      <3> HIDE DEF mg
      <3> QED BY <1>3, <1>6, <1>7, <2>2, <3>2, <3>3
    <2> HIDE DEF mg
    <2> QED BY <1>1, <2>1, <2>2, LoopsAgree
  <1>9. g[n] \in Seq(S) /\ mg[n] = Mapped(F, g[n])
    BY <1>1
  <1> HIDE DEF mg
  <1>10. mapped = MapEach(F, ss)
    BY DEF mapped, MapEach
  <1> QED BY <1>4, <1>6, <1>7, <1>8, <1>9, <1>10 DEF n

(* Concatenation is associative.                                           *)
LEMMA ConcatRegroups ==
    \A S : \A s, t, u \in Seq(S) : (s \o t) \o u = s \o (t \o u)
  <1> SUFFICES ASSUME NEW S, NEW s \in Seq(S), NEW t \in Seq(S), NEW u \in Seq(S)
               PROVE  (s \o t) \o u = s \o (t \o u)
    OBVIOUS
  <1> QED BY ConcatAssociative

(* Flattening a concatenation.                                             *)
LEMMA FlattenConcat ==
    ASSUME NEW S, NEW ss \in Seq(Seq(S)), NEW tt \in Seq(Seq(S))
    PROVE  FlattenSeq(ss \o tt) = FlattenSeq(ss) \o FlattenSeq(tt)
  <1> DEFINE n == Len(ss)
             m == Len(tt)
             both == ss \o tt
             front == FlattenSeq(ss)
  <1>1. /\ both \in Seq(Seq(S)) /\ n \in Nat /\ m \in Nat /\ Len(both) = n + m
        /\ \A k \in 1..n : both[k] = ss[k]
        /\ \A k \in 1..m : both[n + k] = tt[k]
    BY ConcatByElement
  <1>2. PICK f \in [0..n -> Seq(S)] :
              /\ f[0] = << >>
              /\ \A k \in 1..n : f[k] = f[k - 1] \o ss[k]
              /\ FlattenSeq(ss) = f[n]
    BY FlattenLoop
  <1>3. PICK g \in [0..m -> Seq(S)] :
              /\ g[0] = << >>
              /\ \A k \in 1..m : g[k] = g[k - 1] \o tt[k]
              /\ FlattenSeq(tt) = g[m]
    BY FlattenLoop
  <1> HIDE DEF both
  <1>4. PICK h \in [0..(n + m) -> Seq(S)] :
              /\ h[0] = << >>
              /\ \A k \in 1..(n + m) : h[k] = h[k - 1] \o both[k]
              /\ FlattenSeq(both) = h[n + m]
    <2>1. \E h \in [0..Len(both) -> Seq(S)] :
              /\ h[0] = << >>
              /\ \A k \in 1..Len(both) : h[k] = h[k - 1] \o both[k]
              /\ FlattenSeq(both) = h[Len(both)]
      BY <1>1, FlattenLoop
    <2> QED BY <1>1, <2>1
  <1>5. front = f[n] /\ front \in Seq(S)
    <2>1. n \in 0..n
      BY <1>1
    <2> HIDE DEF n
    <2> QED BY <1>2, <2>1
  <1>6. \A k \in 1..m : tt[k] \in Seq(S)
    BY ElementOfSeq
  <1> HIDE DEF n, m, front
  <1>7. f[n] = h[n]
    <2>1. ASSUME NEW k \in 1..n, f[k - 1] = h[k - 1] PROVE f[k] = h[k]
      <3>1. k \in 1..(n + m)
        BY <1>1
      <3> QED BY <1>1, <1>2, <1>4, <2>1, <3>1
    <2>2. f[0] = h[0]
      BY <1>2, <1>4
    <2> QED BY <1>1, <2>1, <2>2, LoopsAgree
  <1> DEFINE left == [k \in 0..m |-> front \o g[k]]
             right == [k \in 0..m |-> h[n + k]]
  <1>8. left[m] = right[m]
    <2>1. left[0] = right[0]
      <3>1. 0 \in 0..m /\ n + 0 = n
        BY <1>1
      <3>2. front \o << >> = front
        BY <1>5, ConcatEmptySeq
      <3> QED BY <1>3, <1>5, <1>7, <3>1, <3>2
    <2>2. ASSUME NEW k \in 1..m, left[k - 1] = right[k - 1] PROVE left[k] = right[k]
      <3>1. /\ k \in 0..m /\ k - 1 \in 0..m /\ n + k \in 1..(n + m)
            /\ n + (k - 1) = (n + k) - 1
        BY <1>1, SMTT(30)
      <3>2. g[k - 1] \in Seq(S)
        BY <3>1
      <3>3. (front \o g[k - 1]) \o tt[k] = front \o (g[k - 1] \o tt[k])
        <4>1. tt[k] \in Seq(S)
          BY <1>6
        <4> DEFINE x == g[k - 1]
                   y == tt[k]
        <4>2. x \in Seq(S) /\ y \in Seq(S) /\ front \in Seq(S)
          BY <1>5, <3>2, <4>1
        <4> HIDE DEF x, y, left, right
        <4>3. (front \o x) \o y = front \o (x \o y)
          BY <4>2, ConcatRegroups, SMTT(30)
        <4> QED BY <4>3 DEF x, y
      <3>4. h[n + k] = h[(n + k) - 1] \o tt[k]
        BY <1>1, <1>4, <3>1
      <3>5. left[k] = front \o g[k] /\ left[k - 1] = front \o g[k - 1]
        BY <3>1
      <3>6. right[k] = h[n + k] /\ right[k - 1] = h[(n + k) - 1]
        BY <3>1
      <3> HIDE DEF left, right
      <3> QED BY <1>3, <2>2, <3>3, <3>4, <3>5, <3>6
    <2> HIDE DEF left, right
    <2> QED BY <1>1, <2>1, <2>2, LoopsAgree
  <1>9. left[m] = front \o g[m] /\ right[m] = h[n + m]
    BY <1>1
  <1> HIDE DEF left, right
  <1> QED BY <1>3, <1>4, <1>8, <1>9 DEF both, front

(* What was flattened is what was in the sequences; if nothing is at two   *)
(* places of them, nothing is at two places of it.                         *)
LEMMA FlattenRange ==
    ASSUME NEW S, NEW ss \in Seq(Seq(S))
    PROVE  /\ FlattenSeq(ss) \in Seq(S)
           /\ Range(FlattenSeq(ss)) = UNION {Range(ss[k]) : k \in DOMAIN ss}
           /\ (\A k, l \in DOMAIN ss : \A i \in DOMAIN ss[k], j \in DOMAIN ss[l] :
                 ss[k][i] = ss[l][j] => k = l /\ i = j) => IsInjective(FlattenSeq(ss))
  <1> DEFINE n == Len(ss)
             Distinct == \A k, l \in DOMAIN ss : \A i \in DOMAIN ss[k], j \in DOMAIN ss[l] :
                            ss[k][i] = ss[l][j] => k = l /\ i = j
  <1>1. n \in Nat /\ DOMAIN ss = 1..n /\ \A k \in 1..n : ss[k] \in Seq(S)
    BY LenProperties, ElementOfSeq
  <1>2. PICK g \in [0..n -> Seq(S)] :
              /\ g[0] = << >>
              /\ \A k \in 1..n : g[k] = g[k - 1] \o ss[k]
              /\ FlattenSeq(ss) = g[n]
    BY FlattenLoop
  <1> HIDE DEF n
  <1> DEFINE Holds(k) == /\ Range(g[k]) = UNION {Range(ss[i]) : i \in 1..k}
                         /\ Distinct => IsInjective(g[k])
             Q == {k \in Nat : k <= n => Holds(k)}
  <1>3. 0 \in Q
    <2>1. Range(g[0]) = {} /\ IsInjective(g[0])
      <3>1. DOMAIN << >> = {}
        BY EmptySeq, LenProperties
      <3> QED BY <1>2, <3>1 DEF Range, IsInjective
    <2>2. UNION {Range(ss[i]) : i \in 1..0} = {}
      OBVIOUS
    <2> QED BY <2>1, <2>2
  <1>4. ASSUME NEW k \in Q PROVE k + 1 \in Q
    <2>1. SUFFICES ASSUME k + 1 <= n PROVE Holds(k + 1)
      OBVIOUS
    <2>0. k \in Nat /\ k <= n
      BY <1>1, <2>1
    <2>2. k \in Nat /\ k <= n /\ Holds(k)
      BY <2>0
    <2> HIDE DEF Q
    <2> DEFINE s == g[k]
               t == ss[k + 1]
    <2>3. /\ k + 1 \in 1..n /\ k \in 0..n /\ (k + 1) - 1 = k
          /\ s \in Seq(S) /\ t \in Seq(S) /\ g[k + 1] = s \o t
      <3>1. k + 1 \in 1..n /\ k \in 0..n /\ (k + 1) - 1 = k
        BY <1>1, <2>0, <2>1
      <3> QED BY <1>1, <1>2, <3>1
    <2>4. Range(g[k + 1]) = Range(s) \cup Range(t)
      BY <2>3, RangeConcatenation
    <2>5. Range(g[k + 1]) = UNION {Range(ss[i]) : i \in 1..(k + 1)}
      <3>1. \A i : i \in 1..(k + 1) <=> i \in 1..k \/ i = k + 1
        BY <2>2
      <3> QED BY <2>2, <2>4, <3>1, Zenon
    <2>6. ASSUME Distinct PROVE IsInjective(g[k + 1])
      <3>1. IsInjective(s)
        BY <2>2, <2>6
      <3>2. ASSUME NEW a \in DOMAIN s, NEW b \in DOMAIN t, s[a] = t[b] PROVE FALSE
        <4>1. s[a] \in Range(s)
          BY DEF Range
        <4>2. PICK i \in 1..k : s[a] \in Range(ss[i])
          BY <2>2, <4>1
        <4>3. PICK c \in DOMAIN ss[i] : ss[i][c] = s[a]
          BY <4>2 DEF Range
        <4>4. i \in DOMAIN ss /\ k + 1 \in DOMAIN ss /\ i # k + 1
          BY <1>1, <2>2, <2>3
        <4>5. i = k + 1
          <5> HIDE DEF s
          <5> QED BY <2>6, <3>2, <4>3, <4>4
        <4> QED BY <4>4, <4>5
      <3>3. \A a, b \in DOMAIN t : t[a] = t[b] => a = b
        <4>1. k + 1 \in DOMAIN ss
          BY <1>1, <2>3
        <4> QED BY <2>6, <4>1
      <3>4. /\ Len(s) \in Nat /\ Len(t) \in Nat
            /\ DOMAIN s = 1..Len(s) /\ DOMAIN t = 1..Len(t)
            /\ DOMAIN g[k + 1] = 1..(Len(s) + Len(t))
            /\ \A i \in 1..Len(s) : g[k + 1][i] = s[i]
            /\ \A i \in 1..Len(t) : g[k + 1][Len(s) + i] = t[i]
        BY <2>3, ConcatByElement
      <3> HIDE DEF s, t
      <3>5. ASSUME NEW a \in 1..(Len(s) + Len(t)), a \notin 1..Len(s)
            PROVE  a - Len(s) \in 1..Len(t) /\ g[k + 1][a] = t[a - Len(s)]
        <4>1. a - Len(s) \in 1..Len(t) /\ Len(s) + (a - Len(s)) = a
          BY <3>4, <3>5
        <4> QED BY <3>4, <4>1
      <3>6. ASSUME NEW a \in DOMAIN g[k + 1], NEW b \in DOMAIN g[k + 1], g[k + 1][a] = g[k + 1][b]
            PROVE  a = b
        <4>1. CASE a \in 1..Len(s) /\ b \in 1..Len(s)
          BY <3>1, <3>4, <3>6, <4>1 DEF IsInjective
        <4>2. CASE a \in 1..Len(s) /\ b \notin 1..Len(s)
          <5>1. s[a] = t[b - Len(s)] /\ b - Len(s) \in DOMAIN t
            BY <3>4, <3>5, <3>6, <4>2
          <5> QED BY <3>2, <3>4, <4>2, <5>1
        <4>3. CASE a \notin 1..Len(s) /\ b \in 1..Len(s)
          <5>1. s[b] = t[a - Len(s)] /\ a - Len(s) \in DOMAIN t
            BY <3>4, <3>5, <3>6, <4>3
          <5> QED BY <3>2, <3>4, <4>3, <5>1
        <4>4. CASE a \notin 1..Len(s) /\ b \notin 1..Len(s)
          <5>1. a - Len(s) = b - Len(s)
            <6>1. t[a - Len(s)] = t[b - Len(s)] /\ a - Len(s) \in DOMAIN t /\ b - Len(s) \in DOMAIN t
              BY <3>4, <3>5, <3>6, <4>4
            <6> QED BY <3>3, <6>1
          <5> QED BY <3>4, <3>6, <5>1
        <4> QED BY <4>1, <4>2, <4>3, <4>4
      <3> QED BY <3>6 DEF IsInjective
    <2> QED BY <2>5, <2>6
  <1>5. Q = Nat
    <2>1. Q \in SUBSET Nat
      OBVIOUS
    <2> HIDE DEF Q
    <2> QED BY <1>3, <1>4, <2>1, NatSetInduction
  <1>6. Holds(n)
    <2>1. n \in Q
      <3> HIDE DEF Q
      <3> QED BY <1>1, <1>5
    <2> HIDE DEF Holds
    <2> QED BY <1>1, <2>1
  <1>7. g[n] \in Seq(S)
    BY <1>1
  <1> QED BY <1>1, <1>2, <1>6, <1>7

(* The sequence s lists the numbers in S, in ascending order.              *)
Ascends(s, S) ==
    /\ s \in [1..Cardinality(S) -> S]
    /\ \A k, l \in DOMAIN s : k < l => s[k] < s[l]

(* Numbers up to a bound can be listed.                                    *)
LEMMA ListingExists ==
    ASSUME NEW n \in Nat, NEW S \in SUBSET (1..n)
    PROVE  /\ IsFiniteSet(S) /\ Cardinality(S) \in Nat
           /\ \E s : Ascends(s, S) /\ S = {s[k] : k \in 1..Cardinality(S)}
  <1> DEFINE Listed(R) ==
                /\ IsFiniteSet(R) /\ Cardinality(R) \in Nat
                /\ \E s : Ascends(s, R) /\ R = {s[k] : k \in 1..Cardinality(R)}
             T == {m \in Nat : \A R \in SUBSET (1..m) : Listed(R)}
  <1>1. 0 \in T
    <2>1. ASSUME NEW R \in SUBSET (1..0) PROVE Listed(R)
      <3>1. R = {}
        OBVIOUS
      <3>2. IsFiniteSet(R) /\ Cardinality(R) = 0
        BY <3>1, FS_EmptySet
      <3> DEFINE s == [k \in 1..0 |-> 0]
      <3>3. Ascends(s, R) /\ R = {s[k] : k \in 1..Cardinality(R)}
        BY <3>1, <3>2 DEF Ascends
      <3> QED BY <3>2, <3>3
    <2> HIDE DEF Listed
    <2> QED BY <2>1
  <1>2. ASSUME NEW m \in T PROVE m + 1 \in T
    <2>1. m \in Nat /\ \A R \in SUBSET (1..m) : Listed(R)
      <3> HIDE DEF Listed
      <3> QED OBVIOUS
    <2>2. ASSUME NEW R \in SUBSET (1..(m + 1)) PROVE Listed(R)
      <3> DEFINE Q == R \ {m + 1}
      <3>1. Q \in SUBSET (1..m)
        BY <2>1
      <3>2. Listed(Q)
        <4> HIDE DEF Listed, Q
        <4> QED BY <2>1, <3>1
      <3>3. CASE m + 1 \notin R
        <4>1. Q = R
          BY <3>3
        <4> HIDE DEF Q
        <4> QED BY <3>2, <4>1
      <3>4. CASE m + 1 \in R
        <4>1. R = Q \cup {m + 1} /\ m + 1 \notin Q
          BY <3>4
        <4> DEFINE c == Cardinality(Q)
        <4>2. c \in Nat /\ IsFiniteSet(Q)
          BY <3>2
        <4>3. PICK s : Ascends(s, Q) /\ Q = {s[k] : k \in 1..c}
          BY <3>2
        <4> HIDE DEF Q
        <4>4. IsFiniteSet(R) /\ Cardinality(R) = c + 1
          BY <4>1, <4>2, FS_AddElement
        <4> HIDE DEF c
        <4> DEFINE t == [k \in 1..(c + 1) |-> IF k = c + 1 THEN m + 1 ELSE s[k]]
        <4>5. s \in [1..c -> Q] /\ \A k, l \in 1..c : k < l => s[k] < s[l]
          BY <4>3 DEF Ascends, c
        <4>6. ASSUME NEW k \in 1..c PROVE s[k] \in Q /\ s[k] \in Nat /\ s[k] < m + 1
          <5>1. s[k] \in Q
            BY <4>5
          <5>2. s[k] \in 1..m
            BY <3>1, <5>1
          <5> QED BY <2>1, <5>1, <5>2
        <4>7. t \in [1..(c + 1) -> R]
          BY <4>1, <4>2, <4>6
        <4>8. ASSUME NEW k \in 1..(c + 1), NEW l \in 1..(c + 1), k < l PROVE t[k] < t[l]
          <5>1. k \in 1..c
            BY <4>2, <4>8
          <5>2. CASE l = c + 1
            BY <4>2, <4>6, <5>1, <5>2
          <5>3. CASE l \in 1..c
            BY <4>2, <4>5, <4>8, <5>1, <5>3
          <5> QED BY <4>2, <5>2, <5>3
        <4>9. R = {t[k] : k \in 1..(c + 1)}
          <5>1. ASSUME NEW x \in R PROVE \E k \in 1..(c + 1) : t[k] = x
            <6>1. CASE x = m + 1
              BY <4>2, <6>1
            <6>2. CASE x \in Q
              <7>1. PICK k \in 1..c : s[k] = x
                BY <4>3, <6>2 DEF c
              <7>2. k \in 1..(c + 1) /\ t[k] = x
                BY <4>2, <7>1
              <7> HIDE DEF t
              <7> QED BY <7>2
            <6> QED BY <4>1, <6>1, <6>2
          <5> HIDE DEF t
          <5>2. \A k \in 1..(c + 1) : t[k] \in R
            BY <4>7
          <5>3. R \subseteq {t[k] : k \in 1..(c + 1)}
            BY <5>1
          <5>4. {t[k] : k \in 1..(c + 1)} \subseteq R
            BY <5>2
          <5> QED BY <5>3, <5>4
        <4>10. Ascends(t, R)
          <5> HIDE DEF t
          <5> QED BY <4>4, <4>7, <4>8 DEF Ascends
        <4> HIDE DEF t
        <4>11. R = {t[k] : k \in 1..Cardinality(R)}
          BY <4>4, <4>9
        <4>12. Cardinality(R) \in Nat
          BY <4>2, <4>4
        <4> QED BY <4>4, <4>10, <4>11, <4>12
      <3> QED BY <3>3, <3>4
    <2> HIDE DEF Listed
    <2> QED BY <2>1, <2>2
  <1>3. T = Nat
    <2>1. T \in SUBSET Nat
      OBVIOUS
    <2> HIDE DEF T
    <2> QED BY <1>1, <1>2, <2>1, NatSetInduction
  <1> HIDE DEF Listed
  <1>4. Listed(S)
    BY <1>3
  <1> QED BY <1>4 DEF Listed

-----------------------------------------------------------------------------
(* The least and the greatest member of a set.                            *)

(* Min and Max are the least and the greatest member.                      *)
LEMMA MinIsLeast ==
    ASSUME NEW S \in SUBSET Nat, S # {}
    PROVE  Min(S) \in S /\ \A y \in S : Min(S) <= y
<1>1. PICK x \in S : \A y \in S : x <= y
  BY LeastOfIntegers
<1> QED
  BY <1>1 DEF Min

(* A set of naturals that is bounded has a greatest member.               *)
LEMMA MaxIsGreatest ==
    ASSUME NEW n \in Nat, NEW S \in SUBSET (0..n), S # {}
    PROVE  Max(S) \in S /\ \A y \in S : y <= Max(S)
<1> DEFINE T == {n - x : x \in S}
<1>1. \A x \in S : x \in Int /\ 0 <= x /\ x <= n
  OBVIOUS
<1>2. T \in SUBSET Nat /\ T # {}
  <2>1. \A x \in S : n - x \in Nat
    BY <1>1
  <2> QED
    BY <2>1, Zenon
<1>3. PICK t \in T : \A u \in T : t <= u
  <2>1. Min(T) \in T /\ \A u \in T : Min(T) <= u
    <3> HIDE DEF T
    <3> QED
      BY <1>2, MinIsLeast
  <2> HIDE DEF T
  <2> QED
    BY <2>1
<1>4. PICK x \in S : t = n - x
  BY <1>3
<1>5. \A y \in S : x >= y
  BY <1>1, <1>3, <1>4
<1> QED
  BY <1>1, <1>4, <1>5 DEF Max

(* A member that none exceeds is the greatest.                             *)
LEMMA MaxIs ==
    ASSUME NEW S \in SUBSET Int, NEW h \in S, \A q \in S : q <= h
    PROVE  Max(S) = h
<1>1. \A q \in S : h >= q
  OBVIOUS
<1>2. Max(S) \in S /\ \A q \in S : Max(S) >= q
  BY <1>1 DEF Max
<1>3. Max(S) \in Int /\ h \in Int /\ Max(S) >= h /\ h >= Max(S)
  BY <1>1, <1>2
<1> QED
  BY <1>3

-----------------------------------------------------------------------------
(* Regular banks.  First, which block a position belongs to: h is the last *)
(* block header up to p.                                                   *)

Delimiters == {"block_header", "block_trailer", "event_header"}

IsBlockOf(b, p, h) == h \in Blocks(b, p) /\ \A q \in Blocks(b, p) : q <= h

(* The header that BlockOf chooses is the last one.                        *)
LEMMA LastHeader ==
    ASSUME NEW b, NEW p \in Nat, Blocks(b, p) # {}
    PROVE  /\ IsBlockOf(b, p, BlockOf(b, p))
           /\ BlockOf(b, p) \in 1..p
           /\ b[BlockOf(b, p)].type = "block_header"
<1>1. Blocks(b, p) \in SUBSET (0..p)
  BY DEF Blocks
<1>2. Max(Blocks(b, p)) \in Blocks(b, p) /\ \A q \in Blocks(b, p) : q <= Max(Blocks(b, p))
  BY <1>1, MaxIsGreatest
<1>3. BlockOf(b, p) \in Blocks(b, p)
  BY <1>2 DEF BlockOf
<1> QED
  BY <1>2, <1>3, Zenon DEF BlockOf, IsBlockOf, Blocks

(* Words that delimit nothing leave every position after them where it was *)
(* before them.                                                            *)
LEMMA Stretch ==
    ASSUME NEW b, NEW p \in Nat, NEW r \in Nat, p <= r,
           \A q \in (p + 1)..r : b[q].type \notin Delimiters
    PROVE  /\ BlockOf(b, r) = BlockOf(b, p)
           /\ InBlock(b, r + 1) <=> InBlock(b, p + 1)
           /\ InBlock(b, p + 1) => Ordinal(b, r) = Ordinal(b, p)
<1>1. Blocks(b, r) = Blocks(b, p)
  <2>1. \A q \in 1..r : q \in 1..p \/ q \in (p + 1)..r
    OBVIOUS
  <2>2. 1..p \subseteq 1..r
    OBVIOUS
  <2>3. \A q \in (p + 1)..r : b[q].type # "block_header"
    BY DEF Delimiters
  <2> QED
    BY <2>1, <2>2, <2>3, Zenon DEF Blocks
<1>2. BlockOf(b, r) = BlockOf(b, p)
  BY <1>1 DEF BlockOf
<1> DEFINE h == BlockOf(b, p)
<1>3. p + 1 - 1 = p /\ r + 1 - 1 = r
  OBVIOUS
<1>4. CASE Blocks(b, p) = {}
  <2>1. ~InBlock(b, p + 1) /\ ~InBlock(b, r + 1)
    BY <1>1, <1>3, <1>4 DEF InBlock
  <2> QED
    BY <1>2, <2>1, Zenon
<1>5. CASE Blocks(b, p) # {}
  <2>1. h \in 1..p
    BY <1>5, LastHeader
  <2> HIDE DEF h
  <2>2. \A q : q \in h..r <=> q \in h..p \/ q \in (p + 1)..r
    BY <2>1
  <2>3. (\A q \in h..r : b[q].type # "block_trailer") <=> (\A q \in h..p : b[q].type # "block_trailer")
    <3>1. \A q \in (p + 1)..r : b[q].type # "block_trailer"
      BY DEF Delimiters
    <3> QED
      BY <2>2, <3>1, Zenon
  <2>4. {q \in h..r : b[q].type = "event_header"} = {q \in h..p : b[q].type = "event_header"}
    <3>1. \A q \in (p + 1)..r : b[q].type # "event_header"
      BY DEF Delimiters
    <3> QED
      BY <2>2, <3>1, Zenon
  <2>5. InBlock(b, r + 1) <=> InBlock(b, p + 1)
    BY <1>1, <1>2, <1>3, <2>3 DEF InBlock, h
  <2>6. Ordinal(b, r) = Ordinal(b, p)
    BY <1>2, <2>4 DEF Ordinal, h
  <2> QED
    BY <1>2, <2>5, <2>6
<1> QED
  BY <1>4, <1>5

(* An ordinal counts finitely many event headers.                          *)
LEMMA OrdinalIsNat ==
    ASSUME NEW b, NEW p \in Nat, Blocks(b, p) # {}
    PROVE  /\ IsFiniteSet({q \in BlockOf(b, p)..p : b[q].type = "event_header"})
           /\ Ordinal(b, p) \in Nat
<1>1. BlockOf(b, p) \in Int
  BY LastHeader
<1>2. IsFiniteSet(BlockOf(b, p)..p)
  BY <1>1, FS_Interval
<1>3. IsFiniteSet({q \in BlockOf(b, p)..p : b[q].type = "event_header"})
  BY <1>2, FS_Subset
<1> QED
  BY <1>3, FS_CardinalityType DEF Ordinal

(* A block header opens its block, with no event yet.                      *)
LEMMA HeaderOpens ==
    ASSUME NEW b, NEW p \in Nat \ {0}, b[p].type = "block_header"
    PROVE  InBlock(b, p + 1) /\ BlockOf(b, p) = p /\ Ordinal(b, p) = 0
<1>1. p \in Blocks(b, p) /\ Blocks(b, p) \in SUBSET Int /\ \A q \in Blocks(b, p) : q <= p
  BY DEF Blocks
<1>2. BlockOf(b, p) = p
  BY <1>1, MaxIs DEF BlockOf
<1>3. p + 1 - 1 = p /\ \A q \in p..p : q = p
  OBVIOUS
<1>4. InBlock(b, p + 1)
  BY <1>1, <1>2, <1>3 DEF InBlock
<1>5. {q \in p..p : b[q].type = "event_header"} = {}
  BY <1>3
<1>6. Ordinal(b, p) = 0
  BY <1>2, <1>5, FS_EmptySet DEF Ordinal
<1> QED
  BY <1>2, <1>4, <1>6

(* Any other word than a block header leaves the block as it is.           *)
LEMMA BlocksStay ==
    ASSUME NEW b, NEW p \in Nat \ {0}, b[p].type # "block_header"
    PROVE  Blocks(b, p) = Blocks(b, p - 1) /\ BlockOf(b, p) = BlockOf(b, p - 1)
<1>1. \A q : q \in 1..p <=> q \in 1..(p - 1) \/ q = p
  OBVIOUS
<1>2. Blocks(b, p) = Blocks(b, p - 1)
  BY <1>1, Zenon DEF Blocks
<1> QED
  BY <1>2 DEF BlockOf

(* A block trailer closes it, after all its events.                        *)
LEMMA TrailerCloses ==
    ASSUME NEW b, NEW p \in Nat \ {0}, b[p].type = "block_trailer", InBlock(b, p)
    PROVE  /\ ~InBlock(b, p + 1)
           /\ BlockOf(b, p) = BlockOf(b, p - 1)
           /\ Ordinal(b, p) = Ordinal(b, p - 1)
<1>1. Blocks(b, p - 1) # {} /\ p - 1 \in Nat
  BY DEF InBlock
<1>2. BlockOf(b, p - 1) \in 1..(p - 1)
  BY <1>1, LastHeader
<1>3. BlockOf(b, p) = BlockOf(b, p - 1)
  BY BlocksStay
<1> DEFINE h == BlockOf(b, p - 1)
<1>4. \A q : q \in h..p <=> q \in h..(p - 1) \/ q = p
  <2> HIDE DEF h
  <2>1. h \in 1..(p - 1)
    BY <1>2 DEF h
  <2> QED
    BY <2>1
<1>5. p + 1 - 1 = p
  OBVIOUS
<1>6. ~InBlock(b, p + 1)
  BY <1>3, <1>4, <1>5 DEF InBlock
<1>7. {q \in h..p : b[q].type = "event_header"} = {q \in h..(p - 1) : b[q].type = "event_header"}
  BY <1>4, Zenon
<1> QED
  BY <1>3, <1>6, <1>7 DEF Ordinal

(* An event header is the next event of its block.                         *)
LEMMA EventIsNext ==
    ASSUME NEW b, NEW p \in Nat \ {0}, b[p].type = "event_header", InBlock(b, p)
    PROVE  /\ InBlock(b, p + 1)
           /\ BlockOf(b, p) = BlockOf(b, p - 1)
           /\ Ordinal(b, p) = Ordinal(b, p - 1) + 1
<1>1. Blocks(b, p - 1) # {} /\ p - 1 \in Nat
  BY DEF InBlock
<1>2. BlockOf(b, p - 1) \in 1..(p - 1)
  BY <1>1, LastHeader
<1>3. BlockOf(b, p) = BlockOf(b, p - 1) /\ Blocks(b, p) = Blocks(b, p - 1)
  BY BlocksStay
<1> DEFINE h == BlockOf(b, p - 1)
<1>4. /\ \A q : q \in h..p <=> q \in h..(p - 1) \/ q = p
      /\ p \notin h..(p - 1)
  <2> HIDE DEF h
  <2>1. h \in 1..(p - 1)
    BY <1>2 DEF h
  <2> QED
    BY <2>1
<1>5. p + 1 - 1 = p
  OBVIOUS
<1>6. InBlock(b, p + 1)
  BY <1>1, <1>3, <1>4, <1>5 DEF InBlock
<1> DEFINE E == {q \in h..(p - 1) : b[q].type = "event_header"}
<1>7. {q \in h..p : b[q].type = "event_header"} = E \cup {p} /\ p \notin E
  BY <1>4, Zenon
<1>8. IsFiniteSet(E)
  BY <1>1, OrdinalIsNat
<1>9. Cardinality(E \cup {p}) = Cardinality(E) + 1
  <2> HIDE DEF E
  <2> QED
    BY <1>7, <1>8, FS_AddElement
<1> QED
  BY <1>3, <1>6, <1>7, <1>9 DEF Ordinal

\* What IsRegular says of the word at p.
LEMMA RegularWord ==
    ASSUME NEW b, IsRegular(b), NEW p \in DOMAIN b
    PROVE  /\ b[p].type = "block_header" => ~InBlock(b, p)
           /\ b[p].type = "block_trailer" => /\ InBlock(b, p)
                                             /\ b[p].slot = b[BlockOf(b, p)].slot
                                             /\ Ordinal(b, p) = b[BlockOf(b, p)].n
           /\ b[p].type = "event_header" => /\ InBlock(b, p)
                                            /\ b[p].slot = b[BlockOf(b, p)].slot
                                            /\ Ordinal(b, p) <= b[BlockOf(b, p)].n
           /\ b[p].type \notin Delimiters \cup {"other", "continuation"} =>
                 /\ InBlock(b, p)
                 /\ Ordinal(b, p) > 0
                 /\ b[p].type = "trigger_time" => IsContinuation(b, p + 1)
                 /\ b[p].type = "waveform" => IsWholeWaveform(b, p)
                 /\ b[p].type = "frame" => Following(b, p) % 3 = 0
BY DEF IsRegular, Delimiters

=============================================================================
