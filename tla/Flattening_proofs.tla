-------------------------- MODULE Flattening_proofs --------------------------
(***************************************************************************)
(* Sequences of sequences, and the sequence FlattenSeq makes of them: what *)
(* it is for one more sequence, for two put together, and what it          *)
(* contains.  The facts are by induction on the length, which needs no     *)
(* more than that every set of naturals has a smallest element.  The last  *)
(* part is the elements of a sequence that are in a set (Among).           *)
(***************************************************************************)
EXTENDS Naturals, Sequences, SequencesExt, SequenceTheorems, WellFoundedInduction, TLAPS

-----------------------------------------------------------------------------
(* Induction.                                                              *)

Below == {p \in Nat \X Nat : p[1] < p[2]}

LEMMA BelowIsWellFounded == IsWellFoundedOn(Below, Nat)
BY NatLessThanWellFounded DEF OpToRel, Below

LEMMA SmallestExists ==
    ASSUME NEW T, T \subseteq Nat, T # {}
    PROVE  \E x \in T : \A y \in T : ~ (y < x)
<1>1. \E x \in T : \A y \in T : ~ (<<y, x>> \in Below)
  BY BelowIsWellFounded, WFMin
<1>2. \A x, y \in Nat : <<y, x>> \in Below <=> y < x
  BY DEF Below
<1> QED BY <1>1, <1>2

LEMMA Induction ==
    ASSUME NEW T, 0 \in T, \A n \in Nat : n \in T => n + 1 \in T
    PROVE  Nat \subseteq T
<1> SUFFICES ASSUME ~ (Nat \subseteq T) PROVE FALSE
  OBVIOUS
<1> DEFINE U == Nat \ T
<1>1. PICK x \in U : \A y \in U : ~ (y < x)
  <2>1. U # {} /\ U \subseteq Nat
    OBVIOUS
  <2> HIDE DEF U
  <2> QED BY <2>1, SmallestExists
<1>2. x # 0 /\ x - 1 \in Nat /\ x - 1 < x
  OBVIOUS
<1>3. x - 1 \in T
  BY <1>1, <1>2
<1>4. (x - 1) + 1 \in T
  BY <1>2, <1>3
<1> QED BY <1>2, <1>4

\* The same, up to a bound.
LEMMA InductionUpTo ==
    ASSUME NEW n \in Nat, NEW T,
           n >= 1 => 1 \in T,
           \A i \in 1 .. n : i \in T /\ i < n => i + 1 \in T
    PROVE  1 .. n \subseteq T
<1> DEFINE U == {i \in Nat : i \in 1 .. n => i \in T}
<1>1. 0 \in U
  OBVIOUS
<1>2. ASSUME NEW i \in Nat, i \in U PROVE i + 1 \in U
  <2>1. CASE i = 0
    BY <2>1
  <2>2. CASE i \in 1 .. n
    BY <1>2, <2>2
  <2>3. CASE i > n
    BY <2>3
  <2> QED BY <2>1, <2>2, <2>3
<1> HIDE DEF U
<1>3. Nat \subseteq U
  BY <1>1, <1>2, Induction
<1> QED BY <1>3 DEF U

\* A set of sequences that has the empty one and, with each, every extension by an element.
LEMMA SequenceInduction ==
    ASSUME NEW S, NEW T, <<>> \in T,
           \A s \in Seq(S) : s \in T => \A e \in S : Append(s, e) \in T
    PROVE  Seq(S) \subseteq T
<1> DEFINE U == {n \in Nat : \A s \in Seq(S) : Len(s) = n => s \in T}
<1>1. 0 \in U
  <2>1. \A s \in Seq(S) : Len(s) = 0 => s = <<>>
    BY EmptySeq
  <2> QED BY <2>1
<1>2. ASSUME NEW n \in Nat, n \in U PROVE n + 1 \in U
  <2> SUFFICES ASSUME NEW s \in Seq(S), Len(s) = n + 1 PROVE s \in T
    OBVIOUS
  <2> DEFINE t == [i \in 1 .. n |-> s[i]]
  <2>1. t \in Seq(S) /\ Len(t) = n
    <3>1. t \in [1 .. n -> S]
      OBVIOUS
    <3> QED BY <3>1
  <2>2. s[n + 1] \in S
    OBVIOUS
  <2>3. s = Append(t, s[n + 1])
    <3>1. Append(t, s[n + 1]) \in Seq(S) /\ Len(Append(t, s[n + 1])) = n + 1
      BY <2>1, <2>2
    <3>2. \A i \in 1 .. n + 1 : Append(t, s[n + 1])[i] = s[i]
      OBVIOUS
    <3> QED BY <3>1, <3>2, SeqEqual
  <2>4. t \in T
    BY <1>2, <2>1
  <2> HIDE DEF t
  <2> QED BY <2>1, <2>2, <2>3, <2>4
<1> HIDE DEF U
<1>3. Nat \subseteq U
  BY <1>1, <1>2, Induction
<1>4. \A s \in Seq(S) : Len(s) \in U
  BY <1>3, LenProperties
<1> QED BY <1>4 DEF U

-----------------------------------------------------------------------------
(* FlattenSeq.                                                             *)

\* "f" holds what FlattenSeq has after each of the first n sequences.
Running(ss, n, f) == f = [i \in 1 .. n |-> IF i = 1 THEN ss[i] ELSE f[i - 1] \o ss[i]]

LEMMA RunningExists ==
    ASSUME NEW ss
    PROVE  \A n \in Nat : \E f : Running(ss, n, f)
<1> DEFINE T == {n \in Nat : \E f : Running(ss, n, f)}
<1>1. 0 \in T
  <2> DEFINE f == [i \in 1 .. 0 |-> <<>>]
  <2>1. f = [i \in 1 .. 0 |-> IF i = 1 THEN ss[i] ELSE f[i - 1] \o ss[i]]
    OBVIOUS
  <2> HIDE DEF f
  <2> QED BY <2>1 DEF Running
<1>2. ASSUME NEW n \in Nat, n \in T PROVE n + 1 \in T
  <2>1. PICK f : Running(ss, n, f)
    BY <1>2
  <2> DEFINE g == [i \in 1 .. n + 1 |-> IF i <= n THEN f[i]
                                        ELSE IF i = 1 THEN ss[i] ELSE f[n] \o ss[i]]
  <2>2. ASSUME NEW i \in 1 .. n + 1
        PROVE  g[i] = IF i = 1 THEN ss[i] ELSE g[i - 1] \o ss[i]
    <3>1. CASE i = 1
      <4>1. i <= n => f[i] = ss[i]
        BY <2>1, <3>1 DEF Running
      <4> QED BY <3>1, <4>1
    <3>2. CASE i \in 2 .. n
      <4>1. /\ i - 1 \in 1 .. n + 1 /\ i - 1 <= n /\ i <= n /\ i # 1 /\ i \in 1 .. n
        BY <3>2
      <4>2. g[i] = f[i] /\ g[i - 1] = f[i - 1]
        BY <4>1
      <4>3. f[i] = f[i - 1] \o ss[i]
        BY <2>1, <4>1 DEF Running
      <4> QED BY <4>1, <4>2, <4>3
    <3>3. CASE i = n + 1 /\ i # 1
      <4>1. /\ i - 1 \in 1 .. n + 1 /\ i - 1 <= n /\ ~ (i <= n) /\ i - 1 = n
        BY <3>3
      <4>2. g[i] = f[n] \o ss[i] /\ g[i - 1] = f[i - 1]
        BY <3>3, <4>1
      <4> QED BY <3>3, <4>1, <4>2
    <3> QED BY <3>1, <3>2, <3>3
  <2>3. g = [i \in 1 .. n + 1 |-> g[i]]
    OBVIOUS
  <2> HIDE DEF g
  <2>4. Running(ss, n + 1, g)
    BY <2>2, <2>3 DEF Running
  <2> QED BY <2>4
<1> HIDE DEF T
<1>3. Nat \subseteq T
  BY <1>1, <1>2, Induction
<1> QED BY <1>3 DEF T

SameUpTo(n, f, g) == \A i \in 1 .. n : f[i] = g[i]

\* Two that start from the same sequences are the same as far as both go.
LEMMA RunningAgree ==
    ASSUME NEW n, n \in Nat, NEW ss, NEW tt, NEW m, m \in Nat, n <= m,
           NEW f, Running(ss, n, f), NEW g, Running(tt, m, g),
           SameUpTo(n, ss, tt)
    PROVE  SameUpTo(n, f, g)
<1> DEFINE T == {i \in 1 .. n : f[i] = g[i]}
<1>1. n >= 1 => 1 \in T
  <2>1. n >= 1 => f[1] = ss[1] /\ g[1] = tt[1]
    BY DEF Running
  <2> QED BY <2>1 DEF SameUpTo
<1>2. ASSUME NEW i \in 1 .. n, i \in T, i < n PROVE i + 1 \in T
  <2>1. /\ i + 1 \in 1 .. n /\ i + 1 \in 1 .. m /\ i + 1 # 1
        /\ (i + 1) - 1 = i
    BY <1>2
  <2>2. f[i + 1] = f[i] \o ss[i + 1] /\ g[i + 1] = g[i] \o tt[i + 1]
    BY <2>1 DEF Running
  <2> QED BY <1>2, <2>1, <2>2 DEF SameUpTo
<1> HIDE DEF T
<1>3. 1 .. n \subseteq T
  BY <1>1, <1>2, InductionUpTo
<1> QED BY <1>3 DEF T, SameUpTo

LEMMA FlattenIsLast ==
    ASSUME NEW S, NEW ss \in Seq(S)
    PROVE  \E f : Running(ss, Len(ss), f) /\ FlattenSeq(ss) = IF ss = <<>> THEN <<>> ELSE f[Len(ss)]
<1> DEFINE g == CHOOSE f : f = [i \in 1 .. Len(ss) |-> IF i = 1 THEN ss[i] ELSE f[i - 1] \o ss[i]]
<1>1. Len(ss) \in Nat /\ (ss = <<>> <=> Len(ss) = 0)
  BY LenProperties, EmptySeq
<1>2. Running(ss, Len(ss), g)
  BY <1>1, RunningExists DEF Running
<1>3. FlattenSeq(ss) = IF Len(ss) = 0 THEN ss ELSE g[Len(ss)]
  BY DEF FlattenSeq
<1> HIDE DEF g
<1> QED BY <1>1, <1>2, <1>3

LEMMA FlattenEmpty == FlattenSeq(<<>>) = <<>>
BY DEF FlattenSeq

LEMMA FlattenAppend ==
    ASSUME NEW S, NEW ss \in Seq(Seq(S)), NEW s \in Seq(S)
    PROVE  FlattenSeq(Append(ss, s)) = FlattenSeq(ss) \o s
<1> DEFINE tt == Append(ss, s)
<1>1. /\ tt \in Seq(Seq(S)) /\ Len(ss) \in Nat /\ Len(tt) = Len(ss) + 1 /\ tt # <<>>
      /\ \A i \in 1 .. Len(ss) : tt[i] = ss[i]
      /\ tt[Len(ss) + 1] = s
      /\ (ss = <<>> <=> Len(ss) = 0)
  <2>1. Len(ss) \in Nat /\ tt \in Seq(Seq(S)) /\ Len(tt) = Len(ss) + 1 /\ tt[Len(ss) + 1] = s
    OBVIOUS
  <2>2. \A i \in 1 .. Len(ss) : tt[i] = ss[i]
    OBVIOUS
  <2>3. ss = <<>> <=> Len(ss) = 0
    BY EmptySeq
  <2>4. tt # <<>>
    <3>1. Len(tt) # 0
      BY <2>1
    <3> HIDE DEF tt
    <3> QED BY <3>1, EmptySeq
  <2> QED BY <2>1, <2>2, <2>3, <2>4
<1> HIDE DEF tt
<1>2. PICK f : Running(ss, Len(ss), f) /\ FlattenSeq(ss) = IF ss = <<>> THEN <<>> ELSE f[Len(ss)]
  BY FlattenIsLast
<1>3. PICK g : Running(tt, Len(tt), g) /\ FlattenSeq(tt) = g[Len(tt)]
  BY <1>1, FlattenIsLast
<1>4. \A i \in 1 .. Len(ss) : f[i] = g[i]
  <2>1. Len(ss) <= Len(tt) /\ Len(tt) \in Nat /\ Len(ss) \in Nat
    BY <1>1
  <2>2. SameUpTo(Len(ss), ss, tt)
    BY <1>1 DEF SameUpTo
  <2>3. Running(ss, Len(ss), f) /\ Running(tt, Len(tt), g)
    BY <1>2, <1>3
  <2>4. SameUpTo(Len(ss), f, g)
    BY <2>1, <2>2, <2>3, RunningAgree
  <2> QED BY <2>4 DEF SameUpTo
<1>5. g[Len(tt)] = IF Len(tt) = 1 THEN tt[Len(tt)] ELSE g[Len(tt) - 1] \o tt[Len(tt)]
  <2>1. Len(tt) \in 1 .. Len(tt)
    BY <1>1
  <2> QED BY <1>3, <2>1 DEF Running
<1>6. CASE ss = <<>>
  <2>1. g[Len(tt)] = s /\ FlattenSeq(ss) = <<>> /\ <<>> \o s = s
    BY <1>1, <1>2, <1>5, <1>6, ConcatEmptySeq
  <2> QED BY <1>3, <2>1 DEF tt
<1>7. CASE ss # <<>>
  <2>1. Len(tt) # 1 /\ Len(tt) - 1 = Len(ss) /\ Len(ss) \in 1 .. Len(ss)
    BY <1>1, <1>7
  <2>2. g[Len(tt)] = f[Len(ss)] \o s
    BY <1>1, <1>4, <1>5, <2>1
  <2> QED BY <1>2, <1>3, <1>7, <2>2 DEF tt
<1> QED BY <1>6, <1>7

\* A sequence that is another one and an element more.
LEMMA AppendIs ==
    ASSUME NEW S, NEW s \in Seq(S), NEW e \in S, NEW t \in Seq(S), Len(t) = Len(s) + 1,
           \A i \in 1 .. Len(s) : t[i] = s[i], t[Len(s) + 1] = e
    PROVE  t = Append(s, e)
<1>1. Append(s, e) \in Seq(S) /\ Len(Append(s, e)) = Len(s) + 1
  OBVIOUS
<1>2. \A i \in 1 .. Len(t) : t[i] = Append(s, e)[i]
  OBVIOUS
<1> QED BY <1>1, <1>2, SeqEqual

LEMMA AppendLast ==
    ASSUME NEW S, NEW s \in Seq(S), NEW t \in Seq(S), NEW e \in S
    PROVE  s \o Append(t, e) = Append(s \o t, e)
<1>1. /\ s \o Append(t, e) \in Seq(S) /\ Len(s \o Append(t, e)) = Len(s) + Len(t) + 1
      /\ Append(s \o t, e) \in Seq(S) /\ Len(Append(s \o t, e)) = Len(s) + Len(t) + 1
  OBVIOUS
<1>2. \A i \in 1 .. Len(s) + Len(t) + 1 : (s \o Append(t, e))[i] = Append(s \o t, e)[i]
  OBVIOUS
<1> QED BY <1>1, <1>2, SeqEqual

LEMMA FlattenIsSequence ==
    ASSUME NEW S, NEW ss \in Seq(Seq(S))
    PROVE  FlattenSeq(ss) \in Seq(S)
<1> DEFINE T == {tt \in Seq(Seq(S)) : FlattenSeq(tt) \in Seq(S)}
<1>1. <<>> \in T
  <2>1. <<>> \in Seq(Seq(S)) /\ <<>> \in Seq(S)
    BY EmptySeq
  <2>2. FlattenSeq(<<>>) \in Seq(S)
    BY <2>1, FlattenEmpty
  <2> QED BY <2>1, <2>2
<1>2. ASSUME NEW tt \in Seq(Seq(S)), tt \in T, NEW s \in Seq(S) PROVE Append(tt, s) \in T
  <2>1. FlattenSeq(Append(tt, s)) = FlattenSeq(tt) \o s
    BY FlattenAppend
  <2>2. Append(tt, s) \in Seq(Seq(S)) /\ FlattenSeq(tt) \o s \in Seq(S)
    BY <1>2, ConcatProperties
  <2> QED BY <2>1, <2>2
<1> HIDE DEF T
<1>3. Seq(Seq(S)) \subseteq T
  BY <1>1, <1>2, SequenceInduction
<1> QED BY <1>3 DEF T

LEMMA FlattenConcat ==
    ASSUME NEW S, NEW ss \in Seq(Seq(S)), NEW tt \in Seq(Seq(S))
    PROVE  FlattenSeq(ss \o tt) = FlattenSeq(ss) \o FlattenSeq(tt)
<1> DEFINE T == {uu \in Seq(Seq(S)) : FlattenSeq(ss \o uu) = FlattenSeq(ss) \o FlattenSeq(uu)}
<1>1. <<>> \in T
  <2>1. <<>> \in Seq(Seq(S)) /\ FlattenSeq(ss) \in Seq(S)
    BY EmptySeq, FlattenIsSequence
  <2>2. ss \o <<>> = ss /\ FlattenSeq(ss) \o <<>> = FlattenSeq(ss)
    BY <2>1, ConcatEmptySeq
  <2>3. FlattenSeq(ss \o <<>>) = FlattenSeq(ss) \o FlattenSeq(<<>>)
    BY <2>2, FlattenEmpty
  <2> QED BY <2>1, <2>3
<1>2. ASSUME NEW uu \in Seq(Seq(S)), uu \in T, NEW s \in Seq(S) PROVE Append(uu, s) \in T
  <2>1. ss \o Append(uu, s) = Append(ss \o uu, s)
    BY AppendLast
  <2>2. /\ ss \o uu \in Seq(Seq(S)) /\ Append(uu, s) \in Seq(Seq(S))
        /\ FlattenSeq(ss) \in Seq(S) /\ FlattenSeq(uu) \in Seq(S)
    BY FlattenIsSequence, ConcatProperties
  <2>3. FlattenSeq(Append(ss \o uu, s)) = FlattenSeq(ss \o uu) \o s
    BY <2>2, FlattenAppend
  <2>4. FlattenSeq(Append(uu, s)) = FlattenSeq(uu) \o s
    BY FlattenAppend
  <2>5. (FlattenSeq(ss) \o FlattenSeq(uu)) \o s = FlattenSeq(ss) \o (FlattenSeq(uu) \o s)
    BY <2>2, ConcatAssociative
  <2>6. FlattenSeq(ss \o uu) = FlattenSeq(ss) \o FlattenSeq(uu)
    BY <1>2
  <2>7. FlattenSeq(ss \o Append(uu, s)) = FlattenSeq(ss) \o FlattenSeq(Append(uu, s))
    BY <2>1, <2>3, <2>4, <2>5, <2>6
  <2> QED BY <2>2, <2>7
<1> HIDE DEF T
<1>3. Seq(Seq(S)) \subseteq T
  BY <1>1, <1>2, SequenceInduction
<1> QED BY <1>3 DEF T

LEMMA FlattenSingle ==
    ASSUME NEW S, NEW s \in Seq(S)
    PROVE  FlattenSeq(<<s>>) = s
<1>1. <<s>> = Append(<<>>, s) /\ <<>> \in Seq(Seq(S)) /\ <<>> \o s = s
  BY ConcatEmptySeq
<1> QED BY <1>1, FlattenAppend, FlattenEmpty

-----------------------------------------------------------------------------
(* What a sequence contains.                                               *)

LEMMA RangeOfConcat ==
    ASSUME NEW S, NEW s \in Seq(S), NEW t \in Seq(S)
    PROVE  Range(s \o t) = Range(s) \cup Range(t)
<1>1. Range(s \o t) \subseteq Range(s) \cup Range(t)
  BY ConcatProperties, LenProperties DEF Range
<1>2. Range(s) \subseteq Range(s \o t)
  BY ConcatProperties, LenProperties DEF Range
<1>3. Range(t) \subseteq Range(s \o t)
  <2> SUFFICES ASSUME NEW i \in 1 .. Len(t) PROVE t[i] \in Range(s \o t)
    BY LenProperties DEF Range
  <2>1. Len(s) + i \in 1 .. Len(s \o t) /\ (s \o t)[Len(s) + i] = t[i]
    BY ConcatProperties
  <2>2. DOMAIN (s \o t) = 1 .. Len(s \o t)
    BY ConcatProperties, LenProperties
  <2> QED BY <2>1, <2>2 DEF Range
<1> QED BY <1>1, <1>2, <1>3

LEMMA RangeOfAppend ==
    ASSUME NEW S, NEW s \in Seq(S), NEW e \in S
    PROVE  Range(Append(s, e)) = Range(s) \cup {e}
<1>1. DOMAIN s = 1 .. Len(s) /\ DOMAIN Append(s, e) = 1 .. Len(s) + 1 /\ Len(s) \in Nat
  OBVIOUS
<1>2. Append(s, e)[Len(s) + 1] = e /\ \A i \in 1 .. Len(s) : Append(s, e)[i] = s[i]
  OBVIOUS
<1>3. \A i \in 1 .. Len(s) + 1 : i = Len(s) + 1 \/ i \in 1 .. Len(s)
  BY <1>1
<1>4. Len(s) + 1 \in 1 .. Len(s) + 1 /\ 1 .. Len(s) \subseteq 1 .. Len(s) + 1
  BY <1>1
<1> QED BY <1>1, <1>2, <1>3, <1>4 DEF Range

LEMMA RangeOfFlatten ==
    ASSUME NEW S, NEW ss \in Seq(Seq(S))
    PROVE  \A x : x \in Range(FlattenSeq(ss)) <=> \E s \in Range(ss) : x \in Range(s)
<1> DEFINE Holds(tt) == \A x : x \in Range(FlattenSeq(tt)) <=> \E s \in Range(tt) : x \in Range(s)
           T == {tt \in Seq(Seq(S)) : Holds(tt)}
<1>1. <<>> \in T
  <2>1. <<>> \in Seq(Seq(S)) /\ Range(<<>>) = {}
    BY EmptySeq DEF Range
  <2> QED BY <2>1, FlattenEmpty
<1>2. ASSUME NEW tt \in Seq(Seq(S)), tt \in T, NEW e \in Seq(S) PROVE Append(tt, e) \in T
  <2>1. FlattenSeq(tt) \in Seq(S) /\ FlattenSeq(Append(tt, e)) = FlattenSeq(tt) \o e
    BY FlattenAppend, FlattenIsSequence
  <2>2. Range(FlattenSeq(Append(tt, e))) = Range(FlattenSeq(tt)) \cup Range(e)
    BY <2>1, RangeOfConcat
  <2>3. Range(Append(tt, e)) = Range(tt) \cup {e}
    BY RangeOfAppend
  <2>4. Append(tt, e) \in Seq(Seq(S)) /\ Holds(tt)
    BY <1>2
  <2>5. Holds(Append(tt, e))
    BY <2>2, <2>3, <2>4
  <2> QED BY <2>4, <2>5
<1> HIDE DEF T
<1>3. Seq(Seq(S)) \subseteq T
  BY <1>1, <1>2, SequenceInduction
<1> QED BY <1>3 DEF T

LEMMA PairIs ==
    ASSUME NEW a, NEW b
    PROVE  <<a>> \o <<b>> = <<a, b>>
<1> DEFINE S == {a, b}
<1>1. <<a>> \in Seq(S) /\ <<b>> \in Seq(S) /\ <<a, b>> \in Seq(S)
  OBVIOUS
<1>2. /\ <<a>> \o <<b>> \in Seq(S) /\ Len(<<a>> \o <<b>>) = 2
      /\ (<<a>> \o <<b>>)[1] = a /\ (<<a>> \o <<b>>)[2] = b
  OBVIOUS
<1>3. Len(<<a, b>>) = 2 /\ \A i \in 1 .. 2 : (<<a>> \o <<b>>)[i] = <<a, b>>[i]
  BY <1>2
<1> QED BY <1>1, <1>2, <1>3, SeqEqual

-----------------------------------------------------------------------------
(* The elements of a sequence that are in a set.                           *)

\* A function on the first n positions is a sequence.
LEMMA FunctionIsSequence ==
    ASSUME NEW S, NEW n \in Nat, NEW f \in [1 .. n -> S]
    PROVE  f \in Seq(S) /\ Len(f) = n
OBVIOUS

\* The elements of s that are in K, in order.
Among(s, K) == FlattenSeq([i \in DOMAIN s |-> IF s[i] \in K THEN <<s[i]>> ELSE <<>>])

\* Of no element none is.
LEMMA AmongNothing == \A K : Among(<<>>, K) = <<>>
<1> TAKE K
<1>1. [i \in DOMAIN <<>> |-> IF <<>>[i] \in K THEN <<<<>>[i]>> ELSE <<>>] = <<>>
  OBVIOUS
<1> QED BY <1>1, FlattenEmpty DEF Among

\* One more element is among them, or is not.
LEMMA AmongOneMore ==
    ASSUME NEW S, NEW K, NEW s \in Seq(S), NEW e \in S
    PROVE  /\ e \in K => Among(Append(s, e), K) = Append(Among(s, K), e)
           /\ e \notin K => Among(Append(s, e), K) = Among(s, K)
           /\ Among(s, K) \in Seq(S)
<1> DEFINE parts == [i \in DOMAIN s |-> IF s[i] \in K THEN <<s[i]>> ELSE <<>>]
           last == IF e \in K THEN <<e>> ELSE <<>>
           t == Append(s, e)
           longer == [i \in DOMAIN t |-> IF t[i] \in K THEN <<t[i]>> ELSE <<>>]
<1>1. parts \in Seq(Seq(S)) /\ Len(parts) = Len(s) /\ last \in Seq(S)
  <2>1. \A i \in DOMAIN s : (IF s[i] \in K THEN <<s[i]>> ELSE <<>>) \in Seq(S)
    OBVIOUS
  <2>2. parts \in [1 .. Len(s) -> Seq(S)] /\ Len(s) \in Nat
    BY <2>1
  <2> HIDE DEF parts
  <2>3. parts \in Seq(Seq(S)) /\ DOMAIN parts = 1 .. Len(s)
    BY <2>2
  <2> QED BY <2>2, <2>3
<1>2. t \in Seq(S) /\ Len(t) = Len(s) + 1 /\ Len(s) \in Nat
      /\ t[Len(s) + 1] = e /\ \A i \in 1 .. Len(s) : t[i] = s[i]
  OBVIOUS
<1>3. longer = Append(parts, last)
  <2> HIDE DEF t
  <2>1. \A i \in DOMAIN t : (IF t[i] \in K THEN <<t[i]>> ELSE <<>>) \in Seq(S)
    BY <1>2
  <2>2. longer \in [1 .. Len(s) + 1 -> Seq(S)]
    BY <1>2, <2>1
  <2>3. \A i \in 1 .. Len(s) : longer[i] = parts[i]
    BY <1>2
  <2>4. longer[Len(s) + 1] = last
    BY <1>2
  <2> HIDE DEF longer, parts, last
  <2>5. longer \in Seq(Seq(S)) /\ Len(longer) = Len(parts) + 1
    <3>1. Len(s) + 1 \in Nat
      BY <1>2
    <3>2. longer \in Seq(Seq(S)) /\ Len(longer) = Len(s) + 1
      BY <2>2, <3>1, FunctionIsSequence
    <3> QED BY <1>1, <3>2
  <2>6. \A i \in 1 .. Len(parts) : longer[i] = parts[i]
    BY <1>1, <2>3
  <2>7. longer[Len(parts) + 1] = last
    BY <1>1, <2>4
  <2>8. parts \in Seq(Seq(S)) /\ last \in Seq(S)
    BY <1>1
  <2> DEFINE SS == Seq(S)
  <2> HIDE DEF SS
  <2>9. parts \in Seq(SS) /\ last \in SS /\ longer \in Seq(SS)
    BY <2>5, <2>8 DEF SS
  <2>10. Len(longer) = Len(parts) + 1
    BY <2>5
  <2> QED BY <2>6, <2>7, <2>9, <2>10, AppendIs
<1>4. Among(t, K) = FlattenSeq(longer) /\ Among(s, K) = FlattenSeq(parts)
  BY DEF Among
<1> HIDE DEF parts, t, longer
<1>5. Among(t, K) = Among(s, K) \o last /\ Among(s, K) \in Seq(S)
  BY <1>1, <1>3, <1>4, FlattenAppend, FlattenIsSequence
<1>6. Among(s, K) \o <<e>> = Append(Among(s, K), e) /\ Among(s, K) \o <<>> = Among(s, K)
  BY <1>5
<1> QED BY <1>5, <1>6 DEF t

\* They are a sequence.
LEMMA AmongIsSequence ==
    ASSUME NEW S, NEW K, NEW s \in Seq(S)
    PROVE  Among(s, K) \in Seq(S)
<1> DEFINE parts == [i \in DOMAIN s |-> IF s[i] \in K THEN <<s[i]>> ELSE <<>>]
<1>1. \A i \in DOMAIN s : (IF s[i] \in K THEN <<s[i]>> ELSE <<>>) \in Seq(S)
  OBVIOUS
<1>2. parts \in [1 .. Len(s) -> Seq(S)] /\ Len(s) \in Nat
  BY <1>1
<1>3. Among(s, K) = FlattenSeq(parts)
  BY DEF Among
<1> HIDE DEF parts
<1>4. parts \in Seq(Seq(S))
  BY <1>2
<1> QED BY <1>3, <1>4, FlattenIsSequence

\* Nothing but what was there and is to be kept, and all of it.
LEMMA AmongIs ==
    ASSUME NEW S, NEW K, NEW s \in Seq(S)
    PROVE  Range(Among(s, K)) = Range(s) \cap K
<1> DEFINE T == {u \in Seq(S) : Range(Among(u, K)) = Range(u) \cap K}
<1>1. <<>> \in T
  BY AmongNothing DEF Range
<1>2. ASSUME NEW u \in Seq(S), u \in T, NEW e \in S PROVE Append(u, e) \in T
  <2>1. Append(u, e) \in Seq(S) /\ Range(Append(u, e)) = Range(u) \cup {e}
    BY RangeOfAppend
  <2>2. Among(u, K) \in Seq(S) /\ Range(Append(Among(u, K), e)) = Range(Among(u, K)) \cup {e}
    BY AmongIsSequence, RangeOfAppend
  <2>3. CASE e \in K
    <3>1. Among(Append(u, e), K) = Append(Among(u, K), e)
      BY <2>3, AmongOneMore
    <3> QED BY <1>2, <2>1, <2>2, <2>3, <3>1
  <2>4. CASE e \notin K
    BY <2>4, AmongOneMore, <1>2, <2>1
  <2> QED BY <2>3, <2>4
<1> HIDE DEF T
<1>3. Seq(S) \subseteq T
  BY <1>1, <1>2, SequenceInduction
<1> QED BY <1>3 DEF T

\* If every element is in K, they are all of s.
LEMMA AmongAll ==
    ASSUME NEW S, NEW K, NEW s \in Seq(S), Range(s) \subseteq K
    PROVE  Among(s, K) = s
<1> DEFINE T == {u \in Seq(S) : Range(u) \subseteq K => Among(u, K) = u}
<1>1. <<>> \in T
  BY AmongNothing
<1>2. ASSUME NEW u \in Seq(S), u \in T, NEW e \in S PROVE Append(u, e) \in T
  BY RangeOfAppend, AmongOneMore, <1>2
<1> HIDE DEF T
<1>3. Seq(S) \subseteq T
  BY <1>1, <1>2, SequenceInduction
<1> QED BY <1>3 DEF T

\* Of two sequences, those of each.
LEMMA AmongTwo ==
    ASSUME NEW S, NEW K, NEW s \in Seq(S), NEW t \in Seq(S)
    PROVE  Among(s \o t, K) = Among(s, K) \o Among(t, K)
<1> DEFINE T == {u \in Seq(S) : Among(s \o u, K) = Among(s, K) \o Among(u, K)}
<1>1. <<>> \in T
  BY AmongIsSequence, AmongNothing
<1>2. ASSUME NEW u \in Seq(S), u \in T, NEW e \in S PROVE Append(u, e) \in T
  <2> DEFINE v == s \o u
             x == Append(u, e)
  <2>1. v \in Seq(S) /\ x \in Seq(S) /\ s \o x = Append(v, e)
    BY AppendLast
  <2>2. Among(s, K) \in Seq(S) /\ Among(u, K) \in Seq(S)
    BY AmongIsSequence
  <2>3. Among(v, K) = Among(s, K) \o Among(u, K)
    BY <1>2
  <2>4. e \in K => Among(x, K) = Append(Among(u, K), e)
    BY AmongOneMore
  <2>5. e \notin K => Among(x, K) = Among(u, K)
    BY AmongOneMore
  <2>6. Among(s, K) \o Append(Among(u, K), e) = Append(Among(s, K) \o Among(u, K), e)
    BY <2>2, AppendLast
  <2>7. Among(s \o x, K) = Among(s, K) \o Among(x, K)
    <3> HIDE DEF v, x
    <3>1. e \in K => Among(Append(v, e), K) = Append(Among(v, K), e)
      BY <2>1, AmongOneMore
    <3>2. e \notin K => Among(Append(v, e), K) = Among(v, K)
      BY <2>1, AmongOneMore
    <3> QED BY <2>1, <2>3, <2>4, <2>5, <2>6, <3>1, <3>2
  <2> QED BY <2>1, <2>7
<1> HIDE DEF T
<1>3. Seq(S) \subseteq T
  BY <1>1, <1>2, SequenceInduction
<1> QED BY <1>3 DEF T

\* There is none if no element is in K.
LEMMA AmongNoneIff ==
    ASSUME NEW S, NEW K, NEW s \in Seq(S)
    PROVE  Among(s, K) = <<>> <=> Range(s) \cap K = {}
<1>1. Among(s, K) \in Seq(S) /\ Range(Among(s, K)) = Range(s) \cap K
  BY AmongIsSequence, AmongIs
<1>2. \A u \in Seq(S) : u = <<>> <=> Range(u) = {}
  <2> TAKE u \in Seq(S)
  <2>1. Len(u) \in Nat /\ DOMAIN u = 1 .. Len(u) /\ (u = <<>> <=> Len(u) = 0)
    BY EmptySeq, LenProperties
  <2>2. u = <<>> => Range(u) = {}
    BY <2>1 DEF Range
  <2>3. u # <<>> => u[1] \in Range(u)
    BY <2>1 DEF Range
  <2> QED BY <2>2, <2>3
<1> QED BY <1>1, <1>2

\* One element, and one more of them.
LEMMA RangeOfOne == \A u : Range(<<u>>) = {u}
BY DEF Range

\* Nothing before or after a sequence changes it.
LEMMA ConcatNothing == \A S : \A s \in Seq(S) : s \o <<>> = s /\ <<>> \o s = s
OBVIOUS

\* Appending an element is concatenating a sequence of one.
LEMMA AppendAsConcat ==
    ASSUME NEW S, NEW s \in Seq(S), NEW e \in S
    PROVE  Append(s, e) = s \o <<e>>
BY AppendLast, ConcatNothing

LEMMA AppendToNothing == \A c : Append(<<>>, c) = <<c>>
OBVIOUS
=============================================================================
