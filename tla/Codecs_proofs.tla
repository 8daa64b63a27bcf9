---------------------------- MODULE Codecs_proofs ----------------------------
(***************************************************************************)
(* A row is read as it was written, or not at all: RowsSurvive, for every  *)
(* width of the integers, base of the numerics and range of TIMESTAMP, and *)
(* for all rows of the program and of other clients.                       *)
(*                                                                         *)
(* The proof is about the definitions more than about the steps.  Digits:  *)
(* what from_sql sums up, an error from the first fraction or the first    *)
(* sum beyond u128 on (Tracks), is the integer a numeric means, and what   *)
(* write_digits writes means the integer it was given (WriteNumericIs),    *)
(* with or without trailing zeros (TrimKeeps).  Calendar: days_from_civil  *)
(* counts the days of years and months (DaysFromCivilIs), and              *)
(* civil_from_days gives the date it counts back (CivilFromDaysIs).  Rows: *)
(* the reader gives each column or the first error (ReadColumnsIs).        *)
(*                                                                         *)
(* The functions the definitions choose exist (RecursionExists), and what  *)
(* they compute follows by induction on the naturals.                      *)
(***************************************************************************)
EXTENDS Codecs, Flattening_proofs

-----------------------------------------------------------------------------
(* Functions defined by recursion on the naturals.                         *)

\* The first n + 1 values of the function that starts with "first" and goes on by "rule".
Begins(first, rule, n, f) ==
    /\ f[0] = first
    /\ \A k \in Nat : k < n => f[k + 1] = rule[<<k, f[k]>>]

Part(first, rule, n, f, S) == f \in [0 .. n -> S] /\ Begins(first, rule, n, f)

LEMMA PartsExist ==
    ASSUME NEW S, NEW first \in S, NEW rule \in [Nat \X S -> S], NEW n \in Nat
    PROVE  \E f : Part(first, rule, n, f, S)
<1> DEFINE T == {k \in Nat : \E f : Part(first, rule, k, f, S)}
<1>1. 0 \in T
  <2> DEFINE f == [k \in 0 .. 0 |-> first]
  <2>1. f \in [0 .. 0 -> S] /\ f[0] = first
    OBVIOUS
  <2>2. Part(first, rule, 0, f, S)
    BY <2>1 DEF Part, Begins
  <2> HIDE DEF f
  <2> QED BY <2>2
<1>2. ASSUME NEW k \in Nat, k \in T PROVE k + 1 \in T
  <2>1. PICK f : Part(first, rule, k, f, S)
    BY <1>2
  <2> DEFINE e == rule[<<k, f[k]>>]
             g == [i \in 0 .. k + 1 |-> IF i = k + 1 THEN e ELSE f[i]]
  <2>2. e \in S
    BY <2>1 DEF Part
  <2>3. g \in [0 .. k + 1 -> S] /\ g[k + 1] = e /\ \A i \in 0 .. k : g[i] = f[i]
    <3>1. \A i \in 0 .. k + 1 : i # k + 1 => i \in 0 .. k
      OBVIOUS
    <3>2. \A i \in 0 .. k : i # k + 1 /\ i \in 0 .. k + 1
      OBVIOUS
    <3> HIDE DEF e
    <3> QED BY <2>1, <2>2, <3>1, <3>2 DEF Part
  <2> HIDE DEF g
  <2>4. Begins(first, rule, k + 1, g)
    <3>1. g[0] = first
      BY <2>1, <2>3 DEF Part, Begins
    <3>2. ASSUME NEW i \in Nat, i < k + 1 PROVE g[i + 1] = rule[<<i, g[i]>>]
      <4>1. CASE i = k
        BY <2>3, <4>1
      <4>2. CASE i < k
        <5>1. i \in 0 .. k /\ i + 1 \in 0 .. k
          BY <4>2
        <5> QED BY <2>1, <2>3, <4>2, <5>1 DEF Part, Begins
      <4> QED BY <3>2, <4>1, <4>2
    <3> QED BY <3>1, <3>2 DEF Begins
  <2> QED BY <2>3, <2>4 DEF Part
<1> HIDE DEF T
<1>3. Nat \subseteq T
  BY <1>1, <1>2, Induction
<1> QED BY <1>3 DEF T

LEMMA PartsAgree ==
    ASSUME NEW S, NEW first \in S, NEW rule, NEW m \in Nat, NEW n \in Nat, NEW f, NEW g,
           Part(first, rule, m, f, S), Part(first, rule, n, g, S)
    PROVE  \A k \in Nat : k <= m /\ k <= n => f[k] = g[k]
<1> DEFINE T == {k \in Nat : k <= m /\ k <= n => f[k] = g[k]}
<1>1. 0 \in T
  BY DEF Part, Begins
<1>2. ASSUME NEW k \in Nat, k \in T PROVE k + 1 \in T
  <2> SUFFICES ASSUME k + 1 <= m, k + 1 <= n PROVE f[k + 1] = g[k + 1]
    OBVIOUS
  <2>1. k < m /\ k < n /\ k <= m /\ k <= n
    OBVIOUS
  <2>2. f[k] = g[k]
    BY <1>2, <2>1
  <2> QED BY <2>1, <2>2 DEF Part, Begins
<1> HIDE DEF T
<1>3. Nat \subseteq T
  BY <1>1, <1>2, Induction
<1> QED BY <1>3 DEF T

Iterates(first, rule, f) == f[0] = first /\ \A k \in Nat : f[k + 1] = rule[<<k, f[k]>>]

LEMMA RecursionExists ==
    ASSUME NEW S, NEW first \in S, NEW rule \in [Nat \X S -> S]
    PROVE  \E f \in [Nat -> S] : Iterates(first, rule, f)
<1> DEFINE part(n) == CHOOSE g : Part(first, rule, n, g, S)
           f == [n \in Nat |-> part(n)[n]]
<1>1. \A n \in Nat : Part(first, rule, n, part(n), S)
  BY PartsExist
<1> HIDE DEF part
<1>2. f \in [Nat -> S]
  <2>1. \A n \in Nat : part(n)[n] \in S
    BY <1>1 DEF Part
  <2> QED BY <2>1
<1>3. f[0] = first
  BY <1>1 DEF Part, Begins
<1>4. ASSUME NEW k \in Nat PROVE f[k + 1] = rule[<<k, f[k]>>]
  <2>1. part(k + 1)[k + 1] = rule[<<k, part(k + 1)[k]>>]
    BY <1>1 DEF Part, Begins
  <2>2. part(k + 1)[k] = part(k)[k]
    <3>1. Part(first, rule, k + 1, part(k + 1), S) /\ Part(first, rule, k, part(k), S)
      BY <1>1
    <3> QED BY <3>1, PartsAgree
  <2> QED BY <2>1, <2>2
<1> HIDE DEF f
<1> QED BY <1>2, <1>3, <1>4 DEF Iterates

-----------------------------------------------------------------------------
(* Powers.                                                                 *)

LEMMA PowerIs ==
    ASSUME NEW b \in Nat
    PROVE  /\ Power(b, 0) = 1
           /\ \A n \in Nat : Power(b, n) \in Nat /\ Power(b, n + 1) = b * Power(b, n)
<1> DEFINE IsPlace(g) == g = [k \in Nat |-> IF k = 0 THEN 1 ELSE b * g[k - 1]]
           f == CHOOSE g : IsPlace(g)
<1>1. \E g : IsPlace(g)
  <2> DEFINE rule == [p \in Nat \X Nat |-> b * p[2]]
  <2>1. rule \in [Nat \X Nat -> Nat] /\ \A k, m \in Nat : rule[<<k, m>>] = b * m
    OBVIOUS
  <2> HIDE DEF rule
  <2> HIDE DEF f
  <2>2. PICK g \in [Nat -> Nat] : Iterates(1, rule, g)
    BY <2>1, RecursionExists
  <2>3. \A k \in Nat : g[k] = IF k = 0 THEN 1 ELSE b * g[k - 1]
    <3> SUFFICES ASSUME NEW k \in Nat, k # 0 PROVE g[k] = b * g[k - 1]
      BY <2>2 DEF Iterates
    <3>1. k - 1 \in Nat /\ (k - 1) + 1 = k
      OBVIOUS
    <3>2. g[k - 1] \in Nat
      BY <2>2, <3>1
    <3>3. g[k] = rule[<<k - 1, g[k - 1]>>]
      BY <2>2, <3>1 DEF Iterates
    <3> QED BY <2>1, <3>1, <3>2, <3>3
  <2>4. g = [k \in Nat |-> IF k = 0 THEN 1 ELSE b * g[k - 1]]
    BY <2>2, <2>3
  <2> QED BY <2>4
<1>2. f = [k \in Nat |-> IF k = 0 THEN 1 ELSE b * f[k - 1]]
  <2>1. IsPlace(f)
    <3> HIDE DEF IsPlace
    <3> QED BY <1>1
  <2> HIDE DEF f
  <2> QED BY <2>1
<1>3. \A n : Power(b, n) = f[n]
  BY DEF Power
<1> HIDE DEF f
<1>4. f[0] = 1 /\ \A n \in Nat : f[n + 1] = b * f[n]
  <2>1. \A n \in Nat : n + 1 \in Nat /\ n + 1 # 0 /\ (n + 1) - 1 = n
    OBVIOUS
  <2> QED BY <1>2, <2>1
<1>5. \A n \in Nat : f[n] \in Nat
  <2> DEFINE T == {n \in Nat : f[n] \in Nat}
  <2>1. 0 \in T /\ \A n \in Nat : n \in T => n + 1 \in T
    <3>1. \A n \in Nat : f[n] \in Nat => b * f[n] \in Nat
      OBVIOUS
    <3> QED BY <1>4, <3>1
  <2> HIDE DEF T
  <2>2. Nat \subseteq T
    BY <2>1, Induction
  <2> QED BY <2>2 DEF T
<1> QED BY <1>3, <1>4, <1>5

LEMMA PowersGrow ==
    ASSUME NEW b \in Nat, b >= 2, NEW m \in Nat, NEW n \in Nat, m <= n
    PROVE  1 <= Power(b, m) /\ Power(b, m) <= Power(b, n)
<1> DEFINE p(k) == Power(b, k)
           T == {k \in Nat : 1 <= p(k) /\ (m <= k => p(m) <= p(k))}
<1>1. p(0) = 1 /\ \A k \in Nat : p(k) \in Nat /\ p(k + 1) = b * p(k)
  BY PowerIs
<1> HIDE DEF p
<1>2. \A k \in Nat : p(k) <= p(k + 1)
  <2>1. \A x \in Nat : x <= b * x
    OBVIOUS
  <2> QED BY <1>1, <2>1
<1>3. 0 \in T
  <2>1. m <= 0 => m = 0
    OBVIOUS
  <2> QED BY <1>1, <2>1
<1>4. ASSUME NEW k \in Nat, k \in T PROVE k + 1 \in T
  <2>1. p(k) \in Nat /\ p(k + 1) \in Nat /\ p(m) \in Nat /\ p(k) <= p(k + 1)
    BY <1>1, <1>2
  <2>2. m <= k + 1 => m <= k \/ m = k + 1
    OBVIOUS
  <2> QED BY <1>4, <2>1, <2>2
<1> HIDE DEF T
<1>5. Nat \subseteq T
  BY <1>3, <1>4, Induction
<1>6. m \in T /\ n \in T
  BY <1>5
<1> QED BY <1>6 DEF T, p

-----------------------------------------------------------------------------
(* The ranges of the integer types.                                        *)

Largest == Power(2, Bits[128]) - 1

LEMMA RangesAre ==
    /\ Largest \in Nat
    /\ \A ty \in IntTypes : Values(ty) \subseteq Int /\ \A v \in Values(ty) : Magnitude(v) <= Largest
    /\ Values("u128") = 0 .. Largest
<1> DEFINE p(n) == Power(2, n)
<1>1. \A w \in {8, 16, 32, 64, 128} : Bits[w] \in Nat /\ Bits[w] >= 1 /\ Bits[w] <= Bits[128]
  <2>1. \A w \in {8, 16, 32, 64, 128} : Bits[w] \in Nat \ {0}
    BY WidthsGrow
  <2>2. Bits[8] < Bits[2 * 8] /\ Bits[16] < Bits[2 * 16] /\ Bits[32] < Bits[2 * 32] /\ Bits[64] < Bits[2 * 64]
    BY WidthsGrow
  <2>3. 2 * 8 = 16 /\ 2 * 16 = 32 /\ 2 * 32 = 64 /\ 2 * 64 = 128
    OBVIOUS
  <2>4. Bits[8] < Bits[16] /\ Bits[16] < Bits[32] /\ Bits[32] < Bits[64] /\ Bits[64] < Bits[128]
    BY <2>2, <2>3
  <2> QED BY <2>1, <2>4
<1>2. \A n \in Nat : p(n) \in Nat /\ p(n) >= 1
  BY PowerIs, PowersGrow
<1>3. \A m, n \in Nat : m <= n => p(m) <= p(n)
  BY PowersGrow
<1>4. \A n \in Nat : n >= 1 => p(n) = 2 * p(n - 1)
  <2> SUFFICES ASSUME NEW n \in Nat, n >= 1 PROVE p(n) = 2 * p(n - 1)
    OBVIOUS
  <2>1. n - 1 \in Nat /\ (n - 1) + 1 = n
    OBVIOUS
  <2> QED BY <2>1, PowerIs
<1> HIDE DEF p
<1>5. Largest = p(Bits[128]) - 1
  BY DEF Largest, p
<1>6. Largest \in Nat
  BY <1>1, <1>2, <1>5
<1>7. ASSUME NEW ty \in IntTypes
      PROVE  Values(ty) \subseteq Int /\ \A v \in Values(ty) : Magnitude(v) <= Largest
  <2> DEFINE b == Bits[WidthOf[ty]]
  <2>1. WidthOf[ty] \in {8, 16, 32, 64, 128}
    BY DEF IntTypes, WidthOf
  <2>2. b \in Nat /\ b >= 1 /\ b <= Bits[128] /\ Bits[128] \in Nat
    BY <1>1, <2>1
  <2>3. Values(ty) = IF ty \in SignedTypes THEN -p(b - 1) .. p(b - 1) - 1 ELSE 0 .. p(b) - 1
    BY DEF Values, p
  <2> HIDE DEF b
  <2>4. /\ p(b) = 2 * p(b - 1) /\ p(b - 1) \in Nat /\ p(b - 1) >= 1 /\ p(b) \in Nat
        /\ p(b) <= p(Bits[128]) /\ p(Bits[128]) \in Nat
    <3>1. b - 1 \in Nat
      BY <2>2
    <3> QED BY <1>2, <1>3, <1>4, <2>2, <3>1
  <2>5. Values(ty) \subseteq -p(b - 1) .. p(b) - 1 /\ p(b - 1) <= Largest /\ p(b) - 1 <= Largest
    BY <1>5, <2>3, <2>4
  <2>6. \A v \in -p(b - 1) .. p(b) - 1 : v \in Int /\ Magnitude(v) <= Largest
    BY <1>6, <2>4, <2>5 DEF Magnitude
  <2> QED BY <2>5, <2>6
<1>8. Values("u128") = 0 .. Largest
  BY DEF Values, WidthOf, SignedTypes, Largest
<1> QED BY <1>6, <1>7, <1>8

-----------------------------------------------------------------------------
(* What a numeric means, and what is read of it.                           *)

Base == NumericBase

LEMMA BaseIs == Base \in Nat /\ Base >= 2
BY ConstantsAreTyped DEF Base

LEMMA BasePowers ==
    /\ Power(Base, 0) = 1
    /\ \A k \in Nat : Power(Base, k) \in Nat /\ Power(Base, k) >= 1 /\ Power(Base, k + 1) = Base * Power(Base, k)
    /\ \A k, m \in Nat : k <= m => Power(Base, k) <= Power(Base, m)
BY BaseIs, PowerIs, PowersGrow

Place(n, i) == n.weight - (i - 1)
Term(n, i) == IF Place(n, i) >= 0 THEN n.digits[i] * Power(Base, Place(n, i)) ELSE 0
Fraction(n, i) == Place(n, i) < 0 /\ n.digits[i] # 0
HasFraction(n) == \E i \in 1 .. Len(n.digits) : Fraction(n, i)

Totals(n, f) ==
    /\ f \in [0 .. Len(n.digits) -> Nat] /\ f[0] = 0
    /\ \A i \in 1 .. Len(n.digits) : f[i] = f[i - 1] + Term(n, i)

LEMMA NumericHas ==
    ASSUME NEW n, IsNumeric(n)
    PROVE  /\ n.digits \in Seq(0 .. Base - 1) /\ Len(n.digits) \in Nat /\ n.weight \in Int
           /\ DOMAIN n.digits = 1 .. Len(n.digits)
           /\ \A i \in 1 .. Len(n.digits) : n.digits[i] \in 0 .. Base - 1 /\ n.digits[i] \in Nat
           /\ \A i \in 1 .. Len(n.digits) : Place(n, i) \in Int /\ Term(n, i) \in Nat
<1>1. /\ n.digits \in Seq(0 .. Base - 1) /\ Len(n.digits) \in Nat /\ n.weight \in Int
      /\ DOMAIN n.digits = 1 .. Len(n.digits)
  BY DEF IsNumeric, Base
<1>2. \A i \in 1 .. Len(n.digits) : n.digits[i] \in 0 .. Base - 1
  BY <1>1, ElementOfSeq
<1>3. \A i \in 1 .. Len(n.digits) : n.digits[i] \in Nat
  BY <1>2, BaseIs
<1>4. ASSUME NEW i \in 1 .. Len(n.digits) PROVE Place(n, i) \in Int /\ Term(n, i) \in Nat
  <2>1. Place(n, i) \in Int
    BY <1>1 DEF Place
  <2>2. CASE Place(n, i) >= 0
    <3>1. Power(Base, Place(n, i)) \in Nat
      <4>1. Place(n, i) \in Nat
        BY <2>1, <2>2
      <4> QED BY <4>1, BasePowers
    <3>2. n.digits[i] * Power(Base, Place(n, i)) \in Nat
      BY <1>3, <3>1
    <3> QED BY <2>1, <2>2, <3>2 DEF Term
  <2>3. CASE ~ (Place(n, i) >= 0)
    BY <2>1, <2>3 DEF Term
  <2> QED BY <2>2, <2>3
<1> QED BY <1>1, <1>2, <1>3, <1>4

LEMMA NumericValueIs ==
    ASSUME NEW n, IsNumeric(n), n.k # "nan"
    PROVE  \E f : /\ Totals(n, f)
                  /\ NumericValue(n) = IF HasFraction(n) THEN Err
                                       ELSE IF n.neg THEN -f[Len(n.digits)] ELSE f[Len(n.digits)]
<1> DEFINE L == Len(n.digits)
           Is(g) == g = [i \in 0 .. L |->
                           IF i = 0 THEN 0
                           ELSE g[i - 1]
                                  + IF n.weight - (i - 1) >= 0
                                      THEN n.digits[i] * Power(NumericBase, n.weight - (i - 1)) ELSE 0]
           f == CHOOSE g : Is(g)
<1>1. L \in Nat /\ \A i \in 1 .. L : Term(n, i) \in Nat
  BY NumericHas
<1>2. \A i \in 1 .. L :
        Term(n, i) = IF n.weight - (i - 1) >= 0
                       THEN n.digits[i] * Power(NumericBase, n.weight - (i - 1)) ELSE 0
  BY DEF Term, Place, Base
<1>3. \A i \in 0 .. L : i # 0 => i \in 1 .. L /\ i - 1 \in Nat /\ (i - 1) + 1 = i /\ i - 1 < L /\ i - 1 \in 0 .. L
  BY <1>1
<1>4. \A i \in 1 .. L : i # 0 /\ i \in 0 .. L
  BY <1>1
<1>5. \E g : Is(g)
  <2> DEFINE rule == [p \in Nat \X Nat |-> IF p[1] < L THEN p[2] + Term(n, p[1] + 1) ELSE 0]
  <2>1. /\ rule \in [Nat \X Nat -> Nat]
        /\ \A k, x \in Nat : k < L => rule[<<k, x>>] = x + Term(n, k + 1)
    <3>1. \A k \in Nat : k < L => k + 1 \in 1 .. L
      BY <1>1
    <3>2. \A k, x \in Nat : (IF k < L THEN x + Term(n, k + 1) ELSE 0) \in Nat
      BY <1>1, <3>1
    <3> QED BY <3>2
  <2> HIDE DEF rule, L
  <2>2. PICK g : Part(0, rule, L, g, Nat)
    BY <1>1, <2>1, PartsExist
  <2>3. g \in [0 .. L -> Nat] /\ g[0] = 0 /\ \A k \in Nat : k < L => g[k + 1] = rule[<<k, g[k]>>]
    BY <2>2 DEF Part, Begins
  <2>4. ASSUME NEW i \in 0 .. L, i # 0 PROVE g[i] = g[i - 1] + Term(n, i)
    <3>1. g[i - 1] \in Nat /\ g[i] = rule[<<i - 1, g[i - 1]>>]
      BY <1>3, <2>3, <2>4
    <3> QED BY <1>3, <2>1, <2>4, <3>1
  <2>5. \A i \in 0 .. L : g[i] = IF i = 0 THEN 0 ELSE g[i - 1] + Term(n, i)
    BY <2>3, <2>4
  <2>6. g = [i \in 0 .. L |-> IF i = 0 THEN 0 ELSE g[i - 1] + Term(n, i)]
    BY <2>3, <2>5
  <2>7. Is(g)
    BY <1>2, <1>3, <2>6
  <2> HIDE DEF Is
  <2> QED BY <2>7
<1>6. Is(f)
  <2> HIDE DEF Is
  <2> QED BY <1>5
<1>7. NumericValue(n) = IF HasFraction(n) THEN Err ELSE IF n.neg THEN -f[L] ELSE f[L]
  <2>1. (\E i \in DOMAIN n.digits : ~ (n.weight - (i - 1) >= 0) /\ n.digits[i] # 0) <=> HasFraction(n)
    <3>1. DOMAIN n.digits = 1 .. L /\ \A i \in 1 .. L : Place(n, i) \in Int
      BY NumericHas
    <3>2. \A i \in 1 .. L : ~ (n.weight - (i - 1) >= 0) <=> Place(n, i) < 0
      BY <3>1 DEF Place
    <3> QED BY <3>1, <3>2 DEF HasFraction, Fraction
  <2> QED BY <2>1 DEF NumericValue
<1>8. Totals(n, f)
  <2>1. f = [i \in 0 .. L |-> IF i = 0 THEN 0 ELSE f[i - 1] + Term(n, i)]
    <3> HIDE DEF f
    <3> QED BY <1>2, <1>3, <1>6
  <2> HIDE DEF f
  <2>2. f[0] = 0 /\ \A i \in 1 .. L : f[i] = f[i - 1] + Term(n, i)
    <3>1. 0 \in 0 .. L
      BY <1>1
    <3> HIDE DEF L
    <3> QED BY <1>4, <2>1, <3>1
  <2>3. 0 .. L \subseteq {i \in 0 .. L : f[i] \in Nat}
    <3> DEFINE T == {i \in Nat : i <= L => f[i] \in Nat}
    <3>1. 0 \in T
      BY <2>2
    <3>2. ASSUME NEW i \in Nat, i \in T PROVE i + 1 \in T
      <4> SUFFICES ASSUME i + 1 <= L PROVE f[i + 1] \in Nat
        OBVIOUS
      <4>1. i + 1 \in 1 .. L /\ (i + 1) - 1 = i /\ i <= L
        BY <1>1
      <4> QED BY <1>1, <2>2, <3>2, <4>1
    <3> HIDE DEF T
    <3>3. Nat \subseteq T
      BY <3>1, <3>2, Induction
    <3> QED BY <1>1, <3>3 DEF T
  <2>4. \A i \in 0 .. L : f[i] \in Nat
    BY <2>3
  <2>5. f \in [0 .. L -> Nat]
    BY <2>1, <2>4
  <2> QED BY <2>2, <2>5 DEF Totals
<1> HIDE DEF f
<1> QED BY <1>7, <1>8

\* The sum after one more digit.
Added(n, x, i) ==
    IF x = Err THEN Err
    ELSE IF Place(n, i) < 0 THEN IF n.digits[i] # 0 THEN Err ELSE x
    ELSE IF Checked(Power(Base, Place(n, i))) = Err THEN Err
    ELSE IF Checked(n.digits[i] * Power(Base, Place(n, i))) = Err THEN Err
    ELSE Checked(x + n.digits[i] * Power(Base, Place(n, i)))

Sums(n, f) ==
    /\ f \in [0 .. Len(n.digits) -> Nat \cup {Err}] /\ f[0] = 0
    /\ \A i \in 1 .. Len(n.digits) : f[i] = Added(n, f[i - 1], i)

LEMMA ErrIsNoNumber == Err \notin Int /\ Null \notin Int /\ Null # Err
BY NullAndErrAreNoValues

LEMMA CheckedIs ==
    ASSUME NEW m \in Nat
    PROVE  Checked(m) = (IF m <= Largest THEN m ELSE Err) /\ Checked(m) \in Nat \cup {Err}
BY RangesAre DEF Checked

LEMMA AddedIs ==
    ASSUME NEW n, IsNumeric(n), NEW i \in 1 .. Len(n.digits), NEW x \in Nat
    PROVE  Added(n, x, i) =
             IF \/ Fraction(n, i)
                \/ Place(n, i) >= 0 /\ Power(Base, Place(n, i)) > Largest
                \/ x + Term(n, i) > Largest /\ Place(n, i) >= 0
               THEN Err ELSE x + Term(n, i)
<1>1. /\ Place(n, i) \in Int /\ n.digits[i] \in Nat /\ Term(n, i) \in Nat
      /\ x # Err /\ Largest \in Nat
  BY NumericHas, ErrIsNoNumber, RangesAre
<1>2. CASE Place(n, i) < 0
  <2>1. ~ (Place(n, i) >= 0) /\ Term(n, i) = 0
    BY <1>1, <1>2 DEF Term
  <2> QED BY <1>1, <1>2, <2>1 DEF Added, Fraction
<1>3. CASE Place(n, i) >= 0
  <2> DEFINE p == Power(Base, Place(n, i))
             t == n.digits[i] * p
  <2>1. Place(n, i) \in Nat
    BY <1>1, <1>3
  <2>2. p \in Nat /\ t \in Nat /\ x + t \in Nat
    <3>1. p \in Nat
      BY <2>1, BasePowers
    <3> HIDE DEF p
    <3> QED BY <1>1, <3>1
  <2>3. Term(n, i) = t /\ ~ (Place(n, i) < 0)
    BY <1>1, <1>3 DEF Term
  <2>4. Added(n, x, i) = IF Checked(p) = Err THEN Err
                         ELSE IF Checked(t) = Err THEN Err ELSE Checked(x + t)
    BY <1>1, <2>3 DEF Added
  <2> HIDE DEF t
  <2> HIDE DEF p
  <2>5. /\ Checked(p) = Err <=> p > Largest
        /\ Checked(t) = Err <=> t > Largest
        /\ Checked(x + t) = IF x + t <= Largest THEN x + t ELSE Err
    BY <1>1, <2>2, CheckedIs, ErrIsNoNumber
  <2>6. t > Largest => x + t > Largest
    BY <1>1, <2>2
  <2>7. x + t > Largest <=> ~ (x + t <= Largest)
    BY <1>1, <2>2
  <2>8. Added(n, x, i) = IF p > Largest \/ x + t > Largest THEN Err ELSE x + t
    BY <2>4, <2>5, <2>6, <2>7
  <2> QED BY <1>3, <2>3, <2>8 DEF Fraction, p
<1> QED BY <1>1, <1>2, <1>3

\* A leading digit is not zero, so what has its place or a lower one is no more than the whole.
LEMMA TotalsGrow ==
    ASSUME NEW n, IsNumeric(n), NEW f, Totals(n, f), NEW i \in 1 .. Len(n.digits)
    PROVE  /\ f[i - 1] \in Nat /\ f[i] \in Nat /\ f[i - 1] <= f[i]
           /\ Place(n, i) >= 0 => Power(Base, Place(n, i)) <= f[i]
<1> DEFINE L == Len(n.digits)
           T == {k \in Nat : k + 1 \in 1 .. L => Term(n, 1) <= f[k + 1]}
<1>1. /\ L \in Nat /\ \A k \in 1 .. L : Term(n, k) \in Nat /\ Place(n, k) \in Int /\ n.digits[k] \in Nat
      /\ 1 \in 1 .. L /\ n.weight \in Int /\ n.digits # <<>>
  <2>1. 1 \in 1 .. L /\ L \in Nat
    BY NumericHas
  <2>2. n.digits # <<>>
    BY <2>1, NumericHas, EmptySeq
  <2> QED BY <2>1, <2>2, NumericHas
<1>2. \A k \in 1 .. L : f[k] = f[k - 1] + Term(n, k) /\ f[k] \in Nat /\ f[k - 1] \in Nat
  <2>1. \A k \in 1 .. L : k \in 0 .. L /\ k - 1 \in 0 .. L
    BY <1>1
  <2> QED BY <2>1 DEF Totals
<1> HIDE DEF L
<1>3. 0 \in T
  <2>1. f[1] = f[0] + Term(n, 1) /\ f[0] = 0 /\ Term(n, 1) \in Nat
    BY <1>1, <1>2 DEF Totals
  <2> QED BY <2>1
<1>4. ASSUME NEW k \in Nat, k \in T PROVE k + 1 \in T
  <2> SUFFICES ASSUME k + 2 \in 1 .. L PROVE Term(n, 1) <= f[k + 2]
    BY DEF T
  <2>1. k + 1 \in 1 .. L /\ (k + 2) - 1 = k + 1
    BY <1>1
  <2>2. f[k + 2] = f[k + 1] + Term(n, k + 2) /\ f[k + 1] \in Nat /\ Term(n, k + 2) \in Nat /\ Term(n, 1) \in Nat
    BY <1>1, <1>2, <2>1
  <2> QED BY <1>4, <2>1, <2>2
<1> HIDE DEF T
<1>5. Nat \subseteq T
  BY <1>3, <1>4, Induction
<1>6. i \in 1 .. L /\ i - 1 \in Nat /\ (i - 1) + 1 = i
  BY <1>1 DEF L
<1>7. Term(n, 1) <= f[i]
  BY <1>5, <1>6 DEF T
<1>8. ASSUME Place(n, i) >= 0 PROVE Power(Base, Place(n, i)) <= Term(n, 1)
  <2>1. Place(n, i) \in Nat /\ Place(n, 1) \in Nat /\ Place(n, i) <= Place(n, 1)
    BY <1>1, <1>6, <1>8 DEF Place
  <2>2. n.digits[1] # 0
    BY <1>1 DEF IsNumeric
  <2>3. Term(n, 1) = n.digits[1] * Power(Base, Place(n, 1))
    BY <2>1 DEF Term
  <2>4. /\ Power(Base, Place(n, 1)) \in Nat /\ Power(Base, Place(n, i)) \in Nat
        /\ Power(Base, Place(n, i)) <= Power(Base, Place(n, 1))
    BY <2>1, BasePowers
  <2>5. \A d, p \in Nat : d # 0 => p <= d * p
    OBVIOUS
  <2>6. n.digits[1] \in Nat
    BY <1>1
  <2>7. Power(Base, Place(n, 1)) <= Term(n, 1)
    BY <2>2, <2>3, <2>4, <2>5, <2>6
  <2>8. Term(n, 1) \in Nat
    BY <1>1
  <2> QED BY <2>4, <2>7, <2>8
<1>9. ASSUME Place(n, i) >= 0 PROVE Power(Base, Place(n, i)) <= f[i]
  <2>1. Place(n, i) \in Nat /\ Term(n, 1) \in Nat /\ f[i] \in Nat
    BY <1>1, <1>2, <1>6, <1>9
  <2>2. Power(Base, Place(n, i)) \in Nat
    BY <2>1, BasePowers
  <2> QED BY <1>7, <1>8, <1>9, <2>1, <2>2
<1> QED BY <1>1, <1>2, <1>6, <1>9

LEMMA ReadNumericIs ==
    ASSUME NEW n, IsNumeric(n), n.k # "nan"
    PROVE  \E f : /\ Sums(n, f)
                  /\ ReadNumeric(n) = IF n.weight < -1 \/ f[Len(n.digits)] = Err THEN Err
                                      ELSE IF n.neg THEN -f[Len(n.digits)] ELSE f[Len(n.digits)]
<1> DEFINE L == Len(n.digits)
           S == Nat \cup {Err}
           Is(g) == g = [i \in 0 .. L |->
              IF i = 0 THEN 0
              ELSE IF g[i - 1] = Err THEN Err
              ELSE IF n.weight - (i - 1) < 0 THEN IF n.digits[i] # 0 THEN Err ELSE g[i - 1]
              ELSE IF Checked(Power(NumericBase, n.weight - (i - 1))) = Err THEN Err
              ELSE IF Checked(n.digits[i] * Power(NumericBase, n.weight - (i - 1))) = Err THEN Err
              ELSE Checked(g[i - 1] + n.digits[i] * Power(NumericBase, n.weight - (i - 1)))]
           f == CHOOSE g : Is(g)
<1>1. L \in Nat
  BY NumericHas
<1>2. \A i \in 1 .. L, x \in S : Added(n, x, i) \in S
  <2> SUFFICES ASSUME NEW i \in 1 .. L, NEW x \in S PROVE Added(n, x, i) \in S
    OBVIOUS
  <2>1. CASE x = Err
    BY <2>1 DEF Added
  <2>2. CASE x \in Nat
    <3>1. x + Term(n, i) \in Nat
      BY <2>2, NumericHas
    <3> QED BY <2>2, <3>1, AddedIs
  <2> QED BY <2>1, <2>2
<1>3. \A i \in 0 .. L : i # 0 => i \in 1 .. L /\ i - 1 \in Nat /\ (i - 1) + 1 = i /\ i - 1 < L /\ i - 1 \in 0 .. L
  BY <1>1
<1>4. \A i \in 1 .. L : i # 0 /\ i \in 0 .. L
  BY <1>1
<1>5. ASSUME NEW g, g = [i \in 0 .. L |-> IF i = 0 THEN 0 ELSE Added(n, g[i - 1], i)]
      PROVE  Is(g)
  BY <1>5 DEF Added, Place, Base
<1>6. ASSUME NEW g, Is(g)
      PROVE  g = [i \in 0 .. L |-> IF i = 0 THEN 0 ELSE Added(n, g[i - 1], i)]
  BY <1>6 DEF Added, Place, Base
<1>7. \E g : Is(g)
  <2> DEFINE rule == [p \in Nat \X S |-> IF p[1] < L THEN Added(n, p[2], p[1] + 1) ELSE 0]
  <2>1. /\ rule \in [Nat \X S -> S]
        /\ \A k \in Nat, x \in S : k < L => rule[<<k, x>>] = Added(n, x, k + 1)
    <3>1. \A k \in Nat : k < L => k + 1 \in 1 .. L
      BY <1>1
    <3>2. \A k \in Nat, x \in S : (IF k < L THEN Added(n, x, k + 1) ELSE 0) \in S
      BY <1>2, <3>1
    <3> HIDE DEF S
    <3> QED BY <3>2
  <2>2. 0 \in S
    OBVIOUS
  <2> HIDE DEF rule, L, S
  <2>3. PICK g : Part(0, rule, L, g, S)
    BY <1>1, <2>1, <2>2, PartsExist
  <2>4. g \in [0 .. L -> S] /\ g[0] = 0 /\ \A k \in Nat : k < L => g[k + 1] = rule[<<k, g[k]>>]
    BY <2>3 DEF Part, Begins
  <2>5. ASSUME NEW i \in 0 .. L, i # 0 PROVE g[i] = Added(n, g[i - 1], i)
    <3>1. g[i - 1] \in S /\ g[i] = rule[<<i - 1, g[i - 1]>>]
      BY <1>3, <2>4, <2>5
    <3> QED BY <1>3, <2>1, <2>5, <3>1
  <2>6. \A i \in 0 .. L : g[i] = IF i = 0 THEN 0 ELSE Added(n, g[i - 1], i)
    BY <2>4, <2>5
  <2>7. g = [i \in 0 .. L |-> IF i = 0 THEN 0 ELSE Added(n, g[i - 1], i)]
    BY <2>4, <2>6
  <2> HIDE DEF Is
  <2> QED BY <1>5, <2>7 DEF L
<1>8. Is(f)
  <2> HIDE DEF Is
  <2> QED BY <1>7
<1>9. f = [i \in 0 .. L |-> IF i = 0 THEN 0 ELSE Added(n, f[i - 1], i)]
  <2> HIDE DEF f, Is
  <2> QED BY <1>6, <1>8
<1>10. ReadNumeric(n) = IF n.weight < -1 \/ f[L] = Err THEN Err ELSE IF n.neg THEN -f[L] ELSE f[L]
  BY DEF ReadNumeric
<1> HIDE DEF f, Is
<1>11. Sums(n, f)
  <2>1. f[0] = 0 /\ \A i \in 1 .. L : f[i] = Added(n, f[i - 1], i)
    <3>1. 0 \in 0 .. L
      BY <1>1
    <3> HIDE DEF L
    <3> QED BY <1>4, <1>9, <3>1
  <2>2. \A i \in 0 .. L : f[i] \in S
    <3> DEFINE T == {i \in Nat : i <= L => f[i] \in S}
    <3>1. 0 \in T
      BY <2>1
    <3>2. ASSUME NEW i \in Nat, i \in T PROVE i + 1 \in T
      <4> SUFFICES ASSUME i + 1 <= L PROVE f[i + 1] \in S
        OBVIOUS
      <4>1. i + 1 \in 1 .. L /\ (i + 1) - 1 = i /\ i <= L
        BY <1>1
      <4> HIDE DEF S
      <4> QED BY <1>2, <2>1, <3>2, <4>1
    <3> HIDE DEF T
    <3>3. Nat \subseteq T
      BY <3>1, <3>2, Induction
    <3> QED BY <1>1, <3>3 DEF T
  <2>3. f \in [0 .. L -> S]
    BY <1>9, <2>2
  <2> QED BY <2>1, <2>3 DEF Sums
<1> QED BY <1>10, <1>11

\* The checked sum is the sum as long as it is a whole number within u128, and an error from there on.
LEMMA Tracks ==
    ASSUME NEW n, IsNumeric(n), NEW f, Totals(n, f), NEW g, Sums(n, g), NEW i \in 0 .. Len(n.digits)
    PROVE  /\ g[i] = Err <=> ((\E j \in 1 .. i : Fraction(n, j)) \/ f[i] > Largest)
           /\ g[i] # Err => g[i] = f[i]
<1> DEFINE L == Len(n.digits)
           Fails(k) == \E j \in 1 .. k : Fraction(n, j)
           P(k) == (g[k] = Err <=> (Fails(k) \/ f[k] > Largest)) /\ (g[k] # Err => g[k] = f[k])
           T == {k \in Nat : k <= L => P(k)}
<1>1. L \in Nat /\ Largest \in Nat
  BY NumericHas, RangesAre
<1>2. 0 \in T
  <2>1. ~Fails(0) /\ f[0] = 0 /\ g[0] = 0
    BY DEF Totals, Sums
  <2> QED BY <1>1, <2>1, ErrIsNoNumber
<1>3. ASSUME NEW k \in Nat, k \in T PROVE k + 1 \in T
  <2> SUFFICES ASSUME k + 1 <= L PROVE P(k + 1)
    OBVIOUS
  <2>1. k + 1 \in 1 .. L /\ (k + 1) - 1 = k /\ P(k) /\ k <= L
    BY <1>1, <1>3
  <2>2. /\ f[k] \in Nat /\ f[k + 1] \in Nat /\ f[k] <= f[k + 1]
        /\ Place(n, k + 1) >= 0 => Power(Base, Place(n, k + 1)) <= f[k + 1]
    BY <2>1, TotalsGrow
  <2>3. f[k + 1] = f[k] + Term(n, k + 1) /\ g[k + 1] = Added(n, g[k], k + 1)
    BY <2>1 DEF Totals, Sums
  <2>4. Fails(k + 1) <=> Fails(k) \/ Fraction(n, k + 1)
    <3>1. \A j : j \in 1 .. k + 1 <=> j \in 1 .. k \/ j = k + 1
      OBVIOUS
    <3> QED BY <3>1
  <2> HIDE DEF Fails
  <2>5. CASE g[k] = Err
    <3>1. g[k + 1] = Err
      BY <2>3, <2>5 DEF Added
    <3>2. Fails(k) \/ f[k] > Largest
      BY <2>1, <2>5
    <3>3. Fails(k + 1) \/ f[k + 1] > Largest
      BY <1>1, <2>2, <2>4, <3>2
    <3> QED BY <3>1, <3>3
  <2>6. CASE g[k] # Err
    <3>1. g[k] = f[k] /\ ~Fails(k) /\ ~(f[k] > Largest)
      BY <2>1, <2>6
    <3>2. g[k + 1] = IF \/ Fraction(n, k + 1)
                        \/ Place(n, k + 1) >= 0 /\ Power(Base, Place(n, k + 1)) > Largest
                        \/ f[k + 1] > Largest /\ Place(n, k + 1) >= 0
                       THEN Err ELSE f[k + 1]
      BY <2>1, <2>2, <2>3, <3>1, AddedIs
    <3>3. f[k + 1] > Largest => Place(n, k + 1) >= 0
      <4>1. ~(Place(n, k + 1) >= 0) => f[k + 1] = f[k]
        BY <2>2, <2>3 DEF Term
      <4> QED BY <3>1, <4>1
    <3>4. Place(n, k + 1) >= 0 /\ Power(Base, Place(n, k + 1)) > Largest => f[k + 1] > Largest
      <4> SUFFICES ASSUME Place(n, k + 1) >= 0, Power(Base, Place(n, k + 1)) > Largest
                   PROVE  f[k + 1] > Largest
        OBVIOUS
      <4>1. Place(n, k + 1) \in Nat
        BY <2>1, NumericHas
      <4>2. Power(Base, Place(n, k + 1)) \in Nat
        BY <4>1, BasePowers
      <4> QED BY <1>1, <2>2, <4>2
    <3>5. f[k + 1] # Err
      BY <2>2, ErrIsNoNumber
    <3> QED BY <2>4, <3>1, <3>2, <3>3, <3>4, <3>5
  <2> QED BY <2>5, <2>6
<1> HIDE DEF T
<1>4. Nat \subseteq T
  BY <1>2, <1>3, Induction
<1>5. i \in Nat /\ i <= L
  BY <1>1
<1> QED BY <1>4, <1>5 DEF T

\* from_sql gives the integer the numeric means, or an error when it means none or one beyond every type.
LEMMA ReadIsValue ==
    ASSUME NEW n, IsNumeric(n)
    PROVE  \/ ReadNumeric(n) = NumericValue(n) /\ NumericValue(n) \in Int \cup {Err}
           \/ /\ ReadNumeric(n) = Err /\ NumericValue(n) \in Int
              /\ \A ty \in IntTypes : NumericValue(n) \notin Values(ty)
<1> DEFINE L == Len(n.digits)
<1>1. CASE n.k = "nan"
  BY <1>1 DEF ReadNumeric, NumericValue
<1>2. CASE n.k # "nan"
  <2>1. PICK f : /\ Totals(n, f)
                 /\ NumericValue(n) = IF HasFraction(n) THEN Err ELSE IF n.neg THEN -f[L] ELSE f[L]
    BY <1>2, NumericValueIs
  <2>2. PICK g : /\ Sums(n, g)
                 /\ ReadNumeric(n) = IF n.weight < -1 \/ g[L] = Err THEN Err ELSE IF n.neg THEN -g[L] ELSE g[L]
    BY <1>2, ReadNumericIs
  <2>3. L \in Nat /\ L \in 0 .. L /\ f[L] \in Nat /\ Largest \in Nat /\ n.weight \in Int
    <3>1. L \in Nat /\ Largest \in Nat /\ n.weight \in Int
      BY NumericHas, RangesAre
    <3> HIDE DEF L
    <3>2. L \in 0 .. L
      BY <3>1
    <3> QED BY <2>1, <3>1, <3>2 DEF Totals, L
  <2>4. /\ g[L] = Err <=> (HasFraction(n) \/ f[L] > Largest)
        /\ g[L] # Err => g[L] = f[L]
    BY <2>1, <2>2, <2>3, Tracks DEF HasFraction
  <2>5. n.weight < -1 => HasFraction(n)
    <3> SUFFICES ASSUME n.weight < -1 PROVE HasFraction(n)
      OBVIOUS
    <3>1. n.digits # <<>> /\ n.digits[1] # 0
      BY <2>3 DEF IsNumeric
    <3>2. 1 \in 1 .. L
      BY <3>1, NumericHas, EmptySeq
    <3>3. Place(n, 1) < 0
      BY <2>3 DEF Place
    <3> QED BY <3>1, <3>2, <3>3 DEF HasFraction, Fraction
  <2>6. CASE HasFraction(n)
    BY <2>1, <2>2, <2>4, <2>6
  <2>7. CASE ~HasFraction(n) /\ f[L] > Largest
    <3>1. ReadNumeric(n) = Err
      BY <2>2, <2>4, <2>7
    <3>2. NumericValue(n) \in Int /\ Magnitude(NumericValue(n)) = f[L]
      BY <2>1, <2>3, <2>7 DEF Magnitude
    <3>3. ASSUME NEW ty \in IntTypes, NumericValue(n) \in Values(ty) PROVE FALSE
      <4>1. Magnitude(NumericValue(n)) <= Largest
        BY <3>3, RangesAre
      <4> QED BY <2>3, <2>7, <3>2, <4>1
    <3> QED BY <3>1, <3>2, <3>3
  <2>8. CASE ~HasFraction(n) /\ ~(f[L] > Largest)
    <3>1. NumericValue(n) = IF n.neg THEN -f[L] ELSE f[L]
      BY <2>1, <2>8
    <3>2. ReadNumeric(n) = IF n.neg THEN -f[L] ELSE f[L]
      BY <2>2, <2>4, <2>5, <2>8
    <3> QED BY <2>3, <3>1, <3>2
  <2> QED BY <2>6, <2>7, <2>8
<1> QED BY <1>1, <1>2

-----------------------------------------------------------------------------
(* The digits write_digits gives, and what the server keeps of them.       *)

LEMMA Divides ==
    ASSUME NEW a \in Nat
    PROVE  /\ a \div Base \in Nat /\ a % Base \in 0 .. Base - 1
           /\ a = Base * (a \div Base) + (a % Base)
           /\ a # 0 => a \div Base < a
           /\ a \div Base = 0 => a % Base = a
<1> DEFINE q == a \div Base
           r == a % Base
<1>1. Base \in Nat /\ Base >= 2
  BY BaseIs
<1>2. q \in Int /\ r \in 0 .. Base - 1 /\ a = Base * q + r
  BY <1>1
<1> HIDE DEF q, r
<1>3. q >= 0
  <2> SUFFICES ASSUME q <= -1 PROVE FALSE
    BY <1>2
  <2>1. Base * q <= -Base
    BY <1>1, <1>2
  <2> QED BY <1>1, <1>2, <2>1
<1>4. a # 0 => q < a
  <2> SUFFICES ASSUME q >= a, a # 0 PROVE FALSE
    BY <1>2
  <2>1. Base * q >= 2 * q /\ Base * q \in Int
    BY <1>1, <1>2, <1>3
  <2>2. q > 0 /\ r >= 0 /\ q \in Int /\ r \in Int
    BY <1>1, <1>2
  <2>3. Base * q + r >= 2 * q
    BY <2>1, <2>2
  <2> QED BY <1>2, <2>2, <2>3
<1>5. ASSUME q = 0 PROVE r = a
  <2>1. \A x \in Nat : x * 0 = 0
    OBVIOUS
  <2>2. a = 0 + r
    BY <1>1, <1>2, <1>5, <2>1
  <2>3. r \in Int
    BY <1>1, <1>2
  <2> QED BY <2>2, <2>3
<1> QED BY <1>2, <1>3, <1>4, <1>5 DEF q, r

\* What the loop leaves of m after each round, and the number of its rounds.
Leaves(m, f, r) ==
    /\ f \in [Nat -> Nat] /\ f[0] = m /\ \A k \in Nat : f[k + 1] = f[k] \div Base
    /\ r \in Nat /\ f[r] = 0 /\ \A j \in 0 .. r - 1 : f[j] # 0

LEMMA WriteDigitsIs ==
    ASSUME NEW m \in Nat
    PROVE  \E f, r : Leaves(m, f, r) /\ WriteDigits(m) = [i \in 1 .. r |-> f[r - i] % Base]
<1> DEFINE Is(g) == g = [k \in Nat |-> IF k = 0 THEN m ELSE g[k - 1] \div NumericBase]
           f == CHOOSE g : Is(g)
           Ends(k) == f[k] = 0 /\ \A j \in 0 .. k - 1 : f[j] # 0
           r == CHOOSE k \in 0 .. m : Ends(k)
<1>1. \E g : Is(g) /\ g \in [Nat -> Nat]
  <2> DEFINE rule == [p \in Nat \X Nat |-> p[2] \div Base]
  <2>1. rule \in [Nat \X Nat -> Nat] /\ \A k, x \in Nat : rule[<<k, x>>] = x \div Base
    BY Divides
  <2> HIDE DEF rule, f
  <2>2. PICK g \in [Nat -> Nat] : Iterates(m, rule, g)
    BY <2>1, RecursionExists
  <2>3. \A k \in Nat : g[k] = IF k = 0 THEN m ELSE g[k - 1] \div Base
    <3> SUFFICES ASSUME NEW k \in Nat, k # 0 PROVE g[k] = g[k - 1] \div Base
      BY <2>2 DEF Iterates
    <3>1. k - 1 \in Nat /\ (k - 1) + 1 = k
      OBVIOUS
    <3>2. g[k - 1] \in Nat
      BY <2>2, <3>1
    <3>3. g[k] = rule[<<k - 1, g[k - 1]>>]
      BY <2>2, <3>1 DEF Iterates
    <3> QED BY <2>1, <3>1, <3>2, <3>3
  <2>4. g = [k \in Nat |-> IF k = 0 THEN m ELSE g[k - 1] \div Base]
    BY <2>2, <2>3
  <2> QED BY <2>2, <2>4 DEF Base
<1>2. f = [k \in Nat |-> IF k = 0 THEN m ELSE f[k - 1] \div Base]
  <2>1. Is(f)
    <3> HIDE DEF Is
    <3> QED BY <1>1
  <2> HIDE DEF f
  <2> QED BY <2>1 DEF Base
<1>3. WriteDigits(m) = [i \in 1 .. r |-> f[r - i] % Base]
  BY DEF WriteDigits, Base
<1> HIDE DEF f, Is
<1>4. f[0] = m /\ \A k \in Nat : f[k + 1] = f[k] \div Base
  <2>1. \A k \in Nat : k + 1 \in Nat /\ k + 1 # 0 /\ (k + 1) - 1 = k
    OBVIOUS
  <2> QED BY <1>2, <2>1
<1>5. \A k \in Nat : f[k] \in Nat
  <2> DEFINE T == {k \in Nat : f[k] \in Nat}
  <2>1. 0 \in T /\ \A k \in Nat : k \in T => k + 1 \in T
    BY <1>4, Divides
  <2> HIDE DEF T
  <2>2. Nat \subseteq T
    BY <2>1, Induction
  <2> QED BY <2>2 DEF T
<1>6. f \in [Nat -> Nat]
  BY <1>2, <1>5
<1>7. \A k \in Nat : f[k] = 0 \/ f[k] + k <= m
  <2> DEFINE T == {k \in Nat : f[k] = 0 \/ f[k] + k <= m}
  <2>1. 0 \in T
    BY <1>4, <1>5
  <2>2. ASSUME NEW k \in Nat, k \in T PROVE k + 1 \in T
    <3>1. f[k] \in Nat /\ f[k + 1] \in Nat /\ f[k + 1] = f[k] \div Base
      BY <1>4, <1>5
    <3>2. CASE f[k] = 0
      <4>1. f[k + 1] = 0
        <5>1. 0 \div Base = 0
          BY BaseIs
        <5> QED BY <3>1, <3>2, <5>1
      <4> QED BY <4>1
    <3>3. CASE f[k] # 0
      <4>1. f[k + 1] < f[k]
        BY <3>1, <3>3, Divides
      <4> QED BY <2>2, <3>1, <3>3, <4>1
    <3> QED BY <3>2, <3>3
  <2> HIDE DEF T
  <2>3. Nat \subseteq T
    BY <2>1, <2>2, Induction
  <2> QED BY <2>3 DEF T
<1>8. \E k \in 0 .. m : Ends(k)
  <2> DEFINE T == {k \in Nat : k <= m => (\A j \in 0 .. k : f[j] # 0) \/ \E i \in 0 .. k : Ends(i)}
  <2>1. 0 \in T
    <3>1. \A j : j \in 0 .. 0 <=> j = 0
      OBVIOUS
    <3>2. f[0] = 0 => Ends(0)
      OBVIOUS
    <3> HIDE DEF Ends
    <3> QED BY <3>1, <3>2
  <2>2. ASSUME NEW k \in Nat, k \in T PROVE k + 1 \in T
    <3> SUFFICES ASSUME k + 1 <= m PROVE (\A j \in 0 .. k + 1 : f[j] # 0) \/ \E i \in 0 .. k + 1 : Ends(i)
      OBVIOUS
    <3>1. \A j : j \in 0 .. k + 1 <=> j \in 0 .. k \/ j = k + 1
      OBVIOUS
    <3>2. (k + 1) - 1 = k /\ k <= m
      OBVIOUS
    <3>3. CASE \E i \in 0 .. k : Ends(i)
      <4> HIDE DEF Ends
      <4> QED BY <3>1, <3>3
    <3>4. CASE \A j \in 0 .. k : f[j] # 0
      BY <3>1, <3>2, <3>4
    <3> QED BY <2>2, <3>2, <3>3, <3>4
  <2> HIDE DEF T
  <2>3. Nat \subseteq T
    BY <2>1, <2>2, Induction
  <2>4. m \in T /\ m <= m /\ m \in 0 .. m
    BY <2>3
  <2>5. f[m] = 0
    <3>1. f[m] \in Nat /\ (f[m] = 0 \/ f[m] + m <= m)
      BY <1>5, <1>7
    <3> QED BY <3>1
  <2>6. (\A j \in 0 .. m : f[j] # 0) \/ \E i \in 0 .. m : Ends(i)
    <3> HIDE DEF Ends
    <3> QED BY <2>4 DEF T
  <2> HIDE DEF Ends
  <2>7. ~(\A j \in 0 .. m : f[j] # 0)
    BY <2>4, <2>5
  <2> QED BY <2>6, <2>7
<1>9. r \in 0 .. m /\ Ends(r)
  <2> HIDE DEF Ends
  <2> QED BY <1>8
<1>10. Leaves(m, f, r)
  <2> HIDE DEF r
  <2>1. r \in Nat
    BY <1>9
  <2> QED BY <1>4, <1>6, <1>9, <2>1, BaseIs DEF Leaves
<1> HIDE DEF r
<1> QED BY <1>3, <1>10

\* A numeric a statement binds or a column keeps.
Numeric(neg, weight, digits) == [k |-> "numeric", neg |-> neg, weight |-> weight, digits |-> digits]

\* write_numeric loses nothing: the digits are canonical and mean the integer.
LEMMA WriteNumericIs ==
    ASSUME NEW v \in Int
    PROVE  LET n == WriteNumeric(v)
           IN  /\ n = Numeric(n.neg, n.weight, n.digits) /\ n.neg \in BOOLEAN
               /\ IsNumeric(n) /\ NumericValue(n) = v
<1> DEFINE m == Magnitude(v)
           n == WriteNumeric(v)
<1>1. m \in Nat /\ (v = 0 <=> m = 0) /\ (v < 0 => v = -m) /\ (~(v < 0) => v = m)
  BY DEF Magnitude
<1> HIDE DEF m
<1>2. PICK f, r : Leaves(m, f, r) /\ WriteDigits(m) = [i \in 1 .. r |-> f[r - i] % Base]
  BY <1>1, WriteDigitsIs
<1>3. /\ f \in [Nat -> Nat] /\ f[0] = m /\ \A k \in Nat : f[k + 1] = f[k] \div Base
      /\ r \in Nat /\ f[r] = 0 /\ \A j \in 0 .. r - 1 : f[j] # 0
  BY <1>2 DEF Leaves
<1>4. /\ n.digits = [i \in 1 .. r |-> f[r - i] % Base] /\ n.k = "numeric" /\ n.neg = (v < 0)
      /\ n.weight = IF v = 0 THEN 0 ELSE Len(n.digits) - 1
  BY <1>2 DEF WriteNumeric, m
<1> HIDE DEF n
<1>5. \A i \in 1 .. r : r - i \in Nat /\ f[r - i] \in Nat /\ f[r - i] % Base \in 0 .. Base - 1
  <2>1. \A i \in 1 .. r : r - i \in Nat
    BY <1>3
  <2> QED BY <1>3, <2>1, Divides
<1>6. n.digits \in Seq(0 .. Base - 1) /\ Len(n.digits) = r
  <2> DEFINE ds == [i \in 1 .. r |-> f[r - i] % Base]
  <2>1. ds \in Seq(0 .. Base - 1) /\ Len(ds) = r
    BY <1>3, <1>5
  <2>2. n.digits = ds
    BY <1>4
  <2> HIDE DEF ds
  <2> QED BY <2>1, <2>2
<1>7. v = 0 <=> r = 0
  <2>1. v # 0 => r # 0
    BY <1>1, <1>3
  <2>2. r # 0 => v # 0
    <3>1. r # 0 => 0 \in 0 .. r - 1
      BY <1>3
    <3> QED BY <1>1, <1>3, <3>1
  <2> QED BY <2>1, <2>2
<1>8. n.weight \in Int /\ (r # 0 => n.weight = r - 1)
  <2>1. n.weight = IF v = 0 THEN 0 ELSE r - 1
    <3>1. n.weight = IF v = 0 THEN 0 ELSE Len(n.digits) - 1
      BY <1>4
    <3> QED BY <1>6, <3>1
  <2> QED BY <1>3, <1>7, <2>1
<1>9. r # 0 => n.digits[1] # 0
  <2> SUFFICES ASSUME r # 0 PROVE n.digits[1] # 0
    OBVIOUS
  <2>1. 1 \in 1 .. r /\ r - 1 \in Nat /\ (r - 1) + 1 = r /\ r - 1 \in 0 .. r - 1
    BY <1>3
  <2>2. f[r - 1] \in Nat /\ f[r - 1] # 0 /\ f[r - 1] \div Base = 0
    <3>1. f[(r - 1) + 1] = f[r - 1] \div Base
      BY <1>3, <2>1
    <3> QED BY <1>3, <2>1, <3>1
  <2>3. f[r - 1] % Base = f[r - 1]
    BY <2>2, Divides
  <2> QED BY <1>4, <2>1, <2>2, <2>3
<1>10. IsNumeric(n)
  <2>1. n.digits = <<>> <=> r = 0
    BY <1>6, EmptySeq
  <2>2. r = 0 => n.weight = 0
    BY <1>4, <1>7
  <2> QED BY <1>6, <1>8, <1>9, <2>1, <2>2 DEF IsNumeric, Base
<1>11. ~HasFraction(n)
  <2> SUFFICES ASSUME NEW i \in 1 .. r, Fraction(n, i) PROVE FALSE
    BY <1>6 DEF HasFraction
  <2>1. r # 0 /\ r \in Nat /\ i \in Int /\ i <= r
    BY <1>3
  <2>2. Place(n, i) = r - i
    BY <1>8, <2>1 DEF Place
  <2> QED BY <2>1, <2>2 DEF Fraction
<1>12. PICK g : /\ Totals(n, g)
                /\ NumericValue(n) = IF HasFraction(n) THEN Err
                                     ELSE IF n.neg THEN -g[Len(n.digits)] ELSE g[Len(n.digits)]
  BY <1>4, <1>10, NumericValueIs
<1>13. /\ g \in [0 .. r -> Nat] /\ g[0] = 0 /\ \A i \in 1 .. r : g[i] = g[i - 1] + Term(n, i)
  BY <1>6, <1>12 DEF Totals
<1>14. \A i \in 0 .. r : g[i] = f[r - i] * Power(Base, r - i)
  <2> DEFINE T == {i \in Nat : i <= r => g[i] = f[r - i] * Power(Base, r - i)}
  <2>1. 0 \in T
    <3>1. r - 0 = r /\ Power(Base, r) \in Nat
      BY <1>3, BasePowers
    <3>2. \A x \in Nat : 0 * x = 0
      OBVIOUS
    <3> QED BY <1>3, <1>13, <3>1, <3>2
  <2>2. ASSUME NEW i \in Nat, i \in T PROVE i + 1 \in T
    <3> SUFFICES ASSUME i + 1 <= r PROVE g[i + 1] = f[r - (i + 1)] * Power(Base, r - (i + 1))
      OBVIOUS
    <3> DEFINE k == r - (i + 1)
    <3>1. /\ k \in Nat /\ r - i = k + 1 /\ i + 1 \in 1 .. r /\ (i + 1) - 1 = i /\ i <= r /\ r # 0
      BY <1>3
    <3>2. Place(n, i + 1) = k
      BY <1>3, <1>8, <3>1 DEF Place
    <3>3. n.digits[i + 1] = f[k] % Base
      BY <1>4, <3>1
    <3> HIDE DEF k
    <3>4. Term(n, i + 1) = (f[k] % Base) * Power(Base, k)
      BY <3>1, <3>2, <3>3 DEF Term
    <3>5. g[i] = f[k + 1] * Power(Base, k + 1)
      BY <2>2, <3>1
    <3>6. f[k + 1] = f[k] \div Base /\ Power(Base, k + 1) = Base * Power(Base, k)
      BY <1>3, <3>1, BasePowers
    <3>7. g[i + 1] = (f[k] \div Base) * (Base * Power(Base, k)) + (f[k] % Base) * Power(Base, k)
      BY <1>13, <3>1, <3>4, <3>5, <3>6
    <3>8. f[k] \in Nat /\ Power(Base, k) \in Nat
      BY <1>3, <3>1, BasePowers
    <3>9. /\ f[k] \div Base \in Nat /\ f[k] % Base \in Nat
          /\ f[k] = Base * (f[k] \div Base) + (f[k] % Base)
      <4>1. \A x \in 0 .. Base - 1 : x \in Nat
        BY BaseIs
      <4> QED BY <3>8, <4>1, Divides
    <3>10. \A b, q, x, p \in Nat : q * (b * p) + x * p = (b * q + x) * p
      OBVIOUS
    <3>11. g[i + 1] = f[k] * Power(Base, k)
      BY <3>7, <3>8, <3>9, <3>10, BaseIs
    <3> QED BY <3>11 DEF k
  <2> HIDE DEF T
  <2>3. Nat \subseteq T
    BY <2>1, <2>2, Induction
  <2> QED BY <1>3, <2>3 DEF T
<1>15. g[r] = m
  <2>1. r \in 0 .. r /\ r - r = 0
    BY <1>3
  <2>2. g[r] = f[0] * Power(Base, 0)
    BY <1>14, <2>1
  <2> QED BY <1>1, <1>3, <2>2, BasePowers
<1>16. NumericValue(n) = v
  <2>1. NumericValue(n) = IF n.neg THEN -m ELSE m
    BY <1>6, <1>11, <1>12, <1>15
  <2>2. n.neg = (v < 0)
    BY <1>4
  <2> QED BY <1>1, <2>1, <2>2
<1>17. n = Numeric(n.neg, n.weight, n.digits) /\ n.neg \in BOOLEAN
  BY DEF n, WriteNumeric, Numeric
<1> QED BY <1>10, <1>16, <1>17 DEF n

\* The server drops zeros that count for nothing.
LEMMA TrimKeeps ==
    ASSUME NEW n, n = Numeric(n.neg, n.weight, n.digits), IsNumeric(n)
    PROVE  LET t == TrimZeros(n)
           IN  t.k = "numeric" /\ IsNumeric(t) /\ NumericValue(t) = NumericValue(n)
<1> DEFINE L == Len(n.digits)
           LastDigit(k) == (k # 0 => n.digits[k] # 0) /\ \A i \in k + 1 .. L : n.digits[i] = 0
           last == CHOOSE k \in 0 .. L : LastDigit(k)
           t == TrimZeros(n)
<1>1. L \in Nat /\ \A i \in 1 .. L : n.digits[i] \in 0 .. Base - 1
  BY NumericHas
<1>2. \E k \in 0 .. L : LastDigit(k)
  <2> DEFINE Has(x) == \E k \in 0 .. L : k <= x /\ (k # 0 => n.digits[k] # 0)
                                         /\ \A i \in k + 1 .. x : n.digits[i] = 0
             T == {x \in Nat : x <= L => Has(x)}
  <2>1. 0 \in T
    <3>1. 0 \in 0 .. L /\ 0 <= 0 /\ \A i \in 0 + 1 .. 0 : n.digits[i] = 0
      BY <1>1
    <3> HIDE DEF L
    <3> QED BY <3>1
  <2>2. ASSUME NEW x \in Nat, x \in T PROVE x + 1 \in T
    <3> SUFFICES ASSUME x + 1 <= L PROVE Has(x + 1)
      OBVIOUS
    <3>1. Has(x) /\ x + 1 \in 0 .. L
      BY <1>1, <2>2
    <3>2. CASE n.digits[x + 1] # 0
      <4>1. \A i \in (x + 1) + 1 .. x + 1 : FALSE
        OBVIOUS
      <4> HIDE DEF L
      <4> QED BY <3>1, <3>2, <4>1
    <3>3. CASE n.digits[x + 1] = 0
      <4> HIDE DEF L
      <4>1. PICK k \in 0 .. L : k <= x /\ (k # 0 => n.digits[k] # 0) /\ \A i \in k + 1 .. x : n.digits[i] = 0
        BY <3>1
      <4>2. \A i \in k + 1 .. x + 1 : i \in k + 1 .. x \/ i = x + 1
        BY <4>1
      <4>3. k <= x + 1
        BY <4>1
      <4>4. \A i \in k + 1 .. x + 1 : n.digits[i] = 0
        BY <3>3, <4>1, <4>2
      <4> QED BY <4>1, <4>3, <4>4
    <3> QED BY <3>2, <3>3
  <2> HIDE DEF T, Has
  <2>3. Nat \subseteq T
    BY <2>1, <2>2, Induction
  <2>4. Has(L)
    <3>1. L <= L
      BY <1>1
    <3> HIDE DEF L
    <3> QED BY <1>1, <2>3, <3>1 DEF T
  <2> HIDE DEF L
  <2> QED BY <2>4 DEF Has
<1>3. last \in 0 .. L /\ LastDigit(last)
  <2> HIDE DEF Last
  <2> QED BY <1>2
<1>4. t = Numeric(n.neg, n.weight, [i \in 1 .. last |-> n.digits[i]])
  <2> DEFINE ds == [i \in 1 .. last |-> n.digits[i]]
  <2>1. t = [n EXCEPT !.digits = ds]
    BY DEF TrimZeros
  <2>2. \A neg, w, d, e : [Numeric(neg, w, d) EXCEPT !.digits = e] = Numeric(neg, w, e)
    BY DEF Numeric
  <2> HIDE DEF t, ds
  <2>3. t = Numeric(n.neg, n.weight, ds)
    <3> DEFINE a == n.neg
               b == n.weight
               c == n.digits
    <3>1. n = Numeric(a, b, c)
      OBVIOUS
    <3> HIDE DEF a, b, c
    <3>2. t = Numeric(a, b, ds)
      BY <2>1, <2>2, <3>1
    <3> QED BY <3>2 DEF a, b
  <2> QED BY <2>3 DEF ds
<1> HIDE DEF t, last
<1>5. /\ t.k = "numeric" /\ t.weight = n.weight /\ t.neg = n.neg /\ n.k = "numeric"
      /\ t.digits = [i \in 1 .. last |-> n.digits[i]]
  BY <1>4 DEF Numeric
<1>6. last \in Nat /\ last <= L /\ \A i \in 1 .. last : i \in 1 .. L
  BY <1>1, <1>3
<1>7. t.digits \in Seq(0 .. Base - 1) /\ Len(t.digits) = last /\ \A i \in 1 .. last : t.digits[i] = n.digits[i]
  BY <1>1, <1>5, <1>6
<1>8. L # 0 => last # 0
  <2> SUFFICES ASSUME L # 0, last = 0 PROVE FALSE
    OBVIOUS
  <2>1. n.digits[1] = 0
    <3>1. 1 \in last + 1 .. L
      BY <1>1
    <3> QED BY <1>3, <3>1
  <2>2. n.digits # <<>>
    BY NumericHas, EmptySeq
  <2> QED BY <2>1, <2>2 DEF IsNumeric
<1>9. IsNumeric(t)
  <2>1. (n.digits = <<>> <=> L = 0) /\ (t.digits = <<>> <=> last = 0)
    <3>1. n.digits \in Seq(0 .. Base - 1)
      BY NumericHas
    <3> QED BY <1>7, <3>1, EmptySeq
  <2>2. n.weight \in Int /\ IF L = 0 THEN n.weight = 0 ELSE n.digits[1] # 0
    BY <2>1 DEF IsNumeric
  <2>3. last = 0 => L = 0
    BY <1>8
  <2>4. last # 0 => L # 0 /\ 1 \in 1 .. last
    BY <1>6
  <2>5. IF last = 0 THEN t.weight = 0 ELSE t.digits[1] # 0
    <3> HIDE DEF L
    <3> QED BY <1>5, <1>7, <2>2, <2>3, <2>4
  <2> QED BY <1>5, <1>7, <2>1, <2>2, <2>5 DEF IsNumeric, Base
<1>10. \A i \in 1 .. last : Term(t, i) = Term(n, i) /\ (Fraction(t, i) <=> Fraction(n, i))
  BY <1>5, <1>7 DEF Term, Fraction, Place
<1>11. \A i \in 1 .. L : i \in 1 .. last \/ (n.digits[i] = 0 /\ i \in last + 1 .. L)
  <2>1. \A i \in 1 .. L : i \in 1 .. last \/ i \in last + 1 .. L
    BY <1>6
  <2> QED BY <1>3, <2>1
<1>12. HasFraction(t) <=> HasFraction(n)
  <2>1. HasFraction(t) => HasFraction(n)
    BY <1>6, <1>7, <1>10 DEF HasFraction
  <2>2. ASSUME NEW i \in 1 .. L, Fraction(n, i) PROVE HasFraction(t)
    <3>1. i \in 1 .. last
      BY <1>11, <2>2 DEF Fraction
    <3> QED BY <1>7, <1>10, <2>2, <3>1 DEF HasFraction
  <2> QED BY <2>1, <2>2 DEF HasFraction
<1>13. \A i \in last + 1 .. L : Term(n, i) = 0
  <2> SUFFICES ASSUME NEW i \in last + 1 .. L PROVE Term(n, i) = 0
    OBVIOUS
  <2>1. n.digits[i] = 0 /\ i \in 1 .. L
    BY <1>3, <1>6
  <2>2. Place(n, i) \in Int
    BY <2>1, NumericHas
  <2>3. CASE Place(n, i) >= 0
    <3>1. Power(Base, Place(n, i)) \in Nat
      BY <2>2, <2>3, BasePowers
    <3>2. \A x \in Nat : 0 * x = 0
      OBVIOUS
    <3> QED BY <2>1, <2>3, <3>1, <3>2 DEF Term
  <2>4. CASE ~(Place(n, i) >= 0)
    BY <2>4 DEF Term
  <2> QED BY <2>3, <2>4
<1>14. PICK f : /\ Totals(n, f)
                /\ NumericValue(n) = IF HasFraction(n) THEN Err ELSE IF n.neg THEN -f[L] ELSE f[L]
  BY <1>5, NumericValueIs
<1>15. PICK g : /\ Totals(t, g)
                /\ NumericValue(t) = IF HasFraction(t) THEN Err
                                     ELSE IF t.neg THEN -g[last] ELSE g[last]
  BY <1>5, <1>7, <1>9, NumericValueIs
<1>16. \A i \in 0 .. last : g[i] = f[i]
  <2> DEFINE T == {i \in Nat : i <= last => g[i] = f[i]}
  <2>1. 0 \in T
    BY <1>14, <1>15 DEF Totals
  <2>2. ASSUME NEW i \in Nat, i \in T PROVE i + 1 \in T
    <3> SUFFICES ASSUME i + 1 <= last PROVE g[i + 1] = f[i + 1]
      OBVIOUS
    <3>1. i + 1 \in 1 .. last /\ i + 1 \in 1 .. L /\ (i + 1) - 1 = i /\ i <= last
      BY <1>6
    <3>2. g[i + 1] = g[i] + Term(t, i + 1)
      BY <1>7, <1>15, <3>1 DEF Totals
    <3>3. f[i + 1] = f[i] + Term(n, i + 1)
      BY <1>14, <3>1 DEF Totals
    <3> QED BY <1>10, <2>2, <3>1, <3>2, <3>3
  <2> HIDE DEF T
  <2>3. Nat \subseteq T
    BY <2>1, <2>2, Induction
  <2> QED BY <1>6, <2>3 DEF T
<1>17. \A i \in last .. L : f[i] = f[last]
  <2> DEFINE T == {i \in Nat : i >= last /\ i <= L => f[i] = f[last]}
  <2>1. 0 \in T
    BY <1>6
  <2>2. ASSUME NEW i \in Nat, i \in T PROVE i + 1 \in T
    <3> SUFFICES ASSUME i + 1 > last, i + 1 <= L PROVE f[i + 1] = f[last]
      BY <1>6
    <3>1. i + 1 \in last + 1 .. L /\ i + 1 \in 1 .. L /\ (i + 1) - 1 = i /\ i >= last /\ i <= L /\ i \in 0 .. L
      BY <1>1, <1>6
    <3>2. f[i + 1] = f[i] + Term(n, i + 1) /\ f[i] \in Nat
      BY <1>14, <3>1 DEF Totals
    <3> QED BY <1>13, <2>2, <3>1, <3>2
  <2> HIDE DEF T
  <2>3. Nat \subseteq T
    BY <2>1, <2>2, Induction
  <2> QED BY <1>6, <2>3 DEF T
<1>18. g[last] = f[L]
  <2>1. last \in 0 .. last /\ L \in last .. L
    BY <1>1, <1>6
  <2> QED BY <1>16, <1>17, <2>1
<1>19. NumericValue(t) = NumericValue(n)
  BY <1>5, <1>12, <1>14, <1>15, <1>18
<1> QED BY <1>5, <1>9, <1>19 DEF t

\* An integer written by Encode and kept by the server is read back as itself.
LEMMA NumericSurvives ==
    ASSUME NEW ty \in IntTypes, NEW v \in Values(ty)
    PROVE  LET t == TrimZeros(WriteNumeric(v))
           IN  t.k = "numeric" /\ ReadNumeric(t) = v
<1>1. v \in Int
  BY RangesAre
<1> DEFINE n == WriteNumeric(v)
           t == TrimZeros(n)
<1>2. n = Numeric(n.neg, n.weight, n.digits) /\ IsNumeric(n) /\ NumericValue(n) = v
  BY <1>1, WriteNumericIs
<1> HIDE DEF n
<1>3. t.k = "numeric" /\ IsNumeric(t) /\ NumericValue(t) = v
  BY <1>2, TrimKeeps
<1> HIDE DEF t
<1>4. ReadNumeric(t) = v
  BY <1>3, ReadIsValue
<1> QED BY <1>3, <1>4 DEF t, n

-----------------------------------------------------------------------------
(* The calendar: the source's arithmetic and the lengths of months.        *)

Sum(f, s) == f = [n \in Nat |-> IF n = 0 THEN 0 ELSE f[n - 1] + s[n]]

LEMMA SumsExist ==
    ASSUME NEW s \in [Nat -> Nat]
    PROVE  \E f : Sum(f, s)
<1> DEFINE rule == [p \in Nat \X Nat |-> p[2] + s[p[1] + 1]]
<1>1. rule \in [Nat \X Nat -> Nat] /\ \A k, x \in Nat : rule[<<k, x>>] = x + s[k + 1]
  OBVIOUS
<1> HIDE DEF rule
<1>2. PICK g \in [Nat -> Nat] : Iterates(0, rule, g)
  BY <1>1, RecursionExists
<1>3. \A k \in Nat : g[k] = IF k = 0 THEN 0 ELSE g[k - 1] + s[k]
  <2> SUFFICES ASSUME NEW k \in Nat, k # 0 PROVE g[k] = g[k - 1] + s[k]
    BY <1>2 DEF Iterates
  <2>1. k - 1 \in Nat /\ (k - 1) + 1 = k
    OBVIOUS
  <2>2. g[k - 1] \in Nat
    BY <1>2, <2>1
  <2>3. g[k] = rule[<<k - 1, g[k - 1]>>]
    BY <1>2, <2>1 DEF Iterates
  <2> QED BY <1>1, <2>1, <2>2, <2>3
<1>4. g = [k \in Nat |-> IF k = 0 THEN 0 ELSE g[k - 1] + s[k]]
  BY <1>2, <1>3
<1> QED BY <1>4 DEF Sum

Adds(f, s) == f[0] = 0 /\ \A n \in Nat : f[n] \in Nat /\ f[n + 1] = f[n] + s[n + 1]

LEMMA SumIs ==
    ASSUME NEW s \in [Nat -> Nat], NEW f, Sum(f, s)
    PROVE  Adds(f, s)
<1>1. f[0] = 0 /\ \A n \in Nat : f[n + 1] = f[n] + s[n + 1]
  <2>1. \A n \in Nat : n + 1 \in Nat /\ n + 1 # 0 /\ (n + 1) - 1 = n
    OBVIOUS
  <2> QED BY <2>1 DEF Sum
<1>2. \A n \in Nat : f[n] \in Nat
  <2> DEFINE T == {n \in Nat : f[n] \in Nat}
  <2>1. 0 \in T /\ \A n \in Nat : n \in T => n + 1 \in T
    <3>1. \A n \in Nat : s[n + 1] \in Nat
      OBVIOUS
    <3> QED BY <1>1, <3>1
  <2> HIDE DEF T
  <2>2. Nat \subseteq T
    BY <2>1, Induction
  <2> QED BY <2>2 DEF T
<1> QED BY <1>1, <1>2 DEF Adds

\* The days of the years up to and including y, counted from the year 1.
UpTo(y) == 365 * y + (y \div 4) - (y \div 100) + (y \div 400)

Leap(y) == IF IsLeap(y) THEN 1 ELSE 0

LEMMA YearIs == \A y \in Int : UpTo(y) \in Int /\ UpTo(y + 1) = UpTo(y) + 365 + Leap(y + 1)
<1>1. \A y \in Int : (y + 1) \div 4 = (y \div 4) + IF (y + 1) % 4 = 0 THEN 1 ELSE 0
  OBVIOUS
<1>2. \A y \in Int : (y + 1) \div 100 = (y \div 100) + IF (y + 1) % 100 = 0 THEN 1 ELSE 0
  OBVIOUS
<1>3. \A y \in Int : (y + 1) \div 400 = (y \div 400) + IF (y + 1) % 400 = 0 THEN 1 ELSE 0
  OBVIOUS
<1>4. \A y \in Int : (y % 400 = 0 => y % 100 = 0) /\ (y % 100 = 0 => y % 4 = 0)
  OBVIOUS
<1> QED BY <1>1, <1>2, <1>3, <1>4 DEF UpTo, Leap, IsLeap

MonthsUpTo(y, m) == IF m <= 2 THEN 31 * (m - 1) ELSE 59 + Leap(y) + ((153 * (m - 3) + 2) \div 5)

LEMMA DaysBeforeIs ==
    ASSUME NEW y \in Int, y >= 1970, NEW m \in 1 .. 12
    PROVE  DaysBefore(y, m) = UpTo(y - 1) - UpTo(1969) + MonthsUpTo(y, m)
<1> DEFINE yearLength == [n \in Nat |-> IF IsLeap(1969 + n) THEN 366 ELSE 365]
           monthLength == [n \in Nat |-> MonthLength(y, n)]
           IsYears(g) == g = [n \in Nat |-> IF n = 0 THEN 0
                                            ELSE g[n - 1] + IF IsLeap(1969 + n) THEN 366 ELSE 365]
           IsMonths(g) == g = [n \in Nat |-> IF n = 0 THEN 0 ELSE g[n - 1] + MonthLength(y, n)]
           years == CHOOSE g : IsYears(g)
           months == CHOOSE g : IsMonths(g)
<1>1. DaysBefore(y, m) = years[y - 1970] + months[m - 1]
  BY DEF DaysBefore
<1>2. yearLength \in [Nat -> Nat] /\ \A n \in Nat : yearLength[n] = 365 + Leap(1969 + n)
  BY DEF Leap
<1>3. monthLength \in [Nat -> Nat] /\ \A n \in Nat : monthLength[n] = MonthLength(y, n)
  BY DEF MonthLength
<1>4. \A g : IsYears(g) <=> Sum(g, yearLength)
  BY DEF Sum
<1>5. \A g : IsMonths(g) <=> Sum(g, monthLength)
  BY DEF Sum
<1> HIDE DEF yearLength, monthLength, IsYears, IsMonths
<1>6. Sum(years, yearLength) /\ Sum(months, monthLength)
  BY <1>2, <1>3, <1>4, <1>5, SumsExist
<1> HIDE DEF years, months
<1>7. \A n \in Nat : years[n] = UpTo(1969 + n) - UpTo(1969)
  <2> DEFINE T == {n \in Nat : years[n] = UpTo(1969 + n) - UpTo(1969)}
  <2>1. years[0] = 0 /\ \A n \in Nat : years[n] \in Nat /\ years[n + 1] = years[n] + yearLength[n + 1]
    <3>1. Adds(years, yearLength)
      BY <1>2, <1>6, SumIs
    <3> QED BY <3>1 DEF Adds
  <2>2. 0 \in T
    <3>1. UpTo(1969) \in Int /\ 1969 + 0 = 1969
      BY YearIs
    <3> QED BY <2>1, <3>1
  <2>3. ASSUME NEW n \in Nat, n \in T PROVE n + 1 \in T
    <3>1. UpTo(1969) \in Int /\ UpTo(1969 + n) \in Int /\ 1969 + (n + 1) = (1969 + n) + 1
      BY YearIs
    <3>2. UpTo(1969 + (n + 1)) = UpTo(1969 + n) + 365 + Leap(1969 + (n + 1))
      BY <3>1, YearIs
    <3>3. years[n + 1] = years[n] + 365 + Leap(1969 + (n + 1)) /\ Leap(1969 + (n + 1)) \in Nat
      BY <1>2, <2>1 DEF Leap
    <3>4. years[n + 1] = UpTo(1969 + (n + 1)) - UpTo(1969)
      BY <2>3, <3>1, <3>2, <3>3
    <3> QED BY <3>4
  <2> HIDE DEF T
  <2>4. Nat \subseteq T
    BY <2>2, <2>3, Induction
  <2> QED BY <2>4 DEF T
<1>8. years[y - 1970] = UpTo(y - 1) - UpTo(1969)
  <2>1. y - 1970 \in Nat /\ 1969 + (y - 1970) = y - 1
    OBVIOUS
  <2> QED BY <1>7, <2>1
<1>9. months[m - 1] = MonthsUpTo(y, m)
  <2>1. months[0] = 0 /\ \A n \in Nat : months[n] \in Nat /\ months[n + 1] = months[n] + MonthLength(y, n + 1)
    <3>1. Adds(months, monthLength)
      BY <1>3, <1>6, SumIs
    <3>2. \A n \in Nat : n + 1 \in Nat
      OBVIOUS
    <3> QED BY <1>3, <3>1, <3>2 DEF Adds
  <2>2. /\ months[0] = 0 /\ months[1] = months[0] + MonthLength(y, 1)
        /\ months[2] = months[1] + MonthLength(y, 2) /\ months[3] = months[2] + MonthLength(y, 3)
        /\ months[4] = months[3] + MonthLength(y, 4) /\ months[5] = months[4] + MonthLength(y, 5)
        /\ months[6] = months[5] + MonthLength(y, 6) /\ months[7] = months[6] + MonthLength(y, 7)
        /\ months[8] = months[7] + MonthLength(y, 8) /\ months[9] = months[8] + MonthLength(y, 9)
        /\ months[10] = months[9] + MonthLength(y, 10) /\ months[11] = months[10] + MonthLength(y, 11)
    BY <2>1
  <2>3. /\ MonthLength(y, 1) = 31 /\ MonthLength(y, 2) = 28 + Leap(y) /\ MonthLength(y, 3) = 31
        /\ MonthLength(y, 4) = 30 /\ MonthLength(y, 5) = 31 /\ MonthLength(y, 6) = 30
        /\ MonthLength(y, 7) = 31 /\ MonthLength(y, 8) = 31 /\ MonthLength(y, 9) = 30
        /\ MonthLength(y, 10) = 31 /\ MonthLength(y, 11) = 30 /\ Leap(y) \in Nat
    BY DEF MonthLength, Leap
  <2>4. /\ months[0] = 0 /\ months[1] = 31 /\ months[2] = 59 + Leap(y) /\ months[3] = 90 + Leap(y)
        /\ months[4] = 120 + Leap(y) /\ months[5] = 151 + Leap(y) /\ months[6] = 181 + Leap(y)
        /\ months[7] = 212 + Leap(y) /\ months[8] = 243 + Leap(y) /\ months[9] = 273 + Leap(y)
        /\ months[10] = 304 + Leap(y) /\ months[11] = 334 + Leap(y)
    BY <2>2, <2>3
  <2>5. \/ m = 1 \/ m = 2 \/ m = 3 \/ m = 4 \/ m = 5 \/ m = 6
        \/ m = 7 \/ m = 8 \/ m = 9 \/ m = 10 \/ m = 11 \/ m = 12
    OBVIOUS
  <2> QED BY <2>3, <2>4, <2>5 DEF MonthsUpTo
<1> QED BY <1>1, <1>8, <1>9

\* days_from_civil counts the days of the calendar.
LEMMA DaysFromCivilIs ==
    ASSUME NEW y \in Int, y >= 1970, NEW m \in 1 .. 12, NEW d \in Int
    PROVE  DaysFromCivil(y, m, d) = DaysBefore(y, m) + d - 1
<1> DEFINE year == IF m <= 2 THEN y - 1 ELSE y
           era  == Quot(IF year >= 0 THEN year ELSE year - 399, 400)
           yoe  == year - era * 400
           mi   == IF m > 2 THEN m - 3 ELSE m + 9
           doy  == ((153 * mi + 2) \div 5) + d - 1
<1>1. year \in Int /\ year >= 1969 /\ (m <= 2 => year = y - 1) /\ (~(m <= 2) => year = y)
  OBVIOUS
<1>2. DaysFromCivil(y, m, d) = era * 146097 + yoe * 365 + (yoe \div 4) - (yoe \div 100) + doy - 719468
  BY DEF DaysFromCivil
<1> HIDE DEF year
<1>3. era = year \div 400
  BY <1>1 DEF Quot
<1>4. era \in Int /\ yoe \in Int /\ 0 <= yoe /\ yoe <= 399 /\ year = 400 * era + yoe
  BY <1>1, <1>3
<1> HIDE DEF era, yoe
<1>5. UpTo(400 * era + yoe) = era * 146097 + yoe * 365 + (yoe \div 4) - (yoe \div 100)
  BY <1>4, SMTT(30) DEF UpTo
<1>6. doy \in Int
  OBVIOUS
<1>7. DaysFromCivil(y, m, d) = UpTo(year) + doy - 719468
  BY <1>2, <1>4, <1>5, <1>6
<1>8. DaysBefore(y, m) = UpTo(y - 1) - UpTo(1969) + MonthsUpTo(y, m)
  BY DaysBeforeIs
<1>9. UpTo(1969) = 719162
  BY DEF UpTo
<1>10. UpTo(y - 1) \in Int /\ UpTo(y) \in Int
  BY YearIs
<1>11. CASE m <= 2
  <2>1. m = 1 \/ m = 2
    BY <1>11
  <2>2. doy = 306 + 31 * (m - 1) + d - 1
    BY <2>1
  <2>3. MonthsUpTo(y, m) = 31 * (m - 1)
    BY <1>11 DEF MonthsUpTo
  <2> HIDE DEF doy
  <2> QED BY <1>1, <1>7, <1>8, <1>9, <1>10, <1>11, <2>2, <2>3
<1>12. CASE ~(m <= 2)
  <2>1. doy = ((153 * (m - 3) + 2) \div 5) + d - 1
    BY <1>12
  <2>2. MonthsUpTo(y, m) = 59 + Leap(y) + ((153 * (m - 3) + 2) \div 5) /\ Leap(y) \in Int
    BY <1>12 DEF MonthsUpTo, Leap
  <2>3. UpTo(y) = UpTo(y - 1) + 365 + Leap(y)
    <3>1. (y - 1) + 1 = y /\ y - 1 \in Int
      OBVIOUS
    <3> QED BY <3>1, YearIs
  <2>4. (153 * (m - 3) + 2) \div 5 \in Int
    OBVIOUS
  <2> HIDE DEF doy
  <2> QED BY <1>1, <1>7, <1>8, <1>9, <1>10, <1>12, <2>1, <2>2, <2>3, <2>4
<1> QED BY <1>11, <1>12

\* civil_from_days gives a date of the calendar, the one days_from_civil counts back.
LEMMA CivilFromDaysIs ==
    ASSUME NEW days \in Nat
    PROVE  LET c == CivilFromDays(days)
           IN  /\ c[1] \in Int /\ c[1] >= 1970 /\ c[2] \in 1 .. 12
               /\ c[3] \in 1 .. MonthLength(c[1], c[2])
               /\ DaysFromCivil(c[1], c[2], c[3]) = days
<1> DEFINE z   == days + 719468
           era == Quot(IF z >= 0 THEN z ELSE z - 146096, 146097)
           doe == z - era * 146097
           yoe == (doe - (doe \div 1460) + (doe \div 36524) - (doe \div 146096)) \div 365
           doy == doe - (365 * yoe + (yoe \div 4) - (yoe \div 100))
           mp  == (5 * doy + 2) \div 153
           m   == IF mp < 10 THEN mp + 3 ELSE mp - 9
           d   == doy - ((153 * mp + 2) \div 5) + 1
           y   == yoe + era * 400 + (IF m <= 2 THEN 1 ELSE 0)
<1>1. CivilFromDays(days) = <<y, m, d>>
  BY DEF CivilFromDays
<1>2. z \in Int /\ z >= 719468
  OBVIOUS
<1>3. era = z \div 146097
  BY <1>2 DEF Quot
<1>4. era \in Int /\ doe \in Int /\ 0 <= doe /\ doe <= 146096 /\ z = era * 146097 + doe /\ era >= 4
  BY <1>2, <1>3
<1> HIDE DEF era, doe
<1>5. yoe \in Int /\ 0 <= yoe /\ yoe <= 399
  BY <1>4
<1>6. doy \in Int /\ 0 <= doy /\ doy <= 365
  BY <1>4, SMTT(60)
<1>7. doy = 365 => (yoe + 1) % 4 = 0 /\ ((yoe + 1) % 100 = 0 => yoe = 399)
  BY <1>4, SMTT(60)
<1>8. doe = 365 * yoe + (yoe \div 4) - (yoe \div 100) + doy
  BY <1>4, <1>5
<1> HIDE DEF yoe, doy
<1>9. /\ mp \in Int /\ mp >= 0 /\ mp <= 11 /\ d \in Int /\ d >= 1 /\ d <= 31
      /\ (mp \in {1, 3, 6, 8} => d <= 30) /\ (mp = 11 => d <= 29) /\ (mp = 11 /\ d = 29 => doy = 365)
      /\ (mp < 10 <=> doy < 306)
  BY <1>6, SMTT(60)
<1>10. doy = ((153 * mp + 2) \div 5) + d - 1
  BY <1>6
<1> HIDE DEF mp, d
<1>11. m \in 1 .. 12 /\ (m <= 2 <=> mp >= 10) /\ mp = IF m > 2 THEN m - 3 ELSE m + 9
  BY <1>9
<1>12. y \in Int /\ y >= 1970
  <2>1. yoe + era * 400 >= 1969 /\ (yoe + era * 400 = 1969 => doy >= 306)
    <3>1. era >= 5 => yoe + era * 400 >= 2000
      BY <1>4, <1>5
    <3>2. era = 4 => doe >= 135080
      BY <1>2, <1>4
    <3>3. era = 4 => yoe >= 369 /\ (yoe = 369 => doy >= 306)
      BY <1>5, <1>6, <1>8, <3>2
    <3> QED BY <1>4, <1>5, <3>1, <3>3
  <2> HIDE DEF m
  <2> QED BY <1>4, <1>5, <1>6, <1>9, <1>11, <2>1
<1>13. d \in 1 .. MonthLength(y, m)
  <2>1. CASE m = 2
    <3>1. mp = 11 /\ y = yoe + era * 400 + 1
      BY <1>11, <2>1
    <3>2. d = 29 => IsLeap(y)
      <4> SUFFICES ASSUME d = 29 PROVE IsLeap(y)
        OBVIOUS
      <4>1. (yoe + 1) % 4 = 0 /\ ((yoe + 1) % 100 = 0 => yoe = 399)
        BY <1>7, <1>9, <3>1
      <4>2. y % 4 = (yoe + 1) % 4 /\ y % 100 = (yoe + 1) % 100 /\ (yoe = 399 => y % 400 = 0)
        BY <1>4, <1>5, <3>1
      <4> QED BY <4>1, <4>2 DEF IsLeap
    <3> QED BY <1>9, <2>1, <3>1, <3>2 DEF MonthLength
  <2>2. CASE m \in {4, 6, 9, 11}
    <3>1. mp \in {1, 3, 6, 8}
      BY <1>11, <2>2
    <3> QED BY <1>9, <2>2, <3>1 DEF MonthLength
  <2>3. CASE m # 2 /\ m \notin {4, 6, 9, 11}
    BY <1>9, <2>3 DEF MonthLength
  <2> QED BY <2>1, <2>2, <2>3
<1>14. DaysFromCivil(y, m, d) = days
  <2> DEFINE year == IF m <= 2 THEN y - 1 ELSE y
             e == Quot(IF year >= 0 THEN year ELSE year - 399, 400)
             k == year - e * 400
             mi == IF m > 2 THEN m - 3 ELSE m + 9
  <2>1. DaysFromCivil(y, m, d)
          = e * 146097 + k * 365 + (k \div 4) - (k \div 100) + (((153 * mi + 2) \div 5) + d - 1) - 719468
    BY DEF DaysFromCivil
  <2>2. year = yoe + era * 400
    BY <1>4, <1>5, <1>11
  <2>3. mi = mp
    BY <1>11
  <2> HIDE DEF year, mi
  <2>4. e = era
    BY <1>4, <1>5, <2>2 DEF Quot
  <2> HIDE DEF e
  <2>5. k = yoe
    BY <1>4, <1>5, <2>2, <2>4
  <2> HIDE DEF k
  <2>6. DaysFromCivil(y, m, d)
          = era * 146097 + yoe * 365 + (yoe \div 4) - (yoe \div 100) + doy - 719468
    BY <1>10, <2>1, <2>3, <2>4, <2>5
  <2>7. yoe \div 4 \in Int /\ yoe \div 100 \in Int
    BY <1>5
  <2>8. DaysFromCivil(y, m, d) = era * 146097 + doe - 719468
    <3> HIDE DEF y, m
    <3> QED BY <1>4, <1>5, <1>6, <1>8, <2>6, <2>7
  <2> HIDE DEF y, m
  <2> QED BY <1>4, <2>8
<1> HIDE DEF y, m
<1> QED BY <1>1, <1>11, <1>12, <1>13, <1>14

\* Decode gives the instant a timestamp of the column means.
LEMMA DecodeIs ==
    ASSUME NEW p, IsTimestamp(p)
    PROVE  DecodeSystemTime(p) = InstantOf(p)
<1>1. /\ p.day[1] \in Int /\ p.day[1] >= 1970 /\ p.day[2] \in 1 .. 12 /\ p.day[3] \in 1 .. 31
      /\ p.day[3] \in Int /\ p.hour <= 23 /\ p.minute <= 59 /\ p.second <= 59
      /\ p.ticks <= TicksPerSecond - 1
  <2>1. p.day[2] \in 1 .. 12 /\ p.day[3] \in 1 .. MonthLength(p.day[1], p.day[2])
    BY DEF IsTimestamp, IsDate
  <2>2. MonthLength(p.day[1], p.day[2]) \in {28, 29, 30, 31}
    BY DEF MonthLength
  <2>3. p.day[3] \in 1 .. 31
    BY <2>1, <2>2
  <2> QED BY <2>1, <2>3, ConstantsAreTyped DEF IsTimestamp
<1>2. DaysFromCivil(p.day[1], p.day[2], p.day[3]) = DaysBefore(p.day[1], p.day[2]) + p.day[3] - 1
  BY <1>1, DaysFromCivilIs
<1> QED BY <1>1, <1>2 DEF DecodeSystemTime, TakesDate, InstantOf

\* The microseconds of a second, and what is below them.
LEMMA MicrosAre ==
    ASSUME NEW n \in 0 .. TicksPerSecond * NanosPerMicro - 1
    PROVE  /\ n \div NanosPerMicro \in 0 .. TicksPerSecond - 1
           /\ (n \div NanosPerMicro) * NanosPerMicro \in Int
<1> DEFINE q == n \div NanosPerMicro
           r == n % NanosPerMicro
<1>1. /\ TicksPerSecond \in Nat /\ TicksPerSecond > 0 /\ NanosPerMicro \in Nat /\ NanosPerMicro > 0
      /\ TicksPerSecond * NanosPerMicro \in Int
  BY ConstantsAreTyped
<1>2. n \in Int /\ n >= 0 /\ n < TicksPerSecond * NanosPerMicro
  BY <1>1
<1>3. q \in Int /\ r \in Int /\ r >= 0 /\ r < NanosPerMicro /\ n = NanosPerMicro * q + r
  BY <1>1, <1>2
<1> HIDE DEF q, r
<1>4. q >= 0
  <2> SUFFICES ASSUME q <= -1 PROVE FALSE
    BY <1>3
  <2>1. NanosPerMicro * q <= -NanosPerMicro
    BY <1>1, <1>3
  <2> QED BY <1>1, <1>2, <1>3, <2>1
<1>5. q < TicksPerSecond
  <2> SUFFICES ASSUME q >= TicksPerSecond PROVE FALSE
    BY <1>1, <1>3
  <2>1. NanosPerMicro * q >= TicksPerSecond * NanosPerMicro /\ NanosPerMicro * q \in Int
    BY <1>1, <1>3
  <2> QED BY <1>1, <1>2, <1>3, <2>1
<1>6. q * NanosPerMicro \in Int
  BY <1>1, <1>3
<1> QED BY <1>1, <1>3, <1>4, <1>5, <1>6 DEF q

\* An instant before the epoch is bound as a second that is no TIMESTAMP's.
LEMMA EarlyIs ==
    ASSUME NEW t \in Instants, t[1] < 0
    PROVE  (-AsMicros(UntilEpoch(t))) \div TicksPerSecond <= 0
<1>1. /\ t[1] \in Int /\ t[2] \in 0 .. TicksPerSecond * NanosPerMicro - 1
      /\ TicksPerSecond \in Nat /\ TicksPerSecond > 0 /\ NanosPerMicro \in Nat /\ NanosPerMicro > 0
      /\ TicksPerSecond * NanosPerMicro \in Int
  BY ConstantsAreTyped DEF Instants
<1> DEFINE a == UntilEpoch(t)[1]
           b == UntilEpoch(t)[2]
           m == AsMicros(UntilEpoch(t))
<1>2. a \in Nat /\ b \in 0 .. TicksPerSecond * NanosPerMicro - 1
  <2>1. CASE t[2] = 0
    <3>1. UntilEpoch(t) = <<-t[1], 0>>
      BY <2>1 DEF UntilEpoch
    <3>2. TicksPerSecond * NanosPerMicro > 0
      BY <1>1
    <3> QED BY <1>1, <3>1, <3>2
  <2>2. CASE t[2] # 0
    <3>1. UntilEpoch(t) = <<-t[1] - 1, TicksPerSecond * NanosPerMicro - t[2]>>
      BY <2>2 DEF UntilEpoch
    <3> QED BY <1>1, <2>2, <3>1
  <2> QED BY <2>1, <2>2
<1>3. m = a * TicksPerSecond + b \div NanosPerMicro
  BY DEF AsMicros
<1>4. b \div NanosPerMicro \in Nat
  BY <1>1, <1>2, MicrosAre
<1> HIDE DEF a, b, m
<1>5. m \in Nat
  <2>1. a * TicksPerSecond \in Nat
    BY <1>1, <1>2
  <2> QED BY <1>3, <1>4, <2>1
<1>6. (-m) \div TicksPerSecond <= 0
  BY <1>1, <1>5
<1> QED BY <1>6 DEF m

\* Encode binds an instant in the range as the timestamp of its microsecond, and refuses any other.
LEMMA EncodeIs ==
    ASSUME NEW t \in Instants
    PROVE  LET p == EncodeSystemTime(t)
           IN  IF t[1] \in 1 .. TimestampLimit
                   THEN p.k = "date" /\ IsTimestamp(p) /\ InstantOf(p) = AtMicros(t)
                   ELSE p.k = "err"
<1> DEFINE micros  == t[2] \div NanosPerMicro
           ticks   == IF t[1] >= 0 THEN AsMicros(t) ELSE -AsMicros(UntilEpoch(t))
           seconds == ticks \div TicksPerSecond
           days    == seconds \div 86400
           day     == CivilFromDays(days)
           rem     == seconds % 86400
           p       == EncodeSystemTime(t)
<1>1. /\ t[1] \in Int /\ micros \in Int /\ 0 <= micros /\ micros < TicksPerSecond
      /\ TicksPerSecond \in Nat /\ TicksPerSecond > 0 /\ TimestampLimit \in Nat
  BY ConstantsAreTyped, MicrosAre DEF Instants
<1>2. ASSUME t[1] >= 0 PROVE seconds = t[1] /\ ticks % TicksPerSecond = micros
  <2>1. \A a, b, c : a \in Int /\ b \in Int /\ 0 <= b /\ b < c /\ c \in Nat =>
          (a * c + b) \div c = a /\ (a * c + b) % c = b
    OBVIOUS
  <2>2. ticks = t[1] * TicksPerSecond + micros
    BY <1>2 DEF AsMicros
  <2> HIDE DEF ticks, micros
  <2> QED BY <1>1, <2>1, <2>2, Zenon
<1>3. CASE t[1] \notin 1 .. TimestampLimit
  <2>1. seconds \notin 1 .. TimestampLimit
    <3>1. CASE t[1] >= 0
      BY <1>2, <1>3, <3>1
    <3>2. CASE t[1] < 0
      <4>1. ticks = -AsMicros(UntilEpoch(t))
        BY <1>1, <3>2
      <4>2. seconds <= 0
        BY <3>2, <4>1, EarlyIs
      <4> HIDE DEF seconds
      <4> QED BY <4>2
    <3> QED BY <1>1, <3>1, <3>2
  <2> HIDE DEF seconds
  <2>2. p = [k |-> "err"]
    BY <2>1 DEF EncodeSystemTime, seconds
  <2> QED BY <1>3, <2>2
<1>4. CASE t[1] \in 1 .. TimestampLimit
  <2>0. t[1] >= 0 /\ seconds = t[1] /\ ticks % TicksPerSecond = micros
    <3>1. t[1] >= 0
      BY <1>1, <1>4
    <3> QED BY <1>2, <3>1
  <2>1. p = [k |-> "date", day |-> day, hour |-> rem \div 3600,
             minute |-> (rem % 3600) \div 60, second |-> rem % 60, ticks |-> ticks % TicksPerSecond]
    BY <1>4, <2>0 DEF EncodeSystemTime
  <2>2. t[1] \in Nat /\ seconds \in Nat
    BY <1>1, <1>4, <2>0
  <2> HIDE DEF seconds, ticks, micros, p
  <2>3. days \in Nat /\ rem \in Int /\ 0 <= rem /\ rem < 86400 /\ seconds = days * 86400 + rem
    BY <2>2
  <2> HIDE DEF days, rem
  <2>4. /\ day[1] \in Int /\ day[1] >= 1970 /\ day[2] \in 1 .. 12
        /\ day[3] \in 1 .. MonthLength(day[1], day[2]) /\ DaysFromCivil(day[1], day[2], day[3]) = days
    BY <2>3, CivilFromDaysIs
  <2> HIDE DEF day
  <2>5. day[3] \in Int
    <3>1. MonthLength(day[1], day[2]) \in {28, 29, 30, 31}
      BY DEF MonthLength
    <3> QED BY <2>4, <3>1
  <2>6. DaysBefore(day[1], day[2]) + day[3] - 1 = days
    BY <2>4, <2>5, DaysFromCivilIs
  <2>7. /\ p.k = "date" /\ p.day = day /\ p.hour = rem \div 3600 /\ p.minute = (rem % 3600) \div 60
        /\ p.second = rem % 60 /\ p.ticks = micros
    BY <2>0, <2>1
  <2>8. /\ p.hour \in 0 .. 23 /\ p.minute \in 0 .. 59 /\ p.second \in 0 .. 59
        /\ p.hour * 3600 + p.minute * 60 + p.second = rem
    <3>1. /\ rem \div 3600 \in 0 .. 23 /\ (rem % 3600) \div 60 \in 0 .. 59 /\ rem % 60 \in 0 .. 59
          /\ (rem \div 3600) * 3600 + ((rem % 3600) \div 60) * 60 + (rem % 60) = rem
      BY <2>3
    <3> QED BY <2>7, <3>1
  <2>9. InstantOf(p) = AtMicros(t)
    <3>1. InstantOf(p) = <<days * 86400 + p.hour * 3600 + p.minute * 60 + p.second, micros * NanosPerMicro>>
      BY <2>6, <2>7 DEF InstantOf
    <3>2. days * 86400 + p.hour * 3600 + p.minute * 60 + p.second = t[1]
      <4>1. p.hour \in Int /\ p.minute \in Int /\ p.second \in Int
        <5>1. 0 .. 23 \subseteq Int /\ 0 .. 59 \subseteq Int
          OBVIOUS
        <5> QED BY ONLY <2>8, <5>1
      <4>2. \A a, h, i, j \in Int : a + h * 3600 + i * 60 + j = a + (h * 3600 + i * 60 + j)
        OBVIOUS
      <4>3. days * 86400 + p.hour * 3600 + p.minute * 60 + p.second = days * 86400 + rem
        BY <2>3, <2>8, <4>1, <4>2
      <4> QED BY <2>0, <2>3, <4>3
    <3> QED BY <3>1, <3>2 DEF AtMicros, micros
  <2>10. IsTimestamp(p)
    <3>1. p.day[1] \in Nat /\ p.day[1] >= 1970 /\ IsDate(p)
      BY <2>4, <2>7 DEF IsDate
    <3>2. p.ticks \in 0 .. TicksPerSecond - 1
      BY <1>1, <2>7
    <3>3. InstantOf(p)[1] \in 1 .. TimestampLimit
      BY <1>4, <2>9 DEF AtMicros
    <3> QED BY <2>8, <3>1, <3>2, <3>3 DEF IsTimestamp
  <2> QED BY <1>4, <2>7, <2>9, <2>10 DEF p
<1> QED BY <1>3, <1>4

-----------------------------------------------------------------------------
(* The row reader.                                                         *)

\* What the reader gives for a column whose stored content is s.
Got(d, c, s) == IF s.k = "null" THEN IF c.opt THEN Null ELSE Err ELSE Decode(d, c.ty, s)

Failed(r) == r.out # <<>> /\ r.out[Len(r.out)] = Err

LEMMA ReadColumnIs ==
    ASSUME NEW d, NEW c, NEW s, NEW r
    PROVE  ReadColumn(d, c, s, r) = [index |-> r.index + 1, out |-> Append(r.out, Got(d, c, s[r.index]))]
BY DEF ReadColumn, Got

\* Column by column, up to the first error, which is the row's.
LEMMA ReadColumnsIs ==
    ASSUME NEW d, NEW cols, NEW s, Len(cols) \in Nat
    PROVE  ReadColumns(d, cols, s) =
             IF \E i \in 1 .. Len(cols) : Got(d, cols[i], s[i]) = Err
                 THEN Err ELSE [i \in 1 .. Len(cols) |-> Got(d, cols[i], s[i])]
<1> DEFINE n == Len(cols)
           V == {Got(d, cols[i], s[j]) : i \in Nat, j \in Nat}
           S == [index : Nat, out : Seq(V)]
           start == [index |-> 1, out |-> <<>>]
           After(i, r) == IF Failed(r) THEN r ELSE ReadColumn(d, cols[i], s, r)
           Is(g) == g = [i \in 0 .. n |->
                           IF i = 0 THEN [index |-> 1, out |-> <<>>]
                           ELSE IF g[i - 1].out # <<>> /\ g[i - 1].out[Len(g[i - 1].out)] = Err THEN g[i - 1]
                           ELSE ReadColumn(d, cols[i], s, g[i - 1])]
           reader == CHOOSE g : Is(g)
           got(i) == Got(d, cols[i], s[i])
<1>1. ReadColumns(d, cols, s) = IF Failed(reader[n]) THEN Err ELSE reader[n].out
  BY DEF ReadColumns, Failed
<1>2. ASSUME NEW g PROVE Is(g) <=> g = [i \in 0 .. n |-> IF i = 0 THEN start ELSE After(i, g[i - 1])]
  BY DEF Failed
<1>3. start \in S
  OBVIOUS
<1> DEFINE Moved(i, r) == [index |-> r.index + 1, out |-> Append(r.out, Got(d, cols[i], s[r.index]))]
           Moves(i, r) == After(i, r) \in S /\ (~Failed(r) => After(i, r) = Moved(i, r))
<1>4. ASSUME NEW r \in S, NEW i \in Nat PROVE Moves(i, r)
  <2>1. r.index \in Nat /\ r.out \in Seq(V)
    OBVIOUS
  <2>2. Got(d, cols[i], s[r.index]) \in V
    BY <2>1
  <2> HIDE DEF V
  <2>3. Append(r.out, Got(d, cols[i], s[r.index])) \in Seq(V)
    BY <2>1, <2>2
  <2>4. [index |-> r.index + 1, out |-> Append(r.out, Got(d, cols[i], s[r.index]))] \in S
    BY <2>1, <2>3
  <2> HIDE DEF S
  <2> QED BY <2>4, ReadColumnIs
<1>5. n \in Nat
  OBVIOUS
<1>6. \A i \in 0 .. n : i # 0 => i \in 1 .. n /\ i - 1 \in Nat /\ (i - 1) + 1 = i /\ i - 1 < n /\ i - 1 \in 0 .. n
  BY <1>5
<1> HIDE DEF S, start, After, Is, n
<1>7. \E g : Is(g)
  <2> DEFINE rule == [p \in Nat \X S |-> After(p[1] + 1, p[2])]
  <2>1. rule \in [Nat \X S -> S] /\ \A k \in Nat, r \in S : rule[<<k, r>>] = After(k + 1, r)
    <3>1. \A k \in Nat, r \in S : After(k + 1, r) \in S
      <4> SUFFICES ASSUME NEW k \in Nat, NEW r \in S PROVE After(k + 1, r) \in S
        OBVIOUS
      <4> HIDE DEF Moves
      <4>1. Moves(k + 1, r)
        BY <1>4
      <4> QED BY <4>1 DEF Moves
    <3> QED BY <3>1
  <2> HIDE DEF rule
  <2>2. PICK g : Part(start, rule, n, g, S)
    BY <1>3, <1>5, <2>1, PartsExist
  <2>3. g \in [0 .. n -> S] /\ g[0] = start /\ \A k \in Nat : k < n => g[k + 1] = rule[<<k, g[k]>>]
    BY <2>2 DEF Part, Begins
  <2>4. ASSUME NEW i \in 0 .. n, i # 0 PROVE g[i] = After(i, g[i - 1])
    <3>1. g[i - 1] \in S /\ g[i] = rule[<<i - 1, g[i - 1]>>]
      BY <1>6, <2>3, <2>4
    <3> QED BY <1>6, <2>1, <2>4, <3>1
  <2>5. \A i \in 0 .. n : g[i] = IF i = 0 THEN start ELSE After(i, g[i - 1])
    BY <2>3, <2>4
  <2>6. g = [i \in 0 .. n |-> IF i = 0 THEN start ELSE After(i, g[i - 1])]
    BY <2>3, <2>5
  <2> QED BY <1>2, <2>6
<1>8. reader = [i \in 0 .. n |-> IF i = 0 THEN start ELSE After(i, reader[i - 1])]
  <2>1. Is(reader)
    BY <1>7
  <2> HIDE DEF reader
  <2> QED BY <1>2, <2>1
<1> HIDE DEF reader
<1>9. /\ 0 \in 0 .. n /\ reader[0] = start
      /\ \A i \in Nat : i < n => i + 1 \in 1 .. n /\ i \in 0 .. n /\ reader[i + 1] = After(i + 1, reader[i])
  <2>1. 0 \in 0 .. n /\ \A i \in Nat : i < n => i + 1 \in 1 .. n /\ i + 1 \in 0 .. n /\ i + 1 # 0 /\ (i + 1) - 1 = i /\ i \in 0 .. n
    BY <1>5
  <2> QED BY <1>8, <2>1
<1> DEFINE Reads(i) == /\ \A j \in 1 .. i : got(j) # Err
                       /\ reader[i] \in S /\ reader[i].index = i + 1 /\ Len(reader[i].out) = i
                       /\ \A j \in 1 .. i : reader[i].out[j] = got(j)
           Fails(i) == (\E j \in 1 .. i : got(j) = Err) /\ Failed(reader[i])
           T == {i \in Nat : i <= n => Reads(i) \/ Fails(i)}
<1> HIDE DEF got
<1>10. 0 \in T
  <2>1. start.index = 1 /\ start.out = <<>> /\ Len(start.out) = 0
    BY DEF start
  <2>2. Reads(0)
    BY <1>3, <1>9, <2>1
  <2> HIDE DEF Reads, Fails
  <2> QED BY <2>2
<1>11. ASSUME NEW i \in Nat, i \in T PROVE i + 1 \in T
  <2> SUFFICES ASSUME i + 1 <= n PROVE Reads(i + 1) \/ Fails(i + 1)
    OBVIOUS
  <2>1. reader[i + 1] = After(i + 1, reader[i]) /\ (Reads(i) \/ Fails(i))
    BY <1>5, <1>9, <1>11
  <2>2. \A j : j \in 1 .. i + 1 <=> j \in 1 .. i \/ j = i + 1
    OBVIOUS
  <2>3. CASE Fails(i)
    BY <2>1, <2>2, <2>3 DEF After
  <2>4. CASE Reads(i)
    <3> DEFINE r == reader[i]
               x == got(i + 1)
    <3>1. r.out \in Seq(V) /\ r \in S /\ Len(r.out) = i /\ r.index = i + 1
      BY <2>4 DEF S
    <3>2. ~Failed(r)
      <4>1. r.out = <<>> => i = 0
        BY <3>1
      <4>2. r.out # <<>> => i \in 1 .. i
        <5>1. r.out # <<>> => i # 0
          BY <3>1, EmptySeq
        <5> QED BY <5>1
      <4> QED BY <2>4, <3>1, <4>2 DEF Failed
    <3>3. reader[i + 1] \in S /\ reader[i + 1] = [index |-> (i + 1) + 1, out |-> Append(r.out, x)]
      <4>1. i + 1 \in Nat
        OBVIOUS
      <4>2. Moves(i + 1, r)
        <5> HIDE DEF r, Moves
        <5> QED BY <1>4, <3>1, <4>1
      <4>3. Got(d, cols[i + 1], s[r.index]) = x
        BY <3>1 DEF got
      <4> HIDE DEF r, x
      <4> QED BY <2>1, <3>1, <3>2, <4>2, <4>3 DEF r
    <3>4. x \in V
      <4>1. i + 1 \in Nat
        OBVIOUS
      <4> QED BY <4>1 DEF got
    <3> HIDE DEF r, x, V
    <3> DEFINE o == Append(r.out, x)
    <3>5. Len(o) = i + 1 /\ o[i + 1] = x /\ \A j \in 1 .. i : o[j] = r.out[j]
      BY <3>1, <3>4
    <3> HIDE DEF o
    <3>6. o # <<>>
      BY <3>5
    <3>7. reader[i + 1].out = o /\ reader[i + 1].index = (i + 1) + 1
      BY <3>3 DEF o
    <3>8. CASE x = Err
      <4>1. got(i + 1) = Err /\ i + 1 \in 1 .. i + 1
        BY <3>8 DEF x
      <4>2. Failed(reader[i + 1])
        BY <3>5, <3>6, <3>7, <3>8 DEF Failed
      <4>3. Fails(i + 1)
        BY <4>1, <4>2
      <4> HIDE DEF Reads, Fails
      <4> QED BY <4>3
    <3>9. CASE x # Err
      <4>1. \A j \in 1 .. i + 1 : got(j) # Err /\ o[j] = got(j)
        BY <2>2, <2>4, <3>5, <3>9 DEF r, x
      <4>2. Reads(i + 1)
        BY <3>3, <3>5, <3>7, <4>1
      <4> HIDE DEF Reads, Fails
      <4> QED BY <4>2
    <3> QED BY <3>8, <3>9
  <2> HIDE DEF Reads, Fails
  <2> QED BY <2>1, <2>3, <2>4
<1> HIDE DEF T
<1>12. Nat \subseteq T
  BY <1>10, <1>11, Induction
<1>13. Reads(n) \/ Fails(n)
  <2> HIDE DEF Reads, Fails
  <2> QED BY <1>5, <1>12 DEF T
<1>14. CASE Fails(n)
  BY <1>1, <1>14 DEF got, n
<1>15. CASE Reads(n)
  <2> DEFINE o == reader[n].out
  <2>1. o \in Seq(V) /\ Len(o) = n
    BY <1>15 DEF S
  <2>2. ~Failed(reader[n])
    <3>1. o # <<>> => n \in 1 .. n
      <4>1. o # <<>> => n # 0
        BY <2>1, EmptySeq
      <4> QED BY <1>5, <4>1
    <3> QED BY <1>15, <2>1, <3>1 DEF Failed
  <2>3. o = [i \in 1 .. n |-> got(i)]
    <3>1. \A j \in 1 .. n : o[j] = got(j)
      BY <1>15
    <3> HIDE DEF o, V
    <3>2. o = [i \in 1 .. Len(o) |-> o[i]]
      BY <2>1
    <3> QED BY <2>1, <3>1, <3>2
  <2>4. ReadColumns(d, cols, s) = [i \in 1 .. n |-> got(i)]
    BY <1>1, <2>2, <2>3
  <2>5. ~ \E j \in 1 .. n : got(j) = Err
    BY <1>15
  <2> QED BY <2>4, <2>5 DEF got, n
<1> HIDE DEF Reads, Fails
<1> QED BY <1>13, <1>14, <1>15

-----------------------------------------------------------------------------
(* One column, written by the program or by another client, and read back. *)

WrittenCell(d, c) ==
    /\ c.ty \in IntTypes \cup {"systemtime"} /\ c.opt \in BOOLEAN
    /\ d # "mysql" => c.ty # "systemtime"
    /\ IF c.v = Null THEN c.opt
       ELSE c.v \in IF c.ty = "systemtime" THEN Instants ELSE Values(c.ty)

Kept(d, c) == Store(d, c.ty, Encode(d, c.ty, c.v))

\* Reading the content s gives the value of the cell, or the error of one the backend cannot carry.
Fits(d, c, s) ==
    /\ Got(d, c, s) = IF Carries(d, c) THEN Resolved(c) ELSE Err
    /\ Carries(d, c) => Resolved(c) # Err
    /\ c.ty = "systemtime" /\ c.v \notin {Null, Err} => InstantOf(s) = AtMicros(c.v)

Back(d, c) == IF Kept(d, c).k = "err" THEN ~Carries(d, c) ELSE Fits(d, c, Kept(d, c))

LEMMA TypesAre ==
    /\ IntTypes = {"i8", "i16", "i32", "i64", "isize", "i128", "u8", "u16", "u32", "u64", "usize", "u128"}
    /\ "systemtime" \notin IntTypes
BY DEF IntTypes, WidthOf

LEMMA NullCell ==
    ASSUME NEW d, NEW c, WrittenCell(d, c), c.v = Null
    PROVE  Back(d, c)
<1>1. Kept(d, c) = [k |-> "null"]
  BY DEF Kept, Encode, Store
<1>2. Got(d, c, Kept(d, c)) = Null /\ Carries(d, c) /\ Kept(d, c).k # "err"
  BY <1>1 DEF Got, Carries, WrittenCell
<1> QED BY <1>2, ErrIsNoNumber DEF Back, Fits, Resolved

LEMMA PostgresCell ==
    ASSUME NEW c, WrittenCell("postgres", c), c.v # Null
    PROVE  Back("postgres", c)
<1> DEFINE ty == c.ty
           v == c.v
           s == Kept("postgres", c)
<1>1. ty \in IntTypes /\ v \in Values(ty) /\ v \in Int /\ v # Err /\ v # Null /\ ty # "systemtime"
  <2>1. ty # "systemtime" /\ ty \in IntTypes
    BY DEF WrittenCell
  <2>2. v \in Values(ty)
    BY <2>1 DEF WrittenCell
  <2> QED BY <2>1, <2>2, RangesAre, ErrIsNoNumber
<1>2. s = Store("postgres", ty, PgEncode(ty, v))
  BY <1>1 DEF Kept, Encode
<1>3. Got("postgres", c, s) = IF s.k = "null" THEN IF c.opt THEN Null ELSE Err ELSE PgDecode(ty, s)
  BY DEF Got, Decode
<1>4. Carries("postgres", c) <=> ty \notin {"i8", "u8", "u16"} /\ (ty = "usize" => v \in Values("i64"))
  BY <1>1 DEF Carries
<1> HIDE DEF s
<1> SUFFICES IF s.k = "err" THEN ~Carries("postgres", c)
             ELSE s.k # "null" /\ PgDecode(ty, s) = IF Carries("postgres", c) THEN v ELSE Err
  BY <1>1, <1>3 DEF Back, Fits, Resolved, s
<1> HIDE DEF ty, v
<1>5. CASE ty \in {"i8", "i16"}
  <2>1. s = [k |-> "int2", v |-> v]
    BY <1>2, <1>5 DEF PgEncode, Store, PgColumn
  <2> QED BY <1>4, <1>5, <2>1 DEF PgDecode
<1>6. CASE ty = "u8"
  <2>1. s = [k |-> "err"]
    BY <1>2, <1>6 DEF PgEncode, Store, PgColumn
  <2> QED BY <1>4, <1>6, <2>1
<1>7. CASE ty \in {"i32", "u16"}
  <2>1. s = [k |-> "int4", v |-> v]
    BY <1>2, <1>7 DEF PgEncode, Store, PgColumn
  <2> QED BY <1>4, <1>7, <2>1 DEF PgDecode
<1>8. CASE ty \in {"i64", "isize", "u32"}
  <2>1. s = [k |-> "int8", v |-> v]
    BY <1>2, <1>8 DEF PgEncode, Store, PgColumn
  <2> QED BY <1>1, <1>4, <1>8, <2>1 DEF PgDecode, TryFrom
<1>9. CASE ty = "usize"
  <2>1. s = IF v \in Values("i64") THEN [k |-> "int8", v |-> v] ELSE [k |-> "err"]
    BY <1>2, <1>9 DEF PgEncode, Store, PgColumn
  <2> QED BY <1>1, <1>4, <1>9, <2>1 DEF PgDecode, TryFrom
<1>10. CASE ty \in {"u64", "i128", "u128"}
  <2>1. PgEncode(ty, v) = WriteNumeric(v) /\ PgColumn(ty) = "numeric"
    BY <1>10 DEF PgEncode, PgColumn
  <2>2. WriteNumeric(v).k = "numeric"
    BY DEF WriteNumeric
  <2>3. s = TrimZeros(WriteNumeric(v))
    BY <1>2, <2>1, <2>2 DEF Store
  <2>4. s.k = "numeric" /\ ReadNumeric(s) = v
    BY <1>1, <2>3, NumericSurvives
  <2>5. PgDecode(ty, s) = TryFrom(ty, v)
    BY <1>1, <1>10, <2>4 DEF PgDecode
  <2> QED BY <1>1, <1>4, <1>10, <2>4, <2>5 DEF TryFrom
<1> QED BY <1>1, <1>5, <1>6, <1>7, <1>8, <1>9, <1>10, TypesAre

LEMMA SqliteCell ==
    ASSUME NEW c, WrittenCell("sqlite", c), c.v # Null
    PROVE  Back("sqlite", c)
<1> DEFINE ty == c.ty
           v == c.v
           s == Kept("sqlite", c)
<1>1. ty \in IntTypes /\ v \in Values(ty) /\ v \in Int /\ v # Err /\ v # Null /\ ty # "systemtime"
  <2>1. ty # "systemtime" /\ ty \in IntTypes
    BY DEF WrittenCell
  <2>2. v \in Values(ty)
    BY <2>1 DEF WrittenCell
  <2> QED BY <2>1, <2>2, RangesAre, ErrIsNoNumber
<1>2. s = IF v \in Values("i64") THEN [k |-> "integer", v |-> v] ELSE [k |-> "err"]
  BY <1>1 DEF Kept, Encode, SqliteEncode, Store
<1>3. Got("sqlite", c, s) = IF s.k = "null" THEN IF c.opt THEN Null ELSE Err ELSE SqliteDecode(ty, s)
  BY DEF Got, Decode
<1>4. Carries("sqlite", c) <=> v \in Values("i64")
  BY <1>1 DEF Carries
<1> HIDE DEF s
<1>5. CASE v \in Values("i64")
  <2>1. s.k = "integer" /\ s.v = v
    BY <1>2, <1>5
  <2>2. SqliteDecode(ty, s) = v
    BY <1>1, <2>1 DEF SqliteDecode, TryFrom
  <2> QED BY <1>1, <1>3, <1>4, <1>5, <2>1, <2>2 DEF Back, Fits, Resolved, s
<1>6. CASE v \notin Values("i64")
  <2>1. s.k = "err"
    BY <1>2, <1>6
  <2> QED BY <1>4, <1>6, <2>1 DEF Back, s
<1> QED BY <1>5, <1>6

LEMMA MysqlCell ==
    ASSUME NEW c, WrittenCell("mysql", c), c.v # Null
    PROVE  Back("mysql", c)
<1> DEFINE ty == c.ty
           v == c.v
           s == Kept("mysql", c)
<1>1. Got("mysql", c, s) = IF s.k = "null" THEN IF c.opt THEN Null ELSE Err ELSE MysqlDecode(ty, s)
  BY DEF Got, Decode
<1>2. s = Store("mysql", ty, MysqlEncode(ty, v))
  BY DEF Kept, Encode
<1> HIDE DEF s
<1>3. CASE ty = "systemtime"
  <2>1. v \in Instants /\ AtMicros(v) \in Int \X Int
    <3>1. v \in Instants
      BY <1>3 DEF WrittenCell
    <3>2. v[1] \in Int /\ (v[2] \div NanosPerMicro) * NanosPerMicro \in Int
      BY <3>1, MicrosAre DEF Instants
    <3> QED BY <3>1, <3>2 DEF AtMicros
  <2>2. v # Err /\ AtMicros(v) # Err /\ Resolved(c) = AtMicros(v)
    <3>1. v \in Int \X Int
      BY <2>1, ConstantsAreTyped DEF Instants
    <3>2. v # Err /\ v # Null /\ AtMicros(v) # Err
      BY <2>1, <3>1, NullAndErrAreNoValues
    <3> QED BY <1>3, <3>2 DEF Resolved
  <2> DEFINE p == EncodeSystemTime(v)
  <2>3. MysqlEncode(ty, v) = p
    BY <1>3 DEF MysqlEncode, SignedTypes
  <2>4. IF v[1] \in 1 .. TimestampLimit
            THEN p.k = "date" /\ IsTimestamp(p) /\ InstantOf(p) = AtMicros(v)
            ELSE p.k = "err"
    BY <2>1, EncodeIs
  <2>5. Carries("mysql", c) <=> v[1] \in 1 .. TimestampLimit
    BY <1>3, <2>2 DEF Carries
  <2> HIDE DEF p
  <2>6. CASE v[1] \in 1 .. TimestampLimit
    <3>1. p.k = "date" /\ IsTimestamp(p) /\ InstantOf(p) = AtMicros(v) /\ IsDate(p)
      BY <2>4, <2>6 DEF IsTimestamp
    <3>2. s = p
      BY <1>2, <1>3, <2>3, <3>1 DEF Store
    <3>3. MysqlDecode(ty, s) = AtMicros(v)
      BY <1>3, <3>1, <3>2, DecodeIs DEF MysqlDecode
    <3> QED BY <1>1, <2>2, <2>5, <2>6, <3>1, <3>2, <3>3 DEF Back, Fits, s
  <2>7. CASE v[1] \notin 1 .. TimestampLimit
    <3>1. s.k = "err"
      BY <1>2, <2>3, <2>4, <2>7 DEF Store
    <3> QED BY <2>5, <2>7, <3>1 DEF Back, s
  <2> QED BY <2>6, <2>7
<1>4. CASE ty # "systemtime"
  <2>1. ty \in IntTypes /\ v \in Values(ty) /\ v # Err
    <3>1. ty \in IntTypes /\ v \in Values(ty)
      BY <1>4 DEF WrittenCell
    <3> QED BY <3>1, RangesAre, ErrIsNoNumber
  <2>2. Carries("mysql", c)
    BY <1>4, <2>1 DEF Carries
  <2>3. MysqlEncode(ty, v).v = v /\ MysqlEncode(ty, v).k \notin {"null", "err"}
    BY <1>4 DEF MysqlEncode
  <2>4. s = [k |-> "integer", v |-> v]
    BY <1>2, <1>4, <2>3 DEF Store
  <2>5. MysqlDecode(ty, s) = v
    BY <1>4, <2>1, <2>4 DEF MysqlDecode, TryFrom
  <2> QED BY <1>1, <1>4, <2>1, <2>2, <2>4, <2>5 DEF Back, Fits, Resolved, s
<1> QED BY <1>3, <1>4

LEMMA WrittenCellIs ==
    ASSUME NEW d \in {"postgres", "mysql", "sqlite"}, NEW c, WrittenCell(d, c)
    PROVE  Back(d, c)
BY NullCell, PostgresCell, SqliteCell, MysqlCell

\* The column of another client's row, as the program sees it.
Seen(f) == [ty |-> f.ty, opt |-> f.opt, v |-> Meaning(f.kept)]

LEMMA ForeignCellIs ==
    ASSUME NEW d \in {"postgres", "mysql", "sqlite"}, NEW f, f.opt \in BOOLEAN, Holds(d, f.ty, f.kept)
    PROVE  Fits(d, Seen(f), f.kept)
<1> DEFINE ty == f.ty
           s == f.kept
           c == Seen(f)
           v == Meaning(s)
<1>1. c.ty = ty /\ c.opt = f.opt /\ c.v = v
  BY DEF Seen
<1> HIDE DEF c, v
<1>2. CASE s.k = "null"
  <2>1. v = Null
    BY <1>2 DEF v, Meaning
  <2>2. Got(d, c, s) = IF Carries(d, c) THEN c.v ELSE Err
    BY <1>1, <1>2, <2>1 DEF Got, Carries
  <2> QED BY <1>1, <2>1, <2>2, ErrIsNoNumber DEF Fits, Resolved, c
<1>3. CASE s.k # "null" /\ ty = "systemtime"
  <2>1. d = "mysql" /\ s.k = "date" /\ (IsTimestamp(s) \/ s.day = <<0, 0, 0>>)
    BY <1>3 DEF Holds
  <2>2. Got(d, c, s) = DecodeSystemTime(s)
    BY <1>1, <1>3, <2>1 DEF Got, Decode, MysqlDecode
  <2>3. v = IF IsDate(s) THEN InstantOf(s) ELSE Err
    BY <2>1 DEF v, Meaning
  <2>4. CASE IsTimestamp(s)
    <3>1. v = InstantOf(s) /\ v[1] \in 1 .. TimestampLimit
      BY <2>3, <2>4 DEF IsTimestamp
    <3>2. v # Null /\ v # Err
      <4>1. InstantOf(s) \in Int \X Int
        <5>1. InstantOf(s) = <<InstantOf(s)[1], s.ticks * NanosPerMicro>>
          BY DEF InstantOf
        <5>2. InstantOf(s)[1] \in Int /\ s.ticks \in Int
          BY <2>4, ConstantsAreTyped DEF IsTimestamp
        <5>3. s.ticks * NanosPerMicro \in Int
          BY <5>2, ConstantsAreTyped
        <5> QED BY <5>1, <5>2, <5>3
      <4> QED BY <3>1, <4>1, NullAndErrAreNoValues
    <3>3. Carries(d, c)
      BY <1>1, <1>3, <3>1, <3>2 DEF Carries
    <3>4. Got(d, c, s) = v
      BY <2>2, <2>4, <3>1, DecodeIs
    <3>5. AtMicros(v) = v
      <4>1. InstantOf(s) = <<InstantOf(s)[1], s.ticks * NanosPerMicro>>
        BY DEF InstantOf
      <4>2. \A a, b : a \in Int /\ b \in Int /\ b > 0 => (a * b) \div b = a
        OBVIOUS
      <4>3. (s.ticks * NanosPerMicro) \div NanosPerMicro = s.ticks
        BY <2>4, <4>2, ConstantsAreTyped DEF IsTimestamp
      <4> QED BY <3>1, <4>1, <4>3 DEF AtMicros
    <3>6. Resolved(c) = v
      BY <1>1, <3>5 DEF Resolved
    <3> QED BY <1>1, <3>1, <3>2, <3>3, <3>4, <3>5, <3>6 DEF Fits, c
  <2>5. CASE s.day = <<0, 0, 0>>
    <3>1. ~IsDate(s) /\ DecodeSystemTime(s) = Err
      BY <2>5 DEF IsDate, DecodeSystemTime, TakesDate
    <3>2. v = Err
      BY <2>3, <3>1
    <3>3. ~Carries(d, c)
      BY <1>1, <3>2, ErrIsNoNumber DEF Carries
    <3> QED BY <1>1, <2>2, <3>1, <3>2, <3>3 DEF Fits, c
  <2> QED BY <2>1, <2>4, <2>5
<1>4. CASE s.k # "null" /\ ty # "systemtime"
  <2>1. ty \in IntTypes
    BY <1>4 DEF Holds
  <2> SUFFICES Got(d, c, s) = (IF Carries(d, c) THEN v ELSE Err) /\ (Carries(d, c) => v # Err)
    BY <1>1, <1>4 DEF Fits, Resolved, c
  <2>2. CASE d = "postgres" /\ PgColumn(ty) = "numeric"
    <3>1. ty \in {"u64", "i128", "u128"}
      BY <2>1, <2>2, TypesAre DEF PgColumn
    <3>2. s.k = "nan" \/ (s.k = "numeric" /\ IsNumeric(s))
      BY <1>4, <2>1, <2>2 DEF Holds
    <3>3. v = NumericValue(s)
      BY <3>2 DEF v, Meaning
    <3>4. Got(d, c, s) = IF ReadNumeric(s) = Err THEN Err ELSE TryFrom(ty, ReadNumeric(s))
      BY <1>1, <1>4, <2>2, <3>1, <3>2 DEF Got, Decode, PgDecode
    <3>5. \/ ReadNumeric(s) = v /\ v \in Int \cup {Err}
          \/ ReadNumeric(s) = Err /\ v \in Int /\ v \notin Values(ty)
      <4>1. CASE s.k = "nan"
        BY <3>3, <4>1 DEF ReadNumeric, NumericValue
      <4>2. CASE s.k = "numeric" /\ IsNumeric(s)
        BY <2>1, <3>3, <4>2, ReadIsValue
      <4> QED BY <3>2, <4>1, <4>2
    <3>6. v # Null
      <4>1. NumericValue(s) \in Int \cup {Err}
        BY <3>3, <3>5
      <4> QED BY <3>3, <4>1, ErrIsNoNumber
    <3>7. Carries(d, c) <=> v # Err /\ v \in Values(ty)
      BY <1>1, <1>4, <2>2, <3>1, <3>6 DEF Carries
    <3> QED BY <3>4, <3>5, <3>7 DEF TryFrom
  <2>3. CASE d = "postgres" /\ PgColumn(ty) # "numeric"
    <3>1. s.k = PgColumn(ty) /\ s.v \in Values([int2 |-> "i16", int4 |-> "i32", int8 |-> "i64"][s.k])
      BY <1>4, <2>1, <2>3 DEF Holds
    <3>2. s.k \in {"int2", "int4", "int8"}
      BY <2>3, <3>1 DEF PgColumn
    <3>3. v = s.v
      BY <3>2 DEF v, Meaning
    <3>4. v \in Int /\ v # Null /\ v # Err
      <4>1. [int2 |-> "i16", int4 |-> "i32", int8 |-> "i64"][s.k] \in IntTypes
        BY <3>2, TypesAre
      <4> QED BY <3>1, <3>3, <4>1, RangesAre, ErrIsNoNumber
    <3>5. Got(d, c, s) = PgDecode(ty, s)
      BY <1>1, <1>4, <2>3 DEF Got, Decode
    <3>6. Carries(d, c) <=> /\ v \in Values(ty) /\ ty \notin {"i8", "u8", "u16"}
                            /\ (ty = "usize" => v \in Values("i64"))
      BY <1>1, <1>4, <2>3, <3>4 DEF Carries
    <3>7. CASE ty \in {"i8", "u8", "u16"}
      <4>1. s.k # "int8"
        BY <3>1, <3>7 DEF PgColumn
      <4> QED BY <3>5, <3>6, <3>7, <4>1 DEF PgDecode
    <3>8. CASE ty \in {"i16", "i32", "i64"}
      <4>1. v \in Values(ty) /\ PgDecode(ty, s) = v
        BY <3>1, <3>3, <3>8 DEF PgColumn, PgDecode
      <4> QED BY <3>4, <3>5, <3>6, <3>8, <4>1
    <3>9. CASE ty \in {"isize", "u32", "usize"}
      <4>1. s.k = "int8" /\ v \in Values("i64")
        BY <3>1, <3>3, <3>9 DEF PgColumn
      <4>2. PgDecode(ty, s) = TryFrom(ty, v)
        BY <3>3, <3>9, <4>1 DEF PgDecode
      <4> QED BY <3>4, <3>5, <3>6, <3>9, <4>1, <4>2 DEF TryFrom
    <3>10. ty \in {"i8", "u8", "u16", "i16", "i32", "i64", "isize", "u32", "usize"}
      BY <2>1, <2>3, TypesAre DEF PgColumn
    <3> QED BY <3>7, <3>8, <3>9, <3>10
  <2>4. CASE d # "postgres"
    <3>1. s.k = "integer" /\ s.v \in Int /\ (d = "sqlite" => s.v \in Values("i64"))
      <4>1. Values("i64") \subseteq Int
        BY TypesAre, RangesAre
      <4> QED BY <1>4, <2>1, <2>4, <4>1 DEF Holds
    <3>2. v = s.v
      BY <3>1 DEF v, Meaning
    <3>3. v # Null /\ v # Err
      BY <3>1, <3>2, ErrIsNoNumber
    <3>4. Got(d, c, s) = TryFrom(ty, v)
      <4>1. d = "sqlite" \/ d = "mysql"
        BY <2>4
      <4> QED BY <1>1, <1>4, <2>4, <3>1, <3>2, <4>1 DEF Got, Decode, SqliteDecode, MysqlDecode
    <3>5. Carries(d, c) <=> v \in Values(ty)
      BY <1>1, <1>4, <2>4, <3>1, <3>2, <3>3 DEF Carries
    <3> QED BY <3>3, <3>4, <3>5 DEF TryFrom
  <2> QED BY <2>2, <2>3, <2>4
<1> QED BY <1>2, <1>3, <1>4

-----------------------------------------------------------------------------
(* Every row.                                                              *)

Aligned ==
    /\ Len(cells.cols) \in Nat /\ DOMAIN cells.cols = 1 .. Len(cells.cols)
    /\ DOMAIN stored = DOMAIN cells.cols
    /\ \A i \in DOMAIN cells.cols : Fits(cells.dialect, cells.cols[i], stored[i])
    /\ step = "read" => row = ReadColumns(cells.dialect, cells.cols, stored)

Refused ==
    /\ step = "read" /\ stored = <<>> /\ row = Err
    /\ \E i \in DOMAIN cells.cols : ~Carries(cells.dialect, cells.cols[i])

\* The inductive invariant: nothing is written, or each column holds what its cell means, or a cell the
\* backend cannot carry has stopped the statement.
CodecInv ==
    \/ step = "idle" /\ stored = <<>>
    \/ step \in {"stored", "read"} /\ Aligned
    \/ Refused

LEMMA InitHolds == CodecInit => CodecInv
BY DEF CodecInit, CodecInv

LEMMA NextKeeps == CodecInv /\ [CodecNext]_codecVars => CodecInv'
<1> SUFFICES ASSUME CodecInv, [CodecNext]_codecVars PROVE CodecInv'
  OBVIOUS
<1>1. CASE WriteRow
  <2>1. PICK d \in {"postgres", "mysql", "sqlite"}, r \in WrittenRows :
          LET kept == [i \in DOMAIN r |-> Kept(d, r[i])]
              refused == \E i \in DOMAIN r : kept[i].k = "err"
          IN  /\ d # "mysql" => \A i \in DOMAIN r : r[i].ty # "systemtime"
              /\ cells' = [dialect |-> d, cols |-> r]
              /\ stored' = IF refused THEN <<>> ELSE kept
              /\ row' = IF refused THEN Err ELSE <<>>
              /\ step' = IF refused THEN "read" ELSE "stored"
    BY <1>1 DEF WriteRow, Kept
  <2> DEFINE kept == [i \in DOMAIN r |-> Kept(d, r[i])]
             refused == \E i \in DOMAIN r : kept[i].k = "err"
  <2>2. /\ cells'.dialect = d /\ cells'.cols = r /\ stored' = IF refused THEN <<>> ELSE kept
        /\ row' = IF refused THEN Err ELSE <<>>
        /\ step' = IF refused THEN "read" ELSE "stored"
    <3> HIDE DEF kept, refused
    <3>1. /\ cells' = [dialect |-> d, cols |-> r] /\ stored' = IF refused THEN <<>> ELSE kept
          /\ row' = IF refused THEN Err ELSE <<>>
          /\ step' = IF refused THEN "read" ELSE "stored"
      BY <2>1 DEF kept, refused
    <3> QED BY <3>1
  <2>3. Len(r) \in Nat /\ DOMAIN r = 1 .. Len(r)
    BY WrittenRowsAreTyped DEF IsRow
  <2>4. \A i \in DOMAIN r : Back(d, r[i])
    <3> SUFFICES ASSUME NEW i \in DOMAIN r PROVE Back(d, r[i])
      OBVIOUS
    <3>1. WrittenCell(d, r[i])
      BY <2>1, WrittenRowsAreTyped DEF WrittenCell
    <3> QED BY <3>1, WrittenCellIs
  <2>5. kept \in [DOMAIN r -> {kept[i] : i \in DOMAIN r}] /\ \A i \in DOMAIN r : kept[i] = Kept(d, r[i])
    OBVIOUS
  <2> HIDE DEF kept
  <2>6. CASE refused
    <3>1. PICK i \in DOMAIN r : kept[i].k = "err"
      BY <2>6
    <3>2. ~Carries(d, r[i])
      BY <2>4, <2>5, <3>1 DEF Back
    <3>3. Refused'
      <4> HIDE DEF refused
      <4>1. stored' = <<>> /\ row' = Err /\ step' = "read"
        BY <2>2, <2>6
      <4>2. i \in DOMAIN cells'.cols /\ ~Carries(cells'.dialect, cells'.cols[i])
        BY <2>2, <3>2
      <4> QED BY <4>1, <4>2 DEF Refused
    <3> QED BY <3>3 DEF CodecInv
  <2>7. CASE ~refused
    <3>1. stored' = kept /\ step' = "stored"
      <4> HIDE DEF refused
      <4> QED BY <2>2, <2>7
    <3>2. \A i \in DOMAIN r : Fits(d, r[i], kept[i])
      BY <2>4, <2>5, <2>7 DEF Back
    <3>3. Aligned'
      BY <2>2, <2>3, <2>5, <3>1, <3>2 DEF Aligned
    <3> QED BY <3>1, <3>3 DEF CodecInv
  <2> QED BY <2>6, <2>7
<1>2. CASE ForeignWrite
  <2>1. PICK f \in ForeignRows :
          /\ cells' = [dialect |-> f.dialect, cols |-> [i \in DOMAIN f.cols |-> Seen(f.cols[i])]]
          /\ stored' = [i \in DOMAIN f.cols |-> f.cols[i].kept]
          /\ step' = "stored"
    BY <1>2 DEF ForeignWrite, Seen
  <2> DEFINE n == Len(f.cols)
             cols == [i \in 1 .. n |-> Seen(f.cols[i])]
  <2>2. n \in Nat /\ DOMAIN f.cols = 1 .. n /\ f.dialect \in {"postgres", "mysql", "sqlite"}
    <3>1. IsRow(f.cols) /\ f.dialect \in {"postgres", "mysql", "sqlite"}
      BY ForeignRowsAreHeld
    <3> QED BY <3>1 DEF IsRow
  <2>3. \A i \in 1 .. n : Fits(f.dialect, Seen(f.cols[i]), f.cols[i].kept)
    <3> SUFFICES ASSUME NEW i \in DOMAIN f.cols PROVE Fits(f.dialect, Seen(f.cols[i]), f.cols[i].kept)
      BY <2>2
    <3>1. f.cols[i].opt \in BOOLEAN /\ Holds(f.dialect, f.cols[i].ty, f.cols[i].kept)
      BY ForeignRowsAreHeld
    <3> QED BY <2>2, <3>1, ForeignCellIs
  <2> HIDE DEF n
  <2>4. Len(cols) = n /\ DOMAIN cols = 1 .. n /\ \A i \in 1 .. n : cols[i] = Seen(f.cols[i])
    BY <2>2
  <2>5. cells'.dialect = f.dialect /\ cells'.cols = cols /\ step' = "stored"
    BY <2>1, <2>2
  <2> HIDE DEF cols
  <2>6. DOMAIN stored' = 1 .. n /\ \A i \in 1 .. n : stored'[i] = f.cols[i].kept
    BY <2>1, <2>2
  <2>7. Aligned'
    BY <2>2, <2>3, <2>4, <2>5, <2>6 DEF Aligned
  <2> QED BY <2>5, <2>7 DEF CodecInv
<1>3. CASE ReadRow
  <2>1. step = "stored" /\ Aligned
    BY <1>3 DEF ReadRow, CodecInv, Refused
  <2>2. Aligned' /\ step' = "read"
    BY <1>3, <2>1 DEF ReadRow, Aligned
  <2> QED BY <2>2 DEF CodecInv
<1>4. CASE UNCHANGED codecVars
  BY <1>4 DEF codecVars, CodecInv, Aligned, Refused
<1> QED BY <1>1, <1>2, <1>3, <1>4 DEF CodecNext

LEMMA InvSurvives == CodecInv => RowsSurvive
<1> SUFFICES ASSUME CodecInv PROVE RowsSurvive
  OBVIOUS
<1>1. CASE step = "idle" /\ stored = <<>>
  BY <1>1 DEF RowsSurvive
<1>2. CASE step \in {"stored", "read"} /\ Aligned
  <2> DEFINE n == Len(cells.cols)
             C(i) == Carries(cells.dialect, cells.cols[i])
  <2>1. n \in Nat /\ DOMAIN cells.cols = 1 .. n /\ DOMAIN stored = 1 .. n
    BY <1>2 DEF Aligned
  <2>2. \A i \in 1 .. n : Fits(cells.dialect, cells.cols[i], stored[i])
    BY <1>2, <2>1 DEF Aligned
  <2>3. \A i \in 1 .. n : /\ Got(cells.dialect, cells.cols[i], stored[i]) =
                                IF C(i) THEN Resolved(cells.cols[i]) ELSE Err
                          /\ C(i) => Resolved(cells.cols[i]) # Err
                          /\ cells.cols[i].ty = "systemtime" /\ cells.cols[i].v \notin {Null, Err} =>
                                InstantOf(stored[i]) = AtMicros(cells.cols[i].v)
    BY <2>2 DEF Fits
  <2>4. ASSUME step = "read"
        PROVE  IF \A i \in 1 .. n : C(i) THEN row = Meant ELSE row = Err
    <3>1. row = IF \E i \in 1 .. n : Got(cells.dialect, cells.cols[i], stored[i]) = Err
                    THEN Err ELSE [i \in 1 .. n |-> Got(cells.dialect, cells.cols[i], stored[i])]
      <4>1. row = ReadColumns(cells.dialect, cells.cols, stored)
        BY <1>2, <2>4 DEF Aligned
      <4> QED BY <2>1, <4>1, ReadColumnsIs
    <3>2. CASE \A i \in 1 .. n : C(i)
      <4>1. \A i \in 1 .. n : /\ Got(cells.dialect, cells.cols[i], stored[i]) = Resolved(cells.cols[i])
                              /\ Resolved(cells.cols[i]) # Err
        BY <2>3, <3>2
      <4>2. row = [i \in 1 .. n |-> Got(cells.dialect, cells.cols[i], stored[i])]
        BY <3>1, <4>1
      <4>3. row = [i \in 1 .. n |-> Resolved(cells.cols[i])]
        BY <4>1, <4>2
      <4> QED BY <2>1, <3>2, <4>3 DEF Meant
    <3>3. CASE ~ \A i \in 1 .. n : C(i)
      BY <2>3, <3>1, <3>3
    <3> HIDE DEF C
    <3> QED BY <3>2, <3>3
  <2> QED BY <2>1, <2>3, <2>4 DEF RowsSurvive
<1>3. CASE Refused
  BY <1>3 DEF Refused, RowsSurvive
<1> QED BY <1>1, <1>2, <1>3 DEF CodecInv

\* What the row readers give is what Encode was given or another client wrote, column for column, an
\* instant to its microsecond, or an error where a cell has no representation, for all widths, bases
\* and rows.
THEOREM Survival == CodecSpec => []RowsSurvive
<1>1. CodecSpec => []CodecInv
  BY InitHolds, NextKeeps, PTL DEF CodecSpec
<1> QED BY <1>1, InvSurvives, PTL
=============================================================================
