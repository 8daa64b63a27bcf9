------------------------- MODULE CteCollect_proofs -------------------------
(***************************************************************************)
(* Proofs about CteCollect, for any definitions, names and queries.        *)
(*                                                                         *)
(* The argument: of each call in progress, the references its loop has     *)
(* passed are kept, but for the one being visited in the next call         *)
(* (FramesInv).  So a definition whose loop is over has its dependencies   *)
(* kept before it (First).  What is on the path or kept is reachable from  *)
(* the query (ReachInv), and what the query refers to is kept in the end   *)
(* (RootsInv).                                                             *)
(***************************************************************************)
EXTENDS CteCollect, SequenceTheorems, TLAPS

\* Every entry of s has its dependencies before it.
First(s) == \A i \in DOMAIN s : Dependencies(s[i]) \subseteq {s[j] : j \in 1 .. i - 1}

\* No two entries of s have the same name.
OneName(s) == \A i, j \in DOMAIN s : name[s[i]] = name[s[j]] => i = j

\* The references the call at depth k goes through, and the positions it visits.
RefsOf(k) == IF k = 1 THEN arms[arm] ELSE refs[stack[k].def]
Wanted(k) == IF k = 1 THEN DOMAIN arms[arm] ELSE Retained(stack[k].def)

\* The definition the call at depth k is waiting for.
Pending(k) == IF k < Len(stack) THEN {stack[k + 1].def} ELSE {}

PathInv ==
    /\ pc = "visit" => stack # <<>>
    /\ \A k \in DOMAIN stack : stack[k].def = Query <=> k = 1
    /\ \A k, l \in DOMAIN stack : stack[k].def = stack[l].def => k = l
    /\ OnPath \cap Elements(ordered) = {}

FramesInv ==
    \A k \in DOMAIN stack :
        /\ stack[k].left \subseteq Wanted(k)
        /\ \A i \in Wanted(k) \ stack[k].left :
               RefsOf(k)[i] \in Elements(ordered) \cup Pending(k)

ListsInv ==
    /\ First(ordered) /\ First(collected) /\ First(kept)
    /\ OneName(ordered) /\ OneName(kept)
    /\ pc = "visit" => kept = <<>> /\ merged = 0
    /\ pc = "merge" => Elements(kept) = {collected[i] : i \in 1 .. merged}

ReachInv ==
    /\ Elements(ordered) \subseteq Reachable(Roots)
    /\ Elements(collected) \subseteq Reachable(Roots)
    /\ Elements(kept) \subseteq Reachable(Roots)
    /\ OnPath \ {Query} \subseteq Reachable(Roots)
    /\ \A k, l \in DOMAIN stack :
           1 < k /\ k < l => stack[l].def \in Reachable(Dependencies(stack[k].def))

RootsInv ==
    /\ \A a \in 1 .. arm - 1 : Elements(arms[a]) \subseteq Elements(collected)
    /\ pc = "merge" => Roots \subseteq Elements(collected)
    /\ pc = "done" /\ kind = "query" => Roots \subseteq Elements(kept)

IInv == TypeOK /\ PathInv /\ FramesInv /\ ListsInv /\ ReachInv /\ RootsInv /\ PanicIsJustified

-----------------------------------------------------------------------------
(* Lists. *)

LEMMA ElementsOfAppend ==
    ASSUME NEW s \in Seq(Ctes), NEW d \in Ctes
    PROVE  Elements(Append(s, d)) = Elements(s) \cup {d}
<1>1. /\ Len(Append(s, d)) = Len(s) + 1
      /\ \A i \in 1 .. Len(s) : Append(s, d)[i] = s[i]
      /\ Append(s, d)[Len(s) + 1] = d
      /\ DOMAIN Append(s, d) = 1 .. Len(s) + 1
      /\ DOMAIN s = 1 .. Len(s)
      /\ Len(s) \in Nat
    OBVIOUS
<1>2. QED
    BY <1>1 DEF Elements

LEMMA ElementsOfConcat ==
    ASSUME NEW s \in Seq(Ctes), NEW t \in Seq(Ctes)
    PROVE  Elements(s \o t) = Elements(s) \cup Elements(t)
<1>1. /\ DOMAIN (s \o t) = 1 .. Len(s) + Len(t)
      /\ \A i \in 1 .. Len(s) : (s \o t)[i] = s[i]
      /\ \A i \in 1 .. Len(t) : (s \o t)[Len(s) + i] = t[i]
      /\ DOMAIN s = 1 .. Len(s) /\ DOMAIN t = 1 .. Len(t)
      /\ Len(s) \in Nat /\ Len(t) \in Nat
    OBVIOUS
<1>2. ASSUME NEW i \in DOMAIN (s \o t)
      PROVE  (s \o t)[i] \in Elements(s) \cup Elements(t)
    <2>1. CASE i <= Len(s)
        BY <1>1, <2>1 DEF Elements
    <2>2. CASE i > Len(s)
        <3>1. i - Len(s) \in 1 .. Len(t) /\ i = Len(s) + (i - Len(s))
            BY <1>1, <2>2
        <3>2. QED
            BY <1>1, <3>1 DEF Elements
    <2>3. QED
        BY <1>1, <2>1, <2>2
<1>3. ASSUME NEW i \in DOMAIN s
      PROVE  s[i] \in Elements(s \o t)
    BY <1>1 DEF Elements
<1>4. ASSUME NEW i \in DOMAIN t
      PROVE  t[i] \in Elements(s \o t)
    <2>1. Len(s) + i \in DOMAIN (s \o t) /\ (s \o t)[Len(s) + i] = t[i]
        BY <1>1
    <2>2. QED
        BY <2>1 DEF Elements
<1>5. QED
    BY <1>2, <1>3, <1>4 DEF Elements

\* A definition put after its dependencies keeps the order.
LEMMA FirstOfAppend ==
    ASSUME NEW s \in Seq(Ctes), NEW d \in Ctes, First(s), Dependencies(d) \subseteq Elements(s)
    PROVE  First(Append(s, d))
<1> DEFINE q == Append(s, d)
<1>1. /\ \A i \in 1 .. Len(s) : q[i] = s[i]
      /\ q[Len(s) + 1] = d
      /\ DOMAIN q = 1 .. Len(s) + 1
      /\ DOMAIN s = 1 .. Len(s)
      /\ Len(s) \in Nat
    OBVIOUS
<1> HIDE DEF q
<1>2. ASSUME NEW i \in DOMAIN q
      PROVE  Dependencies(q[i]) \subseteq {q[j] : j \in 1 .. i - 1}
    <2>1. CASE i \in DOMAIN s
        <3>1. {s[j] : j \in 1 .. i - 1} = {q[j] : j \in 1 .. i - 1}
            BY <1>1, <2>1
        <3>2. QED
            BY <1>1, <2>1, <3>1 DEF First
    <2>2. CASE i = Len(s) + 1
        <3>1. Elements(s) = {q[j] : j \in 1 .. i - 1}
            BY <1>1, <2>2 DEF Elements
        <3>2. QED
            BY <1>1, <2>2, <3>1
    <2>3. QED
        BY <1>1, <2>1, <2>2
<1>3. QED
    BY <1>2 DEF First, q

LEMMA FirstOfConcat ==
    ASSUME NEW s \in Seq(Ctes), NEW t \in Seq(Ctes), First(s), First(t)
    PROVE  First(s \o t)
<1> DEFINE q == s \o t
<1>1. /\ DOMAIN q = 1 .. Len(s) + Len(t)
      /\ \A i \in 1 .. Len(s) : q[i] = s[i]
      /\ \A i \in 1 .. Len(t) : q[Len(s) + i] = t[i]
      /\ DOMAIN s = 1 .. Len(s) /\ DOMAIN t = 1 .. Len(t)
      /\ Len(s) \in Nat /\ Len(t) \in Nat
    OBVIOUS
<1> HIDE DEF q
<1>2. ASSUME NEW i \in DOMAIN q, NEW c \in Dependencies(q[i])
      PROVE  \E j \in 1 .. i - 1 : q[j] = c
    <2>1. CASE i <= Len(s)
        <3>1. PICK j \in 1 .. i - 1 : s[j] = c
            BY <1>1, <2>1 DEF First
        <3>2. QED
            BY <1>1, <2>1, <3>1
    <2>2. CASE i > Len(s)
        <3> DEFINE k == i - Len(s)
        <3>1. k \in DOMAIN t /\ q[i] = t[k]
            BY <1>1, <2>2
        <3>2. PICK j \in 1 .. k - 1 : t[j] = c
            BY <3>1 DEF First
        <3>3. Len(s) + j \in 1 .. i - 1 /\ q[Len(s) + j] = c
            BY <1>1, <2>2, <3>1, <3>2
        <3>4. QED
            BY <3>3
    <2>3. QED
        BY <1>1, <2>1, <2>2
<1>3. QED
    BY <1>2 DEF First, q

LEMMA OneNameOfAppend ==
    ASSUME NEW s \in Seq(Ctes), NEW d \in Ctes, OneName(s), name[d] \notin NamesOf(s)
    PROVE  OneName(Append(s, d))
<1>1. /\ \A i \in 1 .. Len(s) : Append(s, d)[i] = s[i]
      /\ Append(s, d)[Len(s) + 1] = d
      /\ DOMAIN Append(s, d) = 1 .. Len(s) + 1
      /\ DOMAIN s = 1 .. Len(s)
      /\ Len(s) \in Nat
    OBVIOUS
<1>2. \A i \in DOMAIN s : name[s[i]] # name[d]
    BY DEF NamesOf, Elements
<1>3. QED
    BY <1>1, <1>2 DEF OneName

-----------------------------------------------------------------------------
(* Dependencies and reachability. *)

LEMMA DependenciesType ==
    ASSUME TypeOK, NEW d \in Ctes
    PROVE  Dependencies(d) \subseteq Ctes
BY DEF TypeOK, Dependencies, Elements

LEMMA DependenciesRetained ==
    ASSUME TypeOK, NEW d \in Ctes
    PROVE  Dependencies(d) = {refs[d][i] : i \in Retained(d)}
BY DEF TypeOK, Dependencies, Elements, Retained

LEMMA RootsType == TypeOK => Roots \subseteq Ctes
<1> SUFFICES ASSUME TypeOK, NEW a \in DOMAIN arms, NEW i \in DOMAIN arms[a]
             PROVE  arms[a][i] \in Ctes
    BY DEF Roots, Elements
<1>1. arms[a] \in Seq(Ctes)
    BY DEF TypeOK
<1>2. QED
    BY <1>1

LEMMA ReachableType == ASSUME NEW S PROVE Reachable(S) \subseteq Ctes
BY DEF Reachable

LEMMA ReachableStart ==
    ASSUME NEW S \in SUBSET Ctes
    PROVE  S \subseteq Reachable(S)
BY DEF Reachable

LEMMA ReachableStep ==
    ASSUME TypeOK, NEW S, NEW d \in Reachable(S)
    PROVE  Dependencies(d) \subseteq Reachable(S)
<1> SUFFICES ASSUME NEW c \in Dependencies(d), NEW T \in SUBSET Ctes,
                    S \subseteq T, Closed(T)
             PROVE  c \in T
    <2>1. d \in Ctes
        BY DEF Reachable
    <2>2. QED
        BY <2>1, DependenciesType DEF Reachable
<1>1. d \in T
    BY DEF Reachable
<1>2. QED
    BY <1>1 DEF Closed

LEMMA ReachableLeast ==
    ASSUME NEW S, NEW T \in SUBSET Ctes, S \subseteq T, Closed(T)
    PROVE  Reachable(S) \subseteq T
BY DEF Reachable

\* No step changes what is asked.
LEMMA InputKept ==
    ASSUME UNCHANGED input
    PROVE  /\ Roots' = Roots
           /\ \A S : Reachable(S)' = Reachable(S)
           /\ \A d : Dependencies(d)' = Dependencies(d)
           /\ \A d : Retained(d)' = Retained(d)
           /\ \A s : First(s)' = First(s)
           /\ \A s : OneName(s)' = OneName(s)
<1>1. UNCHANGED <<refs, name, recursive, arms, kind>>
    BY DEF input
<1>2. \A d : Dependencies(d)' = Dependencies(d)
    BY <1>1 DEF Dependencies, Elements
<1>3. \A S : Reachable(S)' = Reachable(S)
    BY <1>1, <1>2 DEF Reachable, Closed
<1>4. \A s : First(s)' = First(s)
    BY <1>2 DEF First
<1>5. QED
    BY <1>1, <1>2, <1>3, <1>4 DEF Roots, Elements, Retained, OneName

-----------------------------------------------------------------------------
(* The stack. *)

LEMMA TopFacts ==
    ASSUME TypeOK, Visiting
    PROVE  /\ Len(stack) \in Nat \ {0}
           /\ DOMAIN stack = 1 .. Len(stack)
           /\ Len(stack) \in DOMAIN stack
           /\ \A k \in DOMAIN stack : stack[k] \in Frames
           /\ Top = stack[Len(stack)]
BY DEF TypeOK, Visiting, Top

\* Moving on in the topmost loop changes nothing but that loop.
LEMMA AdvancedFacts ==
    ASSUME TypeOK, Visiting, NEW i
    PROVE  /\ Advanced(i) \in Seq(Frames)
           /\ Len(Advanced(i)) = Len(stack)
           /\ DOMAIN Advanced(i) = DOMAIN stack
           /\ \A k \in DOMAIN stack : Advanced(i)[k].def = stack[k].def
           /\ \A k \in 1 .. Len(stack) - 1 : Advanced(i)[k] = stack[k]
           /\ Advanced(i)[Len(stack)].left = Top.left \ {i}
<1>1. [def |-> Top.def, left |-> Top.left \ {i}] \in Frames
    BY TopFacts DEF Frames
<1>2. stack \in Seq(Frames) /\ Len(stack) \in 1 .. Len(stack)
    BY TopFacts DEF TypeOK
<1>3. Advanced(i) = [stack EXCEPT ![Len(stack)] = [def |-> Top.def, left |-> Top.left \ {i}]]
    BY DEF Advanced
<1>4. /\ Advanced(i) \in Seq(Frames)
      /\ Len(Advanced(i)) = Len(stack)
      /\ \A k \in 1 .. Len(stack) :
             Advanced(i)[k] = IF k = Len(stack) THEN [def |-> Top.def, left |-> Top.left \ {i}]
                                                ELSE stack[k]
    BY <1>1, <1>2, <1>3, ExceptSeq
<1>5. DOMAIN Advanced(i) = 1 .. Len(stack)
    BY <1>4
<1>6. DOMAIN stack = 1 .. Len(stack) /\ Len(stack) \in Nat \ {0} /\ Top = stack[Len(stack)]
    BY TopFacts
<1>7. \A k \in DOMAIN stack : Advanced(i)[k].def = stack[k].def
    BY <1>4, <1>6
<1>8. \A k \in 1 .. Len(stack) - 1 : Advanced(i)[k] = stack[k]
    BY <1>4, <1>6
<1>9. Advanced(i)[Len(stack)].left = Top.left \ {i}
    BY <1>4, <1>6
<1>10. QED
    BY <1>4, <1>5, <1>6, <1>7, <1>8, <1>9

\* What a loop visits is a reference it wants.
LEMMA ItemFacts ==
    ASSUME TypeOK, PathInv, FramesInv, NEW i, At(i)
    PROVE  /\ i \in Wanted(Len(stack))
           /\ Item(i) = RefsOf(Len(stack))[i]
           /\ Item(i) \in Ctes
           /\ Len(stack) = 1 => Item(i) \in Roots
           /\ Len(stack) > 1 => Top.def \in Ctes /\ Item(i) \in Dependencies(Top.def)
<1>1. Visiting /\ i \in Top.left
    BY DEF At
<1>2. i \in Wanted(Len(stack))
    BY <1>1, TopFacts DEF FramesInv
<1>3. Top.def = Query <=> Len(stack) = 1
    BY <1>1, TopFacts DEF PathInv
<1>4. Item(i) = RefsOf(Len(stack))[i]
    BY <1>1, <1>3, TopFacts DEF Item, RefsOf
<1>5. CASE Len(stack) = 1
    <2>1. Item(i) = arms[arm][i] /\ i \in DOMAIN arms[arm] /\ arm \in DOMAIN arms
        BY <1>2, <1>4, <1>5 DEF RefsOf, Wanted, TypeOK
    <2>2. Item(i) \in Roots
        BY <2>1 DEF Roots, Elements
    <2>3. QED
        BY <1>2, <1>4, <1>5, <2>2, RootsType
<1>6. CASE Len(stack) > 1
    <2>1. Top.def \in Ctes
        BY <1>1, <1>3, <1>6, TopFacts DEF Frames
    <2>2. Item(i) = refs[Top.def][i] /\ i \in Retained(Top.def)
        BY <1>1, <1>2, <1>4, <1>6, TopFacts DEF RefsOf, Wanted
    <2>3. Item(i) \in Dependencies(Top.def)
        BY <2>1, <2>2, DependenciesRetained
    <2>4. QED
        BY <1>1, <1>2, <1>4, <1>6, <2>1, <2>3, DependenciesType, TopFacts
<1>7. QED
    BY <1>1, <1>5, <1>6, TopFacts

\* A loop that is over has kept everything it wanted.
LEMMA LoopOver ==
    ASSUME TypeOK, FramesInv, Visiting, Top.left = {}
    PROVE  \A i \in Wanted(Len(stack)) : RefsOf(Len(stack))[i] \in Elements(ordered)
BY TopFacts DEF FramesInv, Pending

\* A definition whose loop is over has its dependencies kept.
LEMMA DependenciesKept ==
    ASSUME TypeOK, PathInv, FramesInv, Visiting, Top.left = {}, Top.def # Query
    PROVE  /\ Len(stack) > 1
           /\ Top.def \in Ctes
           /\ Dependencies(Top.def) \subseteq Elements(ordered)
<1>1. Len(stack) > 1 /\ Top.def \in Ctes
    BY TopFacts DEF PathInv, Frames
<1>2. \A i \in Retained(Top.def) : refs[Top.def][i] \in Elements(ordered)
    BY <1>1, TopFacts, LoopOver DEF Wanted, RefsOf
<1>3. QED
    BY <1>1, <1>2, DependenciesRetained

\* An arm whose loop is over has its references kept.
LEMMA ArmKept ==
    ASSUME TypeOK, PathInv, FramesInv, Visiting, Top.left = {}, Top.def = Query
    PROVE  /\ Len(stack) = 1
           /\ Elements(arms[arm]) \subseteq Elements(ordered)
<1>1. Len(stack) = 1
    BY TopFacts DEF PathInv
<1>2. QED
    BY <1>1, LoopOver DEF Wanted, RefsOf, Elements

\* What a loop visits is reachable from the query, and from what each call depends on.
LEMMA ItemReachable ==
    ASSUME TypeOK, PathInv, FramesInv, ReachInv, NEW i, At(i)
    PROVE  /\ Item(i) \in Reachable(Roots)
           /\ \A k \in DOMAIN stack : k > 1 => Item(i) \in Reachable(Dependencies(stack[k].def))
<1>0. Visiting
    BY DEF At
<1>1. Item(i) \in Reachable(Roots)
    <2>1. CASE Len(stack) = 1
        BY <2>1, ItemFacts, RootsType, ReachableStart
    <2>2. CASE Len(stack) > 1
        <3>1. Top.def \in OnPath \ {Query}
            BY <1>0, <2>2, TopFacts DEF OnPath, PathInv
        <3>2. QED
            BY <2>2, <3>1, ItemFacts, ReachableStep DEF ReachInv
    <2>3. QED
        BY <1>0, <2>1, <2>2, TopFacts
<1>2. ASSUME NEW k \in DOMAIN stack, k > 1
      PROVE  Item(i) \in Reachable(Dependencies(stack[k].def))
    <2>1. Len(stack) > 1
        BY <1>0, <1>2, TopFacts
    <2>2. CASE k = Len(stack)
        <3>1. Item(i) \in Dependencies(stack[k].def) /\ stack[k].def \in Ctes
            BY <1>0, <2>1, <2>2, ItemFacts, TopFacts
        <3>2. QED
            BY <3>1, DependenciesType, ReachableStart
    <2>3. CASE k < Len(stack)
        <3>1. Top.def \in Reachable(Dependencies(stack[k].def))
            BY <1>0, <1>2, <2>3, TopFacts DEF ReachInv
        <3>2. QED
            BY <2>1, <3>1, ItemFacts, ReachableStep
    <2>4. QED
        BY <1>0, <2>2, <2>3, TopFacts
<1>3. QED
    BY <1>1, <1>2

-----------------------------------------------------------------------------
(* What a step leaves alone stays as it was. *)

LEMMA PathKept ==
    ASSUME PathInv, UNCHANGED <<stack, ordered>>, pc' = "visit" => pc = "visit"
    PROVE  PathInv'
<1>1. OnPath' = OnPath /\ Elements(ordered)' = Elements(ordered) /\ stack' = stack
    BY DEF OnPath, Elements
<1>2. QED
    BY <1>1 DEF PathInv

LEMMA FramesKept ==
    ASSUME FramesInv, UNCHANGED <<input, arm, stack, ordered>>
    PROVE  FramesInv'
<1>1. stack' = stack /\ arm' = arm /\ ordered' = ordered /\ UNCHANGED <<refs, recursive, arms, kind>>
    BY DEF input
<1>2. ASSUME NEW k
      PROVE  Wanted(k)' = Wanted(k) /\ RefsOf(k)' = RefsOf(k) /\ Pending(k)' = Pending(k)
    BY <1>1 DEF Wanted, RefsOf, Pending, Retained
<1>3. Elements(ordered)' = Elements(ordered)
    BY <1>1 DEF Elements
<1>4. QED
    BY <1>1, <1>2, <1>3 DEF FramesInv

LEMMA RootsKept ==
    ASSUME RootsInv, UNCHANGED <<input, arm, collected, kept>>,
           pc' \in {"merge", "done"} => pc' = pc
    PROVE  RootsInv'
<1>1. /\ arms' = arms /\ kind' = kind /\ arm' = arm /\ Roots' = Roots
      /\ Elements(collected)' = Elements(collected)
      /\ Elements(kept)' = Elements(kept)
    BY InputKept DEF input, Elements
<1>2. \A a : Elements(arms[a])' = Elements(arms[a])
    BY <1>1 DEF Elements
<1>3. QED
    BY <1>1, <1>2 DEF RootsInv

LEMMA ReachKept ==
    ASSUME ReachInv, UNCHANGED <<input, stack, ordered, collected, kept>>
    PROVE  ReachInv'
BY InputKept DEF ReachInv, OnPath, Elements

LEMMA PanicKept ==
    ASSUME PanicIsJustified, UNCHANGED <<input, pc>>
    PROVE  PanicIsJustified'
BY InputKept DEF PanicIsJustified, input

-----------------------------------------------------------------------------
(* The steps of the walk. *)

LEMMA SkipKeptKeeps ==
    ASSUME IInv, NEW i, SkipKept(i)
    PROVE  IInv'
<1>0. TypeOK /\ PathInv /\ FramesInv /\ ListsInv /\ ReachInv /\ RootsInv /\ PanicIsJustified
    BY DEF IInv
<1>1. /\ At(i) /\ Visiting /\ Item(i) \in Elements(ordered)
      /\ stack' = Advanced(i)
      /\ UNCHANGED <<input, pc, arm, ordered, collected, merged, kept>>
    BY DEF SkipKept, At
<1>2. UNCHANGED <<refs, name, recursive, arms, kind>>
    BY <1>1 DEF input
<1>3. /\ stack' \in Seq(Frames)
      /\ Len(stack') = Len(stack)
      /\ DOMAIN stack' = DOMAIN stack
      /\ \A k \in DOMAIN stack : stack'[k].def = stack[k].def
      /\ \A k \in 1 .. Len(stack) - 1 : stack'[k] = stack[k]
      /\ stack'[Len(stack)].left = Top.left \ {i}
    BY <1>0, <1>1, AdvancedFacts
<1>4. TypeOK'
    BY <1>0, <1>1, <1>2, <1>3 DEF TypeOK
<1>5. OnPath' = OnPath
    BY <1>3 DEF OnPath
<1>6. PathInv'
    <2>1. stack' # <<>>
        BY <1>0, <1>1, <1>3, TopFacts
    <2>2. /\ \A k \in DOMAIN stack' : stack'[k].def = Query <=> k = 1
          /\ \A k, l \in DOMAIN stack' : stack'[k].def = stack'[l].def => k = l
        BY <1>0, <1>3 DEF PathInv
    <2>3. Elements(ordered)' = Elements(ordered)
        BY <1>1 DEF Elements
    <2>4. OnPath' \cap Elements(ordered)' = {}
        BY <1>0, <1>5, <2>3 DEF PathInv
    <2>5. QED
        BY <2>1, <2>2, <2>4 DEF PathInv
<1>7. FramesInv'
    <2> SUFFICES ASSUME NEW k \in DOMAIN stack
                 PROVE  /\ stack'[k].left \subseteq Wanted(k)'
                        /\ \A j \in Wanted(k)' \ stack'[k].left :
                               RefsOf(k)'[j] \in Elements(ordered) \cup Pending(k)'
        BY <1>1, <1>3 DEF FramesInv, Elements
    <2>1. Wanted(k)' = Wanted(k) /\ RefsOf(k)' = RefsOf(k)
        BY <1>1, <1>2, <1>3 DEF Wanted, RefsOf, Retained
    <2>2. Pending(k)' = Pending(k)
        <3>1. k < Len(stack) => k + 1 \in DOMAIN stack
            BY <1>0, <1>1, TopFacts
        <3>2. QED
            BY <1>3, <3>1 DEF Pending
    <2>3. CASE k = Len(stack)
        <3>1. stack'[k].left = stack[k].left \ {i}
            BY <1>0, <1>1, <1>3, <2>3, TopFacts
        <3>2. RefsOf(k)[i] \in Elements(ordered)
            BY <1>0, <1>1, <2>3, ItemFacts
        <3>3. QED
            BY <1>0, <2>1, <2>2, <3>1, <3>2 DEF FramesInv
    <2>4. CASE k # Len(stack)
        <3>1. stack'[k] = stack[k]
            BY <1>0, <1>1, <1>3, <2>4, TopFacts
        <3>2. QED
            BY <1>0, <2>1, <2>2, <3>1 DEF FramesInv
    <2>5. QED
        BY <2>3, <2>4
<1>8. ListsInv'
    BY <1>0, <1>1, InputKept DEF ListsInv, Elements
<1>9. ReachInv'
    BY <1>0, <1>1, <1>3, <1>5, InputKept DEF ReachInv, Elements
<1>10. RootsInv' /\ PanicIsJustified'
    BY <1>0, <1>1, RootsKept, PanicKept
<1>11. QED
    BY <1>4, <1>6, <1>7, <1>8, <1>9, <1>10 DEF IInv

LEMMA FindCycleKeeps ==
    ASSUME IInv, NEW i, FindCycle(i)
    PROVE  IInv'
<1>0. TypeOK /\ PathInv /\ FramesInv /\ ListsInv /\ ReachInv /\ RootsInv /\ PanicIsJustified
    BY DEF IInv
<1>1. /\ At(i) /\ Visiting /\ pc = "visit"
      /\ Item(i) \in OnPath
      /\ pc' = "cycle"
      /\ UNCHANGED <<input, arm, stack, ordered, collected, merged, kept>>
    BY DEF FindCycle, At, Visiting
<1>2. UNCHANGED <<refs, name, recursive, arms, kind>>
    BY <1>1 DEF input
<1>3. TypeOK'
    BY <1>0, <1>1, <1>2 DEF TypeOK
<1>4. ListsInv'
    BY <1>0, <1>1, InputKept DEF ListsInv, Elements
<1>5. PathInv' /\ FramesInv' /\ RootsInv' /\ ReachInv'
    BY <1>0, <1>1, PathKept, FramesKept, RootsKept, ReachKept
<1>6. Item(i) \in Reachable(Dependencies(Item(i)))
    <2>1. PICK k \in DOMAIN stack : stack[k].def = Item(i)
        BY <1>1 DEF OnPath
    <2>2. k > 1
        BY <1>0, <1>1, <2>1, ItemFacts, TopFacts, ConstantsAreTyped DEF PathInv
    <2>3. QED
        BY <1>0, <1>1, <2>1, <2>2, ItemReachable
<1>7. PanicIsJustified'
    BY <1>0, <1>1, <1>6, ItemReachable, InputKept DEF PanicIsJustified
<1>8. QED
    BY <1>3, <1>4, <1>5, <1>7 DEF IInv

LEMMA EnterKeeps ==
    ASSUME IInv, NEW i, Enter(i)
    PROVE  IInv'
<1> DEFINE n == Len(stack)
           d == Item(i)
<1>0. TypeOK /\ PathInv /\ FramesInv /\ ListsInv /\ ReachInv /\ RootsInv /\ PanicIsJustified
    BY DEF IInv
<1>1. /\ At(i) /\ Visiting /\ d \notin Elements(ordered) \cup OnPath
      /\ stack' = Append(Advanced(i), Frame(d))
      /\ UNCHANGED <<input, pc, arm, ordered, collected, merged, kept>>
    BY DEF Enter, At
<1>2. UNCHANGED <<refs, name, recursive, arms, kind>>
    BY <1>1 DEF input
<1>3. d \in Ctes /\ d # Query
    BY <1>0, <1>1, ItemFacts, ConstantsAreTyped
<1>4. n \in Nat \ {0} /\ DOMAIN stack = 1 .. n /\ Top = stack[n]
    BY <1>0, <1>1, TopFacts
<1>5. Frame(d) \in Frames /\ Frame(d).def = d /\ Frame(d).left = Retained(d)
    <2>1. Retained(d) \subseteq Nat
        BY <1>0, <1>3 DEF TypeOK, Retained
    <2>2. QED
        BY <1>3, <2>1 DEF Frame, Frames
<1>6. /\ stack' \in Seq(Frames)
      /\ Len(stack') = n + 1
      /\ DOMAIN stack' = 1 .. n + 1
      /\ \A k \in 1 .. n : stack'[k] = Advanced(i)[k]
      /\ stack'[n + 1] = Frame(d)
    <2>1. Advanced(i) \in Seq(Frames) /\ Len(Advanced(i)) = n
        BY <1>0, <1>1, AdvancedFacts
    <2>2. QED
        BY <1>1, <1>5, <2>1
<1>7. /\ \A k \in 1 .. n : stack'[k].def = stack[k].def
      /\ \A k \in 1 .. n - 1 : stack'[k] = stack[k]
      /\ stack'[n].left = stack[n].left \ {i}
      /\ stack'[n + 1].def = d
      /\ stack'[n + 1].left = Retained(d)
    <2>1. /\ \A k \in 1 .. n : Advanced(i)[k].def = stack[k].def
          /\ \A k \in 1 .. n - 1 : Advanced(i)[k] = stack[k]
          /\ Advanced(i)[n].left = stack[n].left \ {i}
        BY <1>0, <1>1, <1>4, AdvancedFacts
    <2>2. QED
        BY <1>4, <1>5, <1>6, <2>1
<1> HIDE DEF n, d
<1>8. TypeOK'
    BY <1>0, <1>1, <1>2, <1>6 DEF TypeOK
<1>9. OnPath' = OnPath \cup {d}
    BY <1>4, <1>6, <1>7 DEF OnPath
<1>10. PathInv'
    <2>1. stack' # <<>>
        BY <1>4, <1>6
    <2>2. \A k \in DOMAIN stack' : stack'[k].def = Query <=> k = 1
        BY <1>0, <1>3, <1>4, <1>6, <1>7 DEF PathInv
    <2>3. \A k \in 1 .. n : stack[k].def # d
        BY <1>1, <1>4 DEF OnPath
    <2>4. \A k, l \in DOMAIN stack' : stack'[k].def = stack'[l].def => k = l
        BY <1>0, <1>4, <1>6, <1>7, <2>3 DEF PathInv
    <2>5. OnPath' \cap Elements(ordered)' = {}
        BY <1>0, <1>1, <1>9 DEF PathInv, Elements
    <2>6. QED
        BY <2>1, <2>2, <2>4, <2>5 DEF PathInv
<1>11. FramesInv'
    <2> SUFFICES ASSUME NEW k \in 1 .. n + 1
                 PROVE  /\ stack'[k].left \subseteq Wanted(k)'
                        /\ \A j \in Wanted(k)' \ stack'[k].left :
                               RefsOf(k)'[j] \in Elements(ordered) \cup Pending(k)'
        BY <1>1, <1>6 DEF FramesInv, Elements
    <2>1. CASE k = n + 1
        BY <1>2, <1>4, <1>7, <2>1 DEF Wanted, Retained
    <2>2. CASE k \in 1 .. n
        <3>1. Wanted(k)' = Wanted(k) /\ RefsOf(k)' = RefsOf(k)
            BY <1>1, <1>2, <1>7, <2>2 DEF Wanted, RefsOf, Retained
        <3>2. CASE k = n
            <4>1. RefsOf(k)[i] = d
                BY <1>0, <1>1, <3>2, ItemFacts DEF n, d
            <4>2. Pending(k)' = {d} /\ Pending(k) = {}
                BY <1>4, <1>6, <1>7, <3>2 DEF Pending, n
            <4>3. stack[k].left \subseteq Wanted(k)
                  /\ \A j \in Wanted(k) \ stack[k].left : RefsOf(k)[j] \in Elements(ordered)
                BY <1>0, <1>4, <2>2, <4>2 DEF FramesInv
            <4>4. QED
                BY <1>7, <3>1, <3>2, <4>1, <4>2, <4>3
        <3>3. CASE k # n
            <4>1. k \in 1 .. n - 1 /\ k + 1 \in 1 .. n
                BY <1>4, <2>2, <3>3
            <4>2. Pending(k)' = Pending(k)
                <5>1. k < Len(stack) /\ k < Len(stack')
                    BY <1>4, <1>6, <4>1 DEF n
                <5>2. stack'[k + 1].def = stack[k + 1].def
                    BY <1>7, <4>1
                <5>3. QED
                    BY <5>1, <5>2 DEF Pending
            <4>3. QED
                BY <1>0, <1>4, <1>7, <2>2, <3>1, <4>1, <4>2 DEF FramesInv
        <3>4. QED
            BY <3>2, <3>3
    <2>3. QED
        BY <1>4, <2>1, <2>2
<1>12. ListsInv'
    BY <1>0, <1>1, InputKept DEF ListsInv, Elements
<1>13. ReachInv'
    <2>1. d \in Reachable(Roots) /\ \A k \in 1 .. n : k > 1 => d \in Reachable(Dependencies(stack[k].def))
        BY <1>0, <1>1, <1>4, ItemReachable DEF d
    <2>2. ASSUME NEW k \in 1 .. n + 1, NEW l \in 1 .. n + 1, 1 < k, k < l
          PROVE  stack'[l].def \in Reachable(Dependencies(stack'[k].def))
        <3>1. CASE l = n + 1
            <4>1. k \in 1 .. n
                BY <1>4, <2>2, <3>1
            <4>2. QED
                BY <1>7, <2>1, <2>2, <3>1, <4>1
        <3>2. CASE l \in 1 .. n
            <4>1. k \in 1 .. n
                BY <1>4, <2>2, <3>2
            <4>2. QED
                BY <1>0, <1>4, <1>7, <2>2, <3>2, <4>1 DEF ReachInv
        <3>3. QED
            BY <1>4, <3>1, <3>2
    <2>3. QED
        BY <1>0, <1>1, <1>6, <1>9, <2>1, <2>2, InputKept DEF ReachInv, Elements
<1>14. RootsInv' /\ PanicIsJustified'
    BY <1>0, <1>1, RootsKept, PanicKept
<1>15. QED
    BY <1>8, <1>10, <1>11, <1>12, <1>13, <1>14 DEF IInv

LEMMA LeaveKeeps ==
    ASSUME IInv, Leave
    PROVE  IInv'
<1> DEFINE n == Len(stack)
           d == Top.def
<1>0. TypeOK /\ PathInv /\ FramesInv /\ ListsInv /\ ReachInv /\ RootsInv /\ PanicIsJustified
    BY DEF IInv
<1>1. /\ Visiting /\ Top.left = {} /\ d # Query /\ pc = "visit"
      /\ UNCHANGED <<input, arm, collected, merged, kept>>
    BY DEF Leave, Visiting
<1>2. UNCHANGED <<refs, name, recursive, arms, kind>>
    BY <1>1 DEF input
<1>3. /\ n \in Nat \ {0} /\ n > 1 /\ DOMAIN stack = 1 .. n /\ Top = stack[n]
      /\ d \in Ctes /\ Dependencies(d) \subseteq Elements(ordered)
    BY <1>0, <1>1, TopFacts, DependenciesKept
<1>4. d \notin Elements(ordered) /\ d \in Reachable(Roots)
    BY <1>0, <1>3 DEF PathInv, ReachInv, OnPath
<1>5. CASE name[d] \in NamesOf(ordered)
    <2>1. pc' = "collision" /\ UNCHANGED <<stack, ordered>>
        BY <1>5 DEF Leave
    <2>2. TypeOK'
        BY <1>0, <1>1, <1>2, <2>1 DEF TypeOK
    <2>3. ListsInv'
        BY <1>0, <1>1, <2>1, InputKept DEF ListsInv, Elements
    <2>4. PathInv' /\ FramesInv' /\ RootsInv' /\ ReachInv'
        BY <1>0, <1>1, <2>1, PathKept, FramesKept, RootsKept, ReachKept
    <2>5. PICK c \in Elements(ordered) : name[c] = name[d]
        BY <1>5 DEF NamesOf
    <2>6. c \in Reachable(Roots) /\ c # d
        BY <1>0, <1>4, <2>5 DEF ReachInv
    <2>7. PanicIsJustified'
        BY <1>2, <1>1, <1>4, <2>1, <2>5, <2>6, InputKept DEF PanicIsJustified
    <2>8. QED
        BY <2>2, <2>3, <2>4, <2>7 DEF IInv
<1>6. CASE name[d] \notin NamesOf(ordered)
    <2>1. /\ stack' = SubSeq(stack, 1, n - 1)
          /\ ordered' = Append(ordered, d)
          /\ pc' = pc
        BY <1>6 DEF Leave
    <2>2. /\ stack' \in Seq(Frames)
          /\ Len(stack') = n - 1
          /\ DOMAIN stack' = 1 .. n - 1
          /\ \A k \in 1 .. n - 1 : stack'[k] = stack[k]
        BY <1>0, <1>3, <2>1 DEF TypeOK
    <2>3. Elements(ordered') = Elements(ordered) \cup {d}
        BY <1>0, <1>3, <2>1, ElementsOfAppend DEF TypeOK
    <2>4. Elements(ordered)' = Elements(ordered')
        BY DEF Elements
    <2> HIDE DEF n, d
    <2>5. TypeOK'
        BY <1>0, <1>1, <1>2, <1>3, <2>1, <2>2 DEF TypeOK
    <2>6. PathInv'
        <3>1. stack' # <<>>
            BY <1>3, <2>2
        <3>2. \A k \in 1 .. n - 1 : k \in DOMAIN stack /\ k # n
            BY <1>3
        <3>3. d \notin OnPath'
            BY <1>0, <1>3, <2>2, <3>2 DEF PathInv, OnPath, d
        <3>4. OnPath' \subseteq OnPath
            BY <2>2, <3>2 DEF OnPath
        <3>5. \A k \in DOMAIN stack' : stack'[k].def = Query <=> k = 1
            BY <1>0, <2>2, <3>2 DEF PathInv
        <3>6. \A k, l \in DOMAIN stack' : stack'[k].def = stack'[l].def => k = l
            BY <1>0, <2>2, <3>2 DEF PathInv
        <3>7. QED
            BY <1>0, <2>3, <2>4, <3>1, <3>3, <3>4, <3>5, <3>6 DEF PathInv
    <2>7. FramesInv'
        <3> SUFFICES ASSUME NEW k \in 1 .. n - 1
                     PROVE  /\ stack'[k].left \subseteq Wanted(k)'
                            /\ \A j \in Wanted(k)' \ stack'[k].left :
                                   RefsOf(k)'[j] \in Elements(ordered') \cup Pending(k)'
            BY <2>2, <2>4 DEF FramesInv
        <3>1. k \in 1 .. n /\ k < n
            BY <1>3
        <3>2. Wanted(k)' = Wanted(k) /\ RefsOf(k)' = RefsOf(k)
            BY <1>1, <1>2, <2>2 DEF Wanted, RefsOf, Retained
        <3>3. Pending(k) \subseteq Pending(k)' \cup {d}
            <4>1. Pending(k) = {stack[k + 1].def}
                BY <3>1 DEF Pending, n
            <4>2. CASE k = n - 1
                <5>1. k + 1 = n
                    BY <1>3, <4>2
                <5>2. QED
                    BY <1>3, <4>1, <5>1 DEF d
            <4>3. CASE k # n - 1
                <5>1. k < n - 1 /\ k + 1 \in 1 .. n - 1
                    BY <1>3, <4>3
                <5>2. Pending(k)' = {stack'[k + 1].def} /\ stack'[k + 1] = stack[k + 1]
                    BY <2>2, <5>1 DEF Pending
                <5>3. QED
                    BY <4>1, <5>2
            <4>4. QED
                BY <4>2, <4>3
        <3>4. stack[k].left \subseteq Wanted(k)
              /\ \A j \in Wanted(k) \ stack[k].left :
                     RefsOf(k)[j] \in Elements(ordered) \cup Pending(k)
            BY <1>0, <1>3, <3>1 DEF FramesInv
        <3>5. QED
            BY <2>2, <2>3, <3>2, <3>3, <3>4
    <2>8. ListsInv'
        <3>1. First(ordered') /\ OneName(ordered')
            BY <1>0, <1>3, <1>6, <2>1, FirstOfAppend, OneNameOfAppend DEF TypeOK, ListsInv
        <3>2. First(ordered)' /\ OneName(ordered)'
            BY <1>1, <3>1, InputKept
        <3>3. QED
            BY <1>0, <1>1, <2>1, <3>2, InputKept DEF ListsInv, Elements
    <2>9. ReachInv'
        <3>1. OnPath' \subseteq OnPath
            BY <1>3, <2>2 DEF OnPath
        <3>2. \A k, l \in DOMAIN stack' :
                  1 < k /\ k < l => stack'[l].def \in Reachable(Dependencies(stack'[k].def))
            BY <1>0, <1>3, <2>2 DEF ReachInv
        <3>3. Elements(ordered') \subseteq Reachable(Roots)
            BY <1>0, <1>4, <2>3 DEF ReachInv, d
        <3>4. Elements(collected)' = Elements(collected) /\ Elements(kept)' = Elements(kept)
            BY <1>1 DEF Elements
        <3>5. QED
            BY <1>0, <1>1, <2>4, <3>1, <3>2, <3>3, <3>4, InputKept DEF ReachInv
    <2>10. RootsInv' /\ PanicIsJustified'
        BY <1>0, <1>1, <2>1, RootsKept, PanicKept
    <2>11. QED
        BY <2>5, <2>6, <2>7, <2>8, <2>9, <2>10 DEF IInv
<1>7. QED
    BY <1>5, <1>6

-----------------------------------------------------------------------------
(* The steps that end a list, and the merge. *)

LEMMA SelectDoneKeeps ==
    ASSUME IInv, SelectDone
    PROVE  IInv'
<1>0. TypeOK /\ PathInv /\ FramesInv /\ ListsInv /\ ReachInv /\ RootsInv /\ PanicIsJustified
    BY DEF IInv
<1>1. /\ Visiting /\ Top.left = {} /\ Top.def = Query /\ Len(arms) = 1
      /\ pc' = "done" /\ kept' = ordered
      /\ UNCHANGED <<input, arm, stack, ordered, collected, merged>>
    BY DEF SelectDone
<1>2. UNCHANGED <<refs, name, recursive, arms, kind>>
    BY <1>1 DEF input
<1>3. TypeOK'
    BY <1>0, <1>1, <1>2 DEF TypeOK
<1>4. PathInv' /\ FramesInv'
    BY <1>0, <1>1, PathKept, FramesKept
<1>5. ListsInv'
    BY <1>0, <1>1, InputKept DEF ListsInv, Elements
<1>6. ReachInv'
    BY <1>0, <1>1, InputKept DEF ReachInv, OnPath, Elements
<1>7. RootsInv'
    <2>1. arm = 1 /\ DOMAIN arms = {1}
        BY <1>0, <1>1 DEF TypeOK
    <2>2. Roots = Elements(arms[1])
        BY <2>1 DEF Roots
    <2>3. Roots \subseteq Elements(ordered)
        BY <1>0, <1>1, <2>1, <2>2, ArmKept
    <2>4. Roots' \subseteq Elements(kept)'
        BY <1>1, <2>3, InputKept DEF Elements
    <2>5. 1 .. arm' - 1 = {}
        BY <1>1, <2>1
    <2>6. QED
        BY <1>1, <2>4, <2>5 DEF RootsInv
<1>8. PanicIsJustified'
    BY <1>1 DEF PanicIsJustified
<1>9. QED
    BY <1>3, <1>4, <1>5, <1>6, <1>7, <1>8 DEF IInv

LEMMA ArmDoneKeeps ==
    ASSUME IInv, ArmDone
    PROVE  IInv'
<1>0. TypeOK /\ PathInv /\ FramesInv /\ ListsInv /\ ReachInv /\ RootsInv /\ PanicIsJustified
    BY DEF IInv
<1>1. /\ Visiting /\ pc = "visit" /\ Top.left = {} /\ Top.def = Query
      /\ collected' = collected \o ordered
      /\ ordered' = <<>>
      /\ UNCHANGED <<input, merged, kept>>
    BY DEF ArmDone, Visiting
<1>2. UNCHANGED <<refs, name, recursive, arms, kind>>
    BY <1>1 DEF input
<1>3. /\ ordered \in Seq(Ctes) /\ collected \in Seq(Ctes) /\ arm \in 1 .. Len(arms)
      /\ Len(arms) \in Nat /\ DOMAIN arms = 1 .. Len(arms)
    BY <1>0 DEF TypeOK
<1>4. \/ /\ arm < Len(arms) /\ arm' = arm + 1 /\ pc' = "visit" /\ stack' = <<ArmFrame(arm')>>
      \/ arm = Len(arms) /\ arm' = arm /\ pc' = "merge" /\ stack' = <<>>
    <2>1. CASE arm < Len(arms)
        BY <1>1, <2>1 DEF ArmDone
    <2>2. CASE ~(arm < Len(arms))
        <3>1. arm \in Nat /\ Len(arms) \in Nat /\ arm <= Len(arms)
            BY <1>3
        <3>2. arm = Len(arms)
            BY <2>2, <3>1
        <3>3. QED
            BY <2>2, <3>2 DEF ArmDone
    <2>3. QED
        BY <2>1, <2>2
<1>5. arm' \in 1 .. Len(arms) /\ arm' \in DOMAIN arms
    <2>1. arm \in Nat \ {0} /\ Len(arms) \in Nat /\ arm <= Len(arms)
        BY <1>3
    <2>2. arm' \in Nat \ {0} /\ arm' <= Len(arms)
        BY <1>4, <2>1
    <2>3. QED
        BY <1>3, <2>1, <2>2
<1>6. stack' \in Seq(Frames)
    <2>1. DOMAIN arms[arm'] \in SUBSET Nat
        BY <1>0, <1>5 DEF TypeOK
    <2>2. ArmFrame(arm') \in Frames
        BY <2>1 DEF ArmFrame, Frames
    <2>3. stack' = <<>> \/ stack' = <<ArmFrame(arm')>>
        BY <1>4
    <2>4. <<>> \in Seq(Frames) /\ <<ArmFrame(arm')>> \in Seq(Frames)
        BY <2>2
    <2>5. QED
        BY <2>3, <2>4
<1>7. Elements(collected') = Elements(collected) \cup Elements(ordered)
    BY <1>1, <1>3, ElementsOfConcat
<1>8. Elements(ordered)' = {} /\ Elements(collected)' = Elements(collected')
    BY <1>1 DEF Elements
<1>9. collected' \in Seq(Ctes)
    BY <1>1, <1>3
<1>10. merged = 0 /\ kept = <<>>
    BY <1>0, <1>1 DEF ListsInv
<1>11. TypeOK'
    <2>1. Len(collected') \in Nat /\ merged' = 0 /\ kept' = <<>>
        BY <1>1, <1>9, <1>10
    <2>2. pc' \in {"visit", "merge"}
        BY <1>4
    <2>3. QED
        BY <1>0, <1>1, <1>2, <1>5, <1>6, <1>9, <2>1, <2>2 DEF TypeOK
<1>12. /\ Len(stack') \in {0, 1} /\ DOMAIN stack' = 1 .. Len(stack')
       /\ \A k \in DOMAIN stack' :
              k = 1 /\ stack'[k].def = Query /\ stack'[k].left = DOMAIN arms[arm']
       /\ pc' = "visit" => stack' # <<>>
    <2>1. CASE stack' = <<ArmFrame(arm')>>
        BY <2>1 DEF ArmFrame
    <2>2. CASE stack' = <<>> /\ pc' = "merge"
        BY <2>2
    <2>3. QED
        BY <1>4, <2>1, <2>2
<1>13. PathInv'
    BY <1>8, <1>12 DEF PathInv
<1>14. FramesInv'
    BY <1>2, <1>12 DEF FramesInv, Wanted
<1>15. ListsInv'
    <2>1. First(collected')
        BY <1>0, <1>1, <1>3, FirstOfConcat DEF ListsInv
    <2>2. First(<<>>) /\ OneName(<<>>)
        BY DEF First, OneName
    <2>3. First(ordered)' /\ OneName(ordered)' /\ First(collected)'
        BY <1>1, <2>1, <2>2, InputKept
    <2>4. Elements(kept)' = {} /\ {collected'[i] : i \in 1 .. merged'} = {}
        BY <1>1, <1>10 DEF Elements
    <2>5. QED
        BY <1>0, <1>1, <1>10, <2>3, <2>4, InputKept DEF ListsInv
<1>16. ReachInv'
    <2>1. OnPath' \ {Query} = {}
        BY <1>12 DEF OnPath
    <2>2. Elements(collected') \subseteq Reachable(Roots)
        BY <1>0, <1>7 DEF ReachInv
    <2>3. Elements(kept)' = Elements(kept)
        BY <1>1 DEF Elements
    <2>4. \A k, l \in DOMAIN stack' : ~(k < l)
        BY <1>12
    <2>5. QED
        BY <1>0, <1>1, <1>8, <2>1, <2>2, <2>3, <2>4, InputKept DEF ReachInv
<1>17. RootsInv'
    <2>1. Elements(arms[arm]) \subseteq Elements(collected')
        BY <1>0, <1>1, <1>7, ArmKept
    <2>2. \A a \in 1 .. arm : Elements(arms[a]) \subseteq Elements(collected')
        <3>1. \A a \in 1 .. arm : a = arm \/ a \in 1 .. arm - 1
            BY <1>3
        <3>2. QED
            BY <1>0, <1>7, <2>1, <3>1 DEF RootsInv
    <2>3. pc' = "merge" => Roots \subseteq Elements(collected')
        BY <1>1, <1>3, <1>4, <2>2 DEF Roots
    <2>4. \A a \in 1 .. arm' - 1 : a \in 1 .. arm
        <3>1. arm' = arm \/ arm' = arm + 1
            BY <1>4
        <3>2. QED
            BY <1>3, <3>1
    <2>5. \A a : Elements(arms[a])' = Elements(arms[a])
        BY <1>2 DEF Elements
    <2>6. pc' # "done"
        BY <1>4
    <2>7. QED
        BY <1>1, <1>8, <2>2, <2>3, <2>4, <2>5, <2>6, InputKept DEF RootsInv
<1>18. PanicIsJustified'
    BY <1>4 DEF PanicIsJustified
<1>19. QED
    BY <1>11, <1>13, <1>14, <1>15, <1>16, <1>17, <1>18 DEF IInv

LEMMA MergeKeeps ==
    ASSUME IInv, Merge
    PROVE  IInv'
<1> DEFINE d == Candidate
<1>0. TypeOK /\ PathInv /\ FramesInv /\ ListsInv /\ ReachInv /\ RootsInv /\ PanicIsJustified
    BY DEF IInv
<1>1. /\ pc = "merge" /\ merged < Len(collected)
      /\ UNCHANGED <<input, arm, stack, ordered, collected>>
    BY DEF Merge
<1>2. UNCHANGED <<refs, name, recursive, arms, kind>>
    BY <1>1 DEF input
<1>3. /\ merged \in Nat /\ Len(collected) \in Nat /\ merged + 1 \in DOMAIN collected
      /\ d = collected[merged + 1] /\ d \in Ctes /\ kept \in Seq(Ctes)
    BY <1>0, <1>1 DEF TypeOK, Candidate
<1>4. Elements(kept) = {collected[i] : i \in 1 .. merged}
    BY <1>0, <1>1 DEF ListsInv
<1>5. Elements(kept) \cup {d} = {collected[i] : i \in 1 .. merged + 1}
    BY <1>3, <1>4
<1>6. d \in Elements(collected) /\ d \in Reachable(Roots)
    <2>1. d \in Elements(collected)
        BY <1>3 DEF Elements
    <2>2. QED
        BY <1>0, <2>1 DEF ReachInv
<1>7. Dependencies(d) \subseteq Elements(kept)
    BY <1>0, <1>3, <1>4 DEF ListsInv, First
<1>8. FramesInv' /\ Elements(collected)' = Elements(collected)
    BY <1>0, <1>1, FramesKept DEF Elements
<1> HIDE DEF d
<1>9. CASE d \in Elements(kept)
    <2>1. merged' = merged + 1 /\ UNCHANGED <<pc, kept>>
        BY <1>9 DEF Merge, d
    <2>2. TypeOK'
        BY <1>0, <1>1, <1>2, <1>3, <2>1 DEF TypeOK
    <2>3. ListsInv'
        <3>1. Elements(kept)' = {collected'[i] : i \in 1 .. merged'}
            BY <1>1, <1>5, <1>9, <2>1 DEF Elements
        <3>2. QED
            BY <1>0, <1>1, <2>1, <3>1, InputKept DEF ListsInv
    <2>4. PathInv' /\ RootsInv' /\ ReachInv' /\ PanicIsJustified'
        BY <1>0, <1>1, <2>1, PathKept, RootsKept, ReachKept, PanicKept
    <2>5. QED
        BY <1>8, <2>2, <2>3, <2>4 DEF IInv
<1>10. CASE d \notin Elements(kept) /\ name[d] \in NamesOf(kept)
    <2>1. pc' = "collision" /\ UNCHANGED <<merged, kept>>
        BY <1>10 DEF Merge, d
    <2>2. TypeOK'
        BY <1>0, <1>1, <1>2, <2>1 DEF TypeOK
    <2>3. ListsInv'
        BY <1>0, <1>1, <2>1, InputKept DEF ListsInv, Elements
    <2>4. PathInv' /\ RootsInv' /\ ReachInv'
        BY <1>0, <1>1, <2>1, PathKept, RootsKept, ReachKept
    <2>5. PICK c \in Elements(kept) : name[c] = name[d]
        BY <1>10 DEF NamesOf
    <2>6. c \in Reachable(Roots) /\ c # d
        BY <1>0, <1>10, <2>5 DEF ReachInv
    <2>7. PanicIsJustified'
        BY <1>1, <1>2, <1>6, <2>1, <2>5, <2>6, InputKept DEF PanicIsJustified
    <2>8. QED
        BY <1>8, <2>2, <2>3, <2>4, <2>7 DEF IInv
<1>11. CASE d \notin Elements(kept) /\ name[d] \notin NamesOf(kept)
    <2>1. merged' = merged + 1 /\ kept' = Append(kept, d) /\ pc' = pc
        BY <1>11 DEF Merge, d
    <2>2. Elements(kept') = Elements(kept) \cup {d} /\ Elements(kept)' = Elements(kept')
        BY <1>3, <2>1, ElementsOfAppend DEF Elements
    <2>3. TypeOK'
        BY <1>0, <1>1, <1>2, <1>3, <2>1 DEF TypeOK
    <2>4. ListsInv'
        <3>1. First(kept') /\ OneName(kept')
            BY <1>0, <1>3, <1>7, <1>11, <2>1, FirstOfAppend, OneNameOfAppend DEF ListsInv
        <3>2. First(kept)' /\ OneName(kept)'
            BY <1>1, <3>1, InputKept
        <3>3. Elements(kept)' = {collected'[i] : i \in 1 .. merged'}
            BY <1>1, <1>5, <2>1, <2>2
        <3>4. QED
            BY <1>0, <1>1, <2>1, <3>2, <3>3, InputKept DEF ListsInv
    <2>5. ReachInv'
        <3>1. Elements(kept') \subseteq Reachable(Roots)
            BY <1>0, <1>6, <2>2 DEF ReachInv
        <3>2. QED
            BY <1>0, <1>1, <2>2, <3>1, InputKept DEF ReachInv, OnPath, Elements
    <2>6. RootsInv'
        <3>1. \A a : Elements(arms[a])' = Elements(arms[a])
            BY <1>2 DEF Elements
        <3>2. QED
            BY <1>0, <1>1, <1>8, <2>1, <3>1, InputKept DEF RootsInv
    <2>7. PathInv' /\ PanicIsJustified'
        BY <1>0, <1>1, <2>1, PathKept, PanicKept
    <2>8. QED
        BY <1>8, <2>3, <2>4, <2>5, <2>6, <2>7 DEF IInv
<1>12. QED
    BY <1>9, <1>10, <1>11

LEMMA MergeDoneKeeps ==
    ASSUME IInv, MergeDone
    PROVE  IInv'
<1>0. TypeOK /\ PathInv /\ FramesInv /\ ListsInv /\ ReachInv /\ RootsInv /\ PanicIsJustified
    BY DEF IInv
<1>1. /\ pc = "merge" /\ merged = Len(collected) /\ pc' = "done"
      /\ UNCHANGED <<input, arm, stack, ordered, collected, merged, kept>>
    BY DEF MergeDone
<1>2. UNCHANGED <<refs, name, recursive, arms, kind>>
    BY <1>1 DEF input
<1>3. TypeOK'
    BY <1>0, <1>1, <1>2 DEF TypeOK
<1>4. PathInv' /\ FramesInv' /\ ReachInv'
    BY <1>0, <1>1, PathKept, FramesKept, ReachKept
<1>5. ListsInv'
    BY <1>0, <1>1, InputKept DEF ListsInv, Elements
<1>6. RootsInv'
    <2>1. DOMAIN collected = 1 .. merged
        BY <1>0, <1>1 DEF TypeOK
    <2>2. Elements(kept) = Elements(collected)
        BY <1>0, <1>1, <2>1 DEF ListsInv, Elements
    <2>3. Roots \subseteq Elements(kept)
        BY <1>0, <1>1, <2>2 DEF RootsInv
    <2>4. \A a : Elements(arms[a])' = Elements(arms[a])
        BY <1>2 DEF Elements
    <2>5. Elements(collected)' = Elements(collected) /\ Elements(kept)' = Elements(kept)
        BY <1>1 DEF Elements
    <2>6. QED
        BY <1>0, <1>1, <2>3, <2>4, <2>5, InputKept DEF RootsInv
<1>7. PanicIsJustified'
    BY <1>1 DEF PanicIsJustified
<1>8. QED
    BY <1>3, <1>4, <1>5, <1>6, <1>7 DEF IInv

LEMMA MutationDoneKeeps ==
    ASSUME IInv, MutationDone
    PROVE  IInv'
<1>0. TypeOK /\ PathInv /\ FramesInv /\ ListsInv /\ ReachInv /\ RootsInv /\ PanicIsJustified
    BY DEF IInv
<1>1. /\ kind = "mutation" /\ pc = "visit" /\ pc' = "done"
      /\ UNCHANGED <<input, arm, stack, ordered, collected, merged, kept>>
    BY DEF MutationDone
<1>2. UNCHANGED <<refs, name, recursive, arms, kind>>
    BY <1>1 DEF input
<1>3. TypeOK'
    BY <1>0, <1>1, <1>2 DEF TypeOK
<1>4. PathInv' /\ FramesInv' /\ ReachInv'
    BY <1>0, <1>1, PathKept, FramesKept, ReachKept
<1>5. ListsInv'
    BY <1>0, <1>1, InputKept DEF ListsInv, Elements
<1>6. RootsInv'
    <2>1. \A a : Elements(arms[a])' = Elements(arms[a])
        BY <1>2 DEF Elements
    <2>2. Elements(collected)' = Elements(collected) /\ kind' # "query" /\ pc' # "merge"
        BY <1>1, <1>2 DEF Elements
    <2>3. QED
        BY <1>0, <1>1, <2>1, <2>2 DEF RootsInv
<1>7. PanicIsJustified'
    BY <1>1 DEF PanicIsJustified
<1>8. QED
    BY <1>3, <1>4, <1>5, <1>6, <1>7 DEF IInv

-----------------------------------------------------------------------------
(* The invariant. *)

LEMMA InvInit == Init => IInv
<1> SUFFICES ASSUME Init
             PROVE  IInv
    OBVIOUS
<1>1. /\ refs \in [Ctes -> Seq(Ctes)] /\ name \in [Ctes -> Names]
      /\ recursive \in SUBSET Ctes
      /\ arms \in Seq(Seq(Ctes)) /\ arms # <<>>
      /\ kind \in {"query", "mutation"}
    BY ConstantsAreTyped DEF Init
<1>2. /\ pc = "visit" /\ arm = 1 /\ stack = <<[def |-> Query, left |-> DOMAIN arms[1]]>>
      /\ ordered = <<>> /\ collected = <<>> /\ merged = 0 /\ kept = <<>>
    BY DEF Init, ArmFrame
<1>3. /\ Len(stack) = 1 /\ DOMAIN stack = {1}
      /\ stack[1].def = Query /\ stack[1].left = DOMAIN arms[1]
    BY <1>2
<1>4. 1 \in 1 .. Len(arms)
    BY <1>1
<1>5. stack \in Seq(Frames)
    <2>1. DOMAIN arms[1] \in SUBSET Nat
        BY <1>1, <1>4
    <2>2. QED
        BY <1>2, <2>1 DEF Frames
<1>6. Elements(ordered) = {} /\ Elements(collected) = {} /\ Elements(kept) = {}
    BY <1>2 DEF Elements
<1>7. TypeOK
    BY <1>1, <1>2, <1>4, <1>5 DEF TypeOK
<1>8. PathInv
    BY <1>2, <1>3, <1>6 DEF PathInv
<1>9. FramesInv
    BY <1>2, <1>3 DEF FramesInv, Wanted
<1>10. ListsInv
    BY <1>2, <1>6 DEF ListsInv, First, OneName
<1>11. ReachInv
    BY <1>3, <1>6 DEF ReachInv, OnPath
<1>12. RootsInv /\ PanicIsJustified
    BY <1>2 DEF RootsInv, PanicIsJustified
<1>13. QED
    BY <1>7, <1>8, <1>9, <1>10, <1>11, <1>12 DEF IInv

LEMMA InvStep == IInv /\ [Next]_vars => IInv'
<1> SUFFICES ASSUME IInv, [Next]_vars
             PROVE  IInv'
    OBVIOUS
<1>1. ASSUME NEW i \in Top.left, SkipKept(i) \/ FindCycle(i) \/ Enter(i)
      PROVE  IInv'
    BY <1>1, SkipKeptKeeps, FindCycleKeeps, EnterKeeps
<1>2. CASE UNCHANGED vars
    <2>1. /\ UNCHANGED <<input, pc, arm, stack, ordered, collected, merged, kept>>
          /\ UNCHANGED <<refs, name, recursive, arms, kind>>
        BY <1>2 DEF vars, input
    <2>2. TypeOK'
        BY <2>1 DEF IInv, TypeOK
    <2>3. ListsInv'
        BY <2>1, InputKept DEF IInv, ListsInv, Elements
    <2>4. QED
        BY <2>1, <2>2, <2>3, PathKept, FramesKept, RootsKept, ReachKept, PanicKept DEF IInv
<1>3. QED
    BY <1>1, <1>2, LeaveKeeps, SelectDoneKeeps, ArmDoneKeeps, MergeKeeps, MergeDoneKeeps,
       MutationDoneKeeps DEF Next

LEMMA InvResolves == IInv => ReferencesResolve
<1> SUFFICES ASSUME IInv, NEW i \in DOMAIN kept, NEW c \in Elements(refs[kept[i]])
             PROVE  {kept[j] : j \in {k \in InScope(i) : name[kept[k]] = name[c]}} = {c}
    BY DEF ReferencesResolve
<1>1. TypeOK /\ First(kept) /\ OneName(kept)
    BY DEF IInv, ListsInv
<1>2. DOMAIN kept = 1 .. Len(kept) /\ Len(kept) \in Nat /\ kept[i] \in Ctes
    BY <1>1 DEF TypeOK
<1>3. InScope(i) \subseteq DOMAIN kept /\ 1 .. i - 1 \subseteq InScope(i)
    BY <1>2 DEF InScope
<1>4. \E j \in InScope(i) : kept[j] = c
    <2>1. CASE c \in Dependencies(kept[i])
        BY <1>1, <1>3, <2>1 DEF First
    <2>2. CASE c \notin Dependencies(kept[i])
        <3>1. kept[i] \in recursive /\ c = kept[i]
            BY <2>2 DEF Dependencies
        <3>2. InScope(i) = DOMAIN kept
            BY <3>1 DEF InScope, Elements
        <3>3. QED
            BY <3>1, <3>2
    <2>3. QED
        BY <2>1, <2>2
<1>5. PICK j \in InScope(i) : kept[j] = c
    BY <1>4
<1>6. \A k \in InScope(i) : name[kept[k]] = name[c] => k = j
    BY <1>1, <1>3, <1>5 DEF OneName
<1>7. QED
    BY <1>5, <1>6

LEMMA InvComplete == IInv => ClauseIsComplete
<1> SUFFICES ASSUME IInv, pc = "done", kind = "query"
             PROVE  Elements(kept) = Reachable(Roots)
    BY DEF ClauseIsComplete
<1>1. /\ TypeOK /\ First(kept) /\ Roots \subseteq Elements(kept)
      /\ Elements(kept) \subseteq Reachable(Roots)
    BY DEF IInv, ListsInv, RootsInv, ReachInv
<1>2. kept \in Seq(Ctes) /\ DOMAIN kept = 1 .. Len(kept) /\ Len(kept) \in Nat
    BY <1>1 DEF TypeOK
<1>3. Elements(kept) \in SUBSET Ctes
    BY <1>2 DEF Elements
<1>4. Closed(Elements(kept))
    <2> SUFFICES ASSUME NEW i \in DOMAIN kept, NEW c \in Dependencies(kept[i])
                 PROVE  c \in Elements(kept)
        BY DEF Closed, Elements
    <2>1. PICK j \in 1 .. i - 1 : kept[j] = c
        BY <1>1 DEF First
    <2>2. j \in DOMAIN kept
        BY <1>2, <2>1
    <2>3. QED
        BY <2>1, <2>2 DEF Elements
<1>5. Reachable(Roots) \subseteq Elements(kept)
    BY <1>1, <1>3, <1>4, ReachableLeast
<1>6. QED
    BY <1>1, <1>5

\* The inductive invariant holds in every reachable state.
THEOREM InvHolds == Spec => []IInv
BY InvInit, InvStep, PTL DEF Spec

\* Every list collect_ctes and dedup_set_ctes build has the shape its type says.
THEOREM TypeCorrect == Spec => []TypeOK
<1>1. IInv => TypeOK
    BY DEF IInv
<1>2. QED
    BY <1>1, InvHolds, PTL

\* "A referenced CTE before the one that uses it", for any graph of definitions.
THEOREM Order == Spec => []DependenciesFirst
<1>1. IInv => DependenciesFirst
    BY DEF IInv, ListsInv, First, DependenciesFirst
<1>2. QED
    BY <1>1, InvHolds, PTL

\* In the finished clause each reference has exactly one entry of its name in its scope,
\* the right one.
THEOREM Resolution == Spec => []ReferencesResolve
BY InvResolves, InvHolds, PTL

\* The finished clause is exactly what the query needs, directly or not.
THEOREM Completeness == Spec => []ClauseIsComplete
BY InvComplete, InvHolds, PTL

\* A panic has its reason in what the query can reach.
THEOREM Refusals == Spec => []PanicIsJustified
<1>1. IInv => PanicIsJustified
    BY DEF IInv
<1>2. QED
    BY <1>1, InvHolds, PTL
=============================================================================
