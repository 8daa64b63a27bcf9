------------------------ MODULE SourceAliases_proofs ------------------------
(***************************************************************************)
(* Proofs about SourceAliases, for any number of chains.                   *)
(*                                                                         *)
(* What lies around a text is a line of texts (TextInv), and a chain whose *)
(* columns are in scope in a text is in scope in all that lies between the *)
(* two (ScopeInv).  With the innermost handle, a chain is deeper than all  *)
(* that is in its scope (InnermostInv), hence than what a text between     *)
(* could be confused with.  With a single handle, no two chains of one     *)
(* closure of the root share a depth (SingleInv).                          *)
(***************************************************************************)
EXTENDS SourceAliases, SequenceTheorems, TLAPS

Ch(k) == closures[k].chain

ClosuresInv ==
    /\ \A k \in DOMAIN closures : stage[Ch(k)] = "open"
    /\ \A k, l \in DOMAIN closures : Ch(k) = Ch(l) => k = l
    /\ \A k, l \in DOMAIN closures : Ch(k) \in sees[Ch(l)] <=> k <= l
    /\ closures # <<>> => Ch(1) = Root

TextInv ==
    /\ stage[Root] = "open"
    /\ \A c \in Chains : stage[c] \in {"unused", "open", "finished"} => within[c] = {}
    /\ \A c \in Chains : \A d \in within[c] : c # d /\ within[d] \subseteq within[c]
    /\ \A c \in Chains : \A d, e \in within[c] : d = e \/ d \in within[e] \/ e \in within[d]
    /\ \A c \in Chains : stage[c] = "embedded" => \E d \in within[c] : Alive(d)
    /\ \A c \in Chains : Live(c) => \A d \in within[c] : Live(d)

ScopeInv ==
    /\ \A c \in Chains : stage[c] = "unused" => sees[c] = {}
    /\ \A c \in Chains : stage[c] # "unused" => {c, Root} \subseteq sees[c]
    /\ \A c \in Chains : \A r \in sees[c] \cup within[c] : stage[r] # "unused"
    /\ \A c \in Chains : Live(c) => sees[c] \subseteq Enclosing \cup within[c] \cup {c}
    /\ \A c \in Chains : Live(c) =>
           \A d \in within[c], r \in sees[c] :
               r \in Enclosing \cup within[d] => r \in sees[d]

InScope(k, c) == k \in Handles /\ Ch(k) \in sees[c] \ {c}

InnermostInv ==
    discipline = "innermost" =>
    /\ \A c \in Chains : \A r \in sees[c] \ {c} : depth[r] < depth[c]
    /\ \A k \in Handles : depth[Ch(k)] < closures[k].next
    /\ \A c \in Chains : stage[c] = "open" =>
           \A k \in Handles :
               /\ InScope(k, c)
               /\ \A j \in Handles : InScope(j, c) => j <= k
               => depth[c] < closures[k].next

\* The chains of the root's present closure.
Present(c) == c # Root /\ Live(c) /\ Root \notin within[c]

SingleInv ==
    discipline = "single" =>
    /\ depth[Root] = 0
    /\ \A c \in Chains : c # Root /\ stage[c] # "unused" => depth[c] > 0
    /\ \A c \in Chains : Present(c) => closures # <<>> /\ depth[c] < closures[1].next
    /\ \A c, d \in Chains : Present(c) /\ Present(d) /\ depth[c] = depth[d] => c = d
    /\ \A c \in Chains : \A r \in within[c] : Live(c) => depth[c] # depth[r]

NestingInv == ClosuresInv /\ TextInv /\ ScopeInv

IInv == TypeOK /\ NestingInv /\ InnermostInv /\ SingleInv

-----------------------------------------------------------------------------
(* The list of closures. *)

LEMMA ClosuresType ==
    ASSUME TypeOK
    PROVE  /\ DOMAIN closures = 1 .. Len(closures) /\ Len(closures) \in Nat
           /\ \A k \in DOMAIN closures :
                  closures[k] \in Closures /\ Ch(k) \in Chains /\ closures[k].next \in Nat
           /\ Enclosing \subseteq Chains
           /\ closures = <<>> <=> Len(closures) = 0
<1>1. DOMAIN closures = 1 .. Len(closures) /\ Len(closures) \in Nat
    BY DEF TypeOK
<1>2. \A k \in DOMAIN closures : closures[k] \in Closures
    BY <1>1 DEF TypeOK
<1>3. closures = <<>> <=> Len(closures) = 0
    BY EmptySeq DEF TypeOK
<1>4. QED
    BY <1>1, <1>2, <1>3 DEF Closures, Ch, Enclosing

\* Starting a chain leaves the closures as they are, but for one handle's depth.
LEMMA StartClosures ==
    ASSUME TypeOK, NEW c \in Chains, NEW k \in DOMAIN closures, Start(c, k)
    PROVE  /\ DOMAIN closures' = DOMAIN closures
           /\ \A j \in DOMAIN closures :
                  /\ closures'[j].chain = Ch(j)
                  /\ closures'[j].next = IF j = k THEN closures[j].next + 1 ELSE closures[j].next
           /\ Enclosing' = Enclosing /\ Handles' = Handles
           /\ closures' \in Seq(Closures)
<1>1. /\ DOMAIN closures = 1 .. Len(closures) /\ Len(closures) \in Nat
      /\ \A j \in DOMAIN closures : closures[j] \in Closures /\ closures[j].next \in Nat
    BY ClosuresType
<1>2. closures' = [closures EXCEPT ![k].next = @ + 1]
    BY DEF Start
<1>3. \A j \in DOMAIN closures :
          closures'[j] = IF j = k THEN [closures[j] EXCEPT !.next = @ + 1] ELSE closures[j]
    BY <1>2
<1>4. \A j \in DOMAIN closures :
          /\ closures'[j].chain = closures[j].chain
          /\ closures'[j].next = IF j = k THEN closures[j].next + 1 ELSE closures[j].next
          /\ closures'[j] \in Closures
    <2> SUFFICES ASSUME NEW j \in DOMAIN closures
                 PROVE  /\ closures'[j].chain = closures[j].chain
                        /\ closures'[j].next = IF j = k THEN closures[j].next + 1
                                                        ELSE closures[j].next
                        /\ closures'[j] \in Closures
        OBVIOUS
    <2>1. CASE j = k
        <3>1. closures'[j] = [closures[j] EXCEPT !.next = @ + 1]
            BY <1>3, <2>1
        <3>2. closures[j] = [chain |-> closures[j].chain, next |-> closures[j].next]
            BY <1>1 DEF Closures
        <3>3. closures'[j] = [chain |-> closures[j].chain, next |-> closures[j].next + 1]
            BY <3>1, <3>2
        <3>4. closures[j].chain \in Chains /\ closures[j].next + 1 \in Nat
            BY <1>1 DEF Closures
        <3>5. QED
            BY <2>1, <3>3, <3>4 DEF Closures
    <2>2. CASE j # k
        BY <1>1, <1>3, <2>2
    <2>3. QED
        BY <2>1, <2>2
<1>5. DOMAIN closures' = DOMAIN closures
    BY <1>2
<1>6. closures' \in Seq(Closures)
    <2>1. closures' \in [1 .. Len(closures) -> Closures]
        BY <1>1, <1>2, <1>4, <1>5
    <2>2. QED
        BY <1>1, <2>1
<1>7. Handles' = Handles
    BY <1>1, <1>4, <1>5 DEF Start, Handles
<1>8. Enclosing' = Enclosing
    BY <1>4, <1>5 DEF Enclosing
<1>9. QED
    BY <1>4, <1>5, <1>6, <1>7, <1>8 DEF Ch

\* A call puts the chain and its handle at the end.
LEMMA CallClosures ==
    ASSUME TypeOK, NEW c \in Chains, NEW n \in Nat, Call(c, n)
    PROVE  /\ DOMAIN closures' = DOMAIN closures \cup {Len(closures) + 1}
           /\ \A j \in DOMAIN closures : closures'[j] = closures[j] /\ closures'[j].chain = Ch(j)
           /\ closures'[Len(closures) + 1] = [chain |-> c, next |-> n]
           /\ Enclosing' = Enclosing \cup {c}
           /\ Handles' = IF n > 0 THEN Handles \cup {Len(closures) + 1} ELSE Handles
           /\ closures' \in Seq(Closures) /\ closures' # <<>>
<1> DEFINE new == [chain |-> c, next |-> n]
<1>1. DOMAIN closures = 1 .. Len(closures) /\ Len(closures) \in Nat
    BY ClosuresType
<1>2. closures' = Append(closures, new) /\ new \in Closures /\ closures \in Seq(Closures)
    BY DEF Call, Closures, TypeOK
<1>3. new.chain = c /\ new.next = n
    OBVIOUS
<1> HIDE DEF new
<1>4. /\ closures' \in Seq(Closures)
      /\ Len(closures') = Len(closures) + 1
      /\ \A j \in 1 .. Len(closures) : closures'[j] = closures[j]
      /\ closures'[Len(closures) + 1] = new
    BY <1>2
<1>5. DOMAIN closures' = DOMAIN closures \cup {Len(closures) + 1} /\ closures' # <<>>
    BY <1>1, <1>4
<1>6. Enclosing' = Enclosing \cup {c}
    BY <1>1, <1>3, <1>4, <1>5 DEF Enclosing
<1>7. Handles' = IF n > 0 THEN Handles \cup {Len(closures) + 1} ELSE Handles
    BY <1>1, <1>3, <1>4, <1>5 DEF Handles
<1>8. QED
    BY <1>1, <1>4, <1>5, <1>6, <1>7 DEF Ch, new

\* A return takes the last one off.
LEMMA ReturnClosures ==
    ASSUME TypeOK, NEW S \in SUBSET Chains, Return(S)
    PROVE  /\ Len(closures) \in DOMAIN closures /\ Ch(Len(closures)) \in Chains
           /\ DOMAIN closures' = DOMAIN closures \ {Len(closures)}
           /\ \A j \in DOMAIN closures' : closures'[j] = closures[j] /\ closures'[j].chain = Ch(j)
           /\ Enclosing \subseteq Enclosing' \cup {Ch(Len(closures))}
           /\ Enclosing' \subseteq Enclosing
           /\ Handles' = Handles \ {Len(closures)}
           /\ closures' \in Seq(Closures)
           /\ Len(closures') = Len(closures) - 1
<1> DEFINE n == Len(closures)
<1>1. /\ DOMAIN closures = 1 .. n /\ n \in Nat /\ closures \in Seq(Closures)
      /\ closures = <<>> <=> n = 0
      /\ \A k \in DOMAIN closures : Ch(k) \in Chains
    BY ClosuresType DEF TypeOK
<1>2. closures # <<>> /\ closures' = SubSeq(closures, 1, n - 1)
    BY DEF Return
<1>3. n \in 1 .. n
    BY <1>1, <1>2
<1>4. /\ closures' \in Seq(Closures)
      /\ Len(closures') = n - 1
      /\ \A j \in 1 .. n - 1 : closures'[j] = closures[j]
    BY <1>1, <1>2, <1>3, SubSeqProperties
<1>5. DOMAIN closures' = 1 .. n - 1 /\ 1 .. n - 1 = (1 .. n) \ {n}
    BY <1>3, <1>4, <1>1
<1>6. Handles' = Handles \ {n}
    BY <1>1, <1>4, <1>5 DEF Handles
<1>7. Enclosing' \subseteq Enclosing /\ Enclosing \subseteq Enclosing' \cup {Ch(n)}
    BY <1>1, <1>4, <1>5 DEF Enclosing, Ch
<1>8. QED
    BY <1>1, <1>3, <1>4, <1>5, <1>6, <1>7 DEF Ch

-----------------------------------------------------------------------------
(* Types. *)

LEMMA InitType == Init => TypeOK
<1> SUFFICES ASSUME Init PROVE TypeOK
    OBVIOUS
<1>1. closures \in Seq(Closures)
    BY DEF Init
<1>2. QED
    BY <1>1, ConstantsAreTyped DEF Init, TypeOK, Stages

LEMMA NextType == TypeOK /\ [Next]_vars => TypeOK'
<1> SUFFICES ASSUME TypeOK, [Next]_vars PROVE TypeOK'
    OBVIOUS
<1>1. ASSUME NEW c \in Chains, NEW k \in DOMAIN closures, Start(c, k) PROVE TypeOK'
    <2>1. closures' \in Seq(Closures) /\ closures[k].next \in Nat /\ Enclosing \subseteq Chains
        BY <1>1, StartClosures, ClosuresType
    <2>2. QED
        BY <1>1, <2>1 DEF TypeOK, Start, Stages
<1>2. ASSUME NEW c \in Chains, NEW n \in Nat, Call(c, n) PROVE TypeOK'
    <2>1. closures' \in Seq(Closures) /\ Enclosing \subseteq Chains
        BY <1>2, CallClosures, ClosuresType
    <2>2. QED
        BY <1>2, <2>1 DEF TypeOK, Call
<1>3. ASSUME NEW c \in Chains, FinishSubquery(c) PROVE TypeOK'
    <2>1. Enclosing \subseteq Chains
        BY ClosuresType
    <2>2. QED
        BY <1>3, <2>1 DEF TypeOK, FinishSubquery, Stages
<1>4. ASSUME NEW S \in SUBSET Chains, Return(S) PROVE TypeOK'
    <2>1. closures' \in Seq(Closures) /\ Ch(Len(closures)) \in Chains
        BY <1>4, ReturnClosures
    <2>2. /\ within' \in [Chains -> SUBSET Chains]
          /\ stage' \in [Chains -> Stages]
        BY <1>4, <2>1 DEF Return, TypeOK, Ch, Stages
    <2>3. QED
        BY <1>4, <2>1, <2>2 DEF TypeOK, Return
<1>5. CASE UNCHANGED vars
    BY <1>5 DEF TypeOK, vars
<1>6. ASSUME NEW c \in Chains PROVE depth[c] + 1 \in Nat
    BY DEF TypeOK
<1>7. QED
    BY <1>1, <1>2, <1>3, <1>4, <1>5, <1>6 DEF Next, CallCorrelated, CallPlain

-----------------------------------------------------------------------------
(* Nesting. *)

LEMMA StartNesting ==
    ASSUME TypeOK, NestingInv, NEW c \in Chains, NEW k \in DOMAIN closures, Start(c, k)
    PROVE  NestingInv'
<1> USE DEF NestingInv
<1>1. /\ DOMAIN closures' = DOMAIN closures
      /\ \A j \in DOMAIN closures : Ch(j)' = Ch(j)
      /\ Enclosing' = Enclosing
    BY StartClosures DEF Ch
<1>2. /\ stage[c] = "unused" /\ stage'[c] = "open"
      /\ \A d \in Chains \ {c} : stage'[d] = stage[d] /\ sees'[d] = sees[d]
      /\ sees'[c] = Enclosing \cup {c}
      /\ within' = within
    BY DEF Start, TypeOK
<1>3. /\ Enclosing \subseteq Chains
      /\ \A d \in Chains : sees[d] \subseteq Chains /\ within[d] \subseteq Chains
      /\ \A j \in DOMAIN closures : Ch(j) \in Chains /\ Ch(j) \in Enclosing
      /\ \A d \in Enclosing : \E j \in DOMAIN closures : d = Ch(j)
      /\ closures # <<>> /\ 1 \in DOMAIN closures
    BY ClosuresType DEF TypeOK, Enclosing, Ch
<1>4. /\ c \notin Enclosing /\ within[c] = {}
      /\ \A d \in Chains : c \notin sees[d] /\ c \notin within[d]
    BY <1>2, <1>3 DEF ClosuresInv, TextInv, ScopeInv
<1>5. ClosuresInv'
    <2>1. \A j \in DOMAIN closures : Ch(j) # c
        BY <1>3, <1>4
    <2>2. closures' # <<>> => Ch(1)' = Root
        BY <1>1, <1>3 DEF ClosuresInv
    <2>3. /\ \A j \in DOMAIN closures : stage'[Ch(j)] = stage[Ch(j)] /\ sees'[Ch(j)] = sees[Ch(j)]
        BY <1>2, <1>3, <2>1
    <2>4. QED
        BY <1>1, <2>2, <2>3 DEF ClosuresInv
<1>6. TextInv'
    <2>1. stage'[Root] = "open"
        BY <1>2, ConstantsAreTyped DEF TextInv
    <2>2. \A d \in Chains : Alive(d) => Alive(d)'
        BY <1>2 DEF Alive
    <2>3. \A d \in Chains : /\ Live(d) => Live(d)'
                            /\ Live(d)' /\ within[d] # {} => Live(d)
        BY <1>2, <1>4 DEF Live
    <2>4. ASSUME NEW d \in Chains, Live(d)', NEW e \in within'[d]
          PROVE  Live(e)'
        <3>1. e \in within[d] /\ e \in Chains /\ Live(d)
            BY <1>2, <1>3, <2>3, <2>4
        <3>2. Live(e)
            BY <3>1 DEF TextInv
        <3>3. QED
            BY <2>3, <3>1, <3>2
    <2>5. \A d \in Chains : stage'[d] \in {"unused", "open", "finished"} => within'[d] = {}
        BY <1>2, <1>4 DEF TextInv
    <2>6. \A d \in Chains : stage'[d] = "embedded" => \E e \in within'[d] : Alive(e)'
        BY <1>2, <1>3, <2>2 DEF TextInv
    <2>7. QED
        BY <1>2, <2>1, <2>4, <2>5, <2>6 DEF TextInv
<1>7. ScopeInv'
    <2>1. \A d \in Chains \ {c} : Live(d)' = Live(d)
        BY <1>2 DEF Live
    <2>2. Root \in Enclosing
        BY <1>3 DEF ClosuresInv
    <2>3. /\ \A d \in Chains : stage'[d] = "unused" => sees'[d] = {}
          /\ \A d \in Chains : stage'[d] # "unused" => {d, Root} \subseteq sees'[d]
        BY <1>2, <2>2 DEF ScopeInv
    <2>4. \A d \in Chains : \A r \in sees'[d] \cup within'[d] : stage'[r] # "unused"
        <3>1. \A r \in Chains : stage[r] # "unused" => stage'[r] # "unused"
            BY <1>2
        <3>2. \A r \in Enclosing : stage[r] # "unused"
            BY <1>3 DEF ClosuresInv
        <3>3. QED
            BY <1>2, <1>3, <3>1, <3>2 DEF ScopeInv
    <2>5. \A d \in Chains : Live(d)' => sees'[d] \subseteq Enclosing' \cup within'[d] \cup {d}
        BY <1>1, <1>2, <2>1 DEF ScopeInv
    <2>6. ASSUME NEW x \in Chains, Live(x)', NEW d \in within'[x], NEW r \in sees'[x],
                 r \in Enclosing' \cup within'[d]
          PROVE  r \in sees'[d]
        <3>1. x # c /\ d # c /\ d \in Chains
            BY <1>2, <1>3, <1>4, <2>6
        <3>2. QED
            BY <1>1, <1>2, <2>1, <2>6, <3>1 DEF ScopeInv
    <2>7. QED
        BY <2>3, <2>4, <2>5, <2>6 DEF ScopeInv
<1>8. QED
    BY <1>5, <1>6, <1>7

\* What may be seen from a chain that a method is called on.
LEMMA SeesNobody ==
    ASSUME TypeOK, NestingInv, NEW c \in Chains, stage[c] = "open", c \notin Enclosing
    PROVE  /\ within[c] = {}
           /\ \A x \in Chains : Live(x) /\ within[x] = {} /\ c \in sees[x] => x = c
           /\ \A x \in Chains, d \in Chains :
                  Live(x) /\ d \in within[x] /\ c \in sees[x] => c \in sees[d]
<1>1. within[c] = {}
    BY DEF NestingInv, TextInv
<1>2. ASSUME NEW x \in Chains, Live(x), within[x] = {}, c \in sees[x]
      PROVE  x = c
    BY <1>2 DEF NestingInv, ScopeInv
<1>3. ASSUME NEW x \in Chains, NEW d \in Chains, Live(x), d \in within[x], c \in sees[x]
      PROVE  c \in sees[d]
    <2>1. x # c
        BY <1>1, <1>3
    <2>2. c \in within[x]
        BY <1>3, <2>1 DEF NestingInv, ScopeInv
    <2>3. c = d \/ c \in within[d] \/ d \in within[c]
        BY <1>3, <2>2 DEF NestingInv, TextInv
    <2>4. CASE c = d
        BY <2>4 DEF NestingInv, ScopeInv
    <2>5. CASE c \in within[d]
        BY <1>3, <2>5 DEF NestingInv, ScopeInv
    <2>6. QED
        BY <1>1, <2>3, <2>4, <2>5
<1>4. QED
    BY <1>1, <1>2, <1>3

LEMMA CallNesting ==
    ASSUME TypeOK, NestingInv, NEW c \in Chains, NEW n \in Nat, Call(c, n)
    PROVE  NestingInv'
<1> USE DEF NestingInv
<1>0. PICK new \in Nat : new = Len(closures) + 1
    BY ClosuresType
<1>1. /\ DOMAIN closures' = DOMAIN closures \cup {new}
      /\ \A j \in DOMAIN closures : Ch(j)' = Ch(j)
      /\ Ch(new)' = c
      /\ Enclosing' = Enclosing \cup {c}
    <2>1. /\ DOMAIN closures' = DOMAIN closures \cup {new}
          /\ \A j \in DOMAIN closures : closures'[j].chain = Ch(j)
          /\ closures'[new] = [chain |-> c, next |-> n]
          /\ Enclosing' = Enclosing \cup {c}
        BY <1>0, CallClosures
    <2>2. closures'[new].chain = c
        BY <2>1
    <2>3. QED
        BY <2>1, <2>2 DEF Ch
<1>2. /\ stage[c] = "open" /\ c \notin Enclosing
      /\ stage' = stage /\ within' = within
      /\ \A d \in Chains \ {c} : sees'[d] = sees[d]
      /\ sees'[c] = sees[c] \cup Enclosing
    BY DEF Call, TypeOK
<1>3. /\ Enclosing \subseteq Chains
      /\ \A d \in Chains : sees[d] \subseteq Chains /\ within[d] \subseteq Chains
      /\ \A j \in DOMAIN closures : Ch(j) \in Chains /\ Ch(j) \in Enclosing
      /\ \A d \in Enclosing : \E j \in DOMAIN closures : d = Ch(j)
      /\ DOMAIN closures = 1 .. Len(closures) /\ Len(closures) \in Nat
      /\ closures = <<>> <=> Len(closures) = 0
    BY ClosuresType DEF TypeOK, Enclosing, Ch
<1>4. /\ within[c] = {}
      /\ \A x \in Chains : Live(x) /\ within[x] = {} /\ c \in sees[x] => x = c
      /\ \A x \in Chains, d \in Chains :
             Live(x) /\ d \in within[x] /\ c \in sees[x] => c \in sees[d]
    BY <1>2, SeesNobody
<1>5. ClosuresInv'
    <2>1. /\ \A j \in DOMAIN closures : j < new /\ Ch(j) # c /\ sees'[Ch(j)] = sees[Ch(j)]
          /\ new \notin DOMAIN closures /\ new \in Nat
        BY <1>0, <1>2, <1>3
    <2>2. ASSUME NEW j \in DOMAIN closures
          PROVE  c \notin sees[Ch(j)] /\ Ch(j) \in sees'[c]
        <3>1. stage[Ch(j)] = "open" /\ within[Ch(j)] = {}
            BY <1>3 DEF ClosuresInv, TextInv
        <3>2. QED
            BY <1>2, <1>3, <1>4, <2>1, <3>1 DEF Live
    <2>3. c \in sees'[c]
        BY <1>2 DEF ScopeInv
    <2>4. \A j \in DOMAIN closures' : stage'[Ch(j)'] = "open"
        BY <1>1, <1>2 DEF ClosuresInv
    <2>5. \A j, l \in DOMAIN closures' : Ch(j)' = Ch(l)' => j = l
        BY <1>1, <2>1 DEF ClosuresInv
    <2>6. ASSUME NEW j \in DOMAIN closures', NEW l \in DOMAIN closures'
          PROVE  Ch(j)' \in sees'[Ch(l)'] <=> j <= l
        <3>1. CASE j \in DOMAIN closures /\ l \in DOMAIN closures
            BY <1>1, <2>1, <3>1 DEF ClosuresInv
        <3>2. CASE j = new /\ l \in DOMAIN closures
            BY <1>1, <1>3, <2>1, <2>2, <3>2
        <3>3. CASE j \in DOMAIN closures /\ l = new
            BY <1>1, <1>3, <2>1, <2>2, <3>3
        <3>4. CASE j = new /\ l = new
            BY <1>1, <2>1, <2>3, <3>4
        <3>5. QED
            BY <1>1, <3>1, <3>2, <3>3, <3>4
    <2>7. Ch(1)' = Root
        <3>1. CASE closures # <<>>
            <4>1. 1 \in DOMAIN closures
                BY <1>3, <3>1
            <4>2. QED
                BY <1>1, <3>1, <4>1 DEF ClosuresInv
        <3>2. CASE closures = <<>>
            <4>1. Root \in sees[c] /\ Enclosing = {} /\ new = 1
                BY <1>0, <1>2, <1>3, <3>2 DEF ScopeInv
            <4>2. Root = c
                BY <1>2, <1>4, <4>1 DEF ScopeInv, Live
            <4>3. QED
                BY <1>1, <4>1, <4>2
        <3>3. QED
            BY <3>1, <3>2
    <2>8. QED
        BY <2>4, <2>5, <2>6, <2>7 DEF ClosuresInv
<1>6. TextInv'
    BY <1>2 DEF TextInv, Alive, Live
<1>7. ScopeInv'
    <2>1. \A d \in Chains : (Live(d)' <=> Live(d)) /\ sees[d] \subseteq sees'[d]
        BY <1>2 DEF Live
    <2>2. /\ \A d \in Chains : stage'[d] = "unused" => sees'[d] = {}
          /\ \A d \in Chains : stage'[d] # "unused" => {d, Root} \subseteq sees'[d]
        BY <1>2 DEF ScopeInv
    <2>3. \A d \in Chains : \A r \in sees'[d] \cup within'[d] : stage'[r] # "unused"
        <3>1. \A r \in Enclosing : stage[r] # "unused"
            BY <1>3 DEF ClosuresInv
        <3>2. QED
            BY <1>2, <1>3, <3>1 DEF ScopeInv
    <2>4. \A d \in Chains : Live(d)' => sees'[d] \subseteq Enclosing' \cup within'[d] \cup {d}
        BY <1>1, <1>2, <2>1 DEF ScopeInv
    <2>5. ASSUME NEW x \in Chains, Live(x)', NEW d \in within'[x], NEW r \in sees'[x],
                 r \in Enclosing' \cup within'[d]
          PROVE  r \in sees'[d]
        <3>1. x # c /\ d \in Chains /\ d \in within[x] /\ r \in sees[x] /\ Live(x)
            BY <1>2, <1>3, <1>4, <2>1, <2>5
        <3>2. CASE r = c
            BY <1>4, <2>1, <3>1, <3>2
        <3>3. CASE r # c
            <4>1. r \in Enclosing \cup within[d]
                BY <1>1, <1>2, <2>5, <3>3
            <4>2. QED
                BY <2>1, <3>1, <4>1 DEF ScopeInv
        <3>4. QED
            BY <3>2, <3>3
    <2>6. QED
        BY <2>2, <2>3, <2>4, <2>5 DEF ScopeInv
<1>8. QED
    BY <1>5, <1>6, <1>7

LEMMA FinishNesting ==
    ASSUME TypeOK, NestingInv, NEW c \in Chains, FinishSubquery(c)
    PROVE  NestingInv'
<1> USE DEF NestingInv
<1>1. /\ stage[c] = "open" /\ c \notin Enclosing /\ c # Root
      /\ stage'[c] = "finished" /\ within' = within /\ closures' = closures
      /\ \A d \in Chains \ {c} : stage'[d] = stage[d] /\ sees'[d] = sees[d]
      /\ sees'[c] = sees[c] \cup Enclosing
    BY DEF FinishSubquery, TypeOK
<1>2. /\ Enclosing \subseteq Chains /\ Enclosing' = Enclosing
      /\ \A d \in Chains : sees[d] \subseteq Chains /\ within[d] \subseteq Chains
      /\ \A j \in DOMAIN closures : Ch(j) \in Chains /\ Ch(j) \in Enclosing /\ Ch(j)' = Ch(j)
      /\ \A d \in Enclosing : \E j \in DOMAIN closures : d = Ch(j)
    BY <1>1, ClosuresType DEF TypeOK, Enclosing, Ch
<1>3. /\ within[c] = {}
    BY <1>1, SeesNobody
<1>4. ClosuresInv'
    <2>1. \A j \in DOMAIN closures : stage'[Ch(j)] = stage[Ch(j)] /\ sees'[Ch(j)] = sees[Ch(j)]
        BY <1>1, <1>2
    <2>2. QED
        BY <1>1, <1>2, <2>1 DEF ClosuresInv, Ch
<1>5. TextInv'
    <2>1. \A d \in Chains : Alive(d) => Alive(d)'
        BY <1>1 DEF Alive
    <2>2. stage'[Root] = "open"
        BY <1>1, ConstantsAreTyped DEF TextInv
    <2>3. \A d \in Chains : stage'[d] \in {"unused", "open", "finished"} => within'[d] = {}
        BY <1>1, <1>3 DEF TextInv
    <2>4. \A d \in Chains : stage'[d] = "embedded" => \E e \in within'[d] : Alive(e)'
        BY <1>1, <1>2, <2>1 DEF TextInv
    <2>5. \A d \in Chains : Live(d)' <=> Live(d)
        BY <1>1 DEF Live
    <2>6. QED
        BY <1>1, <1>2, <2>2, <2>3, <2>4, <2>5 DEF TextInv
<1>6. ScopeInv'
    <2>1. \A d \in Chains : (Live(d)' <=> Live(d)) /\ sees[d] \subseteq sees'[d]
        BY <1>1 DEF Live
    <2>2. /\ \A d \in Chains : stage'[d] = "unused" => sees'[d] = {}
          /\ \A d \in Chains : stage'[d] # "unused" => {d, Root} \subseteq sees'[d]
        BY <1>1 DEF ScopeInv
    <2>3. \A d \in Chains : \A r \in sees'[d] \cup within'[d] : stage'[r] # "unused"
        <3>1. \A r \in Enclosing : stage[r] # "unused"
            BY <1>2 DEF ClosuresInv
        <3>2. \A r \in Chains : stage[r] # "unused" => stage'[r] # "unused"
            BY <1>1
        <3>3. QED
            BY <1>1, <1>2, <3>1, <3>2 DEF ScopeInv
    <2>4. \A d \in Chains : Live(d)' => sees'[d] \subseteq Enclosing' \cup within'[d] \cup {d}
        BY <1>1, <1>2, <2>1 DEF ScopeInv
    <2>5. ASSUME NEW x \in Chains, Live(x)', NEW d \in within'[x], NEW r \in sees'[x],
                 r \in Enclosing' \cup within'[d]
          PROVE  r \in sees'[d]
        <3>1. x # c /\ d \in Chains /\ d \in within[x] /\ r \in sees[x] /\ Live(x)
            BY <1>1, <1>2, <1>3, <2>1, <2>5
        <3>2. r \in sees[d]
            BY <1>1, <1>2, <2>5, <3>1 DEF ScopeInv
        <3>3. QED
            BY <2>1, <3>1, <3>2
    <2>6. QED
        BY <2>2, <2>3, <2>4, <2>5 DEF ScopeInv
<1>7. QED
    BY <1>4, <1>5, <1>6

\* What a return from top's closure with the subqueries S does: the open chains around it
\* stay open,
OpenStay(S, top) ==
    /\ top \in Enclosing /\ top \in Chains
    /\ stage[top] = "open" /\ stage'[top] = "open"
    /\ within[top] = {} /\ within'[top] = {} /\ top \notin S
    /\ stage'[Root] = "open"
    /\ \A k \in DOMAIN closures' : stage'[Ch(k)] = "open"

\* a chain is embedded, dropped or left as it is,
Settled(S) ==
    \A c \in Chains : \/ stage'[c] = "embedded" /\ stage[c] \in {"finished", "embedded"}
                      \/ stage'[c] = "dropped" /\ stage[c] # "unused"
                      \/ stage'[c] = stage[c] /\ c \notin S

\* what saw top is embedded in it or dropped,
LocalsGo(S, top) ==
    \A c \in Chains : Alive(c) /\ top \in sees[c] /\ c # top =>
        /\ stage'[c] \in {"embedded", "dropped"}
        /\ stage'[c] = "embedded" => c \in S

\* what stays embedded elsewhere is in chains that stay,
EmbeddedStay(S, top) ==
    \A c \in Chains : stage'[c] = "embedded" /\ c \notin S =>
        /\ stage[c] = "embedded"
        /\ \A d \in within[c] : Alive(d) /\ d \notin S =>
               stage'[d] = stage[d] /\ ~(top \in sees[d] /\ d # top)
        /\ \A d \in within[c] : Live(d) => Live(d)'

\* and the texts of S are now in top's.
Grown(S, top) ==
    /\ \A c \in Chains :
           within'[c] = IF c \in Text(S) THEN within[c] \cup {top} ELSE within[c]
    /\ \A c \in S : stage[c] = "finished" /\ stage'[c] = "embedded"
    /\ \A c \in Text(S) : stage'[c] \in {"embedded", "dropped"}

LEMMA ReturnStages ==
    ASSUME TypeOK, NestingInv, NEW S \in SUBSET Chains, Return(S),
           NEW top, top = Ch(Len(closures))
    PROVE  OpenStay(S, top) /\ Settled(S) /\ LocalsGo(S, top) /\ EmbeddedStay(S, top)
           /\ Grown(S, top)
<1> USE DEF NestingInv
<1> DEFINE local == {c \in Chains : Alive(c) /\ top \in sees[c] /\ c # top}
<1> DEFINE n == Len(closures)
<1>1. /\ n \in DOMAIN closures /\ top \in Chains /\ top \in Enclosing
      /\ DOMAIN closures' = DOMAIN closures \ {n}
      /\ DOMAIN closures = 1 .. n /\ n \in Nat /\ closures # <<>>
      /\ \A k \in DOMAIN closures : Ch(k) \in Chains
    <2>1. n \in DOMAIN closures /\ DOMAIN closures' = DOMAIN closures \ {n}
        BY ReturnClosures
    <2>2. /\ DOMAIN closures = 1 .. n /\ n \in Nat /\ closures # <<>>
          /\ \A k \in DOMAIN closures : Ch(k) \in Chains
        BY <2>1, ClosuresType
    <2>3. QED
        BY <2>1, <2>2 DEF Enclosing, Ch
<1>2. /\ S \subseteq {c \in Chains : stage[c] = "finished"}
      /\ \A c \in Chains : within'[c] = IF c \in Text(S) THEN within[c] \cup {top} ELSE within[c]
      /\ \A c \in Chains : stage'[c] = IF c \in S THEN "embedded"
                                       ELSE IF c \in Text(local \ S) THEN "dropped"
                                       ELSE stage[c]
    BY DEF Return, Ch
<1> HIDE DEF n, local
<1>3. \A c \in Text(local \ S) : c \in local \ S \/ within[c] # {}
    BY DEF Text
<1>4. \A c \in Chains : stage[c] \in {"unused", "open", "finished"} =>
          within[c] = {} /\ (c \in Text(local \ S) => c \in local \ S)
    BY <1>3 DEF TextInv
<1>5. \A c \in Text(local \ S) : stage[c] # "unused"
    BY <1>4 DEF local, Alive, Text
<1>6. ASSUME NEW k \in DOMAIN closures
      PROVE  stage'[Ch(k)] = "open" /\ within[Ch(k)] = {} /\ Ch(k) \notin S /\ stage[Ch(k)] = "open"
    <2>1. stage[Ch(k)] = "open"
        BY DEF ClosuresInv
    <2>2. Ch(k) \notin local
        <3>1. CASE k = n
            BY <3>1 DEF local, n
        <3>2. CASE k # n
            <4>1. ~(n <= k)
                BY <1>1, <3>2
            <4>2. top \notin sees[Ch(k)]
                BY <1>1, <4>1 DEF ClosuresInv, n
            <4>3. QED
                BY <4>2 DEF local
        <3>3. QED
            BY <3>1, <3>2
    <2>3. QED
        BY <1>1, <1>2, <1>4, <2>1, <2>2
<1>7. stage'[Root] = "open"
    <2>1. 1 \in DOMAIN closures /\ Ch(1) = Root
        BY <1>1 DEF ClosuresInv
    <2>2. QED
        BY <1>6, <2>1
<1>8. within'[top] = {} /\ within[top] = {} /\ top \notin S /\ stage[top] = "open" /\ stage'[top] = "open"
    <2>1. within[top] = {} /\ top \notin S /\ stage[top] = "open" /\ stage'[top] = "open"
        BY <1>1, <1>6 DEF n
    <2>2. top \notin Text(S)
        BY <2>1 DEF Text
    <2>3. QED
        BY <1>1, <1>2, <2>1, <2>2
<1>9. \A c \in Chains : \/ stage'[c] = "embedded" /\ stage[c] \in {"finished", "embedded"}
                        \/ stage'[c] = "dropped" /\ stage[c] # "unused"
                        \/ stage'[c] = stage[c] /\ c \notin S
    BY <1>2, <1>5
<1>10. \A c \in local : /\ stage'[c] \in {"embedded", "dropped"}
                        /\ stage'[c] = "embedded" => c \in S
    BY <1>2 DEF local, Text
<1>11. ASSUME NEW c \in Chains, stage'[c] = "embedded", c \notin S
       PROVE  /\ stage[c] = "embedded"
              /\ \A d \in within[c] : Alive(d) /\ d \notin S =>
                     stage'[d] = stage[d] /\ d \notin local
              /\ \A d \in within[c] : Live(d) => Live(d)'
    <2>1. c \notin Text(local \ S) /\ stage[c] = "embedded"
        BY <1>2, <1>11
    <2>2. ASSUME NEW d \in within[c], Alive(d), d \notin S
          PROVE  stage'[d] = stage[d] /\ d \notin local
        <3>1. d \notin local /\ d \in Chains
            BY <2>1, <2>2 DEF Text, TypeOK
        <3>2. d \notin Text(local \ S)
            BY <1>4, <2>2, <3>1 DEF Alive
        <3>3. QED
            BY <1>2, <2>2, <3>1, <3>2
    <2>3. ASSUME NEW d \in within[c], Live(d)
          PROVE  Live(d)'
        <3>1. d \in Chains /\ within[d] \subseteq within[c]
            BY DEF TextInv, TypeOK
        <3>2. d \notin Text(local \ S)
            BY <2>1, <3>1 DEF Text
        <3>3. QED
            BY <1>2, <2>3, <3>1, <3>2 DEF Live
    <2>4. QED
        BY <2>1, <2>2, <2>3
<1>12. \A c \in Text(S) : stage'[c] \in {"embedded", "dropped"}
    <2>1. ASSUME NEW c \in Text(S), c \notin S
          PROVE  stage[c] \in {"embedded", "dropped"}
        BY <2>1 DEF Text, TextInv, TypeOK, Stages
    <2>2. QED
        BY <1>2, <2>1 DEF Text
<1>13. \A c \in S : stage[c] = "finished" /\ stage'[c] = "embedded"
    BY <1>2
<1>14. \A c \in Chains : c \in local <=> Alive(c) /\ top \in sees[c] /\ c # top
    BY DEF local
<1>15. QED
    <2>1. OpenStay(S, top)
        BY <1>1, <1>6, <1>7, <1>8 DEF OpenStay
    <2>2. Settled(S)
        BY <1>9 DEF Settled
    <2>3. LocalsGo(S, top)
        BY <1>10, <1>14 DEF LocalsGo
    <2>4. EmbeddedStay(S, top)
        BY <1>11, <1>14 DEF EmbeddedStay, TypeOK
    <2>5. Grown(S, top)
        BY <1>2, <1>12, <1>13 DEF Grown
    <2>6. QED
        BY <2>1, <2>2, <2>3, <2>4, <2>5

LEMMA ReturnNesting ==
    ASSUME TypeOK, NestingInv, NEW S \in SUBSET Chains, Return(S)
    PROVE  NestingInv'
<1> USE DEF NestingInv
<1>0. PICK top : top = Ch(Len(closures))
    OBVIOUS
<1>1. /\ Len(closures) \in DOMAIN closures
      /\ DOMAIN closures' = DOMAIN closures \ {Len(closures)}
      /\ \A j \in DOMAIN closures' : closures'[j].chain = Ch(j) /\ Ch(j) \in Chains
      /\ Enclosing \subseteq Enclosing' \cup {top} /\ Enclosing' \subseteq Enclosing
      /\ DOMAIN closures = 1 .. Len(closures) /\ Len(closures) \in Nat
      /\ closures' \in Seq(Closures) /\ Len(closures') = Len(closures) - 1
    BY <1>0, ReturnClosures, ClosuresType
<1>2. /\ OpenStay(S, top) /\ Settled(S) /\ LocalsGo(S, top) /\ EmbeddedStay(S, top)
      /\ Grown(S, top)
    BY <1>0, ReturnStages
<1>3. /\ sees' = sees
      /\ \A c \in Chains : sees[c] \subseteq Chains /\ within[c] \subseteq Chains
      /\ S \subseteq Text(S) /\ Text(S) \subseteq Chains
    BY DEF Return, TypeOK, Text
<1>4. /\ \A c \in Chains : Live(c)' => Live(c)
      /\ \A c \in Chains : stage'[c] = "unused" <=> stage[c] = "unused"
    BY <1>2 DEF Live, Settled
<1>5. ClosuresInv'
    <2>1. closures' # <<>> => 1 \in DOMAIN closures'
        BY <1>1
    <2>2. \A j \in DOMAIN closures' : Ch(j)' = Ch(j) /\ j \in DOMAIN closures
        BY <1>1 DEF Ch
    <2>3. closures' # <<>> => Ch(1)' = Root
        BY <2>1, <2>2 DEF ClosuresInv
    <2>4. QED
        BY <1>2, <1>3, <2>2, <2>3 DEF ClosuresInv, OpenStay
<1>6. TextInv'
    <2>1. \A c \in Chains : stage'[c] \in {"unused", "open", "finished"} => within'[c] = {}
        BY <1>2 DEF TextInv, Grown, Settled
    <2>2. ASSUME NEW c \in Chains, NEW d \in within'[c]
          PROVE  c # d /\ within'[d] \subseteq within'[c]
        <3>1. CASE d = top
            <4>1. within'[d] = {} /\ within[top] = {}
                BY <1>2, <3>1 DEF OpenStay
            <4>2. stage'[c] # "open" \/ within[c] # {}
                BY <1>2, <2>2, <3>1 DEF Grown
            <4>3. c # d
                BY <1>2, <3>1, <4>1, <4>2 DEF OpenStay
            <4>4. QED
                BY <4>1, <4>3
        <3>2. CASE d # top
            <4>1. d \in within[c] /\ d \in Chains
                BY <1>2, <1>3, <2>2, <3>2 DEF Grown
            <4>2. c # d /\ within[d] \subseteq within[c]
                BY <4>1 DEF TextInv
            <4>3. d \in Text(S) => c \in Text(S)
                BY <4>1, <4>2 DEF Text
            <4>4. QED
                BY <1>2, <4>1, <4>2, <4>3 DEF Grown
        <3>3. QED
            BY <3>1, <3>2
    <2>3. ASSUME NEW c \in Chains, c \in Text(S), NEW d \in within[c]
          PROVE  d \in Text(S)
        <3>1. d \in Chains
            BY <1>3
        <3>2. c \notin S
            BY <1>2, <2>3 DEF TextInv, Grown
        <3>3. PICK s \in within[c] \cap S : TRUE
            BY <2>3, <3>2 DEF Text
        <3>4. within[s] = {}
            BY <1>2, <3>3 DEF TextInv, Grown
        <3>5. d = s \/ s \in within[d]
            BY <3>3, <3>4 DEF TextInv
        <3>6. QED
            BY <3>1, <3>3, <3>5 DEF Text
    <2>4. ASSUME NEW c \in Chains, NEW d \in within'[c], NEW e \in within'[c]
          PROVE  d = e \/ d \in within'[e] \/ e \in within'[d]
        <3>1. CASE d = top \/ e = top
            <4>1. \A f \in within[c] : c \in Text(S) => top \in within'[f]
                BY <1>2, <1>3, <2>3 DEF Grown
            <4>2. c \in Text(S) \/ top \in within[c]
                BY <1>2, <2>4, <3>1 DEF Grown
            <4>3. CASE c \in Text(S)
                BY <1>2, <2>4, <3>1, <4>1, <4>3 DEF Grown
            <4>4. CASE c \notin Text(S)
                <5>1. d \in within[c] /\ e \in within[c]
                    BY <1>2, <2>4, <4>4 DEF Grown
                <5>2. d = e \/ d \in within[e] \/ e \in within[d]
                    BY <5>1 DEF TextInv
                <5>3. QED
                    BY <1>2, <1>3, <5>1, <5>2 DEF Grown
            <4>5. QED
                BY <4>3, <4>4
        <3>2. CASE d # top /\ e # top
            <4>1. d \in within[c] /\ e \in within[c]
                BY <1>2, <2>4, <3>2 DEF Grown
            <4>2. d = e \/ d \in within[e] \/ e \in within[d]
                BY <4>1 DEF TextInv
            <4>3. QED
                BY <1>2, <1>3, <4>1, <4>2 DEF Grown
        <3>3. QED
            BY <3>1, <3>2
    <2>5. ASSUME NEW c \in Chains, stage'[c] = "embedded"
          PROVE  \E d \in within'[c] : Alive(d)'
        <3>1. Alive(top)'
            BY <1>2 DEF Alive, OpenStay
        <3>2. CASE c \in Text(S)
            BY <1>2, <3>1, <3>2 DEF Grown
        <3>3. CASE c \notin Text(S)
            <4>1. c \notin S /\ stage[c] = "embedded"
                BY <1>2, <1>3, <2>5, <3>3 DEF EmbeddedStay
            <4>2. PICK d \in within[c] : Alive(d)
                BY <4>1 DEF TextInv
            <4>3. d \notin S
                BY <3>3, <4>2 DEF Text
            <4>4. stage'[d] = stage[d]
                BY <1>2, <2>5, <4>1, <4>2, <4>3 DEF EmbeddedStay
            <4>5. QED
                BY <1>2, <3>3, <4>2, <4>4 DEF Alive, Grown
        <3>4. QED
            BY <3>2, <3>3
    <2>6. ASSUME NEW c \in Chains, Live(c)', NEW d \in within'[c]
          PROVE  Live(d)'
        <3>1. CASE d = top
            BY <1>2, <3>1 DEF OpenStay, Live
        <3>2. CASE d # top
            <4>1. d \in within[c] /\ Live(c)
                BY <1>2, <1>4, <2>6, <3>2 DEF Grown
            <4>2. stage[c] = "embedded" /\ c \notin S
                BY <1>2, <4>1 DEF TextInv, Grown, Live
            <4>3. stage'[c] = "embedded"
                BY <1>2, <2>6, <4>2 DEF Settled, Live
            <4>4. Live(d)
                BY <4>1 DEF TextInv
            <4>5. QED
                BY <1>2, <4>1, <4>2, <4>3, <4>4 DEF EmbeddedStay
        <3>3. QED
            BY <3>1, <3>2
    <2>7. QED
        BY <1>2, <2>1, <2>2, <2>4, <2>5, <2>6 DEF TextInv, OpenStay
<1>7. ScopeInv'
    <2>1. /\ \A c \in Chains : stage'[c] = "unused" => sees'[c] = {}
          /\ \A c \in Chains : stage'[c] # "unused" => {c, Root} \subseteq sees'[c]
        BY <1>3, <1>4 DEF ScopeInv
    <2>2. \A c \in Chains : \A r \in sees'[c] \cup within'[c] : stage'[r] # "unused"
        <3>1. top \in Chains /\ stage'[top] # "unused"
            BY <1>2 DEF OpenStay
        <3>2. \A c \in Chains : within'[c] \subseteq within[c] \cup {top}
            BY <1>2 DEF Grown
        <3>3. QED
            BY <1>3, <1>4, <3>1, <3>2 DEF ScopeInv
    <2>3. ASSUME NEW x \in Chains, Live(x)'
          PROVE  sees'[x] \subseteq Enclosing' \cup within'[x] \cup {x}
        <3>1. sees[x] \subseteq Enclosing' \cup {top} \cup within[x] \cup {x} /\ within[x] \subseteq within'[x]
            <4>1. sees[x] \subseteq Enclosing \cup within[x] \cup {x}
                BY <1>4, <2>3 DEF ScopeInv
            <4>2. within[x] \subseteq within'[x]
                BY <1>2 DEF Grown
            <4>3. QED
                BY <1>1, <4>1, <4>2
        <3>2. ASSUME top \in sees[x], x # top
              PROVE  top \in within'[x]
            <4>1. CASE x \in Text(S)
                BY <1>2, <4>1 DEF Grown
            <4>2. CASE x \notin Text(S)
                <5>1. x \notin S
                    BY <1>3, <4>2
                <5>2. ~ Alive(x)
                    BY <1>2, <2>3, <3>2, <5>1 DEF Live, LocalsGo
                <5>3. stage'[x] = "embedded"
                    BY <1>2, <2>3, <5>2 DEF Live, Alive, Settled
                <5>4. stage[x] = "embedded"
                    BY <1>2, <5>1, <5>3 DEF EmbeddedStay
                <5>5. PICK d \in within[x] : Alive(d)
                    BY <5>4 DEF TextInv
                <5>6. d \notin S /\ d \in Chains
                    BY <1>3, <4>2, <5>5 DEF Text
                <5>7. ~(top \in sees[d] /\ d # top)
                    BY <1>2, <5>1, <5>3, <5>5, <5>6 DEF EmbeddedStay
                <5>8. top \in sees[d]
                    BY <1>2, <1>4, <2>3, <3>2, <5>5 DEF ScopeInv, OpenStay
                <5>9. QED
                    <6>1. d = top
                    BY <5>7, <5>8
                <6>2. QED
                    BY <3>1, <5>5, <6>1
            <4>3. QED
                BY <4>1, <4>2
        <3>3. QED
            BY <1>3, <3>1, <3>2
    <2>4. ASSUME NEW x \in Chains, Live(x)', NEW d \in within'[x], NEW r \in sees'[x],
                 r \in Enclosing' \cup within'[d]
          PROVE  r \in sees'[d]
        <3>1. CASE d = top
            <4>1. r \in Enclosing'
                BY <1>2, <2>4, <3>1 DEF OpenStay
            <4>2. PICK j \in DOMAIN closures' : r = Ch(j)
                BY <1>1, <4>1 DEF Enclosing
            <4>3. j <= Len(closures) /\ j \in DOMAIN closures
                BY <1>1
            <4>4. QED
                BY <1>0, <1>1, <1>3, <3>1, <4>2, <4>3 DEF ClosuresInv
        <3>2. CASE d # top
            <4>1. d \in within[x] /\ Live(x) /\ r \in sees[x]
                BY <1>2, <1>3, <1>4, <2>4, <3>2 DEF Grown
            <4>2. r \in Enclosing \cup within[d]
                <5>1. within'[d] \subseteq within[d] \cup {top} /\ top \in Enclosing
                    BY <1>2, <1>3, <4>1 DEF Grown, OpenStay
                <5>2. QED
                    BY <1>1, <2>4, <5>1
            <4>3. QED
                BY <1>3, <4>1, <4>2 DEF ScopeInv
        <3>3. QED
            BY <3>1, <3>2
    <2>5. QED
        BY <2>1, <2>2, <2>3, <2>4 DEF ScopeInv
<1>8. QED
    BY <1>5, <1>6, <1>7

-----------------------------------------------------------------------------
(* Depths. *)

\* The next depth of the last handle is below everything around it.
LEMMA NextIsDeeper ==
    ASSUME TypeOK, NestingInv, InnermostInv, discipline = "innermost",
           NEW k \in Handles, \A j \in Handles : j <= k, NEW r \in Enclosing
    PROVE  depth[r] < closures[k].next
<1>1. PICK i \in DOMAIN closures : r = Ch(i)
    BY DEF Enclosing, Ch
<1>2. /\ k \in DOMAIN closures /\ DOMAIN closures \subseteq Nat
      /\ Ch(i) \in Chains /\ Ch(k) \in Chains /\ closures[k].next \in Nat
      /\ depth[Ch(i)] \in Nat /\ depth[Ch(k)] \in Nat
    BY ClosuresType DEF Handles, TypeOK
<1>3. depth[Ch(k)] < closures[k].next
    BY DEF InnermostInv
<1>4. CASE i = k
    BY <1>1, <1>3, <1>4
<1>5. CASE i < k
    <2>1. Ch(i) \in sees[Ch(k)] /\ Ch(i) # Ch(k)
        BY <1>2, <1>5 DEF NestingInv, ClosuresInv
    <2>2. depth[Ch(i)] < depth[Ch(k)]
        BY <1>2, <2>1 DEF InnermostInv
    <2>3. QED
        BY <1>1, <1>2, <1>3, <2>2
<1>6. CASE i > k
    <2>1. Ch(k) \in sees[Ch(i)] /\ Ch(i) # Ch(k)
        BY <1>2, <1>6 DEF NestingInv, ClosuresInv
    <2>2. InScope(k, Ch(i)) /\ stage[Ch(i)] = "open"
        BY <2>1 DEF InScope, NestingInv, ClosuresInv
    <2>3. QED
        BY <1>1, <1>2, <2>2 DEF InnermostInv
<1>7. QED
    BY <1>2, <1>4, <1>5, <1>6

LEMMA StartInnermost ==
    ASSUME TypeOK, NestingInv, InnermostInv,
           NEW c \in Chains, NEW k \in DOMAIN closures, Start(c, k)
    PROVE  InnermostInv'
<1> SUFFICES ASSUME discipline = "innermost" PROVE InnermostInv'
    BY DEF InnermostInv, Start
<1>1. /\ DOMAIN closures' = DOMAIN closures
      /\ \A j \in DOMAIN closures :
             Ch(j)' = Ch(j) /\ closures'[j].next >= closures[j].next /\ closures[j].next \in Nat
      /\ closures'[k].next = closures[k].next + 1
      /\ Handles' = Handles /\ Handles \subseteq DOMAIN closures
    <2>1. \A j \in DOMAIN closures :
              /\ Ch(j)' = Ch(j)
              /\ closures'[j].next = IF j = k THEN closures[j].next + 1 ELSE closures[j].next
        BY StartClosures DEF Ch
    <2>2. \A j \in DOMAIN closures : closures[j].next \in Nat
        BY ClosuresType
    <2>3. \A j \in DOMAIN closures : closures'[j].next >= closures[j].next
        BY <2>1, <2>2
    <2>4. DOMAIN closures' = DOMAIN closures /\ Handles' = Handles
        BY StartClosures
    <2>5. QED
        BY <2>1, <2>2, <2>3, <2>4 DEF Handles
<1>2. /\ stage[c] = "unused"
      /\ k \in Handles /\ \A j \in Handles : j <= k
      /\ \A d \in Chains \ {c} :
             stage'[d] = stage[d] /\ sees'[d] = sees[d] /\ depth'[d] = depth[d]
      /\ sees'[c] = Enclosing \cup {c} /\ depth'[c] = closures[k].next
    BY DEF Start, MayUse, TypeOK
<1>3. /\ \A d \in Chains : c \notin sees[d] /\ sees[d] \subseteq Chains
      /\ Enclosing \subseteq Chains
      /\ \A j \in DOMAIN closures : Ch(j) \in Chains \ {c} /\ Ch(j) \in Enclosing
      /\ k \in Nat /\ DOMAIN closures \subseteq Nat
    <2>1. Enclosing \subseteq Chains /\ DOMAIN closures \subseteq Nat
        BY ClosuresType
    <2>2. \A j \in DOMAIN closures : Ch(j) \in Chains \ {c} /\ Ch(j) \in Enclosing
        BY <1>2, ClosuresType DEF NestingInv, ClosuresInv, Enclosing, Ch
    <2>3. QED
        BY <1>2, <2>1, <2>2 DEF NestingInv, ScopeInv, TypeOK
<1>4. c \notin Enclosing
    BY <1>3 DEF Enclosing, Ch
<1>5. \A d \in Chains : \A r \in sees'[d] \ {d} : depth'[r] < depth'[d]
    <2>1. \A r \in Enclosing : depth'[r] < depth'[c]
        BY <1>2, <1>3, <1>4, NextIsDeeper
    <2>2. QED
        BY <1>2, <1>3, <2>1 DEF InnermostInv
<1>6. \A j \in Handles' : depth'[Ch(j)'] < closures'[j].next
    <2>1. \A j \in Handles : depth[Ch(j)] < closures[j].next /\ depth[Ch(j)] \in Nat
        BY <1>1, <1>3 DEF InnermostInv, TypeOK
    <2>2. \A j \in Handles : closures'[j].next \in Nat
        BY <1>1, StartClosures, ClosuresType DEF Closures
    <2>3. QED
        BY <1>1, <1>2, <1>3, <2>1, <2>2
<1>7. ASSUME NEW d \in Chains, stage'[d] = "open", NEW l \in Handles', InScope(l, d)',
             \A j \in Handles' : InScope(j, d)' => j <= l
      PROVE  depth'[d] < closures'[l].next
    <2>1. CASE d = c
        <3>1. InScope(k, c)'
            BY <1>1, <1>2, <1>3 DEF InScope
        <3>2. k <= l /\ l <= k /\ l \in Nat
            BY <1>1, <1>2, <1>3, <1>7, <2>1, <3>1
        <3>3. l = k
            BY <1>3, <3>2
        <3>4. QED
            BY <1>1, <1>2, <2>1, <3>3
    <2>2. CASE d # c
        <3>1. \A j \in Handles : InScope(j, d)' <=> InScope(j, d)
            BY <1>1, <1>2, <2>2 DEF InScope
        <3>2. depth[d] < closures[l].next
            BY <1>1, <1>2, <1>7, <2>2, <3>1 DEF InnermostInv
        <3>3. depth[d] \in Nat /\ closures'[l].next \in Nat /\ l \in DOMAIN closures
            BY <1>1, <1>7, StartClosures DEF TypeOK
        <3>4. QED
            BY <1>1, <1>2, <2>2, <3>2, <3>3
    <2>3. QED
        BY <2>1, <2>2
<1>8. QED
    BY <1>5, <1>6, <1>7 DEF InnermostInv

LEMMA CallInnermost ==
    ASSUME TypeOK, NestingInv, InnermostInv, NEW c \in Chains, NEW n \in Nat, Call(c, n),
           n = 0 \/ n = depth[c] + 1
    PROVE  InnermostInv'
<1> SUFFICES ASSUME discipline = "innermost" PROVE InnermostInv'
    BY DEF InnermostInv, Call
<1>1. PICK new \in Nat : new = Len(closures) + 1
    BY ClosuresType
<1>2. /\ \A j \in DOMAIN closures : closures'[j] = closures[j] /\ Ch(j)' = Ch(j)
      /\ closures'[new].next = n /\ closures'[new].chain = c
      /\ Handles' = IF n > 0 THEN Handles \cup {new} ELSE Handles
      /\ Handles \subseteq DOMAIN closures /\ new \notin DOMAIN closures
    <2>1. /\ \A j \in DOMAIN closures : closures'[j] = closures[j]
          /\ closures'[new] = [chain |-> c, next |-> n]
          /\ Handles' = IF n > 0 THEN Handles \cup {new} ELSE Handles
        BY <1>1, CallClosures
    <2>2. new \notin DOMAIN closures
        BY <1>1, ClosuresType
    <2>3. QED
        BY <2>1, <2>2 DEF Ch, Handles
<1>3. /\ stage[c] = "open" /\ c \notin Enclosing
      /\ stage' = stage /\ depth' = depth /\ sees' = sees
    BY DEF Call, MayWork, TypeOK
<1>4. \A d \in Chains : stage[d] = "open" /\ c \in sees[d] => d = c
    <2>1. \A d \in Chains : stage[d] = "open" => Live(d) /\ within[d] = {}
        BY DEF Live, NestingInv, TextInv
    <2>2. QED
        BY <1>3, <2>1, SeesNobody
<1>5. \A j \in Handles' : depth'[Ch(j)'] < closures'[j].next
    <2>1. ASSUME n > 0
          PROVE  depth[c] < n
        BY <2>1 DEF TypeOK
    <2>2. QED
        BY <1>2, <1>3, <2>1 DEF InnermostInv, Ch
<1>6. ASSUME NEW d \in Chains, stage'[d] = "open", NEW l \in Handles', InScope(l, d)',
             \A j \in Handles' : InScope(j, d)' => j <= l
      PROVE  depth'[d] < closures'[l].next
    <2>1. l # new
        BY <1>2, <1>3, <1>4, <1>6 DEF InScope, Ch
    <2>2. l \in Handles /\ \A j \in Handles : InScope(j, d)' <=> InScope(j, d)
        BY <1>2, <1>3, <2>1 DEF InScope
    <2>3. \A j \in Handles : InScope(j, d) => j <= l
        BY <1>2, <1>6, <2>2
    <2>4. depth[d] < closures[l].next
        BY <1>3, <1>6, <2>2, <2>3 DEF InnermostInv
    <2>5. QED
        BY <1>2, <1>3, <2>2, <2>4
<1>7. QED
    BY <1>3, <1>5, <1>6 DEF InnermostInv

LEMMA FinishInnermost ==
    ASSUME TypeOK, NestingInv, InnermostInv, NEW c \in Chains, FinishSubquery(c)
    PROVE  InnermostInv'
<1> SUFFICES ASSUME discipline = "innermost" PROVE InnermostInv'
    BY DEF InnermostInv, FinishSubquery
<1>1. /\ closures' = closures /\ depth' = depth /\ sees' = sees
      /\ \A d \in Chains : stage'[d] = "open" => stage[d] = "open"
    BY DEF FinishSubquery, MayWork, TypeOK
<1>2. Handles' = Handles /\ \A j \in Handles : Ch(j)' = Ch(j)
    BY <1>1 DEF Handles, Ch
<1>3. \A j \in Handles, d \in Chains : InScope(j, d)' <=> InScope(j, d)
    BY <1>1, <1>2 DEF InScope
<1>4. QED
    BY <1>1, <1>2, <1>3 DEF InnermostInv

LEMMA ReturnInnermost ==
    ASSUME TypeOK, NestingInv, InnermostInv, NEW S \in SUBSET Chains, Return(S)
    PROVE  InnermostInv'
<1> SUFFICES ASSUME discipline = "innermost" PROVE InnermostInv'
    BY DEF InnermostInv, Return
<1>1. PICK top : top = Ch(Len(closures))
    OBVIOUS
<1>2. /\ Handles' = Handles \ {Len(closures)}
      /\ \A j \in Handles' : closures'[j] = closures[j] /\ Ch(j)' = Ch(j)
      /\ depth' = depth /\ sees' = sees
    BY ReturnClosures DEF Handles, Ch, Return
<1>3. ASSUME NEW d \in Chains, stage'[d] = "open"
      PROVE  stage[d] = "open" /\ ~ InScope(Len(closures), d)
    <2>1. Settled(S) /\ LocalsGo(S, top)
        BY <1>1, ReturnStages
    <2>2. stage[d] = "open"
        BY <1>3, <2>1 DEF Settled
    <2>3. QED
        BY <1>1, <1>3, <2>1, <2>2 DEF LocalsGo, InScope, Alive
<1>4. ASSUME NEW d \in Chains, stage'[d] = "open", NEW l \in Handles', InScope(l, d)',
             \A j \in Handles' : InScope(j, d)' => j <= l
      PROVE  depth'[d] < closures'[l].next
    <2>1. \A j \in Handles' : InScope(j, d)' <=> InScope(j, d)
        BY <1>2 DEF InScope
    <2>2. \A j \in Handles : InScope(j, d) => j <= l
        BY <1>2, <1>3, <1>4, <2>1
    <2>3. QED
        BY <1>2, <1>3, <1>4, <2>1, <2>2 DEF InnermostInv
<1>5. QED
    BY <1>2, <1>4 DEF InnermostInv

LEMMA StartSingle ==
    ASSUME TypeOK, NestingInv, SingleInv,
           NEW c \in Chains, NEW k \in DOMAIN closures, Start(c, k)
    PROVE  SingleInv'
<1> SUFFICES ASSUME discipline = "single" PROVE SingleInv'
    BY DEF SingleInv, Start
<1>1. /\ k = 1 /\ closures # <<>> /\ closures[1].next > 0 /\ closures[1].next \in Nat
      /\ closures' # <<>> /\ closures'[1].next = closures[1].next + 1
    <2>1. k = 1 /\ closures[k].next > 0
        BY DEF Start, MayUse, Handles
    <2>2. closures # <<>> /\ closures[k].next \in Nat
        BY ClosuresType
    <2>3. DOMAIN closures' = DOMAIN closures /\ closures'[k].next = closures[k].next + 1
        BY StartClosures
    <2>4. closures' # <<>>
        BY <2>3, ClosuresType
    <2>5. QED
        BY <2>1, <2>2, <2>3, <2>4
<1>2. /\ stage[c] = "unused" /\ stage'[c] = "open" /\ within' = within
      /\ \A d \in Chains \ {c} : stage'[d] = stage[d] /\ depth'[d] = depth[d]
      /\ depth'[c] = closures[1].next
    BY <1>1 DEF Start, TypeOK
<1>3. /\ c # Root /\ Root \in Chains
      /\ \A d \in Chains : c \notin within[d] /\ within[d] \subseteq Chains /\ depth[d] \in Nat
      /\ within[c] = {}
    BY <1>2, ConstantsAreTyped DEF NestingInv, TextInv, ScopeInv, TypeOK
<1>4. \A d \in Chains \ {c} : Present(d)' <=> Present(d)
    BY <1>2 DEF Present, Live
<1>5. \A d \in Chains \ {c} : Present(d)' => depth'[d] < closures[1].next
    BY <1>2, <1>4 DEF SingleInv
<1>6. \A d \in Chains : Present(d)' => closures' # <<>> /\ depth'[d] < closures'[1].next
    BY <1>1, <1>2, <1>3, <1>5
<1>7. \A d, e \in Chains : Present(d)' /\ Present(e)' /\ depth'[d] = depth'[e] => d = e
    <2>1. \A d \in Chains \ {c} : Present(d)' => depth'[d] # depth'[c]
        BY <1>1, <1>2, <1>3, <1>5
    <2>2. \A d, e \in Chains \ {c} :
              Present(d)' /\ Present(e)' /\ depth'[d] = depth'[e] => d = e
        BY <1>2, <1>4 DEF SingleInv
    <2>3. QED
        BY <2>1, <2>2
<1>8. \A d \in Chains : \A r \in within'[d] : Live(d)' => depth'[d] # depth'[r]
    BY <1>2, <1>3 DEF SingleInv, Live
<1>9. QED
    BY <1>1, <1>2, <1>3, <1>6, <1>7, <1>8 DEF SingleInv

LEMMA CallSingle ==
    ASSUME TypeOK, NestingInv, SingleInv, NEW c \in Chains, NEW n \in Nat, Call(c, n)
    PROVE  SingleInv'
<1> SUFFICES ASSUME discipline = "single" PROVE SingleInv'
    BY DEF SingleInv, Call
<1>1. stage' = stage /\ within' = within /\ depth' = depth
    BY DEF Call
<1>2. closures' # <<>> /\ (closures # <<>> => closures'[1] = closures[1])
    <2>1. closures # <<>> => 1 \in DOMAIN closures
        BY ClosuresType
    <2>2. closures' # <<>> /\ \A j \in DOMAIN closures : closures'[j] = closures[j]
        BY CallClosures
    <2>3. QED
        BY <2>1, <2>2
<1>3. \A d \in Chains : (Present(d)' <=> Present(d)) /\ (Live(d)' <=> Live(d))
    BY <1>1 DEF Present, Live
<1>4. QED
    BY <1>1, <1>2, <1>3 DEF SingleInv

LEMMA FinishSingle ==
    ASSUME TypeOK, NestingInv, SingleInv, NEW c \in Chains, FinishSubquery(c)
    PROVE  SingleInv'
<1> SUFFICES ASSUME discipline = "single" PROVE SingleInv'
    BY DEF SingleInv, FinishSubquery
<1>1. /\ closures' = closures /\ within' = within /\ depth' = depth
      /\ stage[c] = "open" /\ stage'[c] = "finished"
      /\ \A d \in Chains \ {c} : stage'[d] = stage[d]
    BY DEF FinishSubquery, TypeOK
<1>2. \A d \in Chains : /\ Present(d)' <=> Present(d)
                        /\ Live(d)' <=> Live(d)
                        /\ stage'[d] # "unused" => stage[d] # "unused"
    BY <1>1 DEF Present, Live
<1>3. QED
    BY <1>1, <1>2 DEF SingleInv

LEMMA ReturnSingle ==
    ASSUME TypeOK, NestingInv, SingleInv, NEW S \in SUBSET Chains, Return(S)
    PROVE  SingleInv'
<1> SUFFICES ASSUME discipline = "single" PROVE SingleInv'
    BY DEF SingleInv, Return
<1> USE DEF NestingInv
<1>1. PICK top : top = Ch(Len(closures))
    OBVIOUS
<1>2. /\ OpenStay(S, top) /\ Settled(S) /\ LocalsGo(S, top) /\ EmbeddedStay(S, top)
      /\ Grown(S, top)
    BY <1>1, ReturnStages
<1>3. /\ depth' = depth
      /\ S \subseteq Text(S) /\ Text(S) \subseteq Chains /\ top \in Chains /\ Root \in Chains
      /\ \A d \in Chains : within[d] \subseteq Chains /\ within[d] \subseteq within'[d]
    BY <1>2, ConstantsAreTyped DEF Return, Text, TypeOK, Grown, OpenStay
<1>4. \A d \in Chains : Live(d)' => Live(d)
    BY <1>2 DEF Settled, Live
<1>5. \A d \in Chains : Present(d)' => Present(d)
    BY <1>3, <1>4 DEF Present
<1>6. closures' # <<>> => Len(closures) > 1 /\ closures'[1] = closures[1] /\ closures # <<>>
    <2>1. /\ Len(closures') = Len(closures) - 1 /\ closures' \in Seq(Closures)
          /\ \A j \in DOMAIN closures' : closures'[j] = closures[j]
          /\ Len(closures) \in DOMAIN closures
        BY ReturnClosures
    <2>2. Len(closures) \in Nat
        BY ClosuresType
    <2>3. closures' # <<>> => 1 \in DOMAIN closures' /\ Len(closures) > 1
        BY <2>1, <2>2
    <2>4. QED
        BY <2>1, <2>2, <2>3
<1>7. ASSUME NEW d \in Chains, Present(d)'
      PROVE  closures' # <<>>
    <2> SUFFICES ASSUME closures' = <<>> PROVE FALSE
        OBVIOUS
    <2>1. top = Root
        <3>1. Len(closures') = Len(closures) - 1 /\ Len(closures) \in Nat /\ closures # <<>>
            BY ReturnClosures, ClosuresType
        <3>2. Len(closures) = 1
            BY <3>1
        <3>3. QED
            BY <1>1, <3>1, <3>2 DEF ClosuresInv
    <2>2. d # Root /\ Live(d) /\ Live(d)' /\ Root \notin within'[d] /\ Root \notin within[d]
        BY <1>3, <1>5, <1>7 DEF Present
    <2>3. d \notin Text(S) /\ d \notin S
        BY <1>2, <1>3, <2>1, <2>2 DEF Grown
    <2>4. \A e \in Chains : Alive(e) => Root \in sees[e]
        BY DEF ScopeInv, Alive
    <2>5. ~ Alive(d)
        BY <1>2, <2>1, <2>2, <2>3, <2>4 DEF LocalsGo, Live
    <2>6. stage[d] = "embedded" /\ stage'[d] = "embedded"
        BY <1>2, <2>2, <2>5 DEF Live, Alive, Settled
    <2>7. PICK e \in within[d] : Alive(e)
        BY <2>6 DEF TextInv
    <2>8. e \in Chains /\ e \notin S /\ e # Root
        BY <1>3, <2>2, <2>3, <2>7 DEF Text
    <2>9. QED
        BY <1>2, <2>1, <2>3, <2>4, <2>6, <2>7, <2>8 DEF EmbeddedStay
<1>8. ASSUME NEW y \in Text(S), Live(y)
      PROVE  depth[y] # depth[top]
    <2>1. y # top
        BY <1>2, <1>8 DEF Grown, OpenStay
    <2>2. Root \notin Text(S)
        BY <1>2 DEF Text, TextInv, Grown
    <2>3. Root \notin within[y]
        <3> SUFFICES ASSUME Root \in within[y] PROVE FALSE
            OBVIOUS
        <3>1. y \in Chains /\ y \notin S
            BY <1>2, <1>3 DEF TextInv, Grown
        <3>2. PICK s \in within[y] \cap S : TRUE
            BY <3>1 DEF Text
        <3>3. stage[s] = "finished" /\ s \in Chains
            BY <1>2, <1>3, <3>2 DEF Grown
        <3>4. s # Root /\ within[s] = {} /\ within[Root] = {}
            BY <1>3, <3>3 DEF TextInv
        <3>5. QED
            BY <3>1, <3>2, <3>4 DEF TextInv
    <2>4. Present(y) /\ y # Root /\ stage[y] # "unused" /\ y \in Chains
        BY <1>3, <1>8, <2>2, <2>3 DEF Present, Live
    <2>5. CASE top = Root
        BY <2>4, <2>5, <1>3 DEF SingleInv, TypeOK
    <2>6. CASE top # Root
        <3>1. Present(top)
            BY <1>2, <2>6 DEF Present, OpenStay, Live
        <3>2. QED
            BY <1>3, <2>1, <2>4, <3>1 DEF SingleInv
    <2>7. QED
        BY <2>5, <2>6
<1>9. \A d \in Chains : \A r \in within'[d] : Live(d)' => depth'[d] # depth'[r]
    <2>1. ASSUME NEW d \in Chains, NEW r \in within'[d], Live(d)'
          PROVE  depth[d] # depth[r]
        <3>1. CASE r \in within[d]
            BY <1>4, <2>1, <3>1 DEF SingleInv
        <3>2. CASE r \notin within[d]
            <4>1. d \in Text(S) /\ r = top
                BY <1>2, <2>1, <3>2 DEF Grown
            <4>2. QED
                BY <1>4, <1>8, <2>1, <4>1
        <3>3. QED
            BY <3>1, <3>2
    <2>2. QED
        BY <1>3, <2>1
<1>10. \A d \in Chains : stage'[d] # "unused" => stage[d] # "unused"
    BY <1>2 DEF Settled
<1>11. \A d \in Chains : Present(d)' => closures' # <<>> /\ depth'[d] < closures'[1].next
    BY <1>3, <1>5, <1>6, <1>7 DEF SingleInv
<1>12. QED
    BY <1>3, <1>5, <1>9, <1>10, <1>11 DEF SingleInv

-----------------------------------------------------------------------------
(* The theorems. *)

LEMMA InitInv == Init => IInv
<1> SUFFICES ASSUME Init PROVE IInv
    OBVIOUS
<1> USE ConstantsAreTyped
<1>1. TypeOK
    BY InitType
<1>2. /\ closures = <<>> /\ DOMAIN closures = {} /\ Enclosing = {} /\ Handles = {}
      /\ \A c \in Chains : /\ within[c] = {} /\ depth[c] = 0
                           /\ stage[c] = IF c = Root THEN "open" ELSE "unused"
                           /\ sees[c] = IF c = Root THEN {Root} ELSE {}
    BY DEF Init, Enclosing, Handles
<1>3. ClosuresInv
    BY <1>2 DEF ClosuresInv
<1>4. TextInv
    BY <1>2 DEF TextInv, Alive
<1>5. ScopeInv
    BY <1>2 DEF ScopeInv, Live
<1>6. InnermostInv
    BY <1>2 DEF InnermostInv
<1>7. SingleInv
    BY <1>2 DEF SingleInv, Present, Live
<1>8. QED
    BY <1>1, <1>3, <1>4, <1>5, <1>6, <1>7 DEF IInv, NestingInv

LEMMA NextInv == IInv /\ [Next]_vars => IInv'
<1> SUFFICES ASSUME IInv, [Next]_vars PROVE IInv'
    OBVIOUS
<1>1. TypeOK /\ NestingInv /\ InnermostInv /\ SingleInv
    BY DEF IInv
<1>2. TypeOK'
    BY <1>1, NextType
<1>3. ASSUME NEW c \in Chains, NEW k \in DOMAIN closures, Start(c, k)
      PROVE  NestingInv' /\ InnermostInv' /\ SingleInv'
    BY <1>1, <1>3, StartNesting, StartInnermost, StartSingle
<1>4. ASSUME NEW c \in Chains, NEW n \in Nat, Call(c, n), n = 0 \/ n = depth[c] + 1
      PROVE  NestingInv' /\ InnermostInv' /\ SingleInv'
    BY <1>1, <1>4, CallNesting, CallInnermost, CallSingle
<1>5. ASSUME NEW c \in Chains, FinishSubquery(c)
      PROVE  NestingInv' /\ InnermostInv' /\ SingleInv'
    BY <1>1, <1>5, FinishNesting, FinishInnermost, FinishSingle
<1>6. ASSUME NEW S \in SUBSET Chains, Return(S)
      PROVE  NestingInv' /\ InnermostInv' /\ SingleInv'
    BY <1>1, <1>6, ReturnNesting, ReturnInnermost, ReturnSingle
<1>7. ASSUME UNCHANGED vars
      PROVE  NestingInv' /\ InnermostInv' /\ SingleInv'
    <2>1. /\ discipline' = discipline /\ depth' = depth /\ stage' = stage
          /\ sees' = sees /\ within' = within /\ closures' = closures
        BY <1>7 DEF vars
    <2>2. NestingInv'
        BY <1>1, <2>1 DEF NestingInv, ClosuresInv, TextInv, ScopeInv, Ch, Enclosing, Alive, Live
    <2>3. InnermostInv'
        BY <1>1, <2>1 DEF InnermostInv, InScope, Handles, Ch
    <2>4. SingleInv'
        BY <1>1, <2>1 DEF SingleInv, Present, Live
    <2>5. QED
        BY <2>2, <2>3, <2>4
<1>8. \A c \in Chains : depth[c] + 1 \in Nat
    BY <1>1 DEF TypeOK
<1>9. NestingInv' /\ InnermostInv' /\ SingleInv'
    <2>1. ASSUME NEW c \in Chains, CallCorrelated(c)
          PROVE  NestingInv' /\ InnermostInv' /\ SingleInv'
        BY <1>4, <1>8, <2>1 DEF CallCorrelated
    <2>2. ASSUME NEW c \in Chains, CallPlain(c)
          PROVE  NestingInv' /\ InnermostInv' /\ SingleInv'
        BY <1>4, <2>2 DEF CallPlain
    <2>3. QED
        BY <1>3, <1>5, <1>6, <1>7, <2>1, <2>2 DEF Next
<1>10. QED
    BY <1>2, <1>9 DEF IInv

\* The inductive invariant holds in every reachable state.
THEOREM InvHolds == Spec => []IInv
<1>1. QED
    BY InitInv, NextInv, PTL DEF Spec

\* Every variable keeps to its type.
THEOREM TypeCorrect == Spec => []TypeOK
<1>1. IInv => TypeOK
    BY DEF IInv
<1>2. QED
    BY <1>1, InvHolds, PTL

LEMMA DisciplineStays == discipline \in Disciplines /\ [Next]_vars => (discipline \in Disciplines)'
BY DEF Next, Start, CallCorrelated, CallPlain, Call, FinishSubquery, Return, vars

LEMMA InvIsEnough ==
    ASSUME IInv, discipline \in {"innermost", "single"}
    PROVE  NoCapture
<1> SUFFICES ASSUME NEW x \in Chains, Live(x), NEW r \in sees[x] \cap within[x],
                    NEW y \in {x} \cup within[x], r \in within[y]
             PROVE  depth[y] # depth[r]
    BY DEF NoCapture
<1>1. TypeOK /\ NestingInv /\ InnermostInv /\ SingleInv
    BY DEF IInv
<1>2. y \in Chains /\ r \in Chains /\ r # y /\ Live(y)
    BY <1>1 DEF TypeOK, NestingInv, TextInv
<1>3. CASE discipline = "innermost"
    <2>1. r \in sees[y]
        BY <1>1 DEF NestingInv, ScopeInv
    <2>2. depth[r] < depth[y] /\ depth[r] \in Nat /\ depth[y] \in Nat
        BY <1>1, <1>2, <1>3, <2>1 DEF InnermostInv, TypeOK
    <2>3. QED
        BY <2>2
<1>4. CASE discipline = "single"
    BY <1>1, <1>2, <1>4 DEF SingleInv
<1>5. QED
    BY <1>3, <1>4

\* No column is captured, however many subqueries are nested, if the caller takes each from
\* the last handle and works on it where it was started, or takes all from a single handle.
THEOREM Aliases ==
    ASSUME "captured" \notin Disciplines
    PROVE  Spec => []NoCapture
<1>1. Init => discipline \in Disciplines
    BY DEF Init
<1>2. IInv /\ discipline \in Disciplines => NoCapture
    BY ConstantsAreTyped, InvIsEnough
<1>3. QED
    BY <1>1, <1>2, DisciplineStays, InvHolds, PTL DEF Spec

=============================================================================
