--------------------------- MODULE SourceAliases ---------------------------
(***************************************************************************)
(* How the sources of nested subqueries get their SQL aliases.             *)
(*                                                                         *)
(* A chain (From, Where, Join, ...) selects from sources with the alias    *)
(* q{depth}_{index}: the depth is the chain's, the index tells the sources *)
(* of one FROM clause apart.  So two chains share an alias exactly if they *)
(* share a depth.  where_correlated and select_correlated call a closure   *)
(* with a Subqueries handle whose depths start below the chain's, and each *)
(* Subqueries::from takes the handle's next depth.  Closures nest, and an  *)
(* inner one may use a handle it captured from an outer one.               *)
(*                                                                         *)
(* A column in an expression is only a source's alias: SQL resolves it to  *)
(* the innermost enclosing SELECT with that alias.                         *)
(***************************************************************************)
EXTENDS Integers, Sequences, FiniteSets

CONSTANTS
    Chains,      \* the chains that may be built
    Root,        \* the one started from the connection
    Disciplines  \* how the caller may use handles and chains, see MayUse and MayWork

ASSUME ConstantsAreTyped ==
    /\ Root \in Chains
    /\ Disciplines \subseteq {"innermost", "single", "captured"}

VARIABLES
    discipline,  \* the caller's way in this behaviour
    depth,       \* SelectAst::depth of each chain
    stage,       \* "unused", "open", "finished", "embedded" or "dropped"
    sees,        \* the chains whose columns were in scope where it was built
    within,      \* the chains whose SQL text contains its own
    closures     \* the closures being called, each with its chain and its handle

vars == <<discipline, depth, stage, sees, within, closures>>

Stages == {"unused", "open", "finished", "embedded", "dropped"}

\* next is Subqueries::next_depth, or 0 in a closure that gets no handle.
Closures == [chain : Chains, next : Nat]

TypeOK ==
    /\ discipline \in {"innermost", "single", "captured"}
    /\ depth \in [Chains -> Nat]
    /\ stage \in [Chains -> Stages]
    /\ sees \in [Chains -> SUBSET Chains]
    /\ within \in [Chains -> SUBSET Chains]
    /\ closures \in Seq(Closures)

\* The chains whose closures are being called: they are moved into the call.
Enclosing == {closures[k].chain : k \in DOMAIN closures}
Handles == {k \in DOMAIN closures : closures[k].next > 0}

\* A chain the caller still has a value of, and one whose text is still wanted.
Alive(c) == stage[c] \in {"open", "finished"}
Live(c) == stage[c] \in {"open", "finished", "embedded"}

\* Which handle may be used.  "innermost": the last one handed out.  "single": only the
\* one of the outermost closure.  "captured": any, which Rust allows.
MayUse(k) ==
    /\ discipline = "innermost" => \A j \in Handles : j <= k
    /\ discipline = "single" => k = 1

\* Where a chain may be worked on: anywhere if "single", else only in the closure it was
\* started in, where no other columns are in scope than were then.
MayWork(c) == discipline # "single" => Enclosing \subseteq sees[c]

Init ==
    /\ discipline \in Disciplines
    /\ depth = [c \in Chains |-> 0]
    /\ stage = [c \in Chains |-> IF c = Root THEN "open" ELSE "unused"]
    /\ sees = [c \in Chains |-> IF c = Root THEN {Root} ELSE {}]
    /\ within = [c \in Chains |-> {}]
    /\ closures = <<>>

\* Variant: the handle keeps its depth.
StartSameDepth(c, k) ==
    /\ stage[c] = "unused"
    /\ k \in Handles /\ MayUse(k)
    /\ depth' = [depth EXCEPT ![c] = closures[k].next]
    /\ stage' = [stage EXCEPT ![c] = "open"]
    /\ sees' = [sees EXCEPT ![c] = Enclosing \cup {c}]
    /\ UNCHANGED <<discipline, within, closures>>

\* Subqueries::from: From::new at the handle's next depth.
Start(c, k) ==
    /\ stage[c] = "unused"
    /\ k \in Handles /\ MayUse(k)
    /\ depth' = [depth EXCEPT ![c] = closures[k].next]
    /\ closures' = [closures EXCEPT ![k].next = @ + 1]
    /\ stage' = [stage EXCEPT ![c] = "open"]
    /\ sees' = [sees EXCEPT ![c] = Enclosing \cup {c}]
    /\ UNCHANGED <<discipline, within>>

\* A method of the chain calls its closure, with the columns of the chain's sources.
Call(c, next) ==
    /\ stage[c] = "open" /\ c \notin Enclosing
    /\ MayWork(c)
    /\ closures' = Append(closures, [chain |-> c, next |-> next])
    /\ sees' = [sees EXCEPT ![c] = @ \cup Enclosing]
    /\ UNCHANGED <<discipline, depth, stage, within>>

\* Variant: the handle starts one above the chain instead of one below.
CallCorrelatedShallower(c) == Call(c, depth[c] - 1)

\* where_correlated, select_correlated: Subqueries::new(connection, depth() + 1).
CallCorrelated(c) == Call(c, depth[c] + 1)

\* where_, on, having, order_by, select_subquery's projection: no handle.
CallPlain(c) == Call(c, 0)

\* select_subquery: the chain becomes a SubquerySelect, which is an operand only.
FinishSubquery(c) ==
    /\ stage[c] = "open" /\ c \notin Enclosing /\ c # Root
    /\ MayWork(c)
    /\ stage' = [stage EXCEPT ![c] = "finished"]
    /\ sees' = [sees EXCEPT ![c] = @ \cup Enclosing]
    /\ UNCHANGED <<discipline, depth, within, closures>>

\* The chains in the text of those of S.
Text(S) == {c \in Chains : c \in S \/ within[c] \cap S # {}}

\* The closure returns an expression that holds the finished subqueries of S.  What else
\* was built in it, or moved into it, is dropped with everything it holds.
Return(S) ==
    LET top == closures[Len(closures)].chain
        local == {c \in Chains : Alive(c) /\ top \in sees[c] /\ c # top}
    IN  /\ closures # <<>>
        /\ S \subseteq {c \in Chains : stage[c] = "finished"}
        /\ within' = [c \in Chains |-> IF c \in Text(S) THEN within[c] \cup {top} ELSE within[c]]
        /\ stage' = [c \in Chains |-> IF c \in S THEN "embedded"
                                      ELSE IF c \in Text(local \ S) THEN "dropped"
                                      ELSE stage[c]]
        /\ closures' = SubSeq(closures, 1, Len(closures) - 1)
        /\ UNCHANGED <<discipline, depth, sees>>

Next ==
    \/ \E c \in Chains, k \in DOMAIN closures : Start(c, k)
    \/ \E c \in Chains : CallCorrelated(c)
    \/ \E c \in Chains : CallPlain(c)
    \/ \E c \in Chains : FinishSubquery(c)
    \/ \E S \in SUBSET Chains : Return(S)

Spec == Init /\ [][Next]_vars

-----------------------------------------------------------------------------

\* No column is captured: when x refers to a source of r, no SELECT between them has the
\* same alias.  Subqueries::from and Subqueries::new hand out the depths that make it so.
NoCapture ==
    \A x \in Chains : Live(x) =>
        \A r \in sees[x] \cap within[x], y \in {x} \cup within[x] :
            r \in within[y] => depth[y] # depth[r]

=============================================================================
