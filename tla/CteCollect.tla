---------------------------- MODULE CteCollect ----------------------------
(***************************************************************************)
(* How a query's WITH clause is collected.                                 *)
(*                                                                         *)
(* A select refers to common table expressions; their bodies refer to      *)
(* others.  Selected::collect_ctes walks the references depth first and    *)
(* keeps a definition after the ones it depends on.  A set operation       *)
(* (UNION, INTERSECT, EXCEPT) collects each arm on its own and merges the  *)
(* lists in dedup_set_ctes.  A cycle or a clash of names is a panic.  An   *)
(* UPDATE or a DELETE, whose predicates may hold subqueries, collects      *)
(* nothing.                                                                *)
(*                                                                         *)
(* The walk is a recursive function in the code; here its call stack is a  *)
(* variable and each call, return or loop iteration is a step.             *)
(***************************************************************************)
EXTENDS Naturals, Sequences, FiniteSets

CONSTANTS
    Ctes,       \* CTE definitions, as identified by CteDef::type_key
    Names,      \* their bare names
    Query,      \* the frame of the query itself, which is no CTE
    Bodies,     \* the reference lists to consider: a subset of [Ctes -> Seq(Ctes)]
    Namings,    \* the namings to consider: a subset of [Ctes -> Names]
    Recursives, \* which definitions are recursive: a subset of SUBSET Ctes
    Queries,    \* the statements' references: for each arm, a list
    Kinds       \* the kinds of statement: "query", "mutation" or both

ASSUME ConstantsAreTyped ==
    /\ Query \notin Ctes
    /\ Bodies \subseteq [Ctes -> Seq(Ctes)]
    /\ Namings \subseteq [Ctes -> Names]
    /\ Recursives \subseteq SUBSET Ctes
    /\ Queries \subseteq Seq(Seq(Ctes)) \ {<<>>}
    /\ Kinds \subseteq {"query", "mutation"}

VARIABLES
    refs,       \* the CTEs each body refers to, as its sources and subqueries list them
    name,       \* CteDef::name
    recursive,  \* the definitions made by RecursiveCteDefinition
    arms,       \* the references of each arm of the query; a plain select is one arm
    kind,       \* a query (SELECT, set operation, INSERT ... SELECT) or an UPDATE or DELETE
    pc,         \* "visit", "merge", "done", "cycle" or "collision"
    arm,        \* the arm being collected
    stack,      \* the calls of visit in progress, the arm's own loop at the bottom
    ordered,    \* collect_ctes: the definitions kept so far, in order
    collected,  \* collect_set_ctes: the lists of the arms collected so far
    merged,     \* dedup_set_ctes: how many of them are merged
    kept        \* the WITH clause

input == <<refs, name, recursive, arms, kind>>
vars == <<refs, name, recursive, arms, kind, pc, arm, stack, ordered, collected, merged, kept>>

Elements(s) == {s[i] : i \in DOMAIN s}
NamesOf(s) == {name[d] : d \in Elements(s)}

\* Variant: the self-references stay in.
RetainedAll(d) == DOMAIN refs[d]

\* cte_dependencies, as the positions of the body's references it returns: a recursive
\* definition leaves out the references to itself, told by identity and not by name.
Retained(d) == {i \in DOMAIN refs[d] : d \in recursive => refs[d][i] # d}

\* A call of visit: its definition and the positions of its loop still to come.
Frame(d) == [def |-> d, left |-> Retained(d)]
ArmFrame(a) == [def |-> Query, left |-> DOMAIN arms[a]]

Frames == [def : Ctes \cup {Query}, left : SUBSET Nat]

TypeOK ==
    /\ refs \in [Ctes -> Seq(Ctes)]
    /\ name \in [Ctes -> Names]
    /\ recursive \in SUBSET Ctes
    /\ arms \in Seq(Seq(Ctes))
    /\ kind \in {"query", "mutation"}
    /\ pc \in {"visit", "merge", "done", "cycle", "collision"}
    /\ arm \in 1 .. Len(arms)
    /\ stack \in Seq(Frames)
    /\ ordered \in Seq(Ctes)
    /\ collected \in Seq(Ctes)
    /\ merged \in 0 .. Len(collected)
    /\ kept \in Seq(Ctes)

Init ==
    /\ refs \in Bodies
    /\ name \in Namings
    /\ recursive \in Recursives
    /\ arms \in Queries
    /\ kind \in Kinds
    /\ pc = "visit"
    /\ arm = 1
    /\ stack = <<ArmFrame(1)>>
    /\ ordered = <<>>
    /\ collected = <<>>
    /\ merged = 0
    /\ kept = <<>>

-----------------------------------------------------------------------------
(* collect_ctes. *)

Top == stack[Len(stack)]
Visiting == kind = "query" /\ pc = "visit" /\ stack # <<>>

\* The loop of the topmost call is at position i, and visits the definition there.
At(i) == Visiting /\ i \in Top.left /\ \A j \in Top.left : i <= j
Item(i) == IF Top.def = Query THEN arms[arm][i] ELSE refs[Top.def][i]

\* on_path
OnPath == {stack[i].def : i \in DOMAIN stack}

\* The stack once the topmost call has passed position i.
Advanced(i) == [stack EXCEPT ![Len(stack)] = [def |-> Top.def, left |-> Top.left \ {i}]]

\* Variant: the loop does not move on from a definition already kept.
SkipKeptStays(i) ==
    /\ At(i)
    /\ Item(i) \in Elements(ordered)
    /\ UNCHANGED vars

\* visit finds the definition among those kept.
SkipKept(i) ==
    /\ At(i)
    /\ Item(i) \in Elements(ordered)
    /\ stack' = Advanced(i)
    /\ UNCHANGED <<input, pc, arm, ordered, collected, merged, kept>>

\* Variant: a definition on the path counts as visited.
FindCycleSkips(i) ==
    /\ At(i)
    /\ Item(i) \notin Elements(ordered)
    /\ Item(i) \in OnPath
    /\ stack' = Advanced(i)
    /\ UNCHANGED <<input, pc, arm, ordered, collected, merged, kept>>

\* visit finds the definition on the path to itself, and panics.
FindCycle(i) ==
    /\ At(i)
    /\ Item(i) \notin Elements(ordered)
    /\ Item(i) \in OnPath
    /\ pc' = "cycle"
    /\ UNCHANGED <<input, arm, stack, ordered, collected, merged, kept>>

\* visit pushes the definition on the path and turns to its dependencies.
Enter(i) ==
    /\ At(i)
    /\ Item(i) \notin Elements(ordered) \cup OnPath
    /\ stack' = Append(Advanced(i), Frame(Item(i)))
    /\ UNCHANGED <<input, pc, arm, ordered, collected, merged, kept>>

\* Variant: one name, one entry; the second definition of a name is dropped silently.
LeaveByName ==
    /\ Visiting
    /\ Top.left = {} /\ Top.def # Query
    /\ stack' = SubSeq(stack, 1, Len(stack) - 1)
    /\ ordered' = IF name[Top.def] \in NamesOf(ordered) THEN ordered ELSE Append(ordered, Top.def)
    /\ UNCHANGED <<input, pc, arm, collected, merged, kept>>

\* visit returns: the definition is kept, unless its name is taken, which is a panic.
Leave ==
    /\ Visiting
    /\ Top.left = {} /\ Top.def # Query
    /\ IF name[Top.def] \in NamesOf(ordered)
         THEN pc' = "collision" /\ UNCHANGED <<stack, ordered>>
         ELSE /\ stack' = SubSeq(stack, 1, Len(stack) - 1)
              /\ ordered' = Append(ordered, Top.def)
              /\ UNCHANGED pc
    /\ UNCHANGED <<input, arm, collected, merged, kept>>

-----------------------------------------------------------------------------
(* What becomes of the lists. *)

\* A plain select's list is its WITH clause.
SelectDone ==
    /\ Visiting
    /\ Top.left = {} /\ Top.def = Query
    /\ Len(arms) = 1
    /\ pc' = "done"
    /\ kept' = ordered
    /\ UNCHANGED <<input, arm, stack, ordered, collected, merged>>

\* Variant: the collection goes on past the last arm.
ArmDoneOverruns ==
    /\ Visiting
    /\ Top.left = {} /\ Top.def = Query
    /\ Len(arms) > 1
    /\ collected' = collected \o ordered
    /\ ordered' = <<>>
    /\ arm' = arm + 1
    /\ stack' = IF arm < Len(arms) THEN <<ArmFrame(arm + 1)>> ELSE <<>>
    /\ pc' = IF arm < Len(arms) THEN pc ELSE "merge"
    /\ UNCHANGED <<input, merged, kept>>

\* collect_set_ctes: an arm's list follows those of the arms before it.
ArmDone ==
    /\ Visiting
    /\ Top.left = {} /\ Top.def = Query
    /\ Len(arms) > 1
    /\ collected' = collected \o ordered
    /\ ordered' = <<>>
    /\ IF arm < Len(arms)
         THEN /\ arm' = arm + 1
              /\ stack' = <<ArmFrame(arm + 1)>>
              /\ UNCHANGED pc
         ELSE /\ pc' = "merge"
              /\ stack' = <<>>
              /\ UNCHANGED arm
    /\ UNCHANGED <<input, merged, kept>>

Candidate == collected[merged + 1]

\* Variant: dedup_set_ctes without its check of the names.
MergeUnchecked ==
    /\ pc = "merge"
    /\ merged < Len(collected)
    /\ merged' = merged + 1
    /\ kept' = IF Candidate \in Elements(kept) THEN kept ELSE Append(kept, Candidate)
    /\ UNCHANGED <<input, pc, arm, stack, ordered, collected>>

\* dedup_set_ctes: the first occurrence of a definition is kept; a clash is a panic.
Merge ==
    /\ pc = "merge"
    /\ merged < Len(collected)
    /\ \/ /\ Candidate \in Elements(kept)
          /\ merged' = merged + 1
          /\ UNCHANGED <<pc, kept>>
       \/ /\ Candidate \notin Elements(kept)
          /\ name[Candidate] \in NamesOf(kept)
          /\ pc' = "collision"
          /\ UNCHANGED <<merged, kept>>
       \/ /\ Candidate \notin Elements(kept)
          /\ name[Candidate] \notin NamesOf(kept)
          /\ merged' = merged + 1
          /\ kept' = Append(kept, Candidate)
          /\ UNCHANGED pc
    /\ UNCHANGED <<input, arm, stack, ordered, collected>>

MergeDone ==
    /\ pc = "merge"
    /\ merged = Len(collected)
    /\ pc' = "done"
    /\ UNCHANGED <<input, arm, stack, ordered, collected, merged, kept>>

\* write_update_with_params, write_delete_with_params: no WITH clause is written, whatever
\* the subqueries in the predicates refer to.
MutationDone ==
    /\ kind = "mutation"
    /\ pc = "visit"
    /\ pc' = "done"
    /\ UNCHANGED <<input, arm, stack, ordered, collected, merged, kept>>

Next ==
    \/ Visiting /\ \E i \in Top.left : SkipKept(i) \/ FindCycle(i) \/ Enter(i)
    \/ Leave
    \/ SelectDone
    \/ ArmDone
    \/ Merge
    \/ MergeDone
    \/ MutationDone

Spec == Init /\ [][Next]_vars

\* A sequential function: it keeps going.
FairSpec == Spec /\ WF_vars(Next)

-----------------------------------------------------------------------------
(* What the renderer relies on. *)

\* The references of d that are dependencies: all but a recursive definition's own.
Dependencies(d) == {c \in Elements(refs[d]) : ~(d \in recursive /\ c = d)}

Roots == UNION {Elements(arms[a]) : a \in DOMAIN arms}

Closed(S) == \A d \in S : Dependencies(d) \subseteq S

\* Everything the references of S lead to, directly or not.
Reachable(S) == {c \in Ctes : \A T \in SUBSET Ctes : (S \subseteq T /\ Closed(T)) => c \in T}

\* render_with_prefix writes WITH RECURSIVE when any definition is recursive.  Under it
\* every entry is in the scope of every body; under WITH, only the entries before it.
InScope(i) ==
    IF Elements(kept) \cap recursive # {} THEN DOMAIN kept ELSE 1 .. i - 1

\* "A referenced CTE before the one that uses it": at every moment, of every list.
DependenciesFirst ==
    \A s \in {ordered, kept} : \A i \in DOMAIN s :
        Dependencies(s[i]) \subseteq {s[j] : j \in 1 .. i - 1}

\* Every reference in a body of the finished clause, a recursive one's to itself too, has
\* exactly one entry of that name in its scope, and it is the definition referred to.
ReferencesResolve ==
    pc = "done" =>
        \A i \in DOMAIN kept : \A c \in Elements(refs[kept[i]]) :
            {kept[j] : j \in {k \in InScope(i) : name[kept[k]] = name[c]}} = {c}

\* The finished clause of a query has what the query needs and nothing else.
ClauseIsComplete == (pc = "done" /\ kind = "query") => Elements(kept) = Reachable(Roots)

\* "A CTE is a view whose body is inlined as a WITH prefix": the finished statement defines
\* every CTE it refers to.
EveryReferenceDefined == pc = "done" => Roots \subseteq Elements(kept)

\* A query is refused only for a real reason: a definition that depends on itself through
\* others (or is not declared recursive), or two definitions of one name in one query.
PanicIsJustified ==
    /\ pc = "cycle" => \E d \in Reachable(Roots) : d \in Reachable(Dependencies(d))
    /\ pc = "collision" =>
          \E c, d \in Reachable(Roots) : c # d /\ name[c] = name[d]

\* Collection ends, whatever refers to what.
CollectionEnds == <>(pc \in {"done", "cycle", "collision"})
=============================================================================
