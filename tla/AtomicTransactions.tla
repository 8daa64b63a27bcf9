------------------------ MODULE AtomicTransactions ------------------------
(***************************************************************************)
(* What ConnectionWithTransaction promises: transactions that run one at a *)
(* time, whose statements become visible all at once when they commit and  *)
(* not at all otherwise, and callers who are told which of the two it was. *)
(***************************************************************************)
EXTENDS FiniteSets

CONSTANTS
    Txs,    \* invocations of transaction
    Stmts   \* statements

VARIABLES
    status,   \* "idle", "active", "committed" or "aborted"
    writes,   \* the statements each transaction has applied
    visible,  \* the statements every later reader sees
    told      \* what each caller was told: "none", "ok", "error" or "cancelled"

vars == <<status, writes, visible, told>>

Init ==
    /\ status = [t \in Txs |-> "idle"]
    /\ writes = [t \in Txs |-> {}]
    /\ visible = {}
    /\ told = [t \in Txs |-> "none"]

NoneActive == \A t \in Txs : status[t] # "active"

\* A caller that gave up may still have its transaction begun; one told of an error may not.
Begin(t) ==
    /\ status[t] = "idle"
    /\ NoneActive
    /\ told[t] # "error"
    /\ status' = [status EXCEPT ![t] = "active"]
    /\ UNCHANGED <<writes, visible, told>>

Write(t, m) ==
    /\ status[t] = "active"
    /\ m \notin visible /\ \A u \in Txs : m \notin writes[u]
    /\ writes' = [writes EXCEPT ![t] = @ \cup {m}]
    /\ UNCHANGED <<status, visible, told>>

Commit(t) ==
    /\ status[t] = "active"
    /\ told[t] # "error"
    /\ status' = [status EXCEPT ![t] = "committed"]
    /\ visible' = visible \cup writes[t]
    /\ UNCHANGED <<writes, told>>

Abort(t) ==
    /\ status[t] = "active"
    /\ status' = [status EXCEPT ![t] = "aborted"]
    /\ UNCHANGED <<writes, visible, told>>

\* "ok" only for what is committed, "error" only for what is not and never will be.
Tell(t, result) ==
    /\ told[t] = "none"
    /\ result = "ok" => status[t] = "committed"
    /\ result = "error" => status[t] # "committed"
    /\ told' = [told EXCEPT ![t] = result]
    /\ UNCHANGED <<status, writes, visible>>

\* Statements that belong to no transaction, one at a time or a manual transaction's at once.
Plain(S) ==
    /\ NoneActive
    /\ \A t \in Txs : S \cap writes[t] = {}
    /\ visible' = visible \cup S
    /\ UNCHANGED <<status, writes, told>>

Next ==
    \/ \E t \in Txs : Begin(t) \/ Commit(t) \/ Abort(t)
    \/ \E t \in Txs, m \in Stmts : Write(t, m)
    \/ \E t \in Txs, result \in {"ok", "error", "cancelled"} : Tell(t, result)
    \/ \E S \in SUBSET Stmts : Plain(S)

Spec == Init /\ [][Next]_vars
=============================================================================
