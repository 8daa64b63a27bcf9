-------------------------- MODULE PostgresSession --------------------------
(***************************************************************************)
(* One PostgresConnection, the tokio-postgres client it wraps and the      *)
(* server's backend process behind it.                                     *)
(*                                                                         *)
(* The client pipelines: every request is on the wire when its future is   *)
(* first polled, the server answers them in order, and an answer reaches   *)
(* the client some time after it was given, or never if the connection is  *)
(* lost.  A statement given as SQL is two requests, its preparation and    *)
(* its execution, the second one sent when the first one is answered.      *)
(* transaction() sends START TRANSACTION, runs the caller's body and sends *)
(* COMMIT or ROLLBACK; the driver's Transaction sends a ROLLBACK nobody    *)
(* awaits when it is dropped before either.  Once a statement has failed   *)
(* the server refuses the rest of the transaction and answers its COMMIT   *)
(* by rolling it back, which is not an error.                              *)
(***************************************************************************)
EXTENDS Naturals, Sequences, FiniteSets

CONSTANTS
    Txs,          \* invocations of transaction / transaction_scoped
    Writes,       \* statements that change data, each run at most once
    Reads,        \* statements that only return rows, each run at most once
    NoTx,         \* "no transaction": a call of the bare connection, autocommit mode
    NoStmt,       \* the statement field of a request that is transaction control
    MaySwallow,   \* may a body drop a statement, or go on after it saw one fail?
    MayFailLate,  \* may a read fail after it has returned a first row?
    MayLose       \* may the connection be lost?

Stmts == Writes \cup Reads

ASSUME ConstantsAreDistinct ==
    /\ Writes \cap Reads = {}
    /\ NoTx \notin Txs
    /\ NoStmt \notin Stmts
    /\ MaySwallow \in BOOLEAN
    /\ MayFailLate \in BOOLEAN
    /\ MayLose \in BOOLEAN

VARIABLES
    holder,    \* the transaction future that holds the &mut borrow of the connection
    phase,     \* how far each transaction invocation has got
    outcome,   \* what its caller was told
    stmt,      \* the state of each statement's future or row stream
    owner,     \* the transaction each statement was started in
    sawError,  \* the transactions whose body was told of a failed statement
    wire,      \* the requests sent and not yet served, in wire order
    answer,    \* the server's answer to each request it has served
    lost,      \* the connection is gone
    unheard,   \* the answers that were lost with it
    open,      \* server: who opened the transaction in progress (NoTx: autocommit)
    failed,    \* server: a statement of it has failed
    pending,   \* server: statements applied in it
    durable    \* server: statements whose effect is committed

clientVars == <<holder, phase, outcome, stmt, owner, sawError>>
serverVars == <<open, failed, pending, durable>>
vars == <<holder, phase, outcome, stmt, owner, sawError, wire, answer, lost, unheard,
          open, failed, pending, durable>>

Phases == {"new", "begin", "body", "commit", "rollback", "over"}
\* "parse": the future awaits the preparation; "exec": it awaits the answer of the
\* execution (PostgresRowsState::Pending and Rows); "over": Done, or dropped.
StmtStates == {"new", "parse", "exec", "over"}
Control == {"BEGIN", "COMMIT", "ROLLBACK", "DROP"}
\* A request is sent at most once, so that what it says identifies it.
Request == [op : {"PARSE", "EXEC"}, by : Txs \cup {NoTx}, stmt : Stmts]
             \cup [op : Control, by : Txs, stmt : {NoStmt}]
\* "late": one row, then an error.
Answers == {"none", "ok", "error", "late"}

TypeOK ==
    /\ holder \in Txs \cup {NoTx}
    /\ phase \in [Txs -> Phases]
    /\ outcome \in [Txs -> {"none", "ok", "error", "cancelled"}]
    /\ stmt \in [Stmts -> StmtStates]
    /\ owner \in [Stmts -> Txs \cup {NoTx}]
    /\ sawError \in SUBSET Txs
    /\ wire \in Seq(Request)
    /\ answer \in [Request -> Answers]
    /\ lost \in BOOLEAN
    /\ unheard \in SUBSET Request
    /\ open \in Txs \cup {NoTx}
    /\ failed \in BOOLEAN
    /\ pending \in SUBSET Writes
    /\ durable \in SUBSET Writes

Init ==
    /\ holder = NoTx
    /\ phase = [t \in Txs |-> "new"]
    /\ outcome = [t \in Txs |-> "none"]
    /\ stmt = [m \in Stmts |-> "new"]
    /\ owner = [m \in Stmts |-> NoTx]
    /\ sawError = {}
    /\ wire = <<>>
    /\ answer = [r \in Request |-> "none"]
    /\ lost = FALSE
    /\ unheard = {}
    /\ open = NoTx
    /\ failed = FALSE
    /\ pending = {}
    /\ durable = {}

-----------------------------------------------------------------------------
(* Requests and answers. *)

Of(t, op) == [op |-> op, by |-> t, stmt |-> NoStmt]
For(m, op) == [op |-> op, by |-> owner[m], stmt |-> m]

\* The request is on the wire before the future that sent it is first suspended; once the
\* connection is lost it goes nowhere.
Send(r) == wire' = IF lost THEN wire ELSE Append(wire, r)

\* The request has its answer: the server's, or "connection closed".
Answered(r) == answer[r] # "none" \/ lost
Answer(r) == IF answer[r] = "none" \/ r \in unheard THEN "error" ELSE answer[r]

-----------------------------------------------------------------------------
(* Statements.  by = NoTx: PostgresExecutor for PostgresConnection; their  *)
(* futures borrow the connection, so none lives on while a transaction     *)
(* holds it mutably.  by = t: PostgresExecutor for PostgresTransaction.    *)

MayRun(by) == IF by = NoTx THEN holder = NoTx ELSE phase[by] = "body"

\* A body that swallows nothing runs no further statement once it saw one fail.
MayGoOn(by) == by \notin sawError \/ MaySwallow

\* query_raw / execute_sql up to its first await, where the driver prepares the SQL, or
\* prepare_sql: the caller of a prepared query sends the two requests itself.
Execute(by, m) ==
    /\ MayRun(by) /\ MayGoOn(by)
    /\ stmt[m] = "new"
    /\ stmt' = [stmt EXCEPT ![m] = "parse"]
    /\ owner' = [owner EXCEPT ![m] = by]
    /\ Send([op |-> "PARSE", by |-> by, stmt |-> m])
    /\ UNCHANGED <<holder, phase, outcome, sawError, answer, lost, unheard, serverVars>>

\* The statement is over for its caller, who sees it fail or not.
EndStmt(m, fails) ==
    /\ stmt' = [stmt EXCEPT ![m] = "over"]
    /\ sawError' = IF fails /\ owner[m] # NoTx THEN sawError \cup {owner[m]} ELSE sawError
    /\ UNCHANGED <<holder, phase, outcome, owner>>

\* The preparation is answered: bind and execute (query_statement / execute_statement, when
\* the caller prepared it), or fail.
Prepared(m) ==
    /\ stmt[m] = "parse"
    /\ Answered(For(m, "PARSE"))
    /\ IF Answer(For(m, "PARSE")) = "ok"
         THEN /\ stmt' = [stmt EXCEPT ![m] = "exec"]
              /\ Send(For(m, "EXEC"))
              /\ UNCHANGED <<holder, phase, outcome, owner, sawError>>
         ELSE EndStmt(m, TRUE) /\ UNCHANGED wire
    /\ UNCHANGED <<answer, lost, unheard, serverVars>>

\* The execution is answered to a caller that reads to the end: execute, collect and the
\* `_with_affected` forms.  An error anywhere in the stream is theirs.
Collect(m) ==
    /\ stmt[m] = "exec"
    /\ Answered(For(m, "EXEC"))
    /\ EndStmt(m, Answer(For(m, "EXEC")) # "ok")
    /\ UNCHANGED <<wire, answer, lost, unheard, serverVars>>

\* fetch_one and fetch_optional take the first item of the stream and drop it: an error
\* after the first row is never seen.
FetchOne(m) ==
    /\ m \in Reads
    /\ stmt[m] = "exec"
    /\ Answered(For(m, "EXEC"))
    /\ EndStmt(m, Answer(For(m, "EXEC")) = "error")
    /\ UNCHANGED <<wire, answer, lost, unheard, serverVars>>

\* The caller drops the future or the stream: what is on the wire still runs.
DropStmt(m) ==
    /\ stmt[m] \in {"parse", "exec"}
    /\ owner[m] = NoTx \/ MaySwallow
    /\ EndStmt(m, FALSE)
    /\ UNCHANGED <<wire, answer, lost, unheard, serverVars>>

\* Variant: statement futures own what they need and outlive the transaction.
DropNone == UNCHANGED stmt

\* Every statement still running is dropped with the borrow it holds.
DropAll == stmt' = [m \in Stmts |-> IF stmt[m] = "new" THEN "new" ELSE "over"]

Running(by) == {m \in Stmts : owner[m] = by /\ stmt[m] \in {"parse", "exec"}}

-----------------------------------------------------------------------------
(* ConnectionWithTransaction for PostgresConnection. *)

\* client_mut().transaction() up to its await.
Transaction(t) ==
    /\ holder = NoTx
    /\ phase[t] = "new"
    /\ holder' = t
    /\ phase' = [phase EXCEPT ![t] = "begin"]
    /\ DropAll
    /\ Send(Of(t, "BEGIN"))
    /\ UNCHANGED <<outcome, owner, sawError, answer, lost, unheard, serverVars>>

\* The driver's Transaction, or the guard of its START TRANSACTION, is dropped: ROLLBACK
\* goes on the wire unless COMMIT or ROLLBACK was sent before.
DropTransaction(t, done) == IF done THEN UNCHANGED wire ELSE Send(Of(t, "DROP"))

\* The transaction future is over, by return or by drop.
Finish(t, result, done) ==
    /\ holder' = NoTx
    /\ phase' = [phase EXCEPT ![t] = "over"]
    /\ outcome' = [outcome EXCEPT ![t] = result]
    /\ DropAll
    /\ DropTransaction(t, done)
    /\ UNCHANGED <<owner, sawError, answer, lost, unheard, serverVars>>

\* START TRANSACTION answered: the body starts, or the `?` returns the error.
BeginReturns(t) ==
    /\ phase[t] = "begin"
    /\ Answered(Of(t, "BEGIN"))
    /\ IF Answer(Of(t, "BEGIN")) = "ok"
         THEN /\ phase' = [phase EXCEPT ![t] = "body"]
              /\ UNCHANGED <<holder, outcome, stmt, owner, sawError, wire>>
              /\ UNCHANGED <<answer, lost, unheard, serverVars>>
         ELSE Finish(t, "error", FALSE)

\* The body is over and commit() or rollback() is at its await; the statements of the body
\* cannot outlive the borrow they hold.
BodyReturns(t, op, next) ==
    /\ phase[t] = "body"
    /\ phase' = [phase EXCEPT ![t] = next]
    /\ DropAll
    /\ Send(Of(t, op))
    /\ UNCHANGED <<holder, outcome, owner, sawError, answer, lost, unheard, serverVars>>

\* The body returns Ok.  One that swallows nothing has awaited every statement and was told
\* of no failure.
BodyReturnsOk(t) ==
    /\ MaySwallow \/ (Running(t) = {} /\ t \notin sawError)
    /\ BodyReturns(t, "COMMIT", "commit")

BodyReturnsErr(t) == BodyReturns(t, "ROLLBACK", "rollback")

\* Variant: `let _ = commit().await` before Ok(value).
CommitReturnsBlind(t) ==
    /\ phase[t] = "commit"
    /\ Answered(Of(t, "COMMIT"))
    /\ Finish(t, "ok", TRUE)

\* commit().await?, then Ok(value).
CommitReturns(t) ==
    /\ phase[t] = "commit"
    /\ Answered(Of(t, "COMMIT"))
    /\ Finish(t, IF Answer(Of(t, "COMMIT")) = "ok" THEN "ok" ELSE "error", TRUE)

\* rollback().await?, then Err(error): its caller gets an error either way.
RollbackReturns(t) ==
    /\ phase[t] = "rollback"
    /\ Answered(Of(t, "ROLLBACK"))
    /\ Finish(t, "error", TRUE)

\* Variant: START TRANSACTION is sent as a plain statement, and PostgresTransaction holds the client
\* instead of the driver's Transaction.
CancelUnguarded(t) ==
    /\ phase[t] \in {"begin", "body", "commit", "rollback"}
    /\ Finish(t, "cancelled", TRUE)

\* The transaction future is dropped at one of its awaits, or the body panics.
Cancel(t) ==
    /\ phase[t] \in {"begin", "body", "commit", "rollback"}
    /\ Finish(t, "cancelled", phase[t] \in {"commit", "rollback"})

-----------------------------------------------------------------------------
(* The server's backend process. *)

Waiting == wire # <<>> /\ ~lost

\* The request at the head of the wire is answered.
Reply(r) ==
    /\ wire' = Tail(wire)
    /\ answer' = [answer EXCEPT ![Head(wire)] = r]

Discard ==
    /\ open' = NoTx
    /\ failed' = FALSE
    /\ pending' = {}
    /\ UNCHANGED durable

\* A failing statement makes the transaction it runs in, if any, a failed one.
FailStmt(r) ==
    /\ Reply(r)
    /\ failed' = (open # NoTx)
    /\ UNCHANGED <<open, pending, durable>>

ServeParse ==
    /\ Waiting /\ Head(wire).op = "PARSE"
    /\ \/ ~failed /\ Reply("ok") /\ UNCHANGED serverVars
       \/ FailStmt("error")
    /\ UNCHANGED <<clientVars, lost, unheard>>

ServeExec ==
    /\ Waiting /\ Head(wire).op = "EXEC"
    /\ LET effect == {Head(wire).stmt} \cap Writes IN
       \/ /\ ~failed
          /\ Reply("ok")
          /\ IF open = NoTx
               THEN durable' = durable \cup effect /\ UNCHANGED pending
               ELSE pending' = pending \cup effect /\ UNCHANGED durable
          /\ UNCHANGED <<open, failed>>
       \/ FailStmt("error")
       \/ MayFailLate /\ ~failed /\ Head(wire).stmt \in Reads /\ FailStmt("late")
    /\ UNCHANGED <<clientVars, lost, unheard>>

\* START TRANSACTION: a warning inside a transaction, an error inside a failed one.
ServeBegin ==
    /\ Waiting /\ Head(wire).op = "BEGIN"
    /\ IF failed
         THEN Reply("error") /\ UNCHANGED serverVars
         ELSE /\ Reply("ok")
              /\ open' = IF open = NoTx THEN Head(wire).by ELSE open
              /\ UNCHANGED <<failed, pending, durable>>
    /\ UNCHANGED <<clientVars, lost, unheard>>

\* COMMIT: a warning outside a transaction; a rollback, answered like a success, in a
\* failed one; it may itself fail (a deferred constraint), and the transaction is over.
ServeCommit ==
    /\ Waiting /\ Head(wire).op = "COMMIT"
    /\ \/ /\ open = NoTx \/ failed
          /\ Reply("ok") /\ Discard
       \/ /\ open # NoTx /\ ~failed
          /\ Reply("ok")
          /\ durable' = durable \cup pending
          /\ open' = NoTx /\ pending' = {} /\ UNCHANGED failed
       \/ /\ open # NoTx /\ ~failed
          /\ Reply("error") /\ Discard
    /\ UNCHANGED <<clientVars, lost, unheard>>

ServeRollback ==
    /\ Waiting /\ Head(wire).op \in {"ROLLBACK", "DROP"}
    /\ Reply("ok") /\ Discard
    /\ UNCHANGED <<clientVars, lost, unheard>>

Server == ServeParse \/ ServeExec \/ ServeBegin \/ ServeCommit \/ ServeRollback

\* The requests whose answer a live future still needs.
Awaited(r) ==
    \/ r.stmt = NoStmt /\ [BEGIN |-> "begin", COMMIT |-> "commit", ROLLBACK |-> "rollback",
                           DROP |-> "none"][r.op] = phase[r.by]
    \/ r.stmt # NoStmt /\ [PARSE |-> "parse", EXEC |-> "exec"][r.op] = stmt[r.stmt]

\* The connection breaks: what was not served never is, any of the answers not yet used may be
\* lost with it, and the server rolls back.
Lose ==
    /\ MayLose /\ ~lost
    /\ lost' = TRUE
    /\ \E S \in SUBSET {r \in Request : answer[r] # "none" /\ Awaited(r)} : unheard' = S
    /\ wire' = <<>>
    /\ Discard
    /\ UNCHANGED <<clientVars, answer>>

-----------------------------------------------------------------------------

\* The steps a live future takes when it is polled with its answer there.
Resume(t) == BeginReturns(t) \/ CommitReturns(t) \/ RollbackReturns(t)

Next ==
    \/ \E by \in Txs \cup {NoTx}, m \in Stmts : Execute(by, m)
    \/ \E m \in Stmts : Prepared(m)
    \/ \E m \in Stmts : Collect(m)
    \/ \E m \in Stmts : FetchOne(m)
    \/ \E m \in Stmts : DropStmt(m)
    \/ \E t \in Txs : Transaction(t)
    \/ \E t \in Txs : Resume(t)
    \/ \E t \in Txs : BodyReturnsOk(t)
    \/ \E t \in Txs : BodyReturnsErr(t)
    \/ \E t \in Txs : Cancel(t)
    \/ Server
    \/ Lose

Spec == Init /\ [][Next]_vars

\* The server goes on serving and an executor polls a woken future.  Nothing obliges a body
\* to end or the connection to be lost.
FairSpec ==
    /\ Spec
    /\ WF_vars(Server)
    /\ \A t \in Txs : WF_vars(Resume(t))

-----------------------------------------------------------------------------
(* What the connection's users rely on. *)

\* The server's view of t, from the requests of t it has served: a COMMIT answered "ok"
\* committed unless a statement of t had failed.
Failed(t) == \E r \in Request : r.by = t /\ r.stmt # NoStmt /\ answer[r] \in {"error", "late"}
Began(t) == answer[Of(t, "BEGIN")] = "ok"
Committed(t) == answer[Of(t, "COMMIT")] = "ok" /\ ~Failed(t)
Applied(t) == {m \in Writes : owner[m] = t /\ answer[For(m, "EXEC")] = "ok"}
Submitted(t) == {m \in Writes : owner[m] = t /\ stmt[m] # "new"}

\* Whatever runs while a transaction is in progress was sent by it, and whatever a
\* transaction sent runs inside it: no statement of an abandoned one is left to run, and
\* be committed, on its own, and none of a later one joins it.
IsolationInv ==
    Waiting => IF Head(wire).op \in {"PARSE", "EXEC"}
                 THEN open = Head(wire).by
                 ELSE open \in {Head(wire).by, NoTx}

\* transaction() answers Ok for a transaction that is not durable only if a statement of it
\* had failed; it answers Err for one that is durable only if the connection was lost.
OutcomeIsSound ==
    \A t \in Txs :
        /\ outcome[t] = "ok" => (Committed(t) /\ Applied(t) \subseteq durable) \/ Failed(t)
        /\ outcome[t] = "error" => Submitted(t) \cap durable = {} \/ (lost /\ Committed(t))

\* The claim of the integration test ("commit transaction", then the row is there), for a
\* body that awaits every statement and returns every error it is given: transaction()
\* returning Ok means that everything its body wrote is durable.
OkMeansDurable == \A t \in Txs : outcome[t] = "ok" => Applied(t) \subseteq durable

\* A transaction whose future has ended, in any way, does not stay open on the server.
AbandonedTransactionEnds == \A t \in Txs : outcome[t] # "none" ~> [](open # t)

-----------------------------------------------------------------------------
(* The session implements atomic transactions. *)

Status(t) ==
    CASE Committed(t) -> "committed"
      [] open = t -> "active"
      [] Began(t) /\ open # t /\ ~Committed(t) -> "aborted"
      [] OTHER -> "idle"

\* What the caller can rely on: nothing, like one who gave up, when a statement whose error
\* it never returned had failed, or when the answer of the COMMIT was lost.
Told(t) ==
    IF (outcome[t] = "ok" /\ Failed(t)) \/ (outcome[t] = "error" /\ Committed(t) /\ lost)
      THEN "cancelled" ELSE outcome[t]

Atomic == INSTANCE AtomicTransactions WITH
    status <- [t \in Txs |-> Status(t)],
    writes <- [t \in Txs |-> Applied(t)],
    visible <- durable,
    told <- [t \in Txs |-> Told(t)]

\* Every behaviour of the session is one of atomic transactions that run one at a time.
ImplementsAtomic == Atomic!Spec
=============================================================================
