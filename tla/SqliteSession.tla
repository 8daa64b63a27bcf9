--------------------------- MODULE SqliteSession ---------------------------
(***************************************************************************)
(* One SqliteConnection and the tokio-rusqlite worker thread behind it.    *)
(*                                                                         *)
(* Every call is a closure sent to the worker over a synchronous channel;  *)
(* the worker runs the closures one at a time, in the order they were      *)
(* sent.  A closure already sent runs even when the future awaiting its    *)
(* answer is dropped (a timeout, select!, a panic that unwinds).           *)
(* ConnectionWithTransaction::transaction submits BEGIN, runs the caller's *)
(* body, and submits COMMIT or ROLLBACK; SqliteTransaction's drop guard    *)
(* submits one more ROLLBACK unless the transaction was finalized.         *)
(***************************************************************************)
EXTENDS Naturals, Sequences, FiniteSets

CONSTANTS
    Txs,          \* invocations of transaction / transaction_scoped
    Stmts,        \* statements a caller may submit, each at most once
    NoTx,         \* "no transaction": a call of the bare connection, autocommit mode
    Manual,       \* the transaction a BEGIN sent through execute_batch opens
    NoStmt,       \* the statement field of a call that is transaction control
    MaxManual,    \* bound on transaction control sent through execute_batch
    AutoRollback, \* may a failing statement make SQLite roll back the whole transaction?
    MayClose      \* may another clone of the driver handle close the database?

ASSUME ConstantsAreDistinct ==
    /\ NoTx \notin Txs
    /\ Manual \notin Txs \cup {NoTx}
    /\ NoStmt \notin Stmts
    /\ MaxManual \in Nat
    /\ AutoRollback \in BOOLEAN
    /\ MayClose \in BOOLEAN

VARIABLES
    holder,     \* the transaction future that holds the &mut borrow of the connection
    phase,      \* how far each transaction invocation has got
    outcome,    \* what its caller was told
    finalized,  \* SqliteTransaction::finalized
    awaiting,   \* the index of the control call the invocation last awaited
    calls,      \* every closure sent to the worker, in channel order
    replies,    \* the answers of the closures run so far: replies[i] answers calls[i]
    open,       \* SQLite: who opened the transaction in progress (NoTx: autocommit)
    pending,    \* SQLite: statements applied in the transaction in progress
    durable,    \* SQLite: statements whose effect is committed
    closed      \* the worker has closed the database

callerVars == <<holder, phase, outcome, finalized, awaiting>>
engineVars == <<replies, open, pending, durable, closed>>
vars == <<holder, phase, outcome, finalized, awaiting, calls,
          replies, open, pending, durable, closed>>

Ops == {"BEGIN", "EXEC", "COMMIT", "ROLLBACK", "GUARD"}
Control == Ops \ {"EXEC"}
Call == [op : {"EXEC"}, by : Txs \cup {NoTx}, stmt : Stmts]
          \cup [op : Control, by : Txs \cup {NoTx}, stmt : {NoStmt}]
Phases == {"new", "begin", "body", "commit", "rollback", "over"}

TypeOK ==
    /\ holder \in Txs \cup {NoTx}
    /\ phase \in [Txs -> Phases]
    /\ outcome \in [Txs -> {"none", "ok", "error", "cancelled"}]
    /\ finalized \in [Txs -> BOOLEAN]
    /\ awaiting \in [Txs -> Nat]
    /\ calls \in Seq(Call)
    /\ replies \in Seq({"ok", "error"})
    /\ Len(replies) <= Len(calls)
    /\ open \in Txs \cup {NoTx, Manual}
    /\ pending \in SUBSET Stmts
    /\ durable \in SUBSET Stmts
    /\ closed \in BOOLEAN

Init ==
    /\ holder = NoTx
    /\ phase = [t \in Txs |-> "new"]
    /\ outcome = [t \in Txs |-> "none"]
    /\ finalized = [t \in Txs |-> FALSE]
    /\ awaiting = [t \in Txs |-> 0]
    /\ calls = <<>>
    /\ replies = <<>>
    /\ open = NoTx
    /\ pending = {}
    /\ durable = {}
    /\ closed = FALSE

-----------------------------------------------------------------------------
(* Sending closures to the worker. *)

\* The first poll of tokio_rusqlite::Connection::call puts the closure in the channel.
Send(op, by, stmt) ==
    calls' = Append(calls, [op |-> op, by |-> by, stmt |-> stmt])

\* A statement is submitted at most once: its identity is the submission's.
Unused(m) == \A i \in DOMAIN calls : calls[i].stmt # m

\* `conn.call(control).await` inside transaction t: send, then wait for that index.
SendAndAwait(t, op) ==
    /\ Send(op, t, NoStmt)
    /\ awaiting' = [awaiting EXCEPT ![t] = Len(calls) + 1]

Answered(t) == awaiting[t] <= Len(replies)
Answer(t) == replies[awaiting[t]]

-----------------------------------------------------------------------------
(* The bare connection.  Its methods borrow it, so none can start while a  *)
(* transaction future holds the mutable borrow.                            *)

\* run_query / run_execute / execute_batch of one data statement / list_user_tables.
Execute(m) ==
    /\ holder = NoTx
    /\ Unused(m)
    /\ Send("EXEC", NoTx, m)
    /\ UNCHANGED <<callerVars, engineVars>>

ManualCalls == {i \in DOMAIN calls : calls[i].by = NoTx /\ calls[i].op # "EXEC"}

\* execute_batch of one BEGIN, COMMIT or ROLLBACK: it adds no transaction of its own.
ExecuteBatch(op) ==
    /\ holder = NoTx
    /\ Cardinality(ManualCalls) < MaxManual
    /\ Send(op, NoTx, NoStmt)
    /\ UNCHANGED <<callerVars, engineVars>>

-----------------------------------------------------------------------------
(* ConnectionWithTransaction for SqliteConnection. *)

\* SqliteTransaction::new and begin()'s call, up to its await.
Transaction(t) ==
    /\ holder = NoTx
    /\ phase[t] = "new"
    /\ holder' = t
    /\ phase' = [phase EXCEPT ![t] = "begin"]
    /\ finalized' = [finalized EXCEPT ![t] = FALSE]
    /\ SendAndAwait(t, "BEGIN")
    /\ UNCHANGED <<outcome, engineVars>>

\* Variant: no drop guard at all.
DropTransactionSilent(t, isFinal) == UNCHANGED calls

\* Variant: the guard's ROLLBACK runs ahead of what is already in the channel.
DropTransactionJumps(t, isFinal) ==
    IF isFinal
      THEN UNCHANGED calls
      ELSE calls' = SubSeq(calls, 1, Len(replies))
                      \o <<[op |-> "GUARD", by |-> t, stmt |-> NoStmt]>>
                      \o SubSeq(calls, Len(replies) + 1, Len(calls))

\* <SqliteTransaction as Drop>::drop, given whether the transaction is finalized by now:
\* the ROLLBACK is in the channel before drop returns.
DropTransaction(t, isFinal) ==
    IF isFinal THEN UNCHANGED calls ELSE Send("GUARD", t, NoStmt)

\* The transaction future is gone: its caller knows `result`, the guard was dropped and
\* the connection is free again, all in the poll (or the drop) that ended it.
Finish(t, result, isFinal) ==
    /\ holder' = NoTx
    /\ phase' = [phase EXCEPT ![t] = "over"]
    /\ outcome' = [outcome EXCEPT ![t] = result]
    /\ finalized' = [finalized EXCEPT ![t] = isFinal]
    /\ DropTransaction(t, isFinal)
    /\ UNCHANGED <<awaiting, engineVars>>

\* BEGIN succeeded: the body starts.
BeginSucceeds(t) ==
    /\ phase[t] = "begin"
    /\ Answered(t)
    /\ Answer(t) = "ok"
    /\ phase' = [phase EXCEPT ![t] = "body"]
    /\ UNCHANGED <<holder, outcome, finalized, awaiting, calls, engineVars>>

\* Variant: begin() returns the error without finalizing the transaction.
BeginFailsArmed(t) ==
    /\ phase[t] = "begin"
    /\ Answered(t)
    /\ Answer(t) = "error"
    /\ Finish(t, "error", FALSE)

\* BEGIN failed: begin() finalizes the transaction, so its guard stays silent.
BeginFails(t) ==
    /\ phase[t] = "begin"
    /\ Answered(t)
    /\ Answer(t) = "error"
    /\ Finish(t, "error", TRUE)

\* The body polls a statement future for the first time.  It may await the answer or
\* drop the future; either way the closure is in the channel.
ExecuteInTransaction(t, m) ==
    /\ phase[t] = "body"
    /\ Unused(m)
    /\ Send("EXEC", t, m)
    /\ UNCHANGED <<callerVars, engineVars>>

\* The body returns Ok(value) or Err(error): finish_transaction up to its await.
BodyReturns(t, op, next) ==
    /\ phase[t] = "body"
    /\ phase' = [phase EXCEPT ![t] = next]
    /\ SendAndAwait(t, op)
    /\ UNCHANGED <<holder, outcome, finalized, engineVars>>

BodyReturnsOk(t) == BodyReturns(t, "COMMIT", "commit")

\* Variant: the two arms of finish_transaction swapped.
BodyReturnsErrCommits(t) == BodyReturns(t, "COMMIT", "rollback")

BodyReturnsErr(t) == BodyReturns(t, "ROLLBACK", "rollback")

\* Variant: a failed COMMIT is reported as success.
CommitReturnsBlind(t) ==
    /\ phase[t] = "commit"
    /\ Answered(t)
    /\ Finish(t, "ok", TRUE)

\* Variant: finalize() before the `?`, so that a failed COMMIT leaves the guard disarmed.
CommitReturnsDisarmed(t) ==
    /\ phase[t] = "commit"
    /\ Answered(t)
    /\ Finish(t, IF Answer(t) = "ok" THEN "ok" ELSE "error", TRUE)

\* COMMIT answered: Ok(value) after finalize(), or the `?` that leaves the guard armed.
CommitReturns(t) ==
    /\ phase[t] = "commit"
    /\ Answered(t)
    /\ IF Answer(t) = "ok" THEN Finish(t, "ok", TRUE) ELSE Finish(t, "error", FALSE)

\* Variant: finalize() whatever ROLLBACK answered.
RollbackReturnsDisarmed(t) ==
    /\ phase[t] = "rollback"
    /\ Answered(t)
    /\ Finish(t, "error", TRUE)

\* ROLLBACK answered: the body's error is returned, finalized only if it succeeded.
RollbackReturns(t) ==
    /\ phase[t] = "rollback"
    /\ Answered(t)
    /\ Finish(t, "error", Answer(t) = "ok")

\* The transaction future is dropped at any of its awaits, or the body panics.
Cancel(t) ==
    /\ phase[t] \in {"begin", "body", "commit", "rollback"}
    /\ Finish(t, "cancelled", finalized[t])

-----------------------------------------------------------------------------
(* The worker thread: SQLite runs the next closure and answers it. *)

Waiting == Len(replies) < Len(calls)
Next1 == calls[Len(replies) + 1]
Reply(r) == replies' = Append(replies, r)

\* The closure changes nothing and answers r.
NoEffect(r) ==
    /\ Reply(r)
    /\ UNCHANGED <<open, pending, durable>>

\* SQLite's autocommit mode again, keeping nothing of the transaction in progress.
Discard ==
    /\ open' = NoTx
    /\ pending' = {}
    /\ UNCHANGED durable

ServeStatement ==
    /\ Waiting /\ ~closed /\ Next1.op = "EXEC"
    /\ \/ /\ Reply("ok")
          /\ IF open = NoTx
               THEN durable' = durable \cup {Next1.stmt} /\ UNCHANGED pending
               ELSE pending' = pending \cup {Next1.stmt} /\ UNCHANGED durable
          /\ UNCHANGED open
       \/ NoEffect("error")
       \/ AutoRollback /\ open # NoTx /\ Reply("error") /\ Discard
    /\ UNCHANGED <<callerVars, calls, closed>>

\* "cannot start a transaction within a transaction"
ServeBegin ==
    /\ Waiting /\ ~closed /\ Next1.op = "BEGIN"
    /\ IF open = NoTx
         THEN /\ Reply("ok")
              /\ open' = IF Next1.by = NoTx THEN Manual ELSE Next1.by
              /\ UNCHANGED <<pending, durable>>
         ELSE NoEffect("error")
    /\ UNCHANGED <<callerVars, calls, closed>>

\* COMMIT may fail and leave the transaction open (a busy database, a deferred foreign key).
ServeCommit ==
    /\ Waiting /\ ~closed /\ Next1.op = "COMMIT"
    /\ \/ /\ open # NoTx
          /\ Reply("ok")
          /\ durable' = durable \cup pending
          /\ open' = NoTx
          /\ pending' = {}
       \/ NoEffect("error")
       \/ AutoRollback /\ open # NoTx /\ Reply("error") /\ Discard
    /\ UNCHANGED <<callerVars, calls, closed>>

\* "cannot rollback - no transaction is active"; or a ROLLBACK that fails and leaves the
\* transaction open, the failure finish_transaction keeps the guard armed for.  The guard's
\* own ROLLBACK, for which the code has no further retry, ends what is open.
ServeRollback ==
    /\ Waiting /\ ~closed /\ Next1.op \in {"ROLLBACK", "GUARD"}
    /\ \/ open # NoTx /\ Reply("ok") /\ Discard
       \/ (open = NoTx \/ Next1.op = "ROLLBACK") /\ NoEffect("error")
    /\ UNCHANGED <<callerVars, calls, closed>>

\* The driver answers ConnectionClosed.
ServeClosed ==
    /\ Waiting /\ closed
    /\ NoEffect("error")
    /\ UNCHANGED <<callerVars, calls, closed>>

\* Closing the database rolls back the transaction in progress.
CloseDatabase ==
    /\ MayClose /\ ~closed
    /\ closed' = TRUE
    /\ Discard
    /\ UNCHANGED <<callerVars, calls, replies>>

Worker == ServeStatement \/ ServeBegin \/ ServeCommit \/ ServeRollback \/ ServeClosed

-----------------------------------------------------------------------------

\* The steps a live transaction future takes when it is polled with its answer there.
Resume(t) == BeginSucceeds(t) \/ BeginFails(t) \/ CommitReturns(t) \/ RollbackReturns(t)

Next ==
    \/ \E m \in Stmts : Execute(m)
    \/ \E op \in {"BEGIN", "COMMIT", "ROLLBACK"} : ExecuteBatch(op)
    \/ \E t \in Txs : Transaction(t)
    \/ \E t \in Txs : Resume(t)
    \/ \E t \in Txs, m \in Stmts : ExecuteInTransaction(t, m)
    \/ \E t \in Txs : BodyReturnsOk(t)
    \/ \E t \in Txs : BodyReturnsErr(t)
    \/ \E t \in Txs : Cancel(t)
    \/ Worker
    \/ CloseDatabase

Spec == Init /\ [][Next]_vars

\* The worker thread keeps running closures, and an executor polls a woken future.  Nothing
\* obliges the caller's body to end or a statement to be submitted.
FairSpec ==
    /\ Spec
    /\ WF_vars(Worker)
    /\ \A t \in Txs : WF_vars(Resume(t))

-----------------------------------------------------------------------------
(* What the connection's users rely on. *)

Served == 1 .. Len(replies)

\* The served calls `op` of transaction t that were answered `answer`.
Did(t, op, answer) ==
    {i \in Served : calls[i].op = op /\ calls[i].by = t /\ replies[i] = answer}

Began(t) == Did(t, "BEGIN", "ok") # {}
Committed(t) == Did(t, "COMMIT", "ok") # {}
Submitted(t) == {calls[i].stmt : i \in {j \in DOMAIN calls : calls[j].op = "EXEC" /\ calls[j].by = t}}
Applied(t) == {calls[i].stmt : i \in Did(t, "EXEC", "ok")}

\* The claim of the comment in SqliteTransaction's drop: whatever the worker runs while a
\* transaction is in progress was submitted by that transaction.  No later query slips in
\* front of the rollback of an abandoned transaction and sees, or joins, its work.
IsolationInv == (Waiting /\ open \in Txs) => Next1.by = open

\* The other side of the guard's place in the channel: a statement of a transaction, even
\* one whose future was dropped unanswered, never runs after its transaction has ended,
\* where SQLite would commit it on its own.
NoStraggler ==
    (Waiting /\ Next1.op = "EXEC" /\ Next1.by \in Txs /\ ~closed) => open = Next1.by

\* All the statements of a transaction that succeeded are durable, or none is, and they
\* are as soon as, and only if, its own COMMIT succeeded.
AllOrNothing ==
    \A t \in Txs : Submitted(t) \cap durable = IF Committed(t) THEN Applied(t) ELSE {}

\* transaction() returning Ok means that everything its body applied is durable.
OkMeansDurable ==
    \A t \in Txs : outcome[t] = "ok" => Committed(t) /\ Applied(t) \subseteq durable

\* transaction() returning Err (BEGIN refused, the body's own error, COMMIT or ROLLBACK
\* failed) means that nothing of its body is durable.
ErrorMeansNothing ==
    \A t \in Txs : outcome[t] = "error" => Submitted(t) \cap durable = {}

\* The worker's step runs a rollback that t sent, t's own or its guard's, and it ends the
\* transaction in progress.
RollsBack(t) ==
    /\ Waiting /\ Next1.op \in {"ROLLBACK", "GUARD"} /\ Next1.by = t
    /\ Reply("ok")

\* The caller of t was dropped before it had the answer of a BEGIN that was refused.
RefusedUnheard(t) == outcome[t] = "cancelled" /\ Did(t, "BEGIN", "error") # {}

\* A rollback sent for t ends t's transaction and nobody else's: a guard that comes behind
\* its own COMMIT, or behind a ROLLBACK that worked, ends nothing.  The exception is the guard
\* of a caller dropped while its BEGIN is unanswered, which is armed whatever the answer: it
\* can end the manual transaction for which the BEGIN was refused, but no invocation's.
RollbackEndsOwn ==
    [][\A t \in Txs : RollsBack(t) => open = t \/ (open = Manual /\ RefusedUnheard(t))]_vars

\* A transaction whose future has ended, in any way, does not stay open: every later call
\* of the connection is answered outside it.
AbandonedTransactionEnds ==
    \A t \in Txs : outcome[t] # "none" ~> [](open # t)

-----------------------------------------------------------------------------
(* The session implements atomic transactions. *)

Status(t) ==
    CASE Committed(t) -> "committed"
      [] open = t -> "active"
      [] Began(t) /\ open # t /\ ~Committed(t) -> "aborted"
      [] OTHER -> "idle"

Atomic == INSTANCE AtomicTransactions WITH
    status <- [t \in Txs |-> Status(t)],
    writes <- [t \in Txs |-> Applied(t)],
    visible <- durable,
    told <- outcome

\* Every behaviour of the session is one of atomic transactions that run one at a time.
ImplementsAtomic == Atomic!Spec
=============================================================================
