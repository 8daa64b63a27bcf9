----------------------- MODULE SqliteSession_proofs -----------------------
(***************************************************************************)
(* Proofs about SqliteSession, for any number of transactions, statements  *)
(* and manual control statements.                                          *)
(*                                                                         *)
(* The argument: in the channel, the calls of a transaction are contiguous *)
(* and start with its BEGIN (Contiguous); another caller's call follows    *)
(* only one that ends the transaction in the engine (Handover).  The engine *)
(* is inside t's transaction only when the call it served last is t's and  *)
(* did not end it (EngineInv), so the next one is t's as well.             *)
(***************************************************************************)
EXTENDS SqliteSession, TLAPS

\* Once served, call i leaves no transaction of its caller open.
Final(i) ==
    \/ calls[i].op = "GUARD"
    \/ calls[i].op \in {"COMMIT", "ROLLBACK"} /\ i <= Len(replies) /\ replies[i] = "ok"
    \/ calls[i].op = "BEGIN" /\ i <= Len(replies) /\ replies[i] = "error"

\* Call i is one that the body's next statement may follow.
Inside(i) ==
    \/ calls[i].op = "EXEC"
    \/ calls[i].op = "BEGIN" /\ i <= Len(replies) /\ replies[i] = "ok"

Handover ==
    \A i \in 1 .. Len(calls) - 1 :
        (calls[i].by \in Txs /\ calls[i+1].by # calls[i].by) => Final(i)

Contiguous ==
    \A i \in 1 .. Len(calls) :
        calls[i].by \in Txs =>
            (calls[i].op # "BEGIN" <=> (i > 1 /\ calls[i-1].by = calls[i].by))

AfterBegin ==
    \A i \in 2 .. Len(calls) :
        (calls[i].by \in Txs /\ calls[i].op = "EXEC") => Inside(i - 1)

\* Where the future that holds the connection stands: its own call is the last one sent.
Stage(t) ==
    /\ Len(calls) > 0
    /\ calls[Len(calls)].by = t
    /\ finalized[t] = FALSE
    /\ phase[t] \in {"begin", "body", "commit", "rollback"}
    /\ phase[t] = "begin" => calls[Len(calls)].op = "BEGIN" /\ awaiting[t] = Len(calls)
    /\ phase[t] = "body" => Inside(Len(calls))
    /\ phase[t] = "commit" => calls[Len(calls)].op = "COMMIT" /\ awaiting[t] = Len(calls)
    /\ phase[t] = "rollback" => calls[Len(calls)].op = "ROLLBACK" /\ awaiting[t] = Len(calls)

HolderInv ==
    \A t \in Txs : IF holder = t THEN Stage(t) ELSE phase[t] \in {"new", "over"}

Unstarted ==
    \A t \in Txs : phase[t] = "new" => \A i \in 1 .. Len(calls) : calls[i].by # t

Released ==
    (holder = NoTx /\ Len(calls) > 0 /\ calls[Len(calls)].by \in Txs) => Final(Len(calls))

EngineInv ==
    /\ closed => open = NoTx
    /\ open \in Txs =>
          /\ Len(replies) > 0
          /\ calls[Len(replies)].by = open
          /\ ~Final(Len(replies))

\* Unless a failing statement can end it, a transaction entered and not ended is open.
StillOpen ==
    (~AutoRollback /\ ~closed /\ Len(replies) > 0
       /\ calls[Len(replies)].by \in Txs /\ Inside(Len(replies)))
     => open = calls[Len(replies)].by

ChannelInv == Handover /\ Contiguous /\ AfterBegin
CallerInv == HolderInv /\ Unstarted /\ Released

IInv == TypeOK /\ ChannelInv /\ CallerInv /\ EngineInv /\ StillOpen

-----------------------------------------------------------------------------
(* Types. *)

\* What sending a closure does to the channel.
LEMMA SendFacts ==
    ASSUME TypeOK, NEW o \in Ops, NEW b \in Txs \cup {NoTx}, NEW m,
           m \in IF o = "EXEC" THEN Stmts ELSE {NoStmt},
           Send(o, b, m)
    PROVE  /\ calls' \in Seq(Call)
           /\ Len(calls') = Len(calls) + 1
           /\ \A i \in 1 .. Len(calls) : calls'[i] = calls[i]
           /\ calls'[Len(calls) + 1] = [op |-> o, by |-> b, stmt |-> m]
<1>1. [op |-> o, by |-> b, stmt |-> m] \in Call
    BY DEF Call, Control
<1>2. QED
    BY <1>1 DEF TypeOK, Send

\* What answering one does to the replies.
LEMMA ReplyFacts ==
    ASSUME TypeOK, NEW r \in {"ok", "error"}, Waiting, Reply(r)
    PROVE  /\ replies' \in Seq({"ok", "error"})
           /\ Len(replies') = Len(replies) + 1
           /\ Len(replies') <= Len(calls)
           /\ \A i \in 1 .. Len(replies) : replies'[i] = replies[i]
           /\ replies'[Len(replies) + 1] = r
BY DEF TypeOK, Waiting, Reply

LEMMA Next1Type == TypeOK /\ Waiting => Next1 \in Call
BY DEF TypeOK, Waiting, Next1

LEMMA FinishType ==
    ASSUME TypeOK, NEW t \in Txs, NEW r \in {"ok", "error", "cancelled"}, NEW f \in BOOLEAN,
           Finish(t, r, f)
    PROVE  TypeOK'
<1>1. CASE f
    BY <1>1 DEF TypeOK, Finish, DropTransaction, engineVars, Phases
<1>2. CASE ~f
    <2>1. Send("GUARD", t, NoStmt)
        BY <1>2 DEF Finish, DropTransaction
    <2>2. calls' \in Seq(Call) /\ Len(calls') = Len(calls) + 1
        BY <2>1, SendFacts DEF Ops
    <2>3. QED
        BY <2>2 DEF TypeOK, Finish, engineVars, Phases
<1>3. QED
    BY <1>1, <1>2

\* Sending and awaiting a control call, with the caller's phase moving on.
LEMMA SendAndAwaitType ==
    ASSUME TypeOK, NEW t \in Txs, NEW o \in Control, SendAndAwait(t, o)
    PROVE  /\ calls' \in Seq(Call)
           /\ Len(calls') = Len(calls) + 1
           /\ awaiting' \in [Txs -> Nat]
<1>1. calls' \in Seq(Call) /\ Len(calls') = Len(calls) + 1
    BY SendFacts DEF SendAndAwait, Control
<1>2. QED
    BY <1>1 DEF SendAndAwait, TypeOK

LEMMA TypeInit == Init => TypeOK
<1> SUFFICES ASSUME Init
             PROVE  TypeOK
    OBVIOUS
<1>1. calls \in Seq(Call) /\ replies \in Seq({"ok", "error"}) /\ Len(replies) <= Len(calls)
    BY DEF Init
<1>2. QED
    BY <1>1 DEF Init, TypeOK, Phases

LEMMA TypeStep == TypeOK /\ [Next]_vars => TypeOK'
<1> SUFFICES ASSUME TypeOK, [Next]_vars
             PROVE  TypeOK'
    OBVIOUS
<1>1. ASSUME NEW m \in Stmts, Execute(m)
      PROVE  TypeOK'
    <2>1. calls' \in Seq(Call) /\ Len(calls') = Len(calls) + 1
        BY <1>1, SendFacts DEF Execute, Ops
    <2>2. QED
        BY <1>1, <2>1 DEF TypeOK, Execute, callerVars, engineVars
<1>2. ASSUME NEW o \in {"BEGIN", "COMMIT", "ROLLBACK"}, ExecuteBatch(o)
      PROVE  TypeOK'
    <2>1. calls' \in Seq(Call) /\ Len(calls') = Len(calls) + 1
        BY <1>2, SendFacts DEF ExecuteBatch, Ops
    <2>2. QED
        BY <1>2, <2>1 DEF TypeOK, ExecuteBatch, callerVars, engineVars
<1>3. ASSUME NEW t \in Txs, Transaction(t)
      PROVE  TypeOK'
    <2>1. calls' \in Seq(Call) /\ Len(calls') = Len(calls) + 1 /\ awaiting' \in [Txs -> Nat]
        BY <1>3, SendAndAwaitType DEF Transaction, Ops, Control
    <2>2. phase' \in [Txs -> Phases] /\ finalized' \in [Txs -> BOOLEAN]
        BY <1>3 DEF TypeOK, Transaction, Phases
    <2>3. QED
        BY <1>3, <2>1, <2>2 DEF TypeOK, Transaction, engineVars
<1>4. ASSUME NEW t \in Txs, BeginSucceeds(t)
      PROVE  TypeOK'
    BY <1>4 DEF TypeOK, BeginSucceeds, engineVars, Phases
<1>5. ASSUME NEW t \in Txs, BeginFails(t)
      PROVE  TypeOK'
    BY <1>5, FinishType DEF BeginFails
<1>6. ASSUME NEW t \in Txs, CommitReturns(t)
      PROVE  TypeOK'
    BY <1>6, FinishType DEF CommitReturns
<1>7. ASSUME NEW t \in Txs, RollbackReturns(t)
      PROVE  TypeOK'
    BY <1>7, FinishType DEF RollbackReturns
<1>8. ASSUME NEW t \in Txs, NEW m \in Stmts, ExecuteInTransaction(t, m)
      PROVE  TypeOK'
    <2>1. calls' \in Seq(Call) /\ Len(calls') = Len(calls) + 1
        BY <1>8, SendFacts DEF ExecuteInTransaction, Ops
    <2>2. QED
        BY <1>8, <2>1 DEF TypeOK, ExecuteInTransaction, callerVars, engineVars
<1>9. ASSUME NEW t \in Txs, BodyReturnsOk(t) \/ BodyReturnsErr(t)
      PROVE  TypeOK'
    <2>1. calls' \in Seq(Call) /\ Len(calls') = Len(calls) + 1 /\ awaiting' \in [Txs -> Nat]
        BY <1>9, SendAndAwaitType DEF BodyReturnsOk, BodyReturnsErr, BodyReturns, Ops, Control
    <2>2. phase' \in [Txs -> Phases]
        BY <1>9 DEF TypeOK, BodyReturnsOk, BodyReturnsErr, BodyReturns, Phases
    <2>3. QED
        BY <1>9, <2>1, <2>2 DEF TypeOK, BodyReturnsOk, BodyReturnsErr, BodyReturns, engineVars
<1>10. ASSUME NEW t \in Txs, Cancel(t)
       PROVE  TypeOK'
    <2>1. finalized[t] \in BOOLEAN
        BY DEF TypeOK
    <2>2. QED
        BY <1>10, <2>1, FinishType DEF Cancel
<1>11. ASSUME ServeStatement
       PROVE  TypeOK'
    <2>1. Next1.stmt \in Stmts
        BY <1>11, Next1Type DEF ServeStatement, Call, Control
    <2>2. PICK r \in {"ok", "error"} : Reply(r)
        BY <1>11 DEF ServeStatement, NoEffect
    <2>3. replies' \in Seq({"ok", "error"}) /\ Len(replies') <= Len(calls)
        BY <1>11, <2>2, ReplyFacts DEF ServeStatement
    <2>4. QED
        BY <1>11, <2>1, <2>3 DEF TypeOK, ServeStatement, callerVars, NoEffect, Discard
<1>12. ASSUME ServeBegin
       PROVE  TypeOK'
    <2>1. Next1.by \in Txs \cup {NoTx}
        BY <1>12, Next1Type DEF ServeBegin, Call
    <2>2. PICK r \in {"ok", "error"} : Reply(r)
        BY <1>12 DEF ServeBegin, NoEffect
    <2>3. replies' \in Seq({"ok", "error"}) /\ Len(replies') <= Len(calls)
        BY <1>12, <2>2, ReplyFacts DEF ServeBegin
    <2>4. QED
        BY <1>12, <2>1, <2>3 DEF TypeOK, ServeBegin, callerVars, NoEffect
<1>13. ASSUME ServeCommit
       PROVE  TypeOK'
    <2>1. PICK r \in {"ok", "error"} : Reply(r)
        BY <1>13 DEF ServeCommit, NoEffect
    <2>2. replies' \in Seq({"ok", "error"}) /\ Len(replies') <= Len(calls)
        BY <1>13, <2>1, ReplyFacts DEF ServeCommit
    <2>3. QED
        BY <1>13, <2>2 DEF TypeOK, ServeCommit, callerVars, NoEffect, Discard
<1>14. ASSUME ServeRollback
       PROVE  TypeOK'
    <2>1. PICK r \in {"ok", "error"} : Reply(r)
        BY <1>14 DEF ServeRollback, NoEffect
    <2>2. replies' \in Seq({"ok", "error"}) /\ Len(replies') <= Len(calls)
        BY <1>14, <2>1, ReplyFacts DEF ServeRollback
    <2>3. QED
        BY <1>14, <2>2 DEF TypeOK, ServeRollback, callerVars, NoEffect, Discard
<1>15. ASSUME ServeClosed
       PROVE  TypeOK'
    <2>1. replies' \in Seq({"ok", "error"}) /\ Len(replies') <= Len(calls)
        BY <1>15, ReplyFacts DEF ServeClosed, NoEffect
    <2>2. QED
        BY <1>15, <2>1 DEF TypeOK, ServeClosed, callerVars, NoEffect
<1>16. ASSUME CloseDatabase
       PROVE  TypeOK'
    BY <1>16 DEF TypeOK, CloseDatabase, callerVars, Discard
<1>17. CASE UNCHANGED vars
    BY <1>17 DEF TypeOK, vars
<1>18. QED
    BY <1>1, <1>2, <1>3, <1>4, <1>5, <1>6, <1>7, <1>8, <1>9, <1>10, <1>11, <1>12, <1>13,
       <1>14, <1>15, <1>16, <1>17
       DEF Next, Resume, Worker

\* The state always has its type.
THEOREM TypeCorrect == Spec => []TypeOK
BY TypeInit, TypeStep, PTL DEF Spec

-----------------------------------------------------------------------------
(* What a step of a caller and a step of the worker keep. *)

\* Only the answers matter to what a call did: sending another one changes nothing.
LEMMA SentBefore ==
    ASSUME TypeOK, NEW o \in Ops, NEW b \in Txs \cup {NoTx}, NEW m,
           m \in IF o = "EXEC" THEN Stmts ELSE {NoStmt},
           Send(o, b, m), UNCHANGED replies
    PROVE  \A i \in 1 .. Len(calls) :
              calls'[i] = calls[i] /\ (Final(i)' <=> Final(i)) /\ (Inside(i)' <=> Inside(i))
BY SendFacts DEF Final, Inside

LEMMA ChannelAppend ==
    ASSUME TypeOK, ChannelInv,
           NEW o \in Ops, NEW b \in Txs \cup {NoTx}, NEW m,
           m \in IF o = "EXEC" THEN Stmts ELSE {NoStmt},
           Send(o, b, m), UNCHANGED replies,
           (Len(calls) > 0 /\ calls[Len(calls)].by \in Txs /\ b # calls[Len(calls)].by)
             => Final(Len(calls)),
           b \in Txs => (o # "BEGIN" <=> (Len(calls) > 0 /\ calls[Len(calls)].by = b)),
           (b \in Txs /\ o = "EXEC") => Inside(Len(calls))
    PROVE  ChannelInv'
<1>1. /\ Len(calls) \in Nat
      /\ Len(calls') = Len(calls) + 1
      /\ calls'[Len(calls) + 1] = [op |-> o, by |-> b, stmt |-> m]
    BY SendFacts DEF TypeOK
<1>2. \A i \in 1 .. Len(calls) :
         calls'[i] = calls[i] /\ (Final(i)' <=> Final(i)) /\ (Inside(i)' <=> Inside(i))
    BY SentBefore
<1>3. Handover'
    <2> SUFFICES ASSUME NEW i \in 1 .. Len(calls),
                        calls'[i].by \in Txs, calls'[i+1].by # calls'[i].by
                 PROVE  Final(i)'
        BY <1>1 DEF Handover
    <2>1. CASE i = Len(calls)
        BY <2>1, <1>1, <1>2
    <2>2. CASE i \in 1 .. Len(calls) - 1
        BY <2>2, <1>1, <1>2 DEF ChannelInv, Handover
    <2>3. QED
        BY <2>1, <2>2, <1>1
<1>4. Contiguous'
    <2> SUFFICES ASSUME NEW i \in 1 .. Len(calls) + 1, calls'[i].by \in Txs
                 PROVE  calls'[i].op # "BEGIN" <=> (i > 1 /\ calls'[i-1].by = calls'[i].by)
        BY <1>1 DEF Contiguous
    <2>1. CASE i = Len(calls) + 1
        BY <2>1, <1>1, <1>2
    <2>2. CASE i \in 1 .. Len(calls)
        BY <2>2, <1>1, <1>2 DEF ChannelInv, Contiguous
    <2>3. QED
        BY <2>1, <2>2, <1>1
<1>5. AfterBegin'
    <2> SUFFICES ASSUME NEW i \in 2 .. Len(calls) + 1,
                        calls'[i].by \in Txs, calls'[i].op = "EXEC"
                 PROVE  Inside(i - 1)'
        BY <1>1 DEF AfterBegin
    <2>1. CASE i = Len(calls) + 1
        BY <2>1, <1>1, <1>2
    <2>2. CASE i \in 2 .. Len(calls)
        BY <2>2, <1>1, <1>2 DEF ChannelInv, AfterBegin
    <2>3. QED
        BY <2>1, <2>2, <1>1
<1>6. QED
    BY <1>3, <1>4, <1>5 DEF ChannelInv

LEMMA EngineKept ==
    ASSUME TypeOK, EngineInv, StillOpen,
           NEW o \in Ops, NEW b \in Txs \cup {NoTx}, NEW m,
           m \in IF o = "EXEC" THEN Stmts ELSE {NoStmt},
           Send(o, b, m), UNCHANGED engineVars
    PROVE  EngineInv' /\ StillOpen'
<1>1. Len(replies) > 0 => Len(replies) \in 1 .. Len(calls)
    BY DEF TypeOK
<1>2. Len(replies) > 0 =>
         /\ calls'[Len(replies)] = calls[Len(replies)]
         /\ Final(Len(replies))' <=> Final(Len(replies))
         /\ Inside(Len(replies))' <=> Inside(Len(replies))
    BY <1>1, SentBefore, SendFacts DEF engineVars, Final, Inside
<1>3. QED
    BY <1>2 DEF engineVars, EngineInv, StillOpen

\* An answer changes nothing that was said of the calls before it, and the channel and the
\* callers are where they were.
LEMMA ServeKeeps ==
    ASSUME IInv, NEW r \in {"ok", "error"}, Waiting, Reply(r), UNCHANGED <<callerVars, calls>>
    PROVE  ChannelInv' /\ CallerInv'
<1>1. \A i \in 1 .. Len(calls) : (Final(i) => Final(i)') /\ (Inside(i) => Inside(i)')
    BY ReplyFacts DEF IInv, TypeOK, Final, Inside
<1>2. Len(calls) \in Nat
    BY DEF IInv, TypeOK
<1>3. Handover'
    BY <1>1, <1>2 DEF IInv, ChannelInv, Handover
<1>4. Contiguous'
    BY DEF IInv, ChannelInv, Contiguous
<1>5. AfterBegin'
    BY <1>1, <1>2 DEF IInv, ChannelInv, AfterBegin
<1>6. HolderInv'
    BY <1>1, <1>2 DEF IInv, CallerInv, HolderInv, Stage, callerVars
<1>7. Unstarted' /\ Released'
    BY <1>1, <1>2 DEF IInv, CallerInv, Unstarted, Released, callerVars
<1>8. QED
    BY <1>3, <1>4, <1>5, <1>6, <1>7 DEF ChannelInv, CallerInv

\* The end of a transaction future: the guard follows unless the last call was final.
LEMMA FinishKeeps ==
    ASSUME IInv, NEW t \in Txs, NEW r, NEW f \in BOOLEAN, holder = t, Finish(t, r, f),
           f => Final(Len(calls))
    PROVE  ChannelInv' /\ CallerInv' /\ EngineInv' /\ StillOpen'
<1>1. /\ TypeOK /\ ChannelInv /\ CallerInv /\ EngineInv /\ StillOpen
      /\ Stage(t)
      /\ Len(calls) \in Nat
      /\ NoTx \notin Txs
    BY ConstantsAreDistinct DEF IInv, CallerInv, HolderInv, TypeOK
<1>2. CASE f
    <2>1. UNCHANGED <<calls, engineVars>>
        BY <1>2 DEF Finish, DropTransaction
    <2>2. \A i : (Final(i)' <=> Final(i)) /\ (Inside(i)' <=> Inside(i))
        BY <2>1 DEF Final, Inside, engineVars
    <2>3. ChannelInv' /\ EngineInv' /\ StillOpen'
        BY <1>1, <2>1, <2>2
           DEF ChannelInv, Handover, Contiguous, AfterBegin, EngineInv, StillOpen, engineVars
    <2>4. HolderInv' /\ Unstarted'
        BY <1>1, <2>1 DEF Finish, CallerInv, HolderInv, Unstarted, TypeOK
    <2>5. Released'
        BY <1>2, <2>1 DEF Released, Final, engineVars
    <2>6. QED
        BY <2>3, <2>4, <2>5 DEF CallerInv
<1>3. CASE ~f
    <2>1. Send("GUARD", t, NoStmt) /\ UNCHANGED engineVars
        BY <1>3 DEF Finish, DropTransaction
    <2>2. /\ Len(calls') = Len(calls) + 1
          /\ \A i \in 1 .. Len(calls) : calls'[i] = calls[i]
          /\ calls'[Len(calls) + 1] = [op |-> "GUARD", by |-> t, stmt |-> NoStmt]
        BY <1>1, <2>1, SendFacts DEF Ops
    <2>3. ChannelInv'
        BY <1>1, <2>1, ChannelAppend DEF Ops, Stage, engineVars
    <2>4. EngineInv' /\ StillOpen'
        BY <1>1, <2>1, EngineKept DEF Ops
    <2>5. HolderInv'
        BY <1>1 DEF Finish, CallerInv, HolderInv, TypeOK
    <2>6. Unstarted'
        <3> SUFFICES ASSUME NEW u \in Txs, phase'[u] = "new", NEW i \in 1 .. Len(calls) + 1
                     PROVE  calls'[i].by # u
            BY <2>2 DEF Unstarted
        <3>1. u # t /\ phase[u] = "new"
            BY <1>1 DEF Finish, TypeOK
        <3>2. QED
            BY <1>1, <2>2, <3>1 DEF CallerInv, Unstarted
    <2>7. Released'
        BY <1>1, <2>2 DEF Released, Final
    <2>8. QED
        BY <2>3, <2>4, <2>5, <2>6, <2>7 DEF CallerInv
<1>4. QED
    BY <1>2, <1>3

\* The channel and the engine after a call that transaction t sends while it stays alive,
\* and after a call of the bare connection.
LEMMA SendKeeps ==
    ASSUME IInv,
           NEW o \in Ops, NEW b \in Txs \cup {NoTx}, NEW m,
           m \in IF o = "EXEC" THEN Stmts ELSE {NoStmt},
           Send(o, b, m), UNCHANGED engineVars,
           IF b \in Txs /\ o # "BEGIN" THEN holder = b ELSE holder = NoTx,
           (b \in Txs /\ o = "BEGIN") => phase[b] = "new",
           (b \in Txs /\ o = "EXEC") => phase[b] = "body"
    PROVE  ChannelInv' /\ EngineInv' /\ StillOpen'
<1>1. /\ TypeOK /\ ChannelInv /\ CallerInv /\ EngineInv /\ StillOpen
      /\ Len(calls) \in Nat
      /\ NoTx \notin Txs
      /\ UNCHANGED replies
    BY ConstantsAreDistinct DEF IInv, TypeOK, engineVars
<1>2. (Len(calls) > 0 /\ calls[Len(calls)].by \in Txs /\ b # calls[Len(calls)].by)
         => Final(Len(calls))
    BY <1>1 DEF CallerInv, HolderInv, Stage, Released
<1>3. b \in Txs => (o # "BEGIN" <=> (Len(calls) > 0 /\ calls[Len(calls)].by = b))
    BY <1>1 DEF CallerInv, HolderInv, Stage, Unstarted
<1>4. (b \in Txs /\ o = "EXEC") => Inside(Len(calls))
    BY <1>1 DEF CallerInv, HolderInv, Stage
<1>5. ChannelInv'
    BY <1>1, <1>2, <1>3, <1>4, ChannelAppend
<1>6. EngineInv' /\ StillOpen'
    BY <1>1, EngineKept
<1>7. QED
    BY <1>5, <1>6

-----------------------------------------------------------------------------
(* The invariant, one step per action. *)

LEMMA InvInit == Init => IInv
<1> SUFFICES ASSUME Init
             PROVE  IInv
    OBVIOUS
<1>1. TypeOK
    BY TypeInit
<1>2. ChannelInv
    BY DEF Init, ChannelInv, Handover, Contiguous, AfterBegin
<1>3. CallerInv
    BY ConstantsAreDistinct DEF Init, CallerInv, HolderInv, Unstarted, Released
<1>4. EngineInv /\ StillOpen
    BY ConstantsAreDistinct DEF Init, EngineInv, StillOpen
<1>5. QED
    BY <1>1, <1>2, <1>3, <1>4 DEF IInv

\* The claim itself follows from the invariant.
LEMMA InvImpliesIsolation == IInv => IsolationInv
<1> SUFFICES ASSUME IInv, Waiting, open \in Txs
             PROVE  Next1.by = open
    BY DEF IsolationInv
<1>1. /\ Len(replies) \in 1 .. Len(calls) - 1
      /\ calls[Len(replies)].by = open
      /\ ~Final(Len(replies))
    BY DEF IInv, TypeOK, EngineInv, Waiting
<1>2. QED
    BY <1>1 DEF IInv, ChannelInv, Handover, Next1

LEMMA InvImpliesNoStraggler == IInv /\ ~AutoRollback => NoStraggler
<1> SUFFICES ASSUME IInv, ~AutoRollback, Waiting, Next1.op = "EXEC", Next1.by \in Txs, ~closed
             PROVE  open = Next1.by
    BY DEF NoStraggler
<1>1. Len(replies) \in Nat /\ Len(calls) \in Nat /\ Len(replies) + 1 \in 1 .. Len(calls)
    BY DEF IInv, TypeOK, Waiting
<1>2. Len(replies) > 0 /\ calls[Len(replies)].by = Next1.by
    BY <1>1 DEF IInv, ChannelInv, Contiguous, Next1
<1>3. Inside(Len(replies))
    BY <1>1, <1>2 DEF IInv, ChannelInv, AfterBegin, Next1
<1>4. QED
    BY <1>2, <1>3 DEF IInv, StillOpen

\* Inside its transaction a caller sends no second BEGIN.
LEMMA NoBeginInside == IInv /\ Waiting /\ open \in Txs => Next1.op # "BEGIN"
<1> SUFFICES ASSUME IInv, Waiting, open \in Txs
             PROVE  Next1.op # "BEGIN"
    OBVIOUS
<1>1. Len(replies) \in Nat /\ Len(calls) \in Nat /\ Len(replies) + 1 \in 1 .. Len(calls)
    BY DEF IInv, TypeOK, Waiting
<1>2. Next1.by = open /\ Len(replies) > 0 /\ calls[Len(replies)].by = open
    BY InvImpliesIsolation DEF IsolationInv, IInv, EngineInv
<1>3. QED
    BY <1>1, <1>2 DEF IInv, ChannelInv, Contiguous, Next1

LEMMA InvStep == IInv /\ [Next]_vars => IInv'
<1> SUFFICES ASSUME IInv, [Next]_vars
             PROVE  IInv'
    OBVIOUS
<1>0. /\ TypeOK /\ ChannelInv /\ CallerInv /\ EngineInv /\ StillOpen
      /\ TypeOK'
      /\ Len(calls) \in Nat /\ Len(replies) \in Nat
      /\ NoTx \notin Txs /\ Manual \notin Txs
    BY TypeStep, ConstantsAreDistinct DEF IInv, TypeOK
<1>1. ASSUME NEW m \in Stmts, Execute(m)
      PROVE  IInv'
    <2>1. Send("EXEC", NoTx, m) /\ holder = NoTx /\ UNCHANGED <<callerVars, engineVars>>
        BY <1>1 DEF Execute
    <2>2. ChannelInv' /\ EngineInv' /\ StillOpen'
        BY <1>0, <2>1, SendKeeps DEF Ops
    <2>3. /\ Len(calls') = Len(calls) + 1
          /\ \A i \in 1 .. Len(calls) : calls'[i] = calls[i]
          /\ calls'[Len(calls) + 1] = [op |-> "EXEC", by |-> NoTx, stmt |-> m]
        BY <1>0, <2>1, SendFacts DEF Ops
    <2>4. CallerInv'
        BY <1>0, <2>1, <2>3 DEF CallerInv, HolderInv, Unstarted, Released, callerVars
    <2>5. QED
        BY <1>0, <2>2, <2>4 DEF IInv
<1>2. ASSUME NEW o \in {"BEGIN", "COMMIT", "ROLLBACK"}, ExecuteBatch(o)
      PROVE  IInv'
    <2>1. Send(o, NoTx, NoStmt) /\ holder = NoTx /\ UNCHANGED <<callerVars, engineVars>>
        BY <1>2 DEF ExecuteBatch
    <2>2. ChannelInv' /\ EngineInv' /\ StillOpen'
        BY <1>0, <2>1, SendKeeps DEF Ops
    <2>3. /\ Len(calls') = Len(calls) + 1
          /\ \A i \in 1 .. Len(calls) : calls'[i] = calls[i]
          /\ calls'[Len(calls) + 1] = [op |-> o, by |-> NoTx, stmt |-> NoStmt]
        BY <1>0, <2>1, SendFacts DEF Ops
    <2>4. CallerInv'
        BY <1>0, <2>1, <2>3 DEF CallerInv, HolderInv, Unstarted, Released, callerVars
    <2>5. QED
        BY <1>0, <2>2, <2>4 DEF IInv
<1>3. ASSUME NEW t \in Txs, Transaction(t)
      PROVE  IInv'
    <2>1. Send("BEGIN", t, NoStmt) /\ holder = NoTx /\ phase[t] = "new" /\ UNCHANGED engineVars
        BY <1>3 DEF Transaction, SendAndAwait
    <2>2. ChannelInv' /\ EngineInv' /\ StillOpen'
        BY <1>0, <2>1, SendKeeps DEF Ops
    <2>3. /\ Len(calls') = Len(calls) + 1
          /\ \A i \in 1 .. Len(calls) : calls'[i] = calls[i]
          /\ calls'[Len(calls) + 1] = [op |-> "BEGIN", by |-> t, stmt |-> NoStmt]
        BY <1>0, <2>1, SendFacts DEF Ops
    <2>4. /\ holder' = t
          /\ phase' = [phase EXCEPT ![t] = "begin"]
          /\ finalized'[t] = FALSE
          /\ awaiting'[t] = Len(calls) + 1
        BY <1>0, <1>3 DEF Transaction, SendAndAwait, TypeOK
    <2>5. HolderInv'
        BY <1>0, <2>1, <2>3, <2>4 DEF CallerInv, HolderInv, Stage, TypeOK
    <2>6. Unstarted'
        <3> SUFFICES ASSUME NEW u \in Txs, phase'[u] = "new", NEW i \in 1 .. Len(calls) + 1
                     PROVE  calls'[i].by # u
            BY <2>3 DEF Unstarted
        <3>1. u # t /\ phase[u] = "new"
            BY <1>0, <2>4 DEF TypeOK
        <3>2. QED
            BY <1>0, <2>3, <3>1 DEF CallerInv, Unstarted
    <2>7. Released'
        BY <1>0, <2>4 DEF Released
    <2>8. QED
        BY <1>0, <2>2, <2>5, <2>6, <2>7 DEF IInv, CallerInv
<1>4. ASSUME NEW t \in Txs, BeginSucceeds(t)
      PROVE  IInv'
    <2>1. holder = t /\ Stage(t)
        BY <1>0, <1>4 DEF BeginSucceeds, CallerInv, HolderInv
    <2>2. Inside(Len(calls))
        BY <1>0, <1>4, <2>1 DEF BeginSucceeds, Stage, Inside, Answered, Answer
    <2>3. \A i : (Final(i)' <=> Final(i)) /\ (Inside(i)' <=> Inside(i))
        BY <1>4 DEF BeginSucceeds, engineVars, Final, Inside
    <2>4. ChannelInv' /\ EngineInv' /\ StillOpen'
        BY <1>0, <1>4, <2>3
           DEF BeginSucceeds, engineVars, ChannelInv, Handover, Contiguous, AfterBegin,
               EngineInv, StillOpen
    <2>5. HolderInv'
        BY <1>0, <1>4, <2>1, <2>2
           DEF BeginSucceeds, engineVars, CallerInv, HolderInv, Stage, Inside, TypeOK
    <2>6. Unstarted' /\ Released'
        BY <1>0, <1>4, <2>1 DEF BeginSucceeds, CallerInv, Unstarted, Released, TypeOK
    <2>7. QED
        BY <1>0, <2>4, <2>5, <2>6 DEF IInv, CallerInv
<1>5. ASSUME NEW t \in Txs, BeginFails(t)
      PROVE  IInv'
    <2>1. holder = t /\ Stage(t)
        BY <1>0, <1>5 DEF BeginFails, CallerInv, HolderInv
    <2>2. Final(Len(calls))
        BY <1>0, <1>5, <2>1 DEF BeginFails, Stage, Final, Answered, Answer
    <2>3. QED
        BY <1>0, <1>5, <2>1, <2>2, FinishKeeps DEF BeginFails, IInv
<1>6. ASSUME NEW t \in Txs, CommitReturns(t)
      PROVE  IInv'
    <2>1. holder = t /\ Stage(t)
        BY <1>0, <1>6 DEF CommitReturns, CallerInv, HolderInv
    <2>2. Answer(t) = "ok" => Final(Len(calls))
        BY <1>0, <1>6, <2>1 DEF CommitReturns, Stage, Final, Answered, Answer
    <2>3. QED
        BY <1>0, <1>6, <2>1, <2>2, FinishKeeps DEF CommitReturns, IInv
<1>7. ASSUME NEW t \in Txs, RollbackReturns(t)
      PROVE  IInv'
    <2>1. holder = t /\ Stage(t)
        BY <1>0, <1>7 DEF RollbackReturns, CallerInv, HolderInv
    <2>2. (Answer(t) = "ok") => Final(Len(calls))
        BY <1>0, <1>7, <2>1 DEF RollbackReturns, Stage, Final, Answered, Answer
    <2>3. Finish(t, "error", Answer(t) = "ok") /\ (Answer(t) = "ok") \in BOOLEAN
        BY <1>7 DEF RollbackReturns
    <2>4. QED
        BY <1>0, <2>1, <2>2, <2>3, FinishKeeps DEF IInv
<1>8. ASSUME NEW t \in Txs, NEW m \in Stmts, ExecuteInTransaction(t, m)
      PROVE  IInv'
    <2>1. holder = t /\ Stage(t)
        BY <1>0, <1>8 DEF ExecuteInTransaction, CallerInv, HolderInv
    <2>2. Send("EXEC", t, m) /\ phase[t] = "body" /\ UNCHANGED <<callerVars, engineVars>>
        BY <1>8 DEF ExecuteInTransaction
    <2>3. ChannelInv' /\ EngineInv' /\ StillOpen'
        BY <1>0, <2>1, <2>2, SendKeeps DEF Ops
    <2>4. /\ Len(calls') = Len(calls) + 1
          /\ \A i \in 1 .. Len(calls) : calls'[i] = calls[i]
          /\ calls'[Len(calls) + 1] = [op |-> "EXEC", by |-> t, stmt |-> m]
        BY <1>0, <2>2, SendFacts DEF Ops
    <2>5. HolderInv'
        BY <1>0, <2>1, <2>2, <2>4 DEF CallerInv, HolderInv, Stage, Inside, callerVars
    <2>6. Unstarted' /\ Released'
        BY <1>0, <2>1, <2>2, <2>4 DEF CallerInv, Unstarted, Released, callerVars
    <2>7. QED
        BY <1>0, <2>3, <2>5, <2>6 DEF IInv, CallerInv
<1>9. ASSUME NEW t \in Txs, NEW o, NEW n,
             <<o, n>> \in {<<"COMMIT", "commit">>, <<"ROLLBACK", "rollback">>},
             BodyReturns(t, o, n)
      PROVE  IInv'
    <2>1. holder = t /\ Stage(t)
        BY <1>0, <1>9 DEF BodyReturns, CallerInv, HolderInv
    <2>2. Send(o, t, NoStmt) /\ UNCHANGED engineVars
        BY <1>9 DEF BodyReturns, SendAndAwait
    <2>3. ChannelInv' /\ EngineInv' /\ StillOpen'
        BY <1>0, <1>9, <2>1, <2>2, SendKeeps DEF Ops
    <2>4. /\ Len(calls') = Len(calls) + 1
          /\ \A i \in 1 .. Len(calls) : calls'[i] = calls[i]
          /\ calls'[Len(calls) + 1] = [op |-> o, by |-> t, stmt |-> NoStmt]
        BY <1>0, <1>9, <2>2, SendFacts DEF Ops
    <2>5. /\ holder' = t
          /\ phase' = [phase EXCEPT ![t] = n]
          /\ finalized' = finalized
          /\ awaiting'[t] = Len(calls) + 1
        BY <1>0, <1>9, <2>1 DEF BodyReturns, SendAndAwait, TypeOK
    <2>6. HolderInv'
        BY <1>0, <1>9, <2>1, <2>4, <2>5 DEF CallerInv, HolderInv, Stage, TypeOK
    <2>7. Unstarted'
        <3> SUFFICES ASSUME NEW u \in Txs, phase'[u] = "new", NEW i \in 1 .. Len(calls) + 1
                     PROVE  calls'[i].by # u
            BY <2>4 DEF Unstarted
        <3>1. u # t /\ phase[u] = "new"
            BY <1>0, <1>9, <2>5 DEF TypeOK
        <3>2. QED
            BY <1>0, <2>4, <3>1 DEF CallerInv, Unstarted
    <2>8. Released'
        BY <1>0, <2>5 DEF Released
    <2>9. QED
        BY <1>0, <2>3, <2>6, <2>7, <2>8 DEF IInv, CallerInv
<1>10. ASSUME NEW t \in Txs, Cancel(t)
       PROVE  IInv'
    <2>1. holder = t /\ Stage(t)
        BY <1>0, <1>10 DEF Cancel, CallerInv, HolderInv
    <2>2. Finish(t, "cancelled", FALSE)
        BY <1>10, <2>1 DEF Cancel, Stage
    <2>3. QED
        BY <1>0, <2>1, <2>2, FinishKeeps DEF IInv
<1>11. ASSUME ServeStatement
       PROVE  IInv'
    <2>1. PICK r \in {"ok", "error"} : Reply(r)
        BY <1>11 DEF ServeStatement, NoEffect
    <2>2. Waiting /\ Next1.op = "EXEC" /\ ~closed /\ UNCHANGED <<callerVars, calls, closed>>
        BY <1>11 DEF ServeStatement
    <2>3. ChannelInv' /\ CallerInv'
        BY <2>1, <2>2, ServeKeeps
    <2>4. Len(replies') = Len(replies) + 1 /\ calls'[Len(replies')] = Next1
        BY <1>0, <2>1, <2>2, ReplyFacts DEF Next1
    <2>5. open' = open \/ (AutoRollback /\ open' = NoTx)
        BY <1>11 DEF ServeStatement, NoEffect, Discard
    <2>6. EngineInv'
        BY <1>0, <2>2, <2>4, <2>5, InvImpliesIsolation DEF EngineInv, IsolationInv, Final
    <2>7. StillOpen'
        BY <1>0, <2>2, <2>4, <2>5, InvImpliesNoStraggler DEF StillOpen, NoStraggler
    <2>8. QED
        BY <1>0, <2>3, <2>6, <2>7 DEF IInv
<1>12. ASSUME ServeBegin
       PROVE  IInv'
    <2>1. PICK r \in {"ok", "error"} : Reply(r)
        BY <1>12 DEF ServeBegin, NoEffect
    <2>2. Waiting /\ Next1.op = "BEGIN" /\ ~closed /\ UNCHANGED <<callerVars, calls, closed>>
        BY <1>12 DEF ServeBegin
    <2>3. ChannelInv' /\ CallerInv'
        BY <2>1, <2>2, ServeKeeps
    <2>4. /\ Len(replies') = Len(replies) + 1
          /\ calls'[Len(replies')] = Next1
          /\ replies'[Len(replies')] = r
        BY <1>0, <2>1, <2>2, ReplyFacts DEF Next1
    <2>5. CASE open = NoTx
        <3>1. r = "ok"
            BY <1>0, <1>12, <2>4, <2>5, ReplyFacts DEF ServeBegin
        <3>2. open' \in Txs => open' = Next1.by
            BY <1>0, <1>12, <2>5 DEF ServeBegin
        <3>3. Next1.by \in Txs => open' = Next1.by
            BY <1>0, <1>12, <2>5 DEF ServeBegin
        <3>4. EngineInv'
            BY <1>0, <2>2, <2>4, <3>1, <3>2 DEF EngineInv, Final
        <3>5. StillOpen'
            BY <1>0, <2>4, <3>3 DEF StillOpen
        <3>6. QED
            BY <1>0, <2>3, <3>4, <3>5 DEF IInv
    <2>6. CASE open # NoTx
        <3>1. r = "error" /\ open' = open
            BY <1>0, <1>12, <2>4, <2>6, ReplyFacts DEF ServeBegin, NoEffect
        <3>2. open \notin Txs
            BY <2>2, NoBeginInside
        <3>3. EngineInv'
            BY <1>0, <2>2, <3>1, <3>2 DEF EngineInv
        <3>4. StillOpen'
            BY <1>0, <2>2, <2>4, <3>1 DEF StillOpen, Inside
        <3>5. QED
            BY <1>0, <2>3, <3>3, <3>4 DEF IInv
    <2>7. QED
        BY <2>5, <2>6
<1>13. ASSUME ServeCommit
       PROVE  IInv'
    <2>1. PICK r \in {"ok", "error"} : Reply(r) /\ (open' = NoTx \/ (r = "error" /\ open' = open))
        BY <1>13 DEF ServeCommit, NoEffect, Discard
    <2>2. Waiting /\ Next1.op = "COMMIT" /\ ~closed /\ UNCHANGED <<callerVars, calls, closed>>
        BY <1>13 DEF ServeCommit
    <2>3. ChannelInv' /\ CallerInv'
        BY <2>1, <2>2, ServeKeeps
    <2>4. /\ Len(replies') = Len(replies) + 1
          /\ calls'[Len(replies')] = Next1
          /\ replies'[Len(replies')] = r
        BY <1>0, <2>1, <2>2, ReplyFacts DEF Next1
    <2>5. EngineInv'
        BY <1>0, <2>1, <2>2, <2>4, InvImpliesIsolation DEF EngineInv, IsolationInv, Final
    <2>6. StillOpen'
        BY <1>0, <2>2, <2>4 DEF StillOpen, Inside
    <2>7. QED
        BY <1>0, <2>3, <2>5, <2>6 DEF IInv
<1>14. ASSUME ServeRollback
       PROVE  IInv'
    <2>1. PICK r \in {"ok", "error"} :
             /\ Reply(r)
             /\ open' = NoTx \/ (open' = open /\ r = "error" /\ Next1.op = "ROLLBACK")
        BY <1>14 DEF ServeRollback, NoEffect, Discard
    <2>2. /\ Waiting /\ Next1.op \in {"ROLLBACK", "GUARD"} /\ ~closed
          /\ UNCHANGED <<callerVars, calls, closed>>
        BY <1>14 DEF ServeRollback
    <2>3. ChannelInv' /\ CallerInv'
        BY <2>1, <2>2, ServeKeeps
    <2>4. Len(replies') = Len(replies) + 1 /\ calls'[Len(replies')] = Next1
        BY <1>0, <2>1, <2>2, ReplyFacts DEF Next1
    <2>5. EngineInv'
        <3>1. CASE open' = NoTx
            BY <1>0, <2>2, <3>1, ConstantsAreDistinct DEF EngineInv
        <3>2. CASE open' = open /\ r = "error" /\ Next1.op = "ROLLBACK"
            <4>1. open \in Txs => Next1.by = open
                BY <2>2, InvImpliesIsolation DEF IsolationInv
            <4>2. replies'[Len(replies')] = "error"
                BY <1>0, <2>1, <2>2, <2>4, <3>2, ReplyFacts
            <4>3. ~Final(Len(replies))'
                BY <2>4, <3>2, <4>2 DEF Final
            <4>4. Len(replies') > 0
                BY <1>0, <2>4 DEF TypeOK
            <4>5. QED
                BY <1>0, <2>2, <2>4, <3>2, <4>1, <4>3, <4>4 DEF EngineInv
        <3>3. QED
            BY <2>1, <3>1, <3>2
    <2>6. StillOpen'
        BY <1>0, <2>2, <2>4 DEF StillOpen, Inside
    <2>7. QED
        BY <1>0, <2>3, <2>5, <2>6 DEF IInv
<1>15. ASSUME ServeClosed
       PROVE  IInv'
    <2>1. /\ Waiting /\ closed /\ Reply("error") /\ open' = open
          /\ UNCHANGED <<callerVars, calls, closed>>
        BY <1>15 DEF ServeClosed, NoEffect
    <2>2. ChannelInv' /\ CallerInv'
        BY <2>1, ServeKeeps
    <2>3. EngineInv' /\ StillOpen'
        BY <1>0, <2>1 DEF EngineInv, StillOpen
    <2>4. QED
        BY <1>0, <2>2, <2>3 DEF IInv
<1>16. ASSUME CloseDatabase
       PROVE  IInv'
    <2>1. UNCHANGED <<callerVars, calls, replies>> /\ closed' /\ open' = NoTx
        BY <1>16 DEF CloseDatabase, Discard
    <2>2. ChannelInv' /\ CallerInv'
        BY <1>0, <2>1
           DEF ChannelInv, Handover, Contiguous, AfterBegin, CallerInv, HolderInv, Stage,
               Unstarted, Released, Final, Inside, callerVars
    <2>3. EngineInv' /\ StillOpen'
        BY <1>0, <2>1 DEF EngineInv, StillOpen
    <2>4. QED
        BY <1>0, <2>2, <2>3 DEF IInv
<1>17. CASE UNCHANGED vars
    <2>1. UNCHANGED <<holder, phase, finalized, awaiting, calls, replies, open, closed>>
        BY <1>17 DEF vars
    <2>2. QED
        BY <1>0, <2>1
           DEF IInv, ChannelInv, Handover, Contiguous, AfterBegin, CallerInv, HolderInv, Stage,
               Unstarted, Released, Final, Inside, EngineInv, StillOpen
<1>18. QED
    BY <1>1, <1>2, <1>3, <1>4, <1>5, <1>6, <1>7, <1>8, <1>9, <1>10, <1>11, <1>12, <1>13,
       <1>14, <1>15, <1>16, <1>17
       DEF Next, Resume, Worker, BodyReturnsOk, BodyReturnsErr

\* The claim of the comment in SqliteTransaction's drop, whatever the number of callers:
\* the worker runs only a transaction's own calls while that transaction is in progress,
\* however its future ended and whatever SQLite rolls back by itself.
THEOREM Isolation == Spec => []IsolationInv
<1>1. Spec => []IInv
    BY InvInit, InvStep, PTL DEF Spec
<1>2. QED
    BY <1>1, InvImpliesIsolation, PTL

\* A statement of an ended transaction never runs in autocommit mode, provided that no
\* failing statement ends a transaction by itself.
THEOREM Stragglers == ASSUME ~AutoRollback PROVE Spec => []NoStraggler
<1>1. Spec => []IInv
    BY InvInit, InvStep, PTL DEF Spec
<1>2. IInv => NoStraggler
    BY InvImpliesNoStraggler
<1>3. QED
    BY <1>1, <1>2, PTL

-----------------------------------------------------------------------------
(* What the callers are promised: a commit is all of a transaction or      *)
(* nothing, callers are told the truth, and the session implements         *)
(* AtomicTransactions.                                                     *)
(*                                                                         *)
(* The argument: the calls of one transaction follow a script (ScriptInv): *)
(* its BEGIN, statements while the body runs, one COMMIT or ROLLBACK, a    *)
(* guard.  The engine keeps a ledger (LedgerInv): while t's transaction is *)
(* open what is pending is exactly what t has applied, and what is durable *)
(* of a transaction came there with its COMMIT.                            *)

\* Within a transaction BEGIN comes first, and every other call, the guard's excepted,
\* follows only calls that leave the body running.
BodyFirst ==
    \A i, j \in 1 .. Len(calls) :
        (i < j /\ calls[i].by = calls[j].by /\ calls[j].by \in Txs)
          => calls[j].op # "BEGIN" /\ (calls[j].op # "GUARD" => Inside(i))

EachOnce ==
    \A i, j \in 1 .. Len(calls) :
        (calls[i].op = "EXEC" /\ calls[j].op = "EXEC" /\ calls[i].stmt = calls[j].stmt) => i = j

Progress ==
    \A t \in Txs :
        /\ phase[t] = "begin" => \A i \in 1 .. Len(calls) : calls[i].by = t => i = Len(calls)
        /\ phase[t] = "body" => \A i \in 1 .. Len(calls) : calls[i].by = t => Inside(i)
        /\ phase[t] \in {"body", "commit", "rollback"} => Began(t)
        /\ outcome[t] = "none" <=> phase[t] # "over"

\* A caller that went beyond its BEGIN had begun, or was cancelled before it knew.
BegunFirst ==
    \A t \in Txs, i \in 1 .. Len(calls) :
        (calls[i].by = t /\ calls[i].op # "BEGIN") => Began(t) \/ outcome[t] = "cancelled"

ToldTruth ==
    \A t \in Txs :
        /\ outcome[t] = "ok" => Committed(t)
        /\ outcome[t] = "error" =>
              \A i \in 1 .. Len(calls) :
                  /\ (calls[i].by = t /\ calls[i].op = "BEGIN") => i <= Len(replies)
                  /\ (calls[i].by = t /\ calls[i].op = "COMMIT")
                       => i <= Len(replies) /\ replies[i] = "error"

\* While a manual transaction is in progress, all the worker answers a transaction is the
\* refusal of its BEGIN.
ManualOutside ==
    (open = Manual /\ Len(replies) > 0 /\ calls[Len(replies)].by \in Txs)
      => calls[Len(replies)].op = "BEGIN" /\ replies[Len(replies)] = "error"

\* What the engine holds are effects of statements it has run.
EffectsServed ==
    \A m \in pending \cup durable : \E i \in Served :
        calls[i].op = "EXEC" /\ calls[i].stmt = m /\ replies[i] = "ok"

PendingOwned ==
    /\ open = NoTx => pending = {}
    /\ open = Manual =>
          \A i \in Served : (calls[i].op = "EXEC" /\ calls[i].stmt \in pending) => calls[i].by = NoTx
    /\ \A t \in Txs : open = t => pending = Applied(t) /\ Began(t) /\ ~Committed(t)

\* Without SQLite's automatic rollback, the second part: a statement of a transaction
\* became durable only with it.
DurableOwned ==
    /\ \A t \in Txs : Committed(t) => Applied(t) \subseteq durable
    /\ ~AutoRollback =>
          \A t \in Txs, i \in Served :
              (calls[i].op = "EXEC" /\ calls[i].by = t /\ calls[i].stmt \in durable)
                => Committed(t)

ScriptInv == BodyFirst /\ EachOnce /\ Progress /\ BegunFirst /\ ToldTruth
LedgerInv == ManualOutside /\ EffectsServed /\ PendingOwned /\ DurableOwned

JInv == IInv /\ ScriptInv /\ LedgerInv

-----------------------------------------------------------------------------
(* What the engine has done, after a call is sent and after one is served. *)

\* A call that is not served yet is nothing anybody did.
LEMMA SameDid ==
    ASSUME UNCHANGED replies, \A i \in Served : calls'[i] = calls[i]
    PROVE  /\ Served' = Served
           /\ \A t : Began(t)' <=> Began(t)
           /\ \A t : Committed(t)' <=> Committed(t)
           /\ \A t : Applied(t)' = Applied(t)
<1>1. Served' = Served
    BY DEF Served
<1>2. \A t, op, answer : Did(t, op, answer)' = Did(t, op, answer)
    BY <1>1 DEF Did
<1>3. ASSUME NEW t
      PROVE  Applied(t)' = Applied(t)
    <2>1. Did(t, "EXEC", "ok")' = Did(t, "EXEC", "ok")
        BY <1>2
    <2>2. Did(t, "EXEC", "ok") \subseteq Served
        BY DEF Did
    <2>3. QED
        BY <2>1, <2>2 DEF Applied
<1>4. QED
    BY <1>1, <1>2, <1>3 DEF Began, Committed

\* The answer of the next call, and nothing else, is new ...
LEMMA AnsweredServed ==
    ASSUME TypeOK, NEW r \in {"ok", "error"}, Waiting, Reply(r)
    PROVE  /\ Served' = Served \cup {Len(replies) + 1}
           /\ Len(replies) + 1 \notin Served
           /\ \A i \in Served : replies'[i] = replies[i]
           /\ replies'[Len(replies) + 1] = r
<1>1. Len(replies) \in Nat /\ Len(replies') = Len(replies) + 1
    BY ReplyFacts DEF TypeOK
<1>2. QED
    BY <1>1, ReplyFacts DEF Served

\* ... and adds that call to what its caller did.
LEMMA AnsweredDid ==
    ASSUME TypeOK, NEW r \in {"ok", "error"}, Waiting, Reply(r), UNCHANGED calls
    PROVE  /\ \A t : Began(t)' <=> Began(t) \/ (Next1.op = "BEGIN" /\ Next1.by = t /\ r = "ok")
           /\ \A t : Committed(t)'
                       <=> Committed(t) \/ (Next1.op = "COMMIT" /\ Next1.by = t /\ r = "ok")
           /\ \A t : Applied(t)' = Applied(t) \cup
                       (IF Next1.op = "EXEC" /\ Next1.by = t /\ r = "ok" THEN {Next1.stmt} ELSE {})
<1>1. ASSUME NEW t, NEW op, NEW answer
      PROVE  Did(t, op, answer)' = Did(t, op, answer) \cup
                {i \in {Len(replies) + 1} : Next1.op = op /\ Next1.by = t /\ r = answer}
    BY AnsweredServed DEF Did, Next1
<1>2. ASSUME NEW t
      PROVE  Applied(t)' = Applied(t) \cup
               (IF Next1.op = "EXEC" /\ Next1.by = t /\ r = "ok" THEN {Next1.stmt} ELSE {})
    <2>1. CASE Next1.op = "EXEC" /\ Next1.by = t /\ r = "ok"
        <3>1. Did(t, "EXEC", "ok")' = Did(t, "EXEC", "ok") \cup {Len(replies) + 1}
            BY <1>1, <2>1
        <3>2. QED
            BY <2>1, <3>1 DEF Applied, Next1
    <2>2. CASE ~(Next1.op = "EXEC" /\ Next1.by = t /\ r = "ok")
        <3>1. Did(t, "EXEC", "ok")' = Did(t, "EXEC", "ok")
            BY <1>1, <2>2
        <3>2. QED
            BY <2>2, <3>1 DEF Applied
    <2>3. QED
        BY <2>1, <2>2
<1>3. QED
    BY <1>1, <1>2 DEF Began, Committed

\* A statement the engine holds is t's only if t's call of it is one t has applied.
LEMMA HeldIsApplied ==
    ASSUME TypeOK, EachOnce, EffectsServed,
           NEW i \in 1 .. Len(calls), calls[i].op = "EXEC", calls[i].stmt \in pending \cup durable
    PROVE  i \in Served /\ replies[i] = "ok" /\ calls[i].stmt \in Applied(calls[i].by)
<1>1. PICK j \in Served : calls[j].op = "EXEC" /\ calls[j].stmt = calls[i].stmt /\ replies[j] = "ok"
    BY DEF EffectsServed
<1>2. i = j
    BY <1>1 DEF EachOnce, TypeOK, Served
<1>3. QED
    BY <1>1, <1>2 DEF Applied, Did

-----------------------------------------------------------------------------
(* The script, when the channel grows and when a call is answered. *)

LEMMA ScriptAppend ==
    ASSUME TypeOK, BodyFirst, EachOnce,
           NEW o \in Ops, NEW b \in Txs \cup {NoTx}, NEW m,
           m \in IF o = "EXEC" THEN Stmts ELSE {NoStmt},
           Send(o, b, m), UNCHANGED replies,
           (b \in Txs /\ o = "BEGIN") => \A i \in 1 .. Len(calls) : calls[i].by # b,
           (b \in Txs /\ o \notin {"BEGIN", "GUARD"}) =>
              \A i \in 1 .. Len(calls) : calls[i].by = b => Inside(i),
           o = "EXEC" => Unused(m)
    PROVE  BodyFirst' /\ EachOnce'
<1>1. /\ Len(calls) \in Nat
      /\ Len(calls') = Len(calls) + 1
      /\ calls'[Len(calls) + 1] = [op |-> o, by |-> b, stmt |-> m]
      /\ \A i \in 1 .. Len(calls) : calls'[i] = calls[i] /\ (Inside(i)' <=> Inside(i))
    BY SendFacts, SentBefore DEF TypeOK
<1>2. BodyFirst'
    <2> SUFFICES ASSUME NEW i \in 1 .. Len(calls) + 1, NEW j \in 1 .. Len(calls) + 1,
                        i < j, calls'[i].by = calls'[j].by, calls'[j].by \in Txs
                 PROVE  calls'[j].op # "BEGIN" /\ (calls'[j].op # "GUARD" => Inside(i)')
        BY <1>1 DEF BodyFirst
    <2>1. i \in 1 .. Len(calls)
        BY <1>1
    <2>2. CASE j = Len(calls) + 1
        BY <1>1, <2>1, <2>2
    <2>3. CASE j \in 1 .. Len(calls)
        BY <1>1, <2>1, <2>3 DEF BodyFirst
    <2>4. QED
        BY <1>1, <2>2, <2>3
<1>3. EachOnce'
    <2> SUFFICES ASSUME NEW i \in 1 .. Len(calls) + 1, NEW j \in 1 .. Len(calls) + 1,
                        calls'[i].op = "EXEC", calls'[j].op = "EXEC",
                        calls'[i].stmt = calls'[j].stmt
                 PROVE  i = j
        BY <1>1 DEF EachOnce
    <2>1. \A k \in 1 .. Len(calls) : o = "EXEC" => calls[k].stmt # m
        BY DEF Unused, TypeOK
    <2>2. CASE i \in 1 .. Len(calls) /\ j \in 1 .. Len(calls)
        BY <1>1, <2>2 DEF EachOnce
    <2>3. CASE i = Len(calls) + 1 \/ j = Len(calls) + 1
        BY <1>1, <2>1, <2>3
    <2>4. QED
        BY <1>1, <2>2, <2>3
<1>4. QED
    BY <1>2, <1>3

LEMMA ScriptServe ==
    ASSUME TypeOK, ScriptInv, NEW r \in {"ok", "error"}, Waiting, Reply(r),
           UNCHANGED <<callerVars, calls>>
    PROVE  ScriptInv'
<1>0. /\ UNCHANGED <<phase, outcome, calls>>
      /\ Len(replies) \in Nat /\ Len(replies') = Len(replies) + 1
      /\ \A i \in 1 .. Len(replies) : replies'[i] = replies[i]
    BY ReplyFacts DEF callerVars, TypeOK
<1>1. \A i \in 1 .. Len(calls) : Inside(i) => Inside(i)'
    BY <1>0 DEF Inside
<1>2. \A t : Began(t) => Began(t)'
    BY <1>0, AnsweredDid
<1>3. \A t : Committed(t) => Committed(t)'
    BY <1>0, AnsweredDid
<1>4. BodyFirst' /\ EachOnce'
    BY <1>0, <1>1 DEF ScriptInv, BodyFirst, EachOnce
<1>5. Progress'
    BY <1>0, <1>1, <1>2 DEF ScriptInv, Progress
<1>6. BegunFirst'
    BY <1>0, <1>2 DEF ScriptInv, BegunFirst
<1>7. ToldTruth'
    <2>1. ASSUME NEW t \in Txs, outcome'[t] = "ok"
          PROVE  Committed(t)'
        BY <1>0, <1>3, <2>1 DEF ScriptInv, ToldTruth
    <2>2. ASSUME NEW t \in Txs, outcome'[t] = "error", NEW i \in 1 .. Len(calls),
                 calls[i].by = t
          PROVE  /\ calls[i].op = "BEGIN" => i <= Len(replies)'
                 /\ calls[i].op = "COMMIT" => i <= Len(replies)' /\ replies'[i] = "error"
        BY <1>0, <2>2 DEF ScriptInv, ToldTruth
    <2>3. QED
        BY <1>0, <2>1, <2>2 DEF ToldTruth
<1>8. QED
    BY <1>4, <1>5, <1>6, <1>7 DEF ScriptInv

\* The ledger looks only at what is served.
LEMMA LedgerSent ==
    ASSUME TypeOK, LedgerInv, UNCHANGED engineVars, \A i \in Served : calls'[i] = calls[i]
    PROVE  LedgerInv'
<1>0. UNCHANGED <<replies, open, pending, durable, closed>> /\ Len(replies) \in Nat
    BY DEF engineVars, TypeOK
<1>1. Served' = Served
    BY <1>0, SameDid
<1>2. \A t : (Began(t)' <=> Began(t)) /\ (Committed(t)' <=> Committed(t))
    BY <1>0, SameDid
<1>3. \A t : Applied(t)' = Applied(t)
    BY <1>0, SameDid
<1>4. ManualOutside'
    <2>1. Len(replies) > 0 => calls'[Len(replies)] = calls[Len(replies)]
        BY <1>0 DEF Served
    <2>2. QED
        BY <1>0, <2>1 DEF LedgerInv, ManualOutside
<1>5. EffectsServed'
    BY <1>0, <1>1 DEF LedgerInv, EffectsServed
<1>6. PendingOwned'
    <2>1. (open = NoTx => pending = {})'
        BY <1>0 DEF LedgerInv, PendingOwned
    <2>2. (open = Manual =>
              \A i \in Served :
                  (calls[i].op = "EXEC" /\ calls[i].stmt \in pending) => calls[i].by = NoTx)'
        BY <1>0, <1>1 DEF LedgerInv, PendingOwned
    <2>3. ASSUME NEW t \in Txs, open' = t
          PROVE  pending' = Applied(t)' /\ Began(t)' /\ ~Committed(t)'
        <3>1. pending = Applied(t) /\ Began(t) /\ ~Committed(t)
            BY <1>0, <2>3 DEF LedgerInv, PendingOwned
        <3>2. QED
            BY <1>0, <1>2, <1>3, <3>1
    <2>4. QED
        BY <2>1, <2>2, <2>3 DEF PendingOwned
<1>7. DurableOwned'
    <2>1. ASSUME NEW t \in Txs, Committed(t)'
          PROVE  Applied(t)' \subseteq durable'
        BY <1>0, <1>2, <1>3, <2>1 DEF LedgerInv, DurableOwned
    <2>2. ASSUME ~AutoRollback, NEW t \in Txs, NEW i \in Served,
                 calls'[i].op = "EXEC", calls'[i].by = t, calls'[i].stmt \in durable'
          PROVE  Committed(t)'
        BY <1>0, <1>2, <2>2 DEF LedgerInv, DurableOwned
    <2>3. QED
        BY <1>1, <2>1, <2>2 DEF DurableOwned
<1>8. QED
    BY <1>4, <1>5, <1>6, <1>7 DEF LedgerInv

-----------------------------------------------------------------------------
(* The steps of the callers. *)

LEMMA JInit == Init => JInv
<1> SUFFICES ASSUME Init
             PROVE  JInv
    OBVIOUS
<1>1. IInv
    BY InvInit
<1>2. calls = <<>> /\ replies = <<>> /\ Served = {} /\ open = NoTx
    BY DEF Init, Served
<1>3. \A t : ~Began(t) /\ ~Committed(t)
    BY <1>2 DEF Began, Committed, Did
<1>4. ScriptInv
    BY <1>2 DEF Init, ScriptInv, BodyFirst, EachOnce, Progress, BegunFirst, ToldTruth
<1>5. LedgerInv
    BY <1>2, <1>3, ConstantsAreDistinct
       DEF Init, LedgerInv, ManualOutside, EffectsServed, PendingOwned, DurableOwned
<1>6. QED
    BY <1>1, <1>4, <1>5 DEF JInv

\* What is known to the caller whose transaction future ends, and what its guard may do.
LEMMA FinishScript ==
    ASSUME IInv, ScriptInv, LedgerInv,
           NEW t \in Txs, NEW r \in {"ok", "error", "cancelled"}, NEW f \in BOOLEAN,
           holder = t, Finish(t, r, f),
           r = "ok" => Committed(t),
           r = "error" => \A i \in 1 .. Len(calls) :
               /\ (calls[i].by = t /\ calls[i].op = "BEGIN") => i <= Len(replies)
               /\ (calls[i].by = t /\ calls[i].op = "COMMIT")
                    => i <= Len(replies) /\ replies[i] = "error",
           ~f => Began(t) \/ r = "cancelled"
    PROVE  ScriptInv' /\ LedgerInv'
<1>1. /\ TypeOK /\ Len(calls) \in Nat /\ Len(replies) \in Nat /\ Len(replies) <= Len(calls)
      /\ phase' = [phase EXCEPT ![t] = "over"]
      /\ outcome' = [outcome EXCEPT ![t] = r]
      /\ UNCHANGED replies /\ UNCHANGED engineVars
    BY DEF IInv, TypeOK, Finish, engineVars
<1>2. /\ Len(calls') \in Nat
      /\ \A i \in 1 .. Len(calls) : i \in 1 .. Len(calls') /\ calls'[i] = calls[i]
      /\ \A i \in 1 .. Len(calls') :
            i \in 1 .. Len(calls)
              \/ (~f /\ calls'[i] = [op |-> "GUARD", by |-> t, stmt |-> NoStmt])
    <2>1. CASE f
        BY <1>1, <2>1 DEF Finish, DropTransaction
    <2>2. CASE ~f
        <3>1. Send("GUARD", t, NoStmt)
            BY <2>2 DEF Finish, DropTransaction
        <3>2. QED
            BY <1>1, <2>2, <3>1, SendFacts DEF Ops
    <2>3. QED
        BY <2>1, <2>2
<1>3. BodyFirst' /\ EachOnce'
    <2>1. CASE f
        BY <1>1, <2>1 DEF Finish, DropTransaction, ScriptInv, BodyFirst, EachOnce, Inside
    <2>2. CASE ~f
        <3>1. Send("GUARD", t, NoStmt)
            BY <2>2 DEF Finish, DropTransaction
        <3>2. QED
            BY <1>1, <3>1, ScriptAppend DEF Ops, ScriptInv
    <2>3. QED
        BY <2>1, <2>2
<1>4. \A i \in Served : calls'[i] = calls[i]
    BY <1>1, <1>2 DEF Served
<1>5. \A u : (Began(u)' <=> Began(u)) /\ (Committed(u)' <=> Committed(u))
    BY <1>1, <1>4, SameDid
<1>6. ASSUME NEW u \in Txs, u # t
      PROVE  phase'[u] = phase[u] /\ outcome'[u] = outcome[u] /\ phase[u] \in {"new", "over"}
    BY <1>1, <1>6 DEF TypeOK, IInv, CallerInv, HolderInv
<1>7. phase'[t] = "over" /\ outcome'[t] = r
    BY <1>1 DEF TypeOK
<1>8. Progress'
    <2>1. \A u \in Txs : phase'[u] \in {"new", "over"} /\ (outcome'[u] = "none" <=> phase'[u] # "over")
        BY <1>6, <1>7 DEF ScriptInv, Progress
    <2>2. QED
        BY <2>1 DEF Progress
<1>9. BegunFirst'
    <2> SUFFICES ASSUME NEW u \in Txs, NEW i \in 1 .. Len(calls'),
                        calls'[i].by = u, calls'[i].op # "BEGIN", outcome'[u] # "cancelled"
                 PROVE  Began(u)'
        BY DEF BegunFirst
    <2>1. CASE i \in 1 .. Len(calls)
        <3>1. Began(u) \/ outcome[u] = "cancelled"
            BY <1>2, <2>1 DEF ScriptInv, BegunFirst
        <3>2. outcome[t] = "none"
            BY <1>1 DEF IInv, CallerInv, HolderInv, Stage, ScriptInv, Progress
        <3>3. QED
            BY <1>5, <1>6, <3>1, <3>2
    <2>2. CASE i \notin 1 .. Len(calls)
        BY <1>2, <1>5, <1>7, <2>2
    <2>3. QED
        BY <2>1, <2>2
<1>10. ToldTruth'
    <2>1. ASSUME NEW u \in Txs, outcome'[u] = "ok"
          PROVE  Committed(u)'
        BY <1>5, <1>6, <1>7, <2>1 DEF ScriptInv, ToldTruth
    <2>2. ASSUME NEW u \in Txs, outcome'[u] = "error", NEW i \in 1 .. Len(calls'),
                 calls'[i].by = u
          PROVE  /\ calls'[i].op = "BEGIN" => i <= Len(replies)
                 /\ calls'[i].op = "COMMIT" => i <= Len(replies) /\ replies[i] = "error"
        <3>1. CASE u = t
            BY <1>2, <1>7, <2>2, <3>1
        <3>2. CASE u # t
            BY <1>2, <1>6, <2>2, <3>2 DEF ScriptInv, ToldTruth
        <3>3. QED
            BY <3>1, <3>2
    <2>3. QED
        BY <1>1, <2>1, <2>2 DEF ToldTruth
<1>11. LedgerInv'
    BY <1>1, <1>4, LedgerSent
<1>12. QED
    BY <1>3, <1>8, <1>9, <1>10, <1>11 DEF ScriptInv

\* A call sent while its caller goes on: the transaction's phase, if it has one, moves to n.
LEMMA SendScript ==
    ASSUME IInv, ScriptInv, LedgerInv,
           NEW o \in Ops, NEW b \in Txs \cup {NoTx}, NEW m,
           m \in IF o = "EXEC" THEN Stmts ELSE {NoStmt},
           Send(o, b, m), UNCHANGED engineVars, UNCHANGED outcome,
           \/ b = NoTx /\ UNCHANGED phase
           \/ b \in Txs /\ o = "BEGIN" /\ phase[b] = "new" /\ phase' = [phase EXCEPT ![b] = "begin"]
           \/ b \in Txs /\ o = "EXEC" /\ phase[b] = "body" /\ UNCHANGED phase
           \/ b \in Txs /\ o \in {"COMMIT", "ROLLBACK"} /\ phase[b] = "body"
                /\ \E n \in {"commit", "rollback"} : phase' = [phase EXCEPT ![b] = n],
           IF b \in Txs /\ o # "BEGIN" THEN holder = b ELSE holder = NoTx,
           o = "EXEC" => Unused(m)
    PROVE  ScriptInv' /\ LedgerInv'
<1>1. /\ TypeOK /\ Len(calls) \in Nat /\ Len(replies) \in Nat /\ Len(replies) <= Len(calls)
      /\ UNCHANGED replies /\ NoTx \notin Txs
    BY ConstantsAreDistinct DEF IInv, TypeOK, engineVars
<1>2. /\ Len(calls') = Len(calls) + 1
      /\ \A i \in 1 .. Len(calls) : calls'[i] = calls[i]
      /\ calls'[Len(calls) + 1] = [op |-> o, by |-> b, stmt |-> m]
      /\ \A i \in 1 .. Len(calls) : Inside(i)' <=> Inside(i)
    BY <1>1, SendFacts, SentBefore
<1>3. BodyFirst' /\ EachOnce'
    <2>1. (b \in Txs /\ o = "BEGIN") => \A i \in 1 .. Len(calls) : calls[i].by # b
        BY <1>1 DEF IInv, CallerInv, Unstarted
    <2>2. (b \in Txs /\ o \notin {"BEGIN", "GUARD"}) =>
              \A i \in 1 .. Len(calls) : calls[i].by = b => Inside(i)
        BY <1>1 DEF ScriptInv, Progress
    <2>3. QED
        BY <1>1, <2>1, <2>2, ScriptAppend DEF ScriptInv
<1>4. \A i \in Served : calls'[i] = calls[i]
    BY <1>1, <1>2 DEF Served
<1>5. \A u : (Began(u)' <=> Began(u)) /\ (Committed(u)' <=> Committed(u))
    BY <1>1, <1>4, SameDid
<1>6. ASSUME NEW u \in Txs, u # b
      PROVE  phase'[u] = phase[u] /\ \A i \in 1 .. Len(calls') : calls'[i].by = u => i \in 1 .. Len(calls)
    BY <1>1, <1>2, <1>6 DEF TypeOK
<1>7. Progress'
    <2> SUFFICES ASSUME NEW u \in Txs
                 PROVE  /\ phase'[u] = "begin" =>
                              \A i \in 1 .. Len(calls') : calls'[i].by = u => i = Len(calls')
                        /\ phase'[u] = "body" => \A i \in 1 .. Len(calls') : calls'[i].by = u => Inside(i)'
                        /\ phase'[u] \in {"body", "commit", "rollback"} => Began(u)'
                        /\ outcome'[u] = "none" <=> phase'[u] # "over"
        BY DEF Progress
    <2>1. CASE u # b
        <3>1. phase[u] \in {"new", "over"}
            BY <2>1, <1>1 DEF IInv, CallerInv, HolderInv
        <3>2. QED
            BY <1>6, <2>1, <3>1 DEF ScriptInv, Progress
    <2>2. CASE u = b
        <3>1. phase[u] \in {"new", "body"} /\ outcome[u] = "none"
            BY <1>1, <2>2 DEF ScriptInv, Progress
        <3>2. CASE phase[u] = "new"
            <4>1. phase'[u] = "begin" /\ \A i \in 1 .. Len(calls) : calls[i].by # u
                BY <1>1, <2>2, <3>2 DEF TypeOK, IInv, CallerInv, Unstarted
            <4>2. QED
                BY <1>1, <1>2, <3>1, <4>1
        <3>3. CASE phase[u] = "body"
            <4>1. Began(u) /\ \A i \in 1 .. Len(calls) : calls[i].by = u => Inside(i)
                BY <3>3 DEF ScriptInv, Progress
            <4>2. phase'[u] \in {"body", "commit", "rollback"} /\ (phase'[u] = "body" => o = "EXEC")
                BY <1>1, <2>2, <3>3 DEF TypeOK
            <4>3. ASSUME NEW i \in 1 .. Len(calls'), calls'[i].by = u, o = "EXEC"
                  PROVE  Inside(i)'
                <5>1. CASE i \in 1 .. Len(calls)
                    BY <1>2, <4>1, <4>3, <5>1
                <5>2. CASE i = Len(calls) + 1
                    BY <1>2, <4>3, <5>2 DEF Inside
                <5>3. QED
                    BY <1>1, <1>2, <5>1, <5>2
            <4>4. QED
                BY <1>5, <3>1, <4>1, <4>2, <4>3
        <3>4. QED
            BY <3>1, <3>2, <3>3
    <2>3. QED
        BY <2>1, <2>2
<1>8. BegunFirst'
    <2> SUFFICES ASSUME NEW u \in Txs, NEW i \in 1 .. Len(calls'),
                        calls'[i].by = u, calls'[i].op # "BEGIN", outcome'[u] # "cancelled"
                 PROVE  Began(u)'
        BY DEF BegunFirst
    <2>1. CASE i \in 1 .. Len(calls)
        BY <1>2, <1>5, <2>1 DEF ScriptInv, BegunFirst
    <2>2. CASE i = Len(calls) + 1
        BY <1>1, <1>2, <1>5, <2>2 DEF ScriptInv, Progress
    <2>3. QED
        BY <1>1, <1>2, <2>1, <2>2
<1>9. ToldTruth'
    <2>1. ASSUME NEW u \in Txs, outcome'[u] = "ok"
          PROVE  Committed(u)'
        BY <1>5, <2>1 DEF ScriptInv, ToldTruth
    <2>2. ASSUME NEW u \in Txs, outcome'[u] = "error", NEW i \in 1 .. Len(calls'),
                 calls'[i].by = u
          PROVE  /\ calls'[i].op = "BEGIN" => i <= Len(replies)
                 /\ calls'[i].op = "COMMIT" => i <= Len(replies) /\ replies[i] = "error"
        <3>1. u # b
            BY <1>1, <2>2 DEF ScriptInv, Progress
        <3>2. QED
            BY <1>2, <1>6, <2>2, <3>1 DEF ScriptInv, ToldTruth
    <2>3. QED
        BY <1>1, <2>1, <2>2 DEF ToldTruth
<1>10. LedgerInv'
    BY <1>1, <1>4, LedgerSent
<1>11. QED
    BY <1>3, <1>7, <1>8, <1>9, <1>10 DEF ScriptInv

-----------------------------------------------------------------------------
(* What the script says of the next call. *)

LEMMA NextFacts ==
    ASSUME IInv, Waiting
    PROVE  /\ Len(replies) \in Nat /\ Len(calls) \in Nat
           /\ Len(replies) + 1 \in 1 .. Len(calls)
           /\ Served \subseteq 1 .. Len(calls)
           /\ \A i \in Served : i < Len(replies) + 1
           /\ Next1 = calls[Len(replies) + 1]
           /\ Next1 \in Call
BY Next1Type DEF IInv, TypeOK, Waiting, Served, Next1

\* A statement, COMMIT or ROLLBACK of a transaction follows a call of its running body, and
\* so no manual transaction is in progress.
LEMMA NextInside ==
    ASSUME JInv, Waiting, Next1.by \in Txs, Next1.op \in {"EXEC", "COMMIT", "ROLLBACK"}
    PROVE  open # Manual
<1>1. Len(replies) > 0 /\ calls[Len(replies)].by = Next1.by
    BY NextFacts DEF JInv, IInv, ChannelInv, Contiguous
<1>2. Len(replies) \in 1 .. Len(calls) /\ Inside(Len(replies))
    BY <1>1, NextFacts DEF JInv, ScriptInv, BodyFirst
<1>3. QED
    BY <1>1, <1>2 DEF JInv, LedgerInv, ManualOutside, Inside

\* A transaction has done nothing before its BEGIN ...
LEMMA NextBegin ==
    ASSUME JInv, Waiting, Next1.by \in Txs, Next1.op = "BEGIN"
    PROVE  ~Began(Next1.by) /\ ~Committed(Next1.by) /\ Applied(Next1.by) = {}
<1>1. \A i \in Served : calls[i].by # Next1.by
    BY NextFacts DEF JInv, ScriptInv, BodyFirst
<1>2. QED
    BY <1>1 DEF Began, Committed, Applied, Did

\* ... and nothing but its guard's rollback after its COMMIT.
LEMMA NextUncommitted ==
    ASSUME JInv, Waiting, Next1.by \in Txs, Next1.op # "GUARD"
    PROVE  ~Committed(Next1.by)
<1> SUFFICES ASSUME NEW i \in Served, calls[i].op = "COMMIT", calls[i].by = Next1.by
             PROVE  FALSE
    BY DEF Committed, Did
<1>1. Inside(i)
    BY NextFacts DEF JInv, ScriptInv, BodyFirst
<1>2. QED
    BY <1>1 DEF Inside

\* A statement that is about to run has had no effect yet.
LEMMA NextUnapplied ==
    ASSUME JInv, Waiting, Next1.op = "EXEC"
    PROVE  /\ Next1.stmt \in Stmts
           /\ Next1.stmt \notin pending \cup durable
           /\ \A t : Next1.stmt \notin Applied(t)
           /\ \A i \in Served : calls[i].op = "EXEC" => calls[i].stmt # Next1.stmt
<1>1. \A i \in Served : calls[i].op = "EXEC" => calls[i].stmt # Next1.stmt
    BY NextFacts DEF JInv, ScriptInv, EachOnce
<1>2. Next1.stmt \in Stmts
    BY NextFacts DEF JInv, Call, Control
<1>3. Next1.stmt \notin pending \cup durable
    BY <1>1 DEF JInv, LedgerInv, EffectsServed
<1>4. ASSUME NEW t
      PROVE  Next1.stmt \notin Applied(t)
    BY <1>1 DEF Applied, Did
<1>5. QED
    BY <1>1, <1>2, <1>3, <1>4

\* In a statement's own transaction, or outside every one.
LEMMA NextOwner ==
    ASSUME JInv, Waiting, Next1.op \in {"EXEC", "COMMIT", "ROLLBACK"}
    PROVE  /\ open \in Txs => Next1.by = open
           /\ open = Manual => Next1.by = NoTx
<1>1. open \in Txs => Next1.by = open
    BY InvImpliesIsolation DEF JInv, IsolationInv
<1>2. Next1.by \in Txs \cup {NoTx}
    BY NextFacts DEF JInv, Call
<1>3. QED
    BY <1>1, <1>2, NextInside

-----------------------------------------------------------------------------
(* The ledger, one lemma per effect a call can have. *)

\* The call is refused, or it ends the transaction without keeping anything.
LEMMA QuietLedger ==
    ASSUME JInv, Waiting, NEW r \in {"ok", "error"}, Reply(r), UNCHANGED <<calls, durable>>,
           r = "error" \/ Next1.op \in {"ROLLBACK", "GUARD"},
           Next1.op = "GUARD" => open' = NoTx,
           \/ r = "error" /\ UNCHANGED <<open, pending>>
           \/ open' = NoTx /\ pending' = {}
    PROVE  LedgerInv'
<1>1. TypeOK /\ UNCHANGED calls /\ NoTx \notin Txs /\ Manual # NoTx
    BY ConstantsAreDistinct DEF JInv, IInv
<1>2. \A t : Began(t) => Began(t)'
    BY <1>1, AnsweredDid
<1>3. \A t : Committed(t)' <=> Committed(t)
    BY <1>1, AnsweredDid
<1>4. \A t : Applied(t)' = Applied(t)
    BY <1>1, AnsweredDid
<1>5. /\ Served' = Served \cup {Len(replies) + 1}
      /\ \A i \in Served : replies'[i] = replies[i]
      /\ replies'[Len(replies) + 1] = r
    BY <1>1, AnsweredServed
<1>6. ManualOutside'
    <2> SUFFICES ASSUME open' = Manual, calls[Len(replies')].by \in Txs
                 PROVE  calls[Len(replies')].op = "BEGIN" /\ replies'[Len(replies')] = "error"
        BY <1>1 DEF ManualOutside
    <2>1. r = "error" /\ open = Manual /\ Len(replies') = Len(replies) + 1 /\ Next1.op # "GUARD"
        BY <1>1, ReplyFacts
    <2>2. Next1 = calls[Len(replies')] /\ Next1.by \in Txs /\ Next1 \in Call
        BY <1>1, <2>1, NextFacts DEF JInv
    <2>3. Next1.op = "BEGIN"
        BY <2>1, <2>2, NextInside DEF Call, Control, Ops
    <2>4. QED
        BY <1>5, <2>1, <2>2, <2>3
<1>7. EffectsServed'
    <2> SUFFICES ASSUME NEW m \in pending' \cup durable'
                 PROVE  \E i \in Served' : calls[i].op = "EXEC" /\ calls[i].stmt = m /\ replies'[i] = "ok"
        BY <1>1 DEF EffectsServed
    <2>1. m \in pending \cup durable
        OBVIOUS
    <2>2. PICK i \in Served : calls[i].op = "EXEC" /\ calls[i].stmt = m /\ replies[i] = "ok"
        BY <2>1 DEF JInv, LedgerInv, EffectsServed
    <2>3. QED
        BY <1>5, <2>2
<1>8. PendingOwned'
    <2>1. CASE open' = NoTx /\ pending' = {}
        BY <1>1, <2>1, ConstantsAreDistinct DEF PendingOwned
    <2>2. CASE r = "error" /\ UNCHANGED <<open, pending>>
        <3>1. open' = NoTx => pending' = {}
            BY <2>2 DEF JInv, LedgerInv, PendingOwned
        <3>2. ASSUME open' = Manual, NEW i \in Served', calls[i].op = "EXEC", calls[i].stmt \in pending'
              PROVE  calls[i].by = NoTx
            <4>1. CASE i \in Served
                BY <2>2, <3>2, <4>1 DEF JInv, LedgerInv, PendingOwned
            <4>2. CASE i = Len(replies) + 1
                BY <2>2, <3>2, <4>2, NextOwner, NextFacts DEF JInv
            <4>3. QED
                BY <1>5, <4>1, <4>2
        <3>3. ASSUME NEW t \in Txs, open' = t
              PROVE  pending' = Applied(t)' /\ Began(t)' /\ ~Committed(t)'
            <4>1. pending = Applied(t) /\ Began(t) /\ ~Committed(t)
                BY <2>2, <3>3 DEF JInv, LedgerInv, PendingOwned
            <4>2. QED
                BY <1>2, <1>3, <1>4, <2>2, <4>1
        <3>4. QED
            BY <1>1, <3>1, <3>2, <3>3 DEF PendingOwned
    <2>3. QED
        BY <2>1, <2>2
<1>9. DurableOwned'
    <2>1. ASSUME NEW t \in Txs, Committed(t)'
          PROVE  Applied(t)' \subseteq durable'
        BY <1>3, <1>4, <2>1 DEF JInv, LedgerInv, DurableOwned
    <2>2. ASSUME ~AutoRollback, NEW t \in Txs, NEW i \in Served',
                 calls[i].op = "EXEC", calls[i].by = t, calls[i].stmt \in durable
          PROVE  Committed(t)'
        <3>1. CASE i \in Served
            BY <1>3, <2>2, <3>1 DEF JInv, LedgerInv, DurableOwned
        <3>2. CASE i = Len(replies) + 1
            BY <2>2, <3>2, NextFacts, NextUnapplied DEF JInv
        <3>3. QED
            BY <1>5, <3>1, <3>2
    <2>3. QED
        BY <1>1, <2>1, <2>2 DEF DurableOwned
<1>10. QED
    BY <1>6, <1>7, <1>8, <1>9 DEF LedgerInv

\* A statement is applied: at once outside a transaction, else in the one in progress.
LEMMA StatementLedger ==
    ASSUME JInv, Waiting, ~closed, Next1.op = "EXEC", Reply("ok"), UNCHANGED <<calls, open>>,
           IF open = NoTx
             THEN durable' = durable \cup {Next1.stmt} /\ UNCHANGED pending
             ELSE pending' = pending \cup {Next1.stmt} /\ UNCHANGED durable
    PROVE  LedgerInv'
<1>1. TypeOK /\ UNCHANGED calls /\ NoTx \notin Txs /\ Manual \notin Txs /\ Manual # NoTx
    BY ConstantsAreDistinct DEF JInv, IInv
<1>2. \A t : Began(t)' <=> Began(t)
    BY <1>1, AnsweredDid
<1>3. \A t : Committed(t)' <=> Committed(t)
    BY <1>1, AnsweredDid
<1>4. \A t : Applied(t)' = Applied(t) \cup (IF Next1.by = t THEN {Next1.stmt} ELSE {})
    BY <1>1, AnsweredDid
<1>5. /\ Served' = Served \cup {Len(replies) + 1}
      /\ \A i \in Served : replies'[i] = replies[i]
      /\ replies'[Len(replies) + 1] = "ok"
    BY <1>1, AnsweredServed
<1>6. ManualOutside'
    <2> SUFFICES ASSUME open' = Manual, calls[Len(replies')].by \in Txs
                 PROVE  FALSE
        BY <1>1 DEF ManualOutside
    <2>1. Len(replies') = Len(replies) + 1
        BY <1>1, ReplyFacts
    <2>2. QED
        BY <1>1, <2>1, NextFacts, NextOwner DEF JInv
<1>7. EffectsServed'
    <2> SUFFICES ASSUME NEW m \in pending' \cup durable'
                 PROVE  \E i \in Served' : calls[i].op = "EXEC" /\ calls[i].stmt = m /\ replies'[i] = "ok"
        BY <1>1 DEF EffectsServed
    <2>1. CASE m \in pending \cup durable
        BY <1>5, <2>1 DEF JInv, LedgerInv, EffectsServed
    <2>2. CASE m = Next1.stmt
        BY <1>5, <2>2, NextFacts DEF JInv
    <2>3. QED
        BY <2>1, <2>2
<1>8. PendingOwned'
    <2>1. open' = NoTx => pending' = {}
        BY DEF JInv, LedgerInv, PendingOwned
    <2>2. ASSUME open' = Manual, NEW i \in Served', calls[i].op = "EXEC", calls[i].stmt \in pending'
          PROVE  calls[i].by = NoTx
        <3>1. CASE i \in Served
            <4>1. calls[i].stmt # Next1.stmt
                BY <2>2, <3>1, NextUnapplied
            <4>2. QED
                BY <1>1, <2>2, <3>1, <4>1 DEF JInv, LedgerInv, PendingOwned
        <3>2. CASE i = Len(replies) + 1
            BY <2>2, <3>2, NextOwner, NextFacts DEF JInv
        <3>3. QED
            BY <1>5, <3>1, <3>2
    <2>3. ASSUME NEW t \in Txs, open' = t
          PROVE  pending' = Applied(t)' /\ Began(t)' /\ ~Committed(t)'
        <3>1. pending = Applied(t) /\ Began(t) /\ ~Committed(t)
            BY <2>3 DEF JInv, LedgerInv, PendingOwned
        <3>2. Next1.by = t /\ pending' = pending \cup {Next1.stmt}
            BY <1>1, <2>3, NextOwner
        <3>3. Applied(t)' = Applied(t) \cup {Next1.stmt}
            BY <1>4, <3>2
        <3>4. QED
            BY <1>2, <1>3, <3>1, <3>2, <3>3
    <2>4. QED
        BY <1>1, <2>1, <2>2, <2>3 DEF PendingOwned
<1>9. DurableOwned'
    <2>1. ASSUME NEW t \in Txs, Committed(t)'
          PROVE  Applied(t)' \subseteq durable'
        <3>1. Committed(t) /\ Applied(t) \subseteq durable
            BY <1>3, <2>1 DEF JInv, LedgerInv, DurableOwned
        <3>2. Next1.by # t
            BY <3>1, NextUncommitted
        <3>3. Applied(t)' = Applied(t)
            BY <1>4, <3>2
        <3>4. QED
            BY <3>1, <3>3
    <2>2. ASSUME ~AutoRollback, NEW t \in Txs, NEW i \in Served',
                 calls[i].op = "EXEC", calls[i].by = t, calls[i].stmt \in durable'
          PROVE  Committed(t)'
        <3>1. CASE i \in Served
            <4>1. calls[i].stmt # Next1.stmt
                BY <2>2, <3>1, NextUnapplied
            <4>2. calls[i].stmt \in durable
                BY <2>2, <4>1
            <4>3. QED
                BY <1>3, <2>2, <3>1, <4>2 DEF JInv, LedgerInv, DurableOwned
        <3>2. CASE i = Len(replies) + 1
            <4>1. Next1.by = t /\ Next1 = calls[i]
                BY <2>2, <3>2, NextFacts DEF JInv
            <4>2. open = t
                BY <2>2, <4>1, InvImpliesNoStraggler DEF NoStraggler, JInv
            <4>3. QED
                BY <1>1, <2>2, <4>1, <4>2, NextUnapplied
        <3>3. QED
            BY <1>5, <3>1, <3>2
    <2>3. QED
        BY <1>1, <2>1, <2>2 DEF DurableOwned
<1>10. QED
    BY <1>6, <1>7, <1>8, <1>9 DEF LedgerInv

\* BEGIN opens the transaction of its caller, which has done nothing yet.
LEMMA BeginLedger ==
    ASSUME JInv, Waiting, Next1.op = "BEGIN", open = NoTx, Reply("ok"),
           UNCHANGED <<calls, pending, durable>>,
           open' = IF Next1.by = NoTx THEN Manual ELSE Next1.by
    PROVE  LedgerInv'
<1>1. /\ TypeOK /\ UNCHANGED calls /\ NoTx \notin Txs /\ Manual \notin Txs /\ Manual # NoTx
      /\ Next1.by \in Txs \cup {NoTx} /\ pending = {}
    BY ConstantsAreDistinct, NextFacts DEF JInv, IInv, Call, LedgerInv, PendingOwned
<1>2. \A t : Began(t)' <=> Began(t) \/ Next1.by = t
    BY <1>1, AnsweredDid
<1>3. \A t : Committed(t)' <=> Committed(t)
    BY <1>1, AnsweredDid
<1>4. \A t : Applied(t)' = Applied(t)
    BY <1>1, AnsweredDid
<1>5. /\ Served' = Served \cup {Len(replies) + 1}
      /\ \A i \in Served : replies'[i] = replies[i]
    BY <1>1, AnsweredServed
<1>6. ManualOutside'
    <2>1. Len(replies') = Len(replies) + 1 /\ calls[Len(replies')] = Next1
        BY <1>1, ReplyFacts, NextFacts DEF JInv
    <2>2. QED
        BY <1>1, <2>1 DEF ManualOutside
<1>7. EffectsServed'
    <2> SUFFICES ASSUME NEW m \in durable
                 PROVE  \E i \in Served' : calls[i].op = "EXEC" /\ calls[i].stmt = m /\ replies'[i] = "ok"
        BY <1>1 DEF EffectsServed
    <2>1. QED
        BY <1>5 DEF JInv, LedgerInv, EffectsServed
<1>8. PendingOwned'
    <2>1. ASSUME NEW t \in Txs, open' = t
          PROVE  pending' = Applied(t)' /\ Began(t)' /\ ~Committed(t)'
        <3>1. Next1.by = t
            BY <1>1, <2>1
        <3>2. ~Committed(t) /\ Applied(t) = {}
            BY <3>1, NextBegin
        <3>3. QED
            BY <1>1, <1>2, <1>3, <1>4, <3>1, <3>2
    <2>2. QED
        BY <1>1, <2>1 DEF PendingOwned
<1>9. DurableOwned'
    <2>1. ASSUME NEW t \in Txs, Committed(t)'
          PROVE  Applied(t)' \subseteq durable'
        BY <1>3, <1>4, <2>1 DEF JInv, LedgerInv, DurableOwned
    <2>2. ASSUME ~AutoRollback, NEW t \in Txs, NEW i \in Served',
                 calls[i].op = "EXEC", calls[i].by = t, calls[i].stmt \in durable
          PROVE  Committed(t)'
        <3>1. i \in Served
            BY <1>5, <2>2, NextFacts DEF JInv
        <3>2. QED
            BY <1>3, <2>2, <3>1 DEF JInv, LedgerInv, DurableOwned
    <2>3. QED
        BY <1>1, <2>1, <2>2 DEF DurableOwned
<1>10. QED
    BY <1>6, <1>7, <1>8, <1>9 DEF LedgerInv

\* COMMIT makes durable what its own transaction has applied.
LEMMA CommitLedger ==
    ASSUME JInv, Waiting, Next1.op = "COMMIT", open # NoTx, Reply("ok"), UNCHANGED calls,
           durable' = durable \cup pending, open' = NoTx, pending' = {}
    PROVE  LedgerInv'
<1>1. TypeOK /\ NoTx \notin Txs /\ Manual \notin Txs /\ Manual # NoTx /\ open \in Txs \cup {Manual}
    BY ConstantsAreDistinct DEF JInv, IInv, TypeOK
<1>2. \A t : Committed(t)' <=> Committed(t) \/ Next1.by = t
    BY <1>1, AnsweredDid
<1>3. \A t : Applied(t)' = Applied(t)
    BY <1>1, AnsweredDid
<1>4. /\ Served' = Served \cup {Len(replies) + 1}
      /\ \A i \in Served : replies'[i] = replies[i]
    BY <1>1, AnsweredServed
<1>5. ManualOutside' /\ PendingOwned'
    BY <1>1 DEF ManualOutside, PendingOwned
<1>6. EffectsServed'
    <2> SUFFICES ASSUME NEW m \in pending \cup durable
                 PROVE  \E i \in Served' : calls[i].op = "EXEC" /\ calls[i].stmt = m /\ replies'[i] = "ok"
        BY DEF EffectsServed
    <2>1. QED
        BY <1>4 DEF JInv, LedgerInv, EffectsServed
<1>7. DurableOwned'
    <2>1. ASSUME NEW t \in Txs, Committed(t)'
          PROVE  Applied(t)' \subseteq durable'
        <3>1. CASE Committed(t)
            BY <1>3, <3>1 DEF JInv, LedgerInv, DurableOwned
        <3>2. CASE Next1.by = t
            <4>1. open = t
                BY <1>1, <3>2, NextOwner
            <4>2. QED
                BY <1>3, <4>1 DEF JInv, LedgerInv, PendingOwned
        <3>3. QED
            BY <1>2, <2>1, <3>1, <3>2
    <2>2. ASSUME ~AutoRollback, NEW t \in Txs, NEW i \in Served',
                 calls[i].op = "EXEC", calls[i].by = t, calls[i].stmt \in durable'
          PROVE  Committed(t)'
        <3>1. i \in Served
            BY <1>4, <2>2, NextFacts DEF JInv
        <3>2. CASE calls[i].stmt \in durable
            BY <1>2, <2>2, <3>1, <3>2 DEF JInv, LedgerInv, DurableOwned
        <3>3. CASE calls[i].stmt \in pending
            <4>1. open # Manual
                BY <1>1, <2>2, <3>1, <3>3 DEF JInv, LedgerInv, PendingOwned
            <4>2. open \in Txs /\ Next1.by = open
                BY <1>1, <4>1, NextOwner
            <4>3. PICK j \in Served : calls[j].op = "EXEC" /\ calls[j].by = open
                                        /\ calls[j].stmt = calls[i].stmt
                BY <3>3, <4>2 DEF JInv, LedgerInv, PendingOwned, Applied, Did
            <4>4. i = j
                BY <2>2, <3>1, <4>3, NextFacts DEF JInv, ScriptInv, EachOnce
            <4>5. QED
                BY <1>2, <2>2, <4>2, <4>3, <4>4
        <3>4. QED
            BY <2>2, <3>2, <3>3
    <2>3. QED
        BY <2>1, <2>2 DEF DurableOwned
<1>8. QED
    BY <1>5, <1>6, <1>7 DEF LedgerInv

-----------------------------------------------------------------------------
(* The invariant, one step per action. *)

\* The future that holds the connection, and where it stands.
LEMMA HolderFacts ==
    ASSUME JInv, NEW t \in Txs, phase[t] \in {"begin", "body", "commit", "rollback"}
    PROVE  holder = t /\ Stage(t) /\ outcome[t] = "none" /\ Len(calls) \in Nat
BY DEF JInv, IInv, CallerInv, HolderInv, ScriptInv, Progress, TypeOK

LEMMA JStep == JInv /\ [Next]_vars => JInv'
<1> SUFFICES ASSUME JInv, [Next]_vars
             PROVE  ScriptInv' /\ LedgerInv'
    BY InvStep DEF JInv
<1>0. /\ IInv /\ ScriptInv /\ LedgerInv /\ TypeOK
      /\ Len(calls) \in Nat /\ Len(replies) \in Nat
      /\ NoTx \notin Txs
    BY ConstantsAreDistinct DEF JInv, IInv, TypeOK
<1>1. ASSUME NEW m \in Stmts, Execute(m)
      PROVE  ScriptInv' /\ LedgerInv'
    BY <1>0, <1>1, SendScript DEF Execute, callerVars, Ops
<1>2. ASSUME NEW o \in {"BEGIN", "COMMIT", "ROLLBACK"}, ExecuteBatch(o)
      PROVE  ScriptInv' /\ LedgerInv'
    BY <1>0, <1>2, SendScript DEF ExecuteBatch, callerVars, Ops
<1>3. ASSUME NEW t \in Txs, Transaction(t)
      PROVE  ScriptInv' /\ LedgerInv'
    <2>1. /\ Send("BEGIN", t, NoStmt) /\ holder = NoTx /\ phase[t] = "new"
          /\ phase' = [phase EXCEPT ![t] = "begin"]
          /\ UNCHANGED outcome /\ UNCHANGED engineVars
        BY <1>3 DEF Transaction, SendAndAwait
    <2>2. QED
        BY <1>0, <2>1, SendScript DEF Ops
<1>4. ASSUME NEW t \in Txs, BeginSucceeds(t)
      PROVE  ScriptInv' /\ LedgerInv'
    <2>1. /\ UNCHANGED <<calls, replies, outcome>> /\ UNCHANGED engineVars
          /\ phase' = [phase EXCEPT ![t] = "body"]
        BY <1>4 DEF BeginSucceeds, engineVars
    <2>2. /\ Stage(t) /\ Answered(t) /\ Answer(t) = "ok" /\ outcome[t] = "none"
          /\ phase[t] = "begin"
        BY <1>4, HolderFacts DEF BeginSucceeds
    <2>3. /\ calls[Len(calls)].op = "BEGIN" /\ calls[Len(calls)].by = t
          /\ Len(calls) \in Served /\ replies[Len(calls)] = "ok" /\ Inside(Len(calls))
        BY <1>0, <2>2 DEF Stage, Answered, Answer, Served, Inside, TypeOK
    <2>4. Began(t)
        BY <2>3 DEF Began, Did
    <2>5. \A i : Inside(i)' <=> Inside(i)
        BY <2>1 DEF Inside
    <2>6. \A u : Began(u)' <=> Began(u)
        BY <2>1, SameDid
    <2>7. \A u : Committed(u)' <=> Committed(u)
        BY <2>1, SameDid
    <2>8. BodyFirst' /\ EachOnce'
        BY <1>0, <2>1, <2>5 DEF ScriptInv, BodyFirst, EachOnce
    <2>9. Progress'
        <3> SUFFICES ASSUME NEW u \in Txs
                     PROVE  /\ phase'[u] = "begin" =>
                                  \A i \in 1 .. Len(calls) : calls[i].by = u => i = Len(calls)
                            /\ phase'[u] = "body" =>
                                  \A i \in 1 .. Len(calls) : calls[i].by = u => Inside(i)'
                            /\ phase'[u] \in {"body", "commit", "rollback"} => Began(u)'
                            /\ outcome'[u] = "none" <=> phase'[u] # "over"
            BY <2>1 DEF Progress
        <3>1. CASE u = t
            <4>1. \A i \in 1 .. Len(calls) : calls[i].by = t => i = Len(calls)
                BY <1>0, <2>2 DEF ScriptInv, Progress
            <4>2. phase'[u] = "body" /\ outcome'[u] = "none"
                BY <1>0, <2>1, <2>2, <3>1 DEF TypeOK
            <4>3. QED
                BY <2>3, <2>4, <2>5, <2>6, <3>1, <4>1, <4>2
        <3>2. CASE u # t
            <4>1. phase'[u] = phase[u] /\ outcome'[u] = outcome[u]
                BY <1>0, <2>1, <3>2 DEF TypeOK
            <4>2. QED
                BY <1>0, <2>5, <2>6, <4>1 DEF ScriptInv, Progress
        <3>3. QED
            BY <3>1, <3>2
    <2>10. BegunFirst'
        BY <1>0, <2>1, <2>6 DEF ScriptInv, BegunFirst
    <2>11. ToldTruth'
        BY <1>0, <2>1, <2>7 DEF ScriptInv, ToldTruth
    <2>12. LedgerInv'
        BY <1>0, <2>1, LedgerSent
    <2>13. QED
        BY <2>8, <2>9, <2>10, <2>11, <2>12 DEF ScriptInv
<1>5. ASSUME NEW t \in Txs, BeginFails(t)
      PROVE  ScriptInv' /\ LedgerInv'
    <2>1. holder = t /\ Stage(t) /\ phase[t] = "begin" /\ Answered(t) /\ Finish(t, "error", TRUE)
        BY <1>5, HolderFacts DEF BeginFails
    <2>2. \A i \in 1 .. Len(calls) : calls[i].by = t => i = Len(calls)
        BY <1>0, <2>1 DEF ScriptInv, Progress
    <2>3. calls[Len(calls)].op = "BEGIN" /\ Len(calls) <= Len(replies)
        BY <2>1 DEF Stage, Answered
    <2>4. QED
        BY <1>0, <2>1, <2>2, <2>3, FinishScript
<1>6. ASSUME NEW t \in Txs, CommitReturns(t)
      PROVE  ScriptInv' /\ LedgerInv'
    <2>1. holder = t /\ Stage(t) /\ phase[t] = "commit" /\ Answered(t)
        BY <1>6, HolderFacts DEF CommitReturns
    <2>2. /\ calls[Len(calls)].op = "COMMIT" /\ calls[Len(calls)].by = t
          /\ Len(calls) \in Served /\ Len(calls) \in 1 .. Len(calls)
          /\ Answer(t) = replies[Len(calls)]
        BY <1>0, <2>1 DEF Stage, Answered, Answer, Served, TypeOK
    <2>3. Began(t)
        BY <1>0, <2>1 DEF ScriptInv, Progress
    <2>4. CASE Answer(t) = "ok"
        <3>1. Committed(t)
            BY <2>2, <2>4 DEF Committed, Did
        <3>2. Finish(t, "ok", TRUE)
            BY <1>6, <2>4 DEF CommitReturns
        <3>3. QED
            BY <1>0, <2>1, <3>1, <3>2, FinishScript
    <2>5. CASE Answer(t) # "ok"
        <3>0. Finish(t, "error", FALSE)
            BY <1>6, <2>5 DEF CommitReturns
        <3>1. replies[Len(calls)] = "error"
            BY <1>0, <2>2, <2>5 DEF TypeOK, Served
        <3>2. \A i \in 1 .. Len(calls) : (calls[i].by = t /\ i # Len(calls)) => Inside(i)
            BY <1>0, <2>1, <2>2 DEF ScriptInv, BodyFirst
        <3>3. \A i \in 1 .. Len(calls) :
                 /\ (calls[i].by = t /\ calls[i].op = "BEGIN") => i <= Len(replies)
                 /\ (calls[i].by = t /\ calls[i].op = "COMMIT")
                      => i <= Len(replies) /\ replies[i] = "error"
            BY <2>2, <3>1, <3>2 DEF Inside, Served
        <3>4. QED
            BY <1>0, <2>1, <2>3, <3>0, <3>3, FinishScript
    <2>6. QED
        BY <2>4, <2>5
<1>7. ASSUME NEW t \in Txs, RollbackReturns(t)
      PROVE  ScriptInv' /\ LedgerInv'
    <2>1. /\ holder = t /\ Stage(t) /\ phase[t] = "rollback"
          /\ Finish(t, "error", Answer(t) = "ok") /\ (Answer(t) = "ok") \in BOOLEAN
        BY <1>7, HolderFacts DEF RollbackReturns
    <2>2. Began(t)
        BY <1>0, <2>1 DEF ScriptInv, Progress
    <2>3. calls[Len(calls)].op = "ROLLBACK" /\ calls[Len(calls)].by = t /\ Len(calls) \in 1 .. Len(calls)
        BY <1>0, <2>1 DEF Stage
    <2>4. \A i \in 1 .. Len(calls) : (calls[i].by = t /\ i # Len(calls)) => Inside(i)
        BY <1>0, <2>3 DEF ScriptInv, BodyFirst
    <2>5. \A i \in 1 .. Len(calls) :
             /\ (calls[i].by = t /\ calls[i].op = "BEGIN") => i <= Len(replies)
             /\ (calls[i].by = t /\ calls[i].op = "COMMIT")
                  => i <= Len(replies) /\ replies[i] = "error"
        BY <2>3, <2>4 DEF Inside
    <2>6. QED
        BY <1>0, <2>1, <2>2, <2>5, FinishScript
<1>8. ASSUME NEW t \in Txs, NEW m \in Stmts, ExecuteInTransaction(t, m)
      PROVE  ScriptInv' /\ LedgerInv'
    <2>1. /\ Send("EXEC", t, m) /\ phase[t] = "body" /\ Unused(m)
          /\ UNCHANGED <<phase, outcome>> /\ UNCHANGED engineVars
        BY <1>8 DEF ExecuteInTransaction, callerVars
    <2>2. holder = t
        BY <2>1, HolderFacts
    <2>3. QED
        BY <1>0, <2>1, <2>2, SendScript DEF Ops
<1>9. ASSUME NEW t \in Txs, NEW o \in {"COMMIT", "ROLLBACK"}, NEW n \in {"commit", "rollback"},
             BodyReturns(t, o, n)
      PROVE  ScriptInv' /\ LedgerInv'
    <2>1. /\ Send(o, t, NoStmt) /\ phase[t] = "body"
          /\ phase' = [phase EXCEPT ![t] = n]
          /\ UNCHANGED outcome /\ UNCHANGED engineVars
        BY <1>9 DEF BodyReturns, SendAndAwait
    <2>2. holder = t
        BY <2>1, HolderFacts
    <2>3. QED
        BY <1>0, <2>1, <2>2, SendScript DEF Ops
<1>10. ASSUME NEW t \in Txs, Cancel(t)
       PROVE  ScriptInv' /\ LedgerInv'
    <2>1. holder = t /\ Finish(t, "cancelled", FALSE)
        BY <1>10, HolderFacts DEF Cancel, Stage
    <2>2. QED
        BY <1>0, <2>1, FinishScript
<1>11. ASSUME ServeStatement
       PROVE  ScriptInv' /\ LedgerInv'
    <2>1. Waiting /\ ~closed /\ Next1.op = "EXEC" /\ UNCHANGED <<callerVars, calls>>
        BY <1>11 DEF ServeStatement
    <2>2. PICK r \in {"ok", "error"} : Reply(r)
        BY <1>11 DEF ServeStatement, NoEffect
    <2>3. ScriptInv'
        BY <1>0, <2>1, <2>2, ScriptServe
    <2>4. CASE /\ Reply("ok") /\ UNCHANGED open
               /\ IF open = NoTx
                    THEN durable' = durable \cup {Next1.stmt} /\ UNCHANGED pending
                    ELSE pending' = pending \cup {Next1.stmt} /\ UNCHANGED durable
        BY <2>1, <2>3, <2>4, StatementLedger
    <2>5. CASE /\ Reply("error") /\ UNCHANGED durable
               /\ UNCHANGED <<open, pending>> \/ (open' = NoTx /\ pending' = {})
        BY <2>1, <2>3, <2>5, QuietLedger
    <2>6. QED
        BY <1>11, <2>4, <2>5 DEF ServeStatement, NoEffect, Discard
<1>12. ASSUME ServeBegin
       PROVE  ScriptInv' /\ LedgerInv'
    <2>1. Waiting /\ Next1.op = "BEGIN" /\ UNCHANGED <<callerVars, calls>>
        BY <1>12 DEF ServeBegin
    <2>2. PICK r \in {"ok", "error"} : Reply(r)
        BY <1>12 DEF ServeBegin, NoEffect
    <2>3. ScriptInv'
        BY <1>0, <2>1, <2>2, ScriptServe
    <2>4. CASE open = NoTx
        <3>1. /\ Reply("ok") /\ UNCHANGED <<pending, durable>>
              /\ open' = IF Next1.by = NoTx THEN Manual ELSE Next1.by
            BY <1>12, <2>4 DEF ServeBegin
        <3>2. QED
            BY <2>1, <2>3, <2>4, <3>1, BeginLedger
    <2>5. CASE open # NoTx
        <3>1. Reply("error") /\ UNCHANGED <<open, pending, durable>>
            BY <1>12, <2>5 DEF ServeBegin, NoEffect
        <3>2. QED
            BY <2>1, <2>3, <3>1, QuietLedger
    <2>6. QED
        BY <2>4, <2>5
<1>13. ASSUME ServeCommit
       PROVE  ScriptInv' /\ LedgerInv'
    <2>1. Waiting /\ Next1.op = "COMMIT" /\ UNCHANGED <<callerVars, calls>>
        BY <1>13 DEF ServeCommit
    <2>2. PICK r \in {"ok", "error"} : Reply(r)
        BY <1>13 DEF ServeCommit, NoEffect
    <2>3. ScriptInv'
        BY <1>0, <2>1, <2>2, ScriptServe
    <2>4. CASE /\ open # NoTx /\ Reply("ok") /\ durable' = durable \cup pending
               /\ open' = NoTx /\ pending' = {}
        BY <2>1, <2>3, <2>4, CommitLedger
    <2>5. CASE /\ Reply("error") /\ UNCHANGED durable
               /\ UNCHANGED <<open, pending>> \/ (open' = NoTx /\ pending' = {})
        BY <2>1, <2>3, <2>5, QuietLedger
    <2>6. QED
        BY <1>13, <2>4, <2>5 DEF ServeCommit, NoEffect, Discard
<1>14. ASSUME ServeRollback
       PROVE  ScriptInv' /\ LedgerInv'
    <2>1. Waiting /\ Next1.op \in {"ROLLBACK", "GUARD"} /\ UNCHANGED <<callerVars, calls>>
        BY <1>14 DEF ServeRollback
    <2>2. PICK r \in {"ok", "error"} :
             /\ Reply(r) /\ UNCHANGED durable
             /\ (r = "error" /\ UNCHANGED <<open, pending>>) \/ (open' = NoTx /\ pending' = {})
             /\ Next1.op = "GUARD" => open' = NoTx
        BY <1>14 DEF ServeRollback, NoEffect, Discard
    <2>3. QED
        BY <1>0, <2>1, <2>2, ScriptServe, QuietLedger
<1>15. ASSUME ServeClosed
       PROVE  ScriptInv' /\ LedgerInv'
    <2>1. /\ Waiting /\ Reply("error") /\ UNCHANGED <<open, pending, durable>>
          /\ UNCHANGED <<callerVars, calls>> /\ open' = NoTx
        BY <1>0, <1>15 DEF ServeClosed, NoEffect, IInv, EngineInv
    <2>2. QED
        BY <1>0, <2>1, ScriptServe, QuietLedger
<1>16. ASSUME CloseDatabase
       PROVE  ScriptInv' /\ LedgerInv'
    <2>1. /\ UNCHANGED <<calls, replies, phase, outcome, durable>>
          /\ open' = NoTx /\ pending' = {}
        BY <1>16 DEF CloseDatabase, Discard, callerVars
    <2>2. Served' = Served
        BY <2>1, SameDid
    <2>3. \A t : Began(t)' <=> Began(t)
        BY <2>1, SameDid
    <2>4. \A t : Committed(t)' <=> Committed(t)
        BY <2>1, SameDid
    <2>5. \A t : Applied(t)' = Applied(t)
        BY <2>1, SameDid
    <2>6. BodyFirst' /\ EachOnce'
        BY <1>0, <2>1 DEF ScriptInv, BodyFirst, EachOnce, Inside
    <2>7. Progress'
        BY <1>0, <2>1, <2>3 DEF ScriptInv, Progress, Inside
    <2>8. BegunFirst'
        BY <1>0, <2>1, <2>3 DEF ScriptInv, BegunFirst
    <2>9. ToldTruth'
        BY <1>0, <2>1, <2>4 DEF ScriptInv, ToldTruth
    <2>10. ManualOutside' /\ PendingOwned'
        BY <1>0, <2>1, ConstantsAreDistinct DEF ManualOutside, PendingOwned
    <2>11. EffectsServed'
        BY <1>0, <2>1, <2>2 DEF LedgerInv, EffectsServed
    <2>12. DurableOwned'
        <3>1. \A t \in Txs : Committed(t)' => Applied(t)' \subseteq durable'
            BY <1>0, <2>1, <2>4, <2>5 DEF LedgerInv, DurableOwned
        <3>2. ASSUME ~AutoRollback, NEW t \in Txs, NEW i \in Served,
                     calls[i].op = "EXEC", calls[i].by = t, calls[i].stmt \in durable
              PROVE  Committed(t)'
            BY <1>0, <2>4, <3>2 DEF LedgerInv, DurableOwned
        <3>3. QED
            BY <2>1, <2>2, <3>1, <3>2 DEF DurableOwned
    <2>13. QED
        BY <2>6, <2>7, <2>8, <2>9, <2>10, <2>11, <2>12 DEF ScriptInv, LedgerInv
<1>17. CASE UNCHANGED vars
    <2>1. UNCHANGED <<phase, outcome, calls, replies>> /\ UNCHANGED engineVars
        BY <1>17 DEF vars, engineVars
    <2>2. \A t : Began(t)' <=> Began(t)
        BY <2>1, SameDid
    <2>3. \A t : Committed(t)' <=> Committed(t)
        BY <2>1, SameDid
    <2>4. BodyFirst' /\ EachOnce'
        BY <1>0, <2>1 DEF ScriptInv, BodyFirst, EachOnce, Inside
    <2>5. Progress'
        BY <1>0, <2>1, <2>2 DEF ScriptInv, Progress, Inside
    <2>6. BegunFirst'
        BY <1>0, <2>1, <2>2 DEF ScriptInv, BegunFirst
    <2>7. ToldTruth'
        BY <1>0, <2>1, <2>3 DEF ScriptInv, ToldTruth
    <2>8. LedgerInv'
        BY <1>0, <2>1, LedgerSent
    <2>9. QED
        BY <2>4, <2>5, <2>6, <2>7, <2>8 DEF ScriptInv
<1>18. QED
    BY <1>1, <1>2, <1>3, <1>4, <1>5, <1>6, <1>7, <1>8, <1>9, <1>10, <1>11, <1>12, <1>13,
       <1>14, <1>15, <1>16, <1>17
       DEF Next, Resume, Worker, BodyReturnsOk, BodyReturnsErr

-----------------------------------------------------------------------------
(* What the callers rely on. *)

LEMMA Invariance == Spec => []JInv
BY JInit, JStep, PTL DEF Spec

LEMMA JImpliesAllOrNothing == JInv /\ ~AutoRollback => AllOrNothing
<1> SUFFICES ASSUME JInv, ~AutoRollback, NEW t \in Txs
             PROVE  Submitted(t) \cap durable = IF Committed(t) THEN Applied(t) ELSE {}
    BY DEF AllOrNothing
<1>1. TypeOK /\ EachOnce /\ EffectsServed /\ DurableOwned /\ DOMAIN calls = 1 .. Len(calls)
    BY DEF JInv, IInv, ScriptInv, LedgerInv, TypeOK
<1>2. ASSUME NEW m \in Submitted(t) \cap durable
      PROVE  Committed(t) /\ m \in Applied(t)
    <2>1. PICK i \in 1 .. Len(calls) : calls[i].op = "EXEC" /\ calls[i].by = t /\ calls[i].stmt = m
        BY <1>1 DEF Submitted
    <2>2. i \in Served /\ m \in Applied(t)
        BY <1>1, <2>1, HeldIsApplied
    <2>3. QED
        BY <1>1, <2>1, <2>2 DEF DurableOwned
<1>3. Applied(t) \subseteq Submitted(t)
    BY <1>1 DEF Applied, Submitted, Did, Served, TypeOK
<1>4. Committed(t) => Applied(t) \subseteq durable
    BY <1>1 DEF DurableOwned
<1>5. QED
    BY <1>2, <1>3, <1>4

\* All the statements of a transaction that succeeded are durable once, and only if, its own
\* COMMIT succeeded; provided that no failing statement ends a transaction by itself.
THEOREM Atomicity == ASSUME ~AutoRollback PROVE Spec => []AllOrNothing
<1>1. JInv => AllOrNothing
    BY JImpliesAllOrNothing
<1>2. QED
    BY <1>1, Invariance, PTL

\* transaction() returning Ok means that everything its body applied is durable: whatever
\* other callers did, whoever closed the database and whatever SQLite rolled back by itself.
THEOREM Durability == Spec => []OkMeansDurable
<1>1. JInv => OkMeansDurable
    BY DEF JInv, ScriptInv, LedgerInv, ToldTruth, DurableOwned, OkMeansDurable
<1>2. QED
    BY <1>1, Invariance, PTL

LEMMA JImpliesNotCommitted ==
    ASSUME JInv, NEW t \in Txs, outcome[t] = "error"
    PROVE  ~Committed(t)
BY DEF JInv, IInv, TypeOK, ScriptInv, ToldTruth, Committed, Did, Served

\* transaction() returning Err means that nothing of its body is durable, under the same
\* proviso as Atomicity.
THEOREM Refusal == ASSUME ~AutoRollback PROVE Spec => []ErrorMeansNothing
<1>1. JInv => ErrorMeansNothing
    BY JImpliesAllOrNothing, JImpliesNotCommitted DEF AllOrNothing, ErrorMeansNothing
<1>2. QED
    BY <1>1, Invariance, PTL

\* What a rollback that works finds open: its sender's own transaction, or the manual one
\* for which the BEGIN was refused of a caller that was gone by then.
LEMMA RollsBackOwn ==
    ASSUME JInv, [Next]_vars, NEW t \in Txs, RollsBack(t)
    PROVE  open = t \/ (open = Manual /\ RefusedUnheard(t))
<1>1. /\ TypeOK /\ IInv /\ Len(replies) \in Nat
      /\ Waiting /\ Next1.op \in {"ROLLBACK", "GUARD"} /\ Next1.by = t /\ Reply("ok")
    BY DEF RollsBack, JInv, IInv, TypeOK
<1>2. Len(replies') = Len(replies) + 1 /\ replies'[Len(replies) + 1] = "ok"
    BY <1>1, ReplyFacts
<1>3. open # NoTx
    <2>1. replies' # replies
        BY <1>1, <1>2
    <2>2. ServeRollback \/ ServeClosed
        BY <1>1, <2>1
           DEF Next, vars, engineVars, Worker, Resume, Execute, ExecuteBatch, Transaction,
               BeginSucceeds, BeginFails, CommitReturns, RollbackReturns, Finish,
               ExecuteInTransaction, BodyReturnsOk, BodyReturnsErr, BodyReturns, Cancel,
               ServeStatement, ServeBegin, ServeCommit, CloseDatabase
    <2>3. ~Reply("error")
        BY <1>1 DEF Reply, TypeOK
    <2>4. QED
        BY <2>2, <2>3 DEF ServeRollback, ServeClosed, NoEffect
<1>4. CASE open \in Txs
    BY <1>1, <1>4, InvImpliesIsolation DEF IsolationInv
<1>5. CASE open = Manual
    <2>1. Next1.op = "GUARD"
        BY <1>1, <1>5, NextInside
    <2>2. /\ Len(replies) + 1 \in 1 .. Len(calls) /\ Len(calls) \in Nat
          /\ calls[Len(replies) + 1].by = t /\ calls[Len(replies) + 1].op = "GUARD"
        BY <1>1, <2>1, NextFacts
    <2>3. Len(replies) > 0 /\ calls[Len(replies)].by = t
        BY <1>1, <2>2 DEF IInv, ChannelInv, Contiguous
    <2>4. calls[Len(replies)].op = "BEGIN" /\ replies[Len(replies)] = "error"
        BY <1>5, <2>3 DEF JInv, LedgerInv, ManualOutside
    <2>5. Len(replies) \in Did(t, "BEGIN", "error")
        BY <1>1, <2>3, <2>4 DEF Did, Served
    <2>6. ~Began(t)
        <3> SUFFICES ASSUME NEW i \in Served, calls[i].op = "BEGIN", calls[i].by = t,
                            replies[i] = "ok"
                     PROVE  FALSE
            BY DEF Began, Did
        <3>1. i \in 1 .. Len(calls) /\ i < Len(replies) /\ Len(replies) \in 1 .. Len(calls)
            BY <1>1, <2>2, <2>4 DEF Served
        <3>2. QED
            BY <2>3, <2>4, <3>1 DEF JInv, ScriptInv, BodyFirst
    <2>7. outcome[t] = "cancelled"
        BY <2>2, <2>6 DEF JInv, ScriptInv, BegunFirst
    <2>8. QED
        BY <1>5, <2>5, <2>7 DEF RefusedUnheard
<1>6. QED
    BY <1>1, <1>3, <1>4, <1>5 DEF TypeOK

\* A rollback sent for a transaction ends that one: no guard, however late, ends another
\* invocation's, and only that of a caller dropped before a refused BEGIN answered ends a
\* manual one.
THEOREM Rollbacks == Spec => RollbackEndsOwn
<1> DEFINE Own == \A t \in Txs : RollsBack(t) => open = t \/ (open = Manual /\ RefusedUnheard(t))
<1>1. JInv /\ [Next]_vars => [Own]_vars
    BY RollsBackOwn
<1>2. QED
    BY <1>1, Invariance, PTL DEF Spec, RollbackEndsOwn

-----------------------------------------------------------------------------
(***************************************************************************)
(* SqliteSession implements AtomicTransactions, for any number of          *)
(* transactions, statements and manual control statements, provided that   *)
(* no failing statement ends a transaction by itself.                      *)
(*                                                                         *)
(* Under the mapping of SqliteSession only the worker changes the state of *)
(* a transaction: an answered BEGIN is Begin, an answered statement Write  *)
(* or Plain, COMMIT is Commit (or Plain for a manual transaction), and     *)
(* whatever rolls back is Abort.  The end of a transaction's future is     *)
(* Tell, and every other step of a caller changes nothing.                 *)
(***************************************************************************)

\* The four states of a transaction, now and after a step: the cases of Status exclude each
\* other because a committed transaction is no longer open.
LEMMA StatusIs ==
    ASSUME NEW t, open = t => ~Committed(t)
    PROVE  Status(t) = IF Committed(t) THEN "committed"
                       ELSE IF open = t THEN "active"
                       ELSE IF Began(t) THEN "aborted" ELSE "idle"
<1>1. CASE Committed(t)
    BY <1>1 DEF Status
<1>2. CASE ~Committed(t) /\ open = t
    BY <1>2 DEF Status
<1>3. CASE ~Committed(t) /\ open # t /\ Began(t)
    BY <1>3 DEF Status
<1>4. CASE ~Committed(t) /\ open # t /\ ~Began(t)
    BY <1>4 DEF Status
<1>5. QED
    BY <1>1, <1>2, <1>3, <1>4

LEMMA StatusNextIs ==
    ASSUME NEW t, open' = t => ~Committed(t)'
    PROVE  Status(t)' = IF Committed(t)' THEN "committed"
                        ELSE IF open' = t THEN "active"
                        ELSE IF Began(t)' THEN "aborted" ELSE "idle"
<1>1. CASE Committed(t)'
    BY <1>1 DEF Status
<1>2. CASE ~Committed(t)' /\ open' = t
    BY <1>2 DEF Status
<1>3. CASE ~Committed(t)' /\ open' # t /\ Began(t)'
    BY <1>3 DEF Status
<1>4. CASE ~Committed(t)' /\ open' # t /\ ~Began(t)'
    BY <1>4 DEF Status
<1>5. QED
    BY <1>1, <1>2, <1>3, <1>4

-----------------------------------------------------------------------------
(* The abstract steps, in terms of the mapping. *)

LEMMA IsStutter ==
    ASSUME \A t \in Txs : Status(t)' = Status(t), \A t \in Txs : Applied(t)' = Applied(t),
           UNCHANGED <<durable, outcome>>
    PROVE  UNCHANGED Atomic!vars
BY DEF Atomic!vars

LEMMA IsBegin ==
    ASSUME NEW t \in Txs, Status(t) = "idle", \A u \in Txs : Status(u) # "active",
           outcome[t] # "error", Status(t)' = "active",
           \A u \in Txs \ {t} : Status(u)' = Status(u),
           \A u \in Txs : Applied(u)' = Applied(u), UNCHANGED <<durable, outcome>>
    PROVE  Atomic!Begin(t)
BY DEF Atomic!Begin, Atomic!NoneActive

LEMMA IsWrite ==
    ASSUME NEW t \in Txs, NEW m, Status(t) = "active", m \notin durable,
           \A u \in Txs : m \notin Applied(u),
           \A u \in Txs : Status(u)' = Status(u),
           Applied(t)' = Applied(t) \cup {m},
           \A u \in Txs \ {t} : Applied(u)' = Applied(u), UNCHANGED <<durable, outcome>>
    PROVE  Atomic!Write(t, m)
BY DEF Atomic!Write

LEMMA IsCommit ==
    ASSUME NEW t \in Txs, Status(t) = "active", outcome[t] # "error",
           Status(t)' = "committed", \A u \in Txs \ {t} : Status(u)' = Status(u),
           \A u \in Txs : Applied(u)' = Applied(u),
           durable' = durable \cup Applied(t), UNCHANGED outcome
    PROVE  Atomic!Commit(t)
BY DEF Atomic!Commit

LEMMA IsAbort ==
    ASSUME NEW t \in Txs, Status(t) = "active",
           Status(t)' = "aborted", \A u \in Txs \ {t} : Status(u)' = Status(u),
           \A u \in Txs : Applied(u)' = Applied(u), UNCHANGED <<durable, outcome>>
    PROVE  Atomic!Abort(t)
BY DEF Atomic!Abort

LEMMA IsTell ==
    ASSUME NEW t \in Txs, NEW r, outcome[t] = "none",
           r = "ok" => Status(t) = "committed", r = "error" => Status(t) # "committed",
           outcome' = [outcome EXCEPT ![t] = r],
           \A u \in Txs : Status(u)' = Status(u), \A u \in Txs : Applied(u)' = Applied(u),
           UNCHANGED durable
    PROVE  Atomic!Tell(t, r)
BY DEF Atomic!Tell

LEMMA IsPlain ==
    ASSUME NEW S, \A u \in Txs : Status(u) # "active", \A u \in Txs : S \cap Applied(u) = {},
           durable' = durable \cup S,
           \A u \in Txs : Status(u)' = Status(u), \A u \in Txs : Applied(u)' = Applied(u),
           UNCHANGED outcome
    PROVE  Atomic!Plain(S)
BY DEF Atomic!Plain, Atomic!NoneActive

LEMMA RefinesInit == Init => Atomic!Init
<1> SUFFICES ASSUME Init
             PROVE  Atomic!Init
    OBVIOUS
<1>1. Served = {} /\ open = NoTx /\ durable = {} /\ outcome = [t \in Txs |-> "none"]
    BY DEF Init, Served
<1>2. ASSUME NEW t \in Txs
      PROVE  Status(t) = "idle" /\ Applied(t) = {}
    <2>1. Applied(t) = {} /\ ~Began(t) /\ ~Committed(t)
        BY <1>1 DEF Applied, Began, Committed, Did
    <2>2. open # t
        BY <1>1, ConstantsAreDistinct
    <2>3. QED
        BY <2>1, <2>2, StatusIs
<1>3. QED
    BY <1>1, <1>2 DEF Atomic!Init

-----------------------------------------------------------------------------
(* Every step is an abstract step or changes nothing. *)

LEMMA ActiveIsOpen ==
    ASSUME JInv, NEW t \in Txs
    PROVE  /\ Status(t) = "active" <=> open = t
           /\ Status(t) = "committed" <=> Committed(t)
<1>1. open = t => ~Committed(t)
    BY DEF JInv, LedgerInv, PendingOwned
<1>2. QED
    BY <1>1, StatusIs

LEMMA StatusKept ==
    ASSUME JInv, JInv', NEW t \in Txs, Committed(t)' <=> Committed(t), Began(t)' <=> Began(t),
           open' = t <=> open = t
    PROVE  Status(t)' = Status(t)
<1>1. (open = t => ~Committed(t)) /\ (open' = t => ~Committed(t)')
    BY DEF JInv, LedgerInv, PendingOwned
<1>2. QED
    BY <1>1, StatusIs, StatusNextIs

\* A step that commits nothing and applies nothing at most ends the transaction in progress.
LEMMA KeepsOrAborts ==
    ASSUME JInv, JInv', UNCHANGED <<durable, outcome>>, open' = open \/ open' = NoTx,
           \A t \in Txs : Began(t)' <=> Began(t),
           \A t \in Txs : Committed(t)' <=> Committed(t),
           \A t \in Txs : Applied(t)' = Applied(t)
    PROVE  Atomic!Next \/ UNCHANGED Atomic!vars
<1>1. CASE open' = open \/ open \notin Txs
    <2>1. \A t \in Txs : open' = t <=> open = t
        BY <1>1, ConstantsAreDistinct
    <2>2. \A t \in Txs : Status(t)' = Status(t)
        BY <2>1, StatusKept
    <2>3. QED
        BY <2>2, IsStutter
<1>2. CASE open' = NoTx /\ open \in Txs
    <2>1. Status(open) = "active"
        BY <1>2, ActiveIsOpen
    <2>2. PICK t \in Txs : t = open
        BY <1>2
    <2>3. Began(t) /\ ~Committed(t)
        BY <2>2 DEF JInv, LedgerInv, PendingOwned
    <2>4. Status(t)' = "aborted"
        <3>1. open' # t /\ Began(t)' /\ ~Committed(t)'
            BY <1>2, <2>3, ConstantsAreDistinct
        <3>2. QED
            BY <3>1, StatusNextIs
    <2>5. ASSUME NEW u \in Txs \ {t}
          PROVE  Status(u)' = Status(u)
        <3>1. open' # u /\ open # u
            BY <1>2, <2>2, ConstantsAreDistinct
        <3>2. QED
            BY <3>1, StatusKept
    <2>6. Atomic!Abort(t)
        BY <2>1, <2>2, <2>4, <2>5, IsAbort
    <2>7. QED
        BY <2>6 DEF Atomic!Next
<1>3. QED
    BY <1>1, <1>2

\* A call is sent and no answer given.
LEMMA SentIsStutter ==
    ASSUME JInv, JInv', UNCHANGED engineVars, UNCHANGED outcome,
           \A i \in Served : calls'[i] = calls[i]
    PROVE  UNCHANGED Atomic!vars
<1>1. UNCHANGED <<replies, open, durable>>
    BY DEF engineVars
<1>2. \A t \in Txs : Status(t)' = Status(t)
    BY <1>1, SameDid, StatusKept
<1>3. \A t \in Txs : Applied(t)' = Applied(t)
    BY <1>1, SameDid
<1>4. QED
    BY <1>1, <1>2, <1>3, IsStutter

\* What a caller is told is true.
LEMMA FinishIsTell ==
    ASSUME JInv, JInv', NEW t \in Txs, NEW r \in {"ok", "error", "cancelled"}, NEW f \in BOOLEAN,
           Finish(t, r, f), outcome[t] = "none"
    PROVE  Atomic!Tell(t, r)
<1>1. UNCHANGED <<replies, open, durable>> /\ outcome' = [outcome EXCEPT ![t] = r]
    BY DEF Finish, engineVars
<1>2. \A i \in Served : calls'[i] = calls[i]
    <2>1. CASE f
        BY <2>1 DEF Finish, DropTransaction
    <2>2. CASE ~f
        <3>1. Send("GUARD", t, NoStmt) /\ Served \subseteq 1 .. Len(calls) /\ TypeOK
            BY <2>2 DEF Finish, DropTransaction, Served, JInv, IInv, TypeOK
        <3>2. QED
            BY <3>1, SendFacts DEF Ops
    <2>3. QED
        BY <2>1, <2>2
<1>3. \A u \in Txs : Status(u)' = Status(u)
    BY <1>1, <1>2, SameDid, StatusKept
<1>4. \A u \in Txs : Applied(u)' = Applied(u)
    BY <1>1, <1>2, SameDid
<1>5. outcome'[t] = r
    BY <1>1 DEF JInv, IInv, TypeOK
<1>6. \A u \in Txs : Committed(u)' <=> Committed(u)
    BY <1>1, <1>2, SameDid
<1>7. r = "ok" => Committed(t)
    BY <1>5, <1>6 DEF JInv, ScriptInv, ToldTruth
<1>8. r = "error" => ~Committed(t)
    <2>1. r = "error" => ~Committed(t)'
        <3> SUFFICES ASSUME r = "error", Committed(t)'
                     PROVE  FALSE
            OBVIOUS
        <3>1. PICK i \in Served' : calls'[i].op = "COMMIT" /\ calls'[i].by = t /\ replies'[i] = "ok"
            BY DEF Committed, Did
        <3>2. i \in 1 .. Len(calls')
            BY <3>1 DEF Served, JInv, IInv, TypeOK
        <3>3. QED
            BY <1>5, <3>1, <3>2 DEF JInv, ScriptInv, ToldTruth
    <2>2. QED
        BY <1>6, <2>1
<1>9. QED
    BY <1>1, <1>3, <1>4, <1>7, <1>8, ActiveIsOpen, IsTell

LEMMA RefinesStep ==
    ASSUME ~AutoRollback, JInv, JInv', [Next]_vars
    PROVE  Atomic!Next \/ UNCHANGED Atomic!vars
<1>0. /\ TypeOK /\ IInv /\ ScriptInv /\ LedgerInv
      /\ Len(calls) \in Nat /\ Len(replies) \in Nat /\ Served \subseteq 1 .. Len(calls)
      /\ NoTx \notin Txs /\ Manual \notin Txs /\ Manual # NoTx
    BY ConstantsAreDistinct DEF JInv, IInv, TypeOK, Served
<1>1. ASSUME NEW o \in Ops, NEW b \in Txs \cup {NoTx}, NEW m,
             m \in IF o = "EXEC" THEN Stmts ELSE {NoStmt},
             Send(o, b, m), UNCHANGED engineVars, UNCHANGED outcome
      PROVE  UNCHANGED Atomic!vars
    <2>1. \A i \in Served : calls'[i] = calls[i]
        BY <1>0, <1>1, SendFacts
    <2>2. QED
        BY <1>1, <2>1, SentIsStutter
<1>2. ASSUME NEW t \in Txs, NEW r \in {"ok", "error", "cancelled"}, NEW f \in BOOLEAN,
             Finish(t, r, f), phase[t] \in {"begin", "body", "commit", "rollback"}
      PROVE  Atomic!Next
    <2>1. Atomic!Tell(t, r)
        BY <1>2, HolderFacts, FinishIsTell
    <2>2. QED
        BY <2>1 DEF Atomic!Next
<1>3. ASSUME NEW t \in Txs, Resume(t) \/ Cancel(t)
      PROVE  Atomic!Next \/ UNCHANGED Atomic!vars
    <2>1. CASE BeginSucceeds(t)
        BY <2>1, SentIsStutter DEF BeginSucceeds
    <2>2. CASE BeginFails(t)
        BY <1>2, <2>2 DEF BeginFails
    <2>3. CASE CommitReturns(t)
        BY <1>2, <2>3 DEF CommitReturns
    <2>4. CASE RollbackReturns(t)
        <3>1. Finish(t, "error", Answer(t) = "ok") /\ (Answer(t) = "ok") \in BOOLEAN
                /\ phase[t] = "rollback"
            BY <2>4 DEF RollbackReturns
        <3>2. QED
            BY <1>2, <3>1
    <2>5. CASE Cancel(t)
        <3>1. Finish(t, "cancelled", finalized[t]) /\ finalized[t] \in BOOLEAN
            BY <1>0, <2>5 DEF Cancel, TypeOK
        <3>2. QED
            BY <1>2, <2>5, <3>1 DEF Cancel
    <2>6. QED
        BY <1>3, <2>1, <2>2, <2>3, <2>4, <2>5 DEF Resume
\* The worker refuses the call, or rolls back.
<1>4. ASSUME Waiting, NEW r \in {"ok", "error"}, Reply(r), UNCHANGED <<callerVars, calls, durable>>,
             r = "error" \/ Next1.op \in {"ROLLBACK", "GUARD"}, open' = open \/ open' = NoTx
      PROVE  Atomic!Next \/ UNCHANGED Atomic!vars
    <2>1. UNCHANGED <<calls, outcome, durable>>
        BY <1>4 DEF callerVars
    <2>2. \A t \in Txs : Began(t)' <=> Began(t)
        BY <1>0, <1>4, <2>1, AnsweredDid
    <2>3. \A t \in Txs : Committed(t)' <=> Committed(t)
        BY <1>0, <1>4, <2>1, AnsweredDid
    <2>4. \A t \in Txs : Applied(t)' = Applied(t)
        BY <1>0, <1>4, <2>1, AnsweredDid
    <2>5. QED
        BY <1>4, <2>1, <2>2, <2>3, <2>4, KeepsOrAborts
<1>5. ASSUME ServeStatement
      PROVE  Atomic!Next \/ UNCHANGED Atomic!vars
    <2>1. /\ Waiting /\ ~closed /\ Next1.op = "EXEC" /\ UNCHANGED <<callerVars, calls>>
          /\ UNCHANGED open /\ UNCHANGED <<calls, outcome>>
        BY <1>5 DEF ServeStatement, NoEffect, callerVars
    <2>2. CASE Reply("error") /\ UNCHANGED durable
        BY <1>4, <2>1, <2>2
    <2>3. CASE /\ Reply("ok")
               /\ IF open = NoTx
                    THEN durable' = durable \cup {Next1.stmt} /\ UNCHANGED pending
                    ELSE pending' = pending \cup {Next1.stmt} /\ UNCHANGED durable
        <3>1. \A t \in Txs : Status(t)' = Status(t)
            BY <1>0, <2>1, <2>3, AnsweredDid, StatusKept
        <3>2. \A t \in Txs : Applied(t)' = Applied(t) \cup (IF Next1.by = t THEN {Next1.stmt} ELSE {})
            BY <1>0, <2>1, <2>3, AnsweredDid
        <3>3. Next1.by \in Txs => open = Next1.by
            BY <1>0, <2>1, InvImpliesNoStraggler DEF NoStraggler
        <3>4. CASE open \in Txs
            <4>1. Next1.by = open /\ Status(open) = "active" /\ UNCHANGED durable
                BY <1>0, <2>1, <2>3, <3>4, NextOwner, ActiveIsOpen
            <4>2. Next1.stmt \in Stmts /\ Next1.stmt \notin durable /\ \A u \in Txs : Next1.stmt \notin Applied(u)
                BY <2>1, NextUnapplied
            <4>3. PICK t \in Txs : t = open
                BY <3>4
            <4>4. /\ Applied(t)' = Applied(t) \cup {Next1.stmt}
                  /\ \A u \in Txs \ {t} : Applied(u)' = Applied(u)
                BY <3>2, <4>1, <4>3
            <4>5. Atomic!Write(t, Next1.stmt)
                BY <2>1, <3>1, <4>1, <4>2, <4>3, <4>4, IsWrite
            <4>6. QED
                BY <4>2, <4>5 DEF Atomic!Next
        <3>5. CASE open \notin Txs
            <4>1. Next1.by \notin Txs
                BY <3>3, <3>5
            <4>2. \A t \in Txs : Applied(t)' = Applied(t)
                BY <3>2, <4>1
            <4>3. CASE open = NoTx
                <5>1. \A u \in Txs : Status(u) # "active"
                    BY <3>5, ActiveIsOpen
                <5>2. {Next1.stmt} \in SUBSET Stmts /\ \A u \in Txs : {Next1.stmt} \cap Applied(u) = {}
                    BY <2>1, NextUnapplied
                <5>3. Atomic!Plain({Next1.stmt})
                    BY <2>1, <2>3, <3>1, <4>2, <4>3, <5>1, <5>2, IsPlain
                <5>4. QED
                    BY <5>2, <5>3 DEF Atomic!Next
            <4>4. CASE open # NoTx
                BY <2>1, <2>3, <3>1, <4>2, <4>4, IsStutter
            <4>5. QED
                BY <4>3, <4>4
        <3>6. QED
            BY <3>4, <3>5
    <2>4. QED
        BY <1>5, <2>2, <2>3 DEF ServeStatement, NoEffect
<1>6. ASSUME ServeBegin
      PROVE  Atomic!Next \/ UNCHANGED Atomic!vars
    <2>1. /\ Waiting /\ Next1.op = "BEGIN" /\ UNCHANGED <<callerVars, calls>>
          /\ UNCHANGED <<calls, outcome, durable>>
        BY <1>6 DEF ServeBegin, NoEffect, callerVars
    <2>2. CASE open # NoTx
        BY <1>4, <1>6, <2>1, <2>2 DEF ServeBegin, NoEffect
    <2>3. CASE open = NoTx
        <3>1. Reply("ok") /\ open' = IF Next1.by = NoTx THEN Manual ELSE Next1.by
            BY <1>6, <2>3 DEF ServeBegin
        <3>2. \A t \in Txs : Began(t)' <=> Began(t) \/ Next1.by = t
            BY <1>0, <2>1, <3>1, AnsweredDid
        <3>3. \A t \in Txs : Committed(t)' <=> Committed(t)
            BY <1>0, <2>1, <3>1, AnsweredDid
        <3>4. \A t \in Txs : Applied(t)' = Applied(t)
            BY <1>0, <2>1, <3>1, AnsweredDid
        <3>5. CASE Next1.by = NoTx
            <4>1. ASSUME NEW t \in Txs
                  PROVE  (Began(t)' <=> Began(t)) /\ (open' = t <=> open = t)
                BY <1>0, <2>3, <3>1, <3>2, <3>5
            <4>2. \A t \in Txs : Status(t)' = Status(t)
                BY <3>3, <4>1, StatusKept
            <4>3. QED
                BY <2>1, <3>4, <4>2, IsStutter
        <3>6. CASE Next1.by # NoTx
            <4>1. PICK t \in Txs : t = Next1.by
                BY <2>1, <3>6, NextFacts DEF Call, JInv
            <4>2. ~Began(t) /\ ~Committed(t) /\ open # t /\ open' = t
                BY <1>0, <2>1, <2>3, <3>1, <3>6, <4>1, NextBegin
            <4>3. Status(t) = "idle" /\ Status(t)' = "active"
                BY <3>3, <4>2, StatusIs, StatusNextIs
            <4>4. \A u \in Txs : Status(u) # "active"
                BY <1>0, <2>3, ActiveIsOpen
            <4>5. ASSUME NEW u \in Txs \ {t}
                  PROVE  Status(u)' = Status(u)
                <5>1. (Began(u)' <=> Began(u)) /\ (open' = u <=> open = u)
                    BY <1>0, <2>3, <3>2, <4>1, <4>2
                <5>2. QED
                    BY <3>3, <5>1, StatusKept
            <4>6. outcome[t] # "error"
                <5>1. Len(replies) + 1 \in 1 .. Len(calls) /\ calls[Len(replies) + 1].by = t
                        /\ calls[Len(replies) + 1].op = "BEGIN"
                    BY <2>1, <4>1, NextFacts DEF JInv
                <5>2. QED
                    BY <1>0, <5>1 DEF ScriptInv, ToldTruth
            <4>7. Atomic!Begin(t)
                BY <2>1, <3>4, <4>3, <4>4, <4>5, <4>6, IsBegin
            <4>8. QED
                BY <4>7 DEF Atomic!Next
        <3>7. QED
            BY <3>5, <3>6
    <2>4. QED
        BY <2>2, <2>3
<1>7. ASSUME ServeCommit
      PROVE  Atomic!Next \/ UNCHANGED Atomic!vars
    <2>1. /\ Waiting /\ Next1.op = "COMMIT" /\ UNCHANGED <<callerVars, calls>>
          /\ UNCHANGED <<calls, outcome>>
        BY <1>7 DEF ServeCommit, callerVars
    <2>2. CASE Reply("error") /\ UNCHANGED <<open, durable>>
        BY <1>4, <2>1, <2>2
    <2>3. CASE /\ open # NoTx /\ Reply("ok") /\ durable' = durable \cup pending
               /\ open' = NoTx
        <3>1. \A t \in Txs : Began(t)' <=> Began(t)
            BY <1>0, <2>1, <2>3, AnsweredDid
        <3>2. \A t \in Txs : Committed(t)' <=> Committed(t) \/ Next1.by = t
            BY <1>0, <2>1, <2>3, AnsweredDid
        <3>3. \A t \in Txs : Applied(t)' = Applied(t)
            BY <1>0, <2>1, <2>3, AnsweredDid
        <3>4. CASE open \in Txs
            <4>1. PICK t \in Txs : t = open
                BY <3>4
            <4>2. Next1.by = t /\ Status(t) = "active" /\ pending = Applied(t)
                BY <1>0, <2>1, <4>1, NextOwner, ActiveIsOpen DEF LedgerInv, PendingOwned
            <4>3. Status(t)' = "committed"
                <5>1. Committed(t)' /\ open' # t
                    BY <1>0, <2>3, <3>2, <4>2
                <5>2. QED
                    BY <5>1, StatusNextIs
            <4>4. ASSUME NEW u \in Txs \ {t}
                  PROVE  Status(u)' = Status(u)
                <5>1. (Committed(u)' <=> Committed(u)) /\ (open' = u <=> open = u)
                    BY <1>0, <2>3, <3>2, <4>1, <4>2
                <5>2. QED
                    BY <3>1, <5>1, StatusKept
            <4>5. outcome[t] # "error"
                <5>1. /\ Len(replies) + 1 \in 1 .. Len(calls) /\ calls[Len(replies) + 1].by = t
                      /\ calls[Len(replies) + 1].op = "COMMIT"
                    BY <2>1, <4>2, NextFacts DEF JInv
                <5>2. QED
                    BY <1>0, <5>1 DEF ScriptInv, ToldTruth
            <4>6. Atomic!Commit(t)
                BY <2>1, <2>3, <3>3, <4>2, <4>3, <4>4, <4>5, IsCommit
            <4>7. QED
                BY <4>6 DEF Atomic!Next
        <3>5. CASE open = Manual
            <4>1. Next1.by = NoTx
                BY <2>1, <3>5, NextOwner
            <4>2. \A u \in Txs : Status(u)' = Status(u)
                BY <1>0, <2>3, <3>1, <3>2, <3>5, <4>1, StatusKept
            <4>3. \A u \in Txs : Status(u) # "active"
                BY <1>0, <3>5, ActiveIsOpen
            <4>4. ASSUME NEW u \in Txs
                  PROVE  pending \cap Applied(u) = {}
                <5> SUFFICES ASSUME NEW m \in pending, m \in Applied(u)
                             PROVE  FALSE
                    OBVIOUS
                <5>1. PICK i \in Served : calls[i].op = "EXEC" /\ calls[i].by = u /\ calls[i].stmt = m
                    BY DEF Applied, Did
                <5>2. QED
                    BY <1>0, <3>5, <5>1 DEF LedgerInv, PendingOwned
            <4>5. Atomic!Plain(pending)
                BY <2>1, <2>3, <3>3, <4>2, <4>3, <4>4, IsPlain
            <4>6. QED
                BY <1>0, <4>5 DEF Atomic!Next, TypeOK
        <3>6. QED
            BY <1>0, <2>3, <3>4, <3>5 DEF TypeOK
    <2>4. QED
        BY <1>7, <2>2, <2>3 DEF ServeCommit, NoEffect
<1>8. ASSUME ServeRollback
      PROVE  Atomic!Next \/ UNCHANGED Atomic!vars
    <2>1. /\ Waiting /\ Next1.op \in {"ROLLBACK", "GUARD"}
          /\ UNCHANGED <<callerVars, calls, durable>>
        BY <1>8 DEF ServeRollback, NoEffect, Discard
    <2>2. PICK r \in {"ok", "error"} : Reply(r) /\ (open' = open \/ open' = NoTx)
        BY <1>8 DEF ServeRollback, NoEffect, Discard
    <2>3. QED
        BY <1>4, <2>1, <2>2
<1>9. ASSUME ServeClosed
      PROVE  Atomic!Next \/ UNCHANGED Atomic!vars
    <2>1. Waiting /\ Reply("error") /\ UNCHANGED <<callerVars, calls, durable>> /\ UNCHANGED open
        BY <1>9 DEF ServeClosed, NoEffect
    <2>2. QED
        BY <1>4, <2>1
<1>10. ASSUME CloseDatabase
       PROVE  Atomic!Next \/ UNCHANGED Atomic!vars
    <2>1. UNCHANGED <<calls, replies, outcome, durable>> /\ open' = NoTx
        BY <1>10 DEF CloseDatabase, Discard, callerVars
    <2>2. \A t \in Txs : Began(t)' <=> Began(t)
        BY <2>1, SameDid
    <2>3. \A t \in Txs : Committed(t)' <=> Committed(t)
        BY <2>1, SameDid
    <2>4. \A t \in Txs : Applied(t)' = Applied(t)
        BY <2>1, SameDid
    <2>5. QED
        BY <2>1, <2>2, <2>3, <2>4, KeepsOrAborts
<1>11. ASSUME NEW m \in Stmts, Execute(m)
       PROVE  UNCHANGED Atomic!vars
    BY <1>1, <1>11 DEF Execute, callerVars, Ops
<1>12. ASSUME NEW o \in {"BEGIN", "COMMIT", "ROLLBACK"}, ExecuteBatch(o)
       PROVE  UNCHANGED Atomic!vars
    BY <1>1, <1>12 DEF ExecuteBatch, callerVars, Ops
<1>13. ASSUME NEW t \in Txs, Transaction(t)
       PROVE  UNCHANGED Atomic!vars
    BY <1>1, <1>13 DEF Transaction, SendAndAwait, Ops
<1>14. ASSUME NEW t \in Txs, NEW m \in Stmts, ExecuteInTransaction(t, m)
       PROVE  UNCHANGED Atomic!vars
    BY <1>1, <1>14 DEF ExecuteInTransaction, callerVars, Ops
<1>15. ASSUME NEW t \in Txs, BodyReturnsOk(t) \/ BodyReturnsErr(t)
       PROVE  UNCHANGED Atomic!vars
    BY <1>1, <1>15 DEF BodyReturnsOk, BodyReturnsErr, BodyReturns, SendAndAwait, Ops
<1>16. CASE UNCHANGED vars
    BY <1>16, SentIsStutter DEF vars, engineVars
<1>17. QED
    BY <1>3, <1>5, <1>6, <1>7, <1>8, <1>9, <1>10, <1>11, <1>12, <1>13, <1>14, <1>15, <1>16
       DEF Next, Worker

\* Every behaviour of the session is one of atomic transactions that run one at a time, in
\* which each caller is told the truth; provided that no failing statement ends a
\* transaction by itself (SQLite's automatic rollback, under which NoStraggler fails).
THEOREM Refinement == ASSUME ~AutoRollback PROVE Spec => ImplementsAtomic
<1>1. Init => Atomic!Init
    BY RefinesInit
<1>2. JInv /\ JInv' /\ [Next]_vars => [Atomic!Next]_(Atomic!vars)
    BY RefinesStep
<1>3. QED
    BY <1>1, <1>2, Invariance, PTL DEF Spec, ImplementsAtomic, Atomic!Spec
=============================================================================
