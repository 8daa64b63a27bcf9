----------------------- MODULE PostgresSession_proofs -----------------------
(***************************************************************************)
(* Proofs about PostgresSession, for any number of transactions and        *)
(* statements.                                                             *)
(*                                                                         *)
(* The argument: what each request leaves open on the server is known when *)
(* it is sent (Leaves), so the wire is a chain in which every request fits *)
(* the one before it (ChainInv), and its end agrees with what the client   *)
(* holds (EndInv).  Hence the request at the head always meets its own     *)
(* transaction, and what the server has pending, failed and made durable   *)
(* is what the answers it gave say (LedgerInv).                            *)
(* What a body is told of its statements is a part of its own (HonestInv): *)
(* only a read that fails after its first row can deceive one that         *)
(* swallows nothing.                                                       *)
(***************************************************************************)
EXTENDS PostgresSession, TLAPS

\* The transaction a request needs to find in progress, and the one it leaves in progress.
Needs(r) == IF r.op = "BEGIN" THEN NoTx ELSE r.by
Leaves(r) == IF r.op \in {"BEGIN", "PARSE", "EXEC"} THEN r.by ELSE NoTx

ChainInv ==
    \A i \in 1 .. Len(wire) : Needs(wire[i]) = IF i = 1 THEN open ELSE Leaves(wire[i - 1])

\* Once the wire is served, the transaction in progress is the one whose body may still run.
AtEnd == IF Len(wire) = 0 THEN open ELSE Leaves(wire[Len(wire)])
EndInv ==
    ~lost => AtEnd = IF holder # NoTx /\ phase[holder] \in {"begin", "body"} THEN holder ELSE NoTx

LostInv == IF lost THEN Len(wire) = 0 /\ open = NoTx ELSE unheard = {}

HolderInv ==
    \A t \in Txs :
        /\ IF holder = t THEN phase[t] \notin {"new", "over"} ELSE phase[t] \in {"new", "over"}
        /\ outcome[t] = "none" <=> phase[t] # "over"

\* No statement's future outlives the borrow it holds.
RunningInv == \A m \in Stmts : stmt[m] \in {"parse", "exec"} => MayRun(owner[m])

OnWire(r) == \E i \in 1 .. Len(wire) : wire[i] = r

\* A request goes on the wire once, and is answered once.
OnceInv ==
    /\ \A i, j \in 1 .. Len(wire) : wire[i] = wire[j] => i = j
    /\ \A r \in Request : OnWire(r) => answer[r] = "none"

\* What a request that was sent says of the client.
Traced(r) ==
    /\ r.op = "BEGIN" => phase[r.by] # "new"
    /\ r.op = "COMMIT" => phase[r.by] \in {"commit", "over"}
    /\ r.op = "ROLLBACK" => phase[r.by] \in {"rollback", "over"}
    /\ r.op = "DROP" => phase[r.by] = "over"
    /\ r.op = "PARSE" => stmt[r.stmt] # "new" /\ owner[r.stmt] = r.by
    /\ r.op = "EXEC" => stmt[r.stmt] \in {"exec", "over"} /\ owner[r.stmt] = r.by
    /\ (r.op \notin {"BEGIN", "DROP"} /\ r.by # NoTx) => answer[Of(r.by, "BEGIN")] = "ok"

SentInv ==
    /\ \A r \in Request : (OnWire(r) \/ answer[r] # "none") => Traced(r)
    /\ \A t \in Txs : phase[t] \in {"body", "commit", "rollback"} => answer[Of(t, "BEGIN")] = "ok"

ToldInv ==
    \A t \in Txs :
        /\ outcome[t] = "ok" => answer[Of(t, "COMMIT")] = "ok"
        /\ outcome[t] = "error" =>
              /\ ~OnWire(Of(t, "BEGIN")) /\ ~OnWire(Of(t, "COMMIT"))
              /\ answer[Of(t, "COMMIT")] = "ok" => lost

\* The server's books: what is open, failed, pending and durable follows from the answers.
OpenInv ==
    /\ open = NoTx => pending = {} /\ ~failed
    /\ \A t \in Txs : open = t =>
          /\ pending = Applied(t)
          /\ failed <=> Failed(t)
          /\ Began(t) /\ answer[Of(t, "COMMIT")] = "none"

DurableInv ==
    /\ \A m \in pending \cup durable : answer[For(m, "EXEC")] = "ok"
    /\ \A t \in Txs : Committed(t) => Applied(t) \subseteq durable
    /\ \A t \in Txs, m \in durable : owner[m] = t => Committed(t)

WireInv == ChainInv /\ EndInv /\ LostInv /\ OnceInv
ClientInv == HolderInv /\ RunningInv /\ SentInv /\ ToldInv
LedgerInv == OpenInv /\ DurableInv

IInv == TypeOK /\ WireInv /\ ClientInv /\ LedgerInv

-----------------------------------------------------------------------------
(* Requests and the wire. *)

\* What a request is made of: transaction control names its transaction, a statement's
\* request the statement and the transaction it was started in.
LEMMA RequestShape ==
    ASSUME NEW r \in Request
    PROVE  /\ r.by \in Txs \cup {NoTx}
           /\ \/ r.op \in Control /\ r.by \in Txs /\ r = Of(r.by, r.op)
              \/ r.op \in {"PARSE", "EXEC"} /\ r.stmt \in Stmts
                   /\ r = [op |-> r.op, by |-> r.by, stmt |-> r.stmt]
BY DEF Request, Of

LEMMA OfRequest ==
    ASSUME NEW t \in Txs, NEW op \in Control
    PROVE  /\ Of(t, op) \in Request
           /\ Of(t, op).op = op /\ Of(t, op).by = t
BY DEF Request, Of

LEMMA StatementRequest ==
    ASSUME NEW by \in Txs \cup {NoTx}, NEW m \in Stmts, NEW op \in {"PARSE", "EXEC"}
    PROVE  [op |-> op, by |-> by, stmt |-> m] \in Request
BY DEF Request

\* No transaction is NoTx, no statement NoStmt.
LEMMA NotNone == NoTx \notin Txs /\ NoStmt \notin Stmts
BY ConstantsAreDistinct

\* Sending appends to the wire, or does nothing on a lost connection.
LEMMA SendFacts ==
    ASSUME wire \in Seq(Request), lost \in BOOLEAN, NEW r \in Request, Send(r)
    PROVE  /\ wire' \in Seq(Request)
           /\ lost => wire' = wire
           /\ ~lost => /\ Len(wire') = Len(wire) + 1
                       /\ wire'[Len(wire) + 1] = r
                       /\ \A i \in 1 .. Len(wire) : wire'[i] = wire[i]
BY DEF Send

LEMMA SendOnWire ==
    ASSUME wire \in Seq(Request), lost \in BOOLEAN, NEW r \in Request, Send(r)
    PROVE  \A x : OnWire(x)' <=> (OnWire(x) \/ (x = r /\ ~lost))
<1> SUFFICES ASSUME NEW x PROVE OnWire(x)' <=> (OnWire(x) \/ (x = r /\ ~lost))
  OBVIOUS
<1> DEFINE n == Len(wire)
<1>0. n \in Nat
  OBVIOUS
<1>1. CASE lost
  BY <1>1, SendFacts DEF OnWire
<1>2. CASE ~lost
  <2>1. Len(wire') = n + 1 /\ wire'[n + 1] = r /\ \A i \in 1 .. n : wire'[i] = wire[i]
    BY <1>2, SendFacts
  <2>2. OnWire(x)' <=> \E i \in 1 .. (n + 1) : wire'[i] = x
    BY <2>1 DEF OnWire
  <2>3. (\E i \in 1 .. (n + 1) : wire'[i] = x) <=> ((\E i \in 1 .. n : wire[i] = x) \/ x = r)
    <3> HIDE DEF n
    <3> QED BY <1>0, <2>1
  <2> QED BY <1>2, <2>2, <2>3 DEF OnWire
<1> QED BY <1>1, <1>2

\* A request that fits what is in progress at the end of the wire keeps the chain, and one
\* that was neither sent nor answered keeps requests unique.
LEMMA SendKeepsWire ==
    ASSUME TypeOK, WireInv, NEW r \in Request, Send(r),
           answer[r] = "none", ~OnWire(r), ~lost => Needs(r) = AtEnd,
           UNCHANGED <<answer, lost, unheard, open>>
    PROVE  /\ ChainInv' /\ OnceInv' /\ LostInv'
           /\ ~lost => AtEnd' = Leaves(r)
<1> DEFINE n == Len(wire)
<1>0. n \in Nat /\ wire \in Seq(Request) /\ lost \in BOOLEAN
  BY DEF TypeOK
<1>a. CASE lost
  <2>1. wire' = wire
    BY <1>0, <1>a, SendFacts
  <2>2. ChainInv' /\ OnceInv' /\ LostInv'
    BY <2>1 DEF WireInv, ChainInv, OnceInv, LostInv, OnWire
  <2> QED BY <2>2, <1>a
<1>b. CASE ~lost
  <2>1. /\ Len(wire') = n + 1
        /\ wire'[n + 1] = r
        /\ \A i \in 1 .. n : wire'[i] = wire[i]
    BY <1>0, <1>b, SendFacts
  <2>2. ChainInv'
    <3> SUFFICES ASSUME NEW i \in 1 .. (n + 1)
                 PROVE  Needs(wire'[i]) = IF i = 1 THEN open ELSE Leaves(wire'[i - 1])
      BY <2>1 DEF ChainInv, Needs, Leaves
    <3>1. CASE i \in 1 .. n
      <4>1. wire'[i] = wire[i] /\ (i # 1 => wire'[i - 1] = wire[i - 1])
        BY <2>1, <3>1, <1>0
      <4>2. Needs(wire[i]) = IF i = 1 THEN open ELSE Leaves(wire[i - 1])
        BY <3>1 DEF WireInv, ChainInv
      <4> QED BY <4>1, <4>2 DEF Needs, Leaves
    <3>2. CASE i = n + 1
      <4>1. Needs(r) = AtEnd /\ wire'[i] = r
        BY <1>b, <2>1, <3>2
      <4>2. CASE n = 0
        BY <4>1, <4>2, <3>2 DEF AtEnd
      <4>3. CASE n # 0
        <5>1. AtEnd = Leaves(wire[n]) /\ wire'[n] = wire[n]
          BY <1>0, <2>1, <4>3 DEF AtEnd
        <5>2. i - 1 = n /\ i # 1
          BY <1>0, <3>2, <4>3
        <5> QED BY <4>1, <5>1, <5>2
      <4> QED BY <4>2, <4>3
    <3> QED BY <3>1, <3>2, <1>0
  <2>3. \A i \in 1 .. n : wire[i] # r
    BY DEF OnWire
  <2>4. OnceInv'
    <3>1. \A i, j \in 1 .. (n + 1) : wire'[i] = wire'[j] => i = j
      <4> SUFFICES ASSUME NEW i \in 1 .. (n + 1), NEW j \in 1 .. (n + 1), wire'[i] = wire'[j]
                   PROVE  i = j
        OBVIOUS
      <4>1. CASE i \in 1 .. n /\ j \in 1 .. n
        <5>1. wire[i] = wire[j]
          BY <2>1, <4>1
        <5> QED BY <4>1, <5>1 DEF WireInv, OnceInv
      <4>2. CASE i = n + 1 \/ j = n + 1
        <5>1. CASE i = n + 1 /\ j \in 1 .. n
          BY <2>1, <2>3, <5>1
        <5>2. CASE j = n + 1 /\ i \in 1 .. n
          BY <2>1, <2>3, <5>2
        <5> QED BY <1>0, <4>2, <5>1, <5>2
      <4> QED BY <1>0, <4>1, <4>2
    <3>2. \A x \in Request : OnWire(x)' => answer'[x] = "none"
      <4>1. \A x : OnWire(x)' <=> (OnWire(x) \/ (x = r /\ ~lost))
        BY <1>0, SendOnWire
      <4> QED BY <4>1 DEF WireInv, OnceInv
    <3> QED BY <2>1, <3>1, <3>2 DEF OnceInv
  <2>5. LostInv'
    BY <1>b DEF WireInv, LostInv
  <2>6. AtEnd' = Leaves(r)
    BY <1>0, <2>1 DEF AtEnd, Leaves
  <2> QED BY <2>2, <2>4, <2>5, <2>6
<1> QED BY <1>0, <1>a, <1>b

\* Only the head of the wire is answered, and it leaves the wire.
LEMMA ReplyFacts ==
    ASSUME TypeOK, OnceInv, Waiting, NEW v \in Answers, Reply(v)
    PROVE  /\ Head(wire) \in Request /\ OnWire(Head(wire)) /\ answer[Head(wire)] = "none"
           /\ wire' \in Seq(Request) /\ Len(wire') = Len(wire) - 1 /\ Len(wire) \in Nat \ {0}
           /\ \A i \in 1 .. Len(wire') : wire'[i] = wire[i + 1]
           /\ answer' \in [Request -> Answers]
           /\ answer'[Head(wire)] = v
           /\ \A x \in Request : x # Head(wire) => answer'[x] = answer[x]
<1>1. wire \in Seq(Request) /\ wire # <<>> /\ answer \in [Request -> Answers]
  BY DEF TypeOK, Waiting
<1>2. Len(wire) \in Nat \ {0} /\ Head(wire) = wire[1] /\ Head(wire) \in Request
  BY <1>1
<1>3. OnWire(Head(wire))
  BY <1>2 DEF OnWire
<1>4. answer[Head(wire)] = "none"
  BY <1>2, <1>3 DEF OnceInv
<1>5. /\ wire' \in Seq(Request) /\ Len(wire') = Len(wire) - 1
      /\ \A i \in 1 .. Len(wire') : wire'[i] = wire[i + 1]
  BY <1>1 DEF Reply
<1>6. /\ answer' \in [Request -> Answers]
      /\ answer'[Head(wire)] = v
      /\ \A x \in Request : x # Head(wire) => answer'[x] = answer[x]
  BY <1>1, <1>2 DEF Reply
<1> QED BY <1>2, <1>3, <1>4, <1>5, <1>6

LEMMA ReplyOnWire ==
    ASSUME TypeOK, OnceInv, Waiting, NEW v \in Answers, Reply(v)
    PROVE  \A x : OnWire(x)' <=> (OnWire(x) /\ x # Head(wire))
<1> SUFFICES ASSUME NEW x PROVE OnWire(x)' <=> (OnWire(x) /\ x # Head(wire))
  OBVIOUS
<1> DEFINE n == Len(wire)
<1>1. /\ n \in Nat \ {0} /\ Len(wire') = n - 1
      /\ \A i \in 1 .. (n - 1) : wire'[i] = wire[i + 1]
  BY ReplyFacts
<1>2. Head(wire) = wire[1]
  BY DEF TypeOK, Waiting
<1>3. ASSUME OnWire(x)' PROVE OnWire(x) /\ x # Head(wire)
  <2>1. PICK i \in 1 .. (n - 1) : wire'[i] = x
    BY <1>1, <1>3 DEF OnWire
  <2>2. wire[i + 1] = x /\ i + 1 \in 1 .. n /\ i + 1 # 1
    BY <1>1, <2>1
  <2>3. 1 \in 1 .. n
    BY <1>1
  <2>4. wire[i + 1] = wire[1] => i + 1 = 1
    BY <2>2, <2>3 DEF OnceInv
  <2> QED BY <1>2, <2>2, <2>4 DEF OnWire
<1>4. ASSUME OnWire(x), x # Head(wire) PROVE OnWire(x)'
  <2>1. PICK i \in 1 .. n : wire[i] = x
    BY <1>4 DEF OnWire
  <2>2. i # 1
    BY <1>2, <1>4, <2>1
  <2>3. i - 1 \in 1 .. (n - 1) /\ wire'[i - 1] = wire[(i - 1) + 1] /\ (i - 1) + 1 = i
    BY <1>1, <2>2
  <2>4. i - 1 \in 1 .. Len(wire') /\ wire'[i - 1] = x
    BY <1>1, <2>1, <2>3
  <2> QED BY <2>4 DEF OnWire
<1> QED BY <1>3, <1>4

\* The request at the head finds what it needs in progress: its own transaction, or none.
LEMMA HeadFits ==
    ASSUME TypeOK, ChainInv, Waiting
    PROVE  Head(wire) \in Request /\ Needs(Head(wire)) = open /\ OnWire(Head(wire))
<1>1. wire \in Seq(Request) /\ wire # <<>>
  BY DEF TypeOK, Waiting
<1>2. Head(wire) = wire[1] /\ 1 \in 1 .. Len(wire) /\ Head(wire) \in Request
  BY <1>1
<1>3. Needs(wire[1]) = open
  BY <1>2 DEF ChainInv
<1> QED BY <1>2, <1>3 DEF OnWire

\* A served request leaves in progress what the next one needs, so the chain and its end stay.
LEMMA ReplyKeepsWire ==
    ASSUME TypeOK, WireInv, Waiting, NEW v \in Answers \ {"none"}, Reply(v),
           open' = Leaves(Head(wire)), UNCHANGED <<lost, unheard>>
    PROVE  /\ ChainInv' /\ OnceInv' /\ LostInv'
           /\ AtEnd' = AtEnd
<1> DEFINE n == Len(wire)
<1>0. OnceInv /\ ~lost
  BY DEF WireInv, Waiting
<1>1. /\ n \in Nat \ {0} /\ Len(wire') = n - 1
      /\ \A i \in 1 .. (n - 1) : wire'[i] = wire[i + 1]
  BY <1>0, ReplyFacts
<1>2. Head(wire) = wire[1]
  BY DEF TypeOK, Waiting
<1>3. ChainInv'
  <2> SUFFICES ASSUME NEW i \in 1 .. (n - 1)
               PROVE  Needs(wire'[i]) = IF i = 1 THEN open' ELSE Leaves(wire'[i - 1])
    BY <1>1 DEF ChainInv, Needs, Leaves
  <2>1. i + 1 \in 1 .. n /\ i + 1 # 1 /\ (i + 1) - 1 = i
    BY <1>1
  <2>2. Needs(wire[i + 1]) = Leaves(wire[i])
    BY <2>1 DEF WireInv, ChainInv
  <2>3. wire'[i] = wire[i + 1]
    BY <1>1
  <2>4. CASE i = 1
    BY <1>2, <2>2, <2>3, <2>4
  <2>5. CASE i # 1
    <3>1. i - 1 \in 1 .. (n - 1) /\ (i - 1) + 1 = i
      BY <1>1, <2>5
    <3>2. wire'[i - 1] = wire[i]
      BY <1>1, <3>1
    <3> QED BY <2>2, <2>3, <2>5, <3>2
  <2> QED BY <2>4, <2>5
<1>4. OnceInv'
  <2>1. \A i, j \in 1 .. (n - 1) : wire'[i] = wire'[j] => i = j
    <3> SUFFICES ASSUME NEW i \in 1 .. (n - 1), NEW j \in 1 .. (n - 1), wire'[i] = wire'[j]
                 PROVE  i = j
      OBVIOUS
    <3>1. i + 1 \in 1 .. n /\ j + 1 \in 1 .. n /\ wire[i + 1] = wire[j + 1]
      BY <1>1
    <3>2. i + 1 = j + 1
      BY <3>1 DEF WireInv, OnceInv
    <3> QED BY <3>2
  <2>2. \A x \in Request : OnWire(x)' => answer'[x] = "none"
    <3> SUFFICES ASSUME NEW x \in Request, OnWire(x)' PROVE answer'[x] = "none"
      OBVIOUS
    <3>1. OnWire(x) /\ x # Head(wire)
      BY <1>0, ReplyOnWire
    <3>2. answer'[x] = answer[x]
      BY <1>0, <3>1, ReplyFacts
    <3> QED BY <3>1, <3>2 DEF WireInv, OnceInv
  <2> QED BY <1>1, <2>1, <2>2 DEF OnceInv
<1>5. LostInv'
  BY <1>0 DEF WireInv, LostInv
<1>6. AtEnd' = AtEnd
  <2>1. CASE n = 1
    BY <1>1, <1>2, <2>1 DEF AtEnd
  <2>2. CASE n # 1
    <3>1. n - 1 \in 1 .. (n - 1) /\ (n - 1) + 1 = n /\ n # 0 /\ n - 1 # 0
      BY <1>1, <2>2
    <3>2. wire'[n - 1] = wire[n]
      BY <1>1, <3>1
    <3>3. AtEnd' = Leaves(wire'[n - 1])
      BY <1>1, <3>1 DEF AtEnd, Leaves
    <3>4. AtEnd = Leaves(wire[n])
      BY <3>1 DEF AtEnd
    <3> QED BY <3>2, <3>3, <3>4
  <2> QED BY <2>1, <2>2
<1> QED BY <1>3, <1>4, <1>5, <1>6

-----------------------------------------------------------------------------
(* Types. *)

LEMMA TypeInit == Init => TypeOK
<1> SUFFICES ASSUME Init PROVE TypeOK
  OBVIOUS
<1>1. phase \in [Txs -> Phases] /\ outcome \in [Txs -> {"none", "ok", "error", "cancelled"}]
  BY DEF Init, Phases
<1>2. stmt \in [Stmts -> StmtStates] /\ owner \in [Stmts -> Txs \cup {NoTx}]
  BY DEF Init, StmtStates
<1>3. wire \in Seq(Request)
  BY DEF Init
<1>4. answer \in [Request -> Answers]
  BY DEF Init, Answers
<1> QED BY <1>1, <1>2, <1>3, <1>4 DEF Init, TypeOK

LEMMA DropAllType ==
    ASSUME TypeOK, DropAll
    PROVE  /\ stmt' \in [Stmts -> StmtStates]
           /\ \A m \in Stmts : stmt'[m] = (IF stmt[m] = "new" THEN "new" ELSE "over")
BY DEF TypeOK, DropAll, StmtStates

LEMMA EndStmtType ==
    ASSUME TypeOK, NEW m \in Stmts, NEW fails \in BOOLEAN, EndStmt(m, fails)
    PROVE  /\ stmt' \in [Stmts -> StmtStates] /\ sawError' \in SUBSET Txs
           /\ UNCHANGED <<holder, phase, outcome, owner>>
<1>1. stmt' \in [Stmts -> StmtStates]
  BY DEF TypeOK, EndStmt, StmtStates
<1>2. owner[m] \in Txs \cup {NoTx} /\ sawError \in SUBSET Txs
  BY DEF TypeOK
<1>3. sawError' \in SUBSET Txs
  BY <1>2 DEF EndStmt
<1> QED BY <1>1, <1>3 DEF EndStmt

LEMMA FinishType ==
    ASSUME TypeOK, NEW t \in Txs, NEW result \in {"ok", "error", "cancelled"},
           NEW done \in BOOLEAN, Finish(t, result, done)
    PROVE  TypeOK'
<1>1. holder' \in Txs \cup {NoTx}
  BY DEF Finish
<1>2. phase' \in [Txs -> Phases] /\ outcome' \in [Txs -> {"none", "ok", "error", "cancelled"}]
  BY DEF TypeOK, Finish, Phases
<1>3. stmt' \in [Stmts -> StmtStates]
  BY DropAllType DEF Finish
<1>4. wire' \in Seq(Request)
  <2>1. CASE done
    BY <2>1 DEF Finish, DropTransaction, TypeOK
  <2>2. CASE ~done
    <3>1. Of(t, "DROP") \in Request
      BY OfRequest DEF Control
    <3>2. Send(Of(t, "DROP"))
      BY <2>2 DEF Finish, DropTransaction
    <3> QED BY <3>1, <3>2, SendFacts DEF TypeOK
  <2> QED BY <2>1, <2>2
<1> QED BY <1>1, <1>2, <1>3, <1>4 DEF TypeOK, Finish, serverVars

LEMMA ReplyType ==
    ASSUME TypeOK, Waiting, NEW v \in Answers, Reply(v)
    PROVE  wire' \in Seq(Request) /\ answer' \in [Request -> Answers] /\ Head(wire) \in Request
<1>1. wire \in Seq(Request) /\ wire # <<>> /\ answer \in [Request -> Answers]
  BY DEF TypeOK, Waiting
<1> QED BY <1>1 DEF Reply

LEMMA TypeStep == TypeOK /\ [Next]_vars => TypeOK'
<1> SUFFICES ASSUME TypeOK, [Next]_vars PROVE TypeOK'
  OBVIOUS
<1> USE DEF serverVars, clientVars
<1>1. ASSUME NEW by \in Txs \cup {NoTx}, NEW m \in Stmts, Execute(by, m) PROVE TypeOK'
  <2>1. [op |-> "PARSE", by |-> by, stmt |-> m] \in Request
    BY StatementRequest
  <2>2. wire' \in Seq(Request)
    BY <1>1, <2>1, SendFacts DEF Execute, TypeOK
  <2>3. stmt' \in [Stmts -> StmtStates] /\ owner' \in [Stmts -> Txs \cup {NoTx}]
    BY <1>1 DEF Execute, TypeOK, StmtStates
  <2> QED BY <1>1, <2>2, <2>3 DEF Execute, TypeOK
<1>2. ASSUME NEW m \in Stmts, Prepared(m) PROVE TypeOK'
  <2>1. CASE Answer(For(m, "PARSE")) = "ok"
    <3>1. For(m, "EXEC") \in Request
      BY StatementRequest DEF For, TypeOK
    <3>2. wire' \in Seq(Request)
      BY <1>2, <2>1, <3>1, SendFacts DEF Prepared, TypeOK
    <3>3. stmt' \in [Stmts -> StmtStates]
      BY <1>2, <2>1 DEF Prepared, TypeOK, StmtStates
    <3> QED BY <1>2, <2>1, <3>2, <3>3 DEF Prepared, TypeOK
  <2>2. CASE Answer(For(m, "PARSE")) # "ok"
    <3>1. EndStmt(m, TRUE) /\ UNCHANGED <<wire, answer, lost, unheard, serverVars>>
      BY <1>2, <2>2 DEF Prepared
    <3> QED BY <3>1, EndStmtType DEF TypeOK
  <2> QED BY <2>1, <2>2
<1>3. ASSUME NEW m \in Stmts, Collect(m) \/ FetchOne(m) \/ DropStmt(m) PROVE TypeOK'
  <2>1. /\ UNCHANGED <<wire, answer, lost, unheard, serverVars>>
        /\ \E fails \in BOOLEAN : EndStmt(m, fails)
    BY <1>3 DEF Collect, FetchOne, DropStmt
  <2> QED BY <2>1, EndStmtType DEF TypeOK
<1>4. ASSUME NEW t \in Txs, Transaction(t) PROVE TypeOK'
  <2>1. Of(t, "BEGIN") \in Request
    BY OfRequest DEF Control
  <2>2. wire' \in Seq(Request)
    BY <1>4, <2>1, SendFacts DEF Transaction, TypeOK
  <2>3. phase' \in [Txs -> Phases]
    BY <1>4 DEF Transaction, TypeOK, Phases
  <2>4. stmt' \in [Stmts -> StmtStates]
    BY <1>4, DropAllType DEF Transaction
  <2> QED BY <1>4, <2>2, <2>3, <2>4 DEF Transaction, TypeOK
<1>5. ASSUME NEW t \in Txs, Resume(t) PROVE TypeOK'
  <2>1. CASE BeginReturns(t)
    <3>1. CASE Answer(Of(t, "BEGIN")) = "ok"
      <4>1. phase' \in [Txs -> Phases]
        BY <2>1, <3>1 DEF BeginReturns, TypeOK, Phases
      <4> QED BY <2>1, <3>1, <4>1 DEF BeginReturns, TypeOK
    <3>2. CASE Answer(Of(t, "BEGIN")) # "ok"
      BY <2>1, <3>2, FinishType DEF BeginReturns
    <3> QED BY <3>1, <3>2
  <2>2. CASE CommitReturns(t)
    <3>1. \E result \in {"ok", "error"} : Finish(t, result, TRUE)
      BY <2>2 DEF CommitReturns
    <3> QED BY <3>1, FinishType
  <2>3. CASE RollbackReturns(t)
    BY <2>3, FinishType DEF RollbackReturns
  <2> QED BY <1>5, <2>1, <2>2, <2>3 DEF Resume
<1>6. ASSUME NEW t \in Txs, BodyReturnsOk(t) \/ BodyReturnsErr(t) PROVE TypeOK'
  <2>1. PICK op \in Control, next \in Phases : BodyReturns(t, op, next)
    BY <1>6 DEF BodyReturnsOk, BodyReturnsErr, Control, Phases
  <2>2. Of(t, op) \in Request
    BY OfRequest
  <2>3. wire' \in Seq(Request)
    BY <2>1, <2>2, SendFacts DEF BodyReturns, TypeOK
  <2>4. phase' \in [Txs -> Phases]
    BY <2>1 DEF BodyReturns, TypeOK
  <2>5. stmt' \in [Stmts -> StmtStates]
    BY <2>1, DropAllType DEF BodyReturns
  <2> QED BY <2>1, <2>3, <2>4, <2>5 DEF BodyReturns, TypeOK
<1>7. ASSUME NEW t \in Txs, Cancel(t) PROVE TypeOK'
  <2>1. \E done \in BOOLEAN : Finish(t, "cancelled", done)
    <3>1. (phase[t] \in {"commit", "rollback"}) \in BOOLEAN
      OBVIOUS
    <3> QED BY <1>7, <3>1 DEF Cancel
  <2> QED BY <2>1, FinishType
<1>8. ASSUME Server PROVE TypeOK'
  <2>1. Waiting /\ \E v \in Answers : Reply(v)
    BY <1>8 DEF Server, ServeParse, ServeExec, ServeBegin, ServeCommit, ServeRollback,
                FailStmt, Answers
  <2>2. wire' \in Seq(Request) /\ answer' \in [Request -> Answers] /\ Head(wire) \in Request
    BY <2>1, ReplyType
  <2>3. UNCHANGED <<clientVars, lost, unheard>>
    BY <1>8 DEF Server, ServeParse, ServeExec, ServeBegin, ServeCommit, ServeRollback
  <2>4. /\ open' \in Txs \cup {NoTx} /\ failed' \in BOOLEAN
        /\ pending' \in SUBSET Writes /\ durable' \in SUBSET Writes
    <3>1. CASE ServeParse
      BY <3>1 DEF ServeParse, FailStmt, TypeOK
    <3>2. CASE ServeExec
      BY <3>2 DEF ServeExec, FailStmt, TypeOK
    <3>3. CASE ServeBegin
      BY <2>2, <3>3, RequestShape DEF ServeBegin, TypeOK
    <3>4. CASE ServeCommit \/ ServeRollback
      BY <3>4 DEF ServeCommit, ServeRollback, Discard, TypeOK
    <3> QED BY <1>8, <3>1, <3>2, <3>3, <3>4 DEF Server
  <2> QED BY <2>2, <2>3, <2>4 DEF TypeOK
<1>9. ASSUME Lose PROVE TypeOK'
  <2>1. wire' \in Seq(Request)
    BY <1>9 DEF Lose
  <2>2. unheard' \in SUBSET Request
    BY <1>9 DEF Lose
  <2>3. open' \in Txs \cup {NoTx} /\ failed' \in BOOLEAN
        /\ pending' \in SUBSET Writes /\ durable' \in SUBSET Writes
    BY <1>9 DEF Lose, Discard, TypeOK
  <2>4. UNCHANGED <<clientVars, answer>> /\ lost' \in BOOLEAN
    BY <1>9 DEF Lose
  <2> QED BY <2>1, <2>2, <2>3, <2>4 DEF TypeOK
<1>10. CASE UNCHANGED vars
  BY <1>10 DEF vars, TypeOK
<1> QED BY <1>1, <1>2, <1>3, <1>4, <1>5, <1>6, <1>7, <1>8, <1>9, <1>10 DEF Next

\* TypeOK, for any number of transactions and statements: whatever is cancelled, lost or
\* refused, the client and the server stay in the states the code names.
THEOREM TypeCorrect == Spec => []TypeOK
<1>1. Init => TypeOK
  BY TypeInit
<1>2. TypeOK /\ [Next]_vars => TypeOK'
  BY TypeStep
<1> QED BY <1>1, <1>2, PTL DEF Spec

-----------------------------------------------------------------------------
(* The client's steps: what they leave of the wire and of the client. *)

\* The client never takes back what a request says of it.
PhaseOnward(t) ==
    /\ phase[t] # "new" => phase'[t] # "new"
    /\ phase[t] \in {"commit", "over"} => phase'[t] \in {"commit", "over"}
    /\ phase[t] \in {"rollback", "over"} => phase'[t] \in {"rollback", "over"}
StmtOnward(m) ==
    /\ stmt[m] # "new" => stmt'[m] # "new" /\ owner'[m] = owner[m]
    /\ stmt[m] \in {"exec", "over"} => stmt'[m] \in {"exec", "over"}
Onward ==
    /\ \A t \in Txs : PhaseOnward(t)
    /\ \A m \in Stmts : StmtOnward(m)
    /\ \A t \in Txs : answer[Of(t, "BEGIN")] = "ok" => answer'[Of(t, "BEGIN")] = "ok"

LEMMA TracedKept ==
    ASSUME Onward, NEW r \in Request, Traced(r)
    PROVE  Traced(r)'
<1>1. CASE r.op \in Control /\ r.by \in Txs
  <2>1. PhaseOnward(r.by) /\ (answer[Of(r.by, "BEGIN")] = "ok" => answer'[Of(r.by, "BEGIN")] = "ok")
    BY <1>1 DEF Onward
  <2>2. phase[r.by] = "over" => phase'[r.by] = "over"
    BY <2>1 DEF PhaseOnward
  <2> QED BY <1>1, <2>1, <2>2 DEF Traced, PhaseOnward, Control, Of
<1>2. CASE r.op \in {"PARSE", "EXEC"} /\ r.stmt \in Stmts
  <2>1. StmtOnward(r.stmt)
    BY <1>2 DEF Onward
  <2>2. r.by # NoTx => (answer[Of(r.by, "BEGIN")] = "ok" => answer'[Of(r.by, "BEGIN")] = "ok")
    BY RequestShape DEF Onward
  <2> QED BY <1>2, <2>1, <2>2 DEF Traced, StmtOnward, Of
<1> QED BY <1>1, <1>2, RequestShape

\* A request whose trace is not there was neither sent nor answered.
LEMMA Untraced ==
    ASSUME SentInv, NEW r \in Request, ~Traced(r)
    PROVE  ~OnWire(r) /\ answer[r] = "none"
BY DEF SentInv

LEMMA SendKeepsTraces ==
    ASSUME TypeOK, SentInv, Onward, NEW r \in Request, Send(r), Traced(r)', UNCHANGED answer
    PROVE  \A x \in Request : (OnWire(x)' \/ answer'[x] # "none") => Traced(x)'
<1> SUFFICES ASSUME NEW x \in Request, OnWire(x)' \/ answer'[x] # "none" PROVE Traced(x)'
  OBVIOUS
<1>1. OnWire(x)' <=> (OnWire(x) \/ (x = r /\ ~lost))
  BY SendOnWire DEF TypeOK
<1>2. CASE x = r
  BY <1>2
<1>3. CASE OnWire(x) \/ answer[x] # "none"
  <2>1. Traced(x)
    BY <1>3 DEF SentInv
  <2> QED BY <2>1, TracedKept
<1> QED BY <1>1, <1>2, <1>3

LEMMA SilenceKeepsTraces ==
    ASSUME SentInv, Onward, UNCHANGED <<wire, answer>>
    PROVE  \A x \in Request : (OnWire(x)' \/ answer'[x] # "none") => Traced(x)'
<1> SUFFICES ASSUME NEW x \in Request, OnWire(x)' \/ answer'[x] # "none" PROVE Traced(x)'
  OBVIOUS
<1>1. OnWire(x) \/ answer[x] # "none"
  BY DEF OnWire
<1>2. Traced(x)
  BY <1>1 DEF SentInv
<1> QED BY <1>2, TracedKept

\* Whoever may run a statement is the one the end of the wire leaves in progress.
LEMMA MayRunEnd ==
    ASSUME TypeOK, EndInv, HolderInv, NEW by \in Txs \cup {NoTx}, MayRun(by), ~lost
    PROVE  AtEnd = by
<1>1. CASE by = NoTx
  BY <1>1 DEF EndInv, MayRun
<1>2. CASE by \in Txs /\ by # NoTx
  <2>1. phase[by] = "body" /\ holder = by
    BY <1>2 DEF MayRun, HolderInv
  <2> QED BY <1>2, <2>1 DEF EndInv
<1> QED BY <1>1, <1>2, NotNone

\* The holder is the one invocation under way.
LEMMA HolderPhase ==
    ASSUME TypeOK, HolderInv, NEW t \in Txs, phase[t] \in {"begin", "body", "commit", "rollback"}
    PROVE  holder = t /\ outcome[t] = "none"
BY DEF HolderInv

LEMMA QuietWire ==
    ASSUME WireInv, UNCHANGED <<wire, answer, lost, unheard, open>>
    PROVE  ChainInv' /\ OnceInv' /\ LostInv' /\ AtEnd' = AtEnd
<1>1. ChainInv' /\ LostInv'
  BY DEF WireInv, ChainInv, LostInv, Needs, Leaves
<1>2. OnceInv'
  BY DEF WireInv, OnceInv, OnWire
<1>3. AtEnd' = AtEnd
  BY DEF AtEnd, Leaves
<1> QED BY <1>1, <1>2, <1>3

\* What a caller was told stays true when nobody sends its BEGIN or COMMIT again.
LEMMA SendKeepsTold ==
    ASSUME TypeOK, ToldInv, NEW r \in Request, Send(r), UNCHANGED <<outcome, answer, lost>>,
           \A t \in Txs : outcome[t] = "error" => r # Of(t, "BEGIN") /\ r # Of(t, "COMMIT")
    PROVE  ToldInv'
<1>1. \A x : OnWire(x)' <=> (OnWire(x) \/ (x = r /\ ~lost))
  BY SendOnWire DEF TypeOK
<1> SUFFICES ASSUME NEW t \in Txs
             PROVE  /\ outcome'[t] = "ok" => answer'[Of(t, "COMMIT")] = "ok"
                    /\ outcome'[t] = "error" =>
                          /\ ~OnWire(Of(t, "BEGIN"))' /\ ~OnWire(Of(t, "COMMIT"))'
                          /\ answer'[Of(t, "COMMIT")] = "ok" => lost'
  BY DEF ToldInv, Of
<1>2. outcome[t] = "ok" => answer[Of(t, "COMMIT")] = "ok"
  BY DEF ToldInv
<1>3. outcome[t] = "error" => /\ ~OnWire(Of(t, "BEGIN")) /\ ~OnWire(Of(t, "COMMIT"))
                              /\ answer[Of(t, "COMMIT")] = "ok" => lost
  BY DEF ToldInv
<1>4. ~OnWire(Of(t, "BEGIN"))' <=> ~(OnWire(Of(t, "BEGIN")) \/ (Of(t, "BEGIN") = r /\ ~lost))
  BY <1>1 DEF Of
<1>5. ~OnWire(Of(t, "COMMIT"))' <=> ~(OnWire(Of(t, "COMMIT")) \/ (Of(t, "COMMIT") = r /\ ~lost))
  BY <1>1 DEF Of
<1> QED BY <1>2, <1>3, <1>4, <1>5

LEMMA SilenceKeepsTold ==
    ASSUME ToldInv, UNCHANGED <<outcome, answer, lost, wire>>
    PROVE  ToldInv'
BY DEF ToldInv, OnWire, Of

LEMMA ExecuteStep ==
    ASSUME IInv, NEW by \in Txs \cup {NoTx}, NEW m \in Stmts, Execute(by, m)
    PROVE  WireInv' /\ ClientInv' /\ Onward
<1> DEFINE r == [op |-> "PARSE", by |-> by, stmt |-> m]
<1> USE DEF IInv, WireInv, ClientInv
<1>0. r \in Request /\ r.op = "PARSE" /\ r.by = by /\ r.stmt = m
  BY StatementRequest
<1>a. /\ MayRun(by) /\ stmt[m] = "new"
      /\ stmt' = [stmt EXCEPT ![m] = "parse"] /\ owner' = [owner EXCEPT ![m] = by]
      /\ Send(r)
      /\ UNCHANGED <<holder, phase, outcome, sawError, answer, lost, unheard, open>>
  BY DEF Execute, serverVars
<1>b. /\ stmt'[m] = "parse" /\ owner'[m] = by
      /\ \A k \in Stmts : k # m => stmt'[k] = stmt[k] /\ owner'[k] = owner[k]
  BY <1>a DEF TypeOK
<1> HIDE DEF r
<1>1. ~Traced(r)
  BY <1>0, <1>a DEF Traced
<1>2. ~OnWire(r) /\ answer[r] = "none"
  BY <1>0, <1>1, Untraced
<1>3. ~lost => Needs(r) = AtEnd
  BY <1>0, <1>a, MayRunEnd DEF Needs
<1>4. ChainInv' /\ OnceInv' /\ LostInv' /\ (~lost => AtEnd' = by)
  BY <1>0, <1>a, <1>2, <1>3, SendKeepsWire DEF Leaves
<1>5. EndInv'
  <2>1. ~lost => AtEnd = by
    BY <1>a, MayRunEnd
  <2> QED BY <1>a, <1>4, <2>1 DEF EndInv
<1>6. HolderInv'
  BY <1>a DEF HolderInv
<1>7. RunningInv'
  BY <1>a, <1>b DEF RunningInv, MayRun
<1>8. Onward
  <2>1. \A t \in Txs : PhaseOnward(t)
    BY <1>a DEF PhaseOnward
  <2>2. \A k \in Stmts : StmtOnward(k)
    BY <1>a, <1>b DEF StmtOnward
  <2> QED BY <1>a, <2>1, <2>2 DEF Onward
<1>9. SentInv'
  <2>1. by # NoTx => answer[Of(by, "BEGIN")] = "ok"
    BY <1>a DEF MayRun, SentInv
  <2>2. Traced(r)'
    BY <1>0, <1>a, <1>b, <2>1 DEF Traced, Of
  <2>3. \A x \in Request : (OnWire(x)' \/ answer'[x] # "none") => Traced(x)'
    BY <1>0, <1>a, <1>8, <2>2, SendKeepsTraces
  <2>4. \A t \in Txs : phase'[t] \in {"body", "commit", "rollback"} => answer'[Of(t, "BEGIN")] = "ok"
    BY <1>a DEF SentInv
  <2> QED BY <2>3, <2>4 DEF SentInv, Of
<1>10. ToldInv'
  BY <1>0, <1>a, SendKeepsTold DEF Of
<1> QED BY <1>4, <1>5, <1>6, <1>7, <1>8, <1>9, <1>10

\* The statement is over for its caller: nothing else of the client or the wire changes.
LEMMA EndStmtStep ==
    ASSUME IInv, NEW m \in Stmts, NEW fails \in BOOLEAN, stmt[m] \in {"parse", "exec"},
           EndStmt(m, fails), UNCHANGED <<wire, answer, lost, unheard, open>>
    PROVE  WireInv' /\ ClientInv' /\ Onward
<1> USE DEF IInv, WireInv, ClientInv
<1>a. /\ stmt'[m] = "over"
      /\ \A k \in Stmts : k # m => stmt'[k] = stmt[k]
      /\ UNCHANGED <<holder, phase, outcome, owner>>
  BY DEF EndStmt, TypeOK
<1>1. ChainInv' /\ OnceInv' /\ LostInv' /\ AtEnd' = AtEnd
  BY QuietWire
<1>2. EndInv'
  BY <1>a, <1>1 DEF EndInv
<1>3. HolderInv'
  BY <1>a DEF HolderInv
<1>4. RunningInv'
  BY <1>a DEF RunningInv, MayRun
<1>5. Onward
  <2>1. \A t \in Txs : PhaseOnward(t)
    BY <1>a DEF PhaseOnward
  <2>2. \A k \in Stmts : StmtOnward(k)
    BY <1>a DEF StmtOnward
  <2> QED BY <2>1, <2>2 DEF Onward
<1>6. SentInv'
  <2>1. \A x \in Request : (OnWire(x)' \/ answer'[x] # "none") => Traced(x)'
    BY <1>5, SilenceKeepsTraces
  <2>2. \A t \in Txs : phase'[t] \in {"body", "commit", "rollback"} => answer'[Of(t, "BEGIN")] = "ok"
    BY <1>a DEF SentInv
  <2> QED BY <2>1, <2>2 DEF SentInv, Of
<1>7. ToldInv'
  BY <1>a, SilenceKeepsTold
<1> QED BY <1>1, <1>2, <1>3, <1>4, <1>5, <1>6, <1>7

LEMMA PreparedStep ==
    ASSUME IInv, NEW m \in Stmts, Prepared(m)
    PROVE  WireInv' /\ ClientInv' /\ Onward
<1> USE DEF IInv, WireInv, ClientInv
<1>1. CASE Answer(For(m, "PARSE")) = "ok"
  <2>o. PICK by \in Txs \cup {NoTx} : owner[m] = by
    BY DEF TypeOK
  <2> DEFINE r == [op |-> "EXEC", by |-> by, stmt |-> m]
  <2>0. r \in Request /\ r.op = "EXEC" /\ r.by = by /\ r.stmt = m
    BY StatementRequest
  <2>a. /\ stmt[m] = "parse"
        /\ stmt' = [stmt EXCEPT ![m] = "exec"]
        /\ Send(r)
        /\ UNCHANGED <<holder, phase, outcome, owner, answer, lost, unheard, open>>
    BY <1>1, <2>o DEF Prepared, For, serverVars
  <2>b. /\ stmt'[m] = "exec"
        /\ \A k \in Stmts : k # m => stmt'[k] = stmt[k]
    BY <2>a DEF TypeOK
  <2>c. MayRun(by)
    BY <2>a, <2>o DEF RunningInv
  <2> HIDE DEF r
  <2>1. ~Traced(r)
    BY <2>0, <2>a DEF Traced
  <2>2. ~OnWire(r) /\ answer[r] = "none"
    BY <2>0, <2>1, Untraced
  <2>3. ~lost => AtEnd = by
    BY <2>0, <2>c, MayRunEnd
  <2>4. ~lost => Needs(r) = AtEnd
    BY <2>0, <2>3 DEF Needs
  <2>5. ChainInv' /\ OnceInv' /\ LostInv' /\ (~lost => AtEnd' = by)
    BY <2>0, <2>a, <2>2, <2>4, SendKeepsWire DEF Leaves
  <2>6. EndInv'
    BY <2>a, <2>3, <2>5 DEF EndInv
  <2>7. HolderInv'
    BY <2>a DEF HolderInv
  <2>8. RunningInv'
    BY <2>o, <2>a, <2>b, <2>c DEF RunningInv, MayRun
  <2>9. Onward
    <3>1. \A t \in Txs : PhaseOnward(t)
      BY <2>a DEF PhaseOnward
    <3>2. \A k \in Stmts : StmtOnward(k)
      BY <2>a, <2>b DEF StmtOnward
    <3> QED BY <2>a, <3>1, <3>2 DEF Onward
  <2>10. SentInv'
    <3>1. by # NoTx => answer[Of(by, "BEGIN")] = "ok"
      BY <2>c DEF MayRun, SentInv
    <3>2. Traced(r)'
      BY <2>o, <2>0, <2>a, <2>b, <3>1 DEF Traced, Of
    <3>3. \A x \in Request : (OnWire(x)' \/ answer'[x] # "none") => Traced(x)'
      BY <2>0, <2>a, <2>9, <3>2, SendKeepsTraces
    <3>4. \A t \in Txs : phase'[t] \in {"body", "commit", "rollback"} => answer'[Of(t, "BEGIN")] = "ok"
      BY <2>a DEF SentInv
    <3> QED BY <3>3, <3>4 DEF SentInv, Of
  <2>11. ToldInv'
    BY <2>0, <2>a, SendKeepsTold DEF Of
  <2> QED BY <2>5, <2>6, <2>7, <2>8, <2>9, <2>10, <2>11
<1>2. CASE Answer(For(m, "PARSE")) # "ok"
  <2>1. /\ stmt[m] = "parse" /\ EndStmt(m, TRUE)
        /\ UNCHANGED <<wire, answer, lost, unheard, open>>
    BY <1>2 DEF Prepared, serverVars
  <2> QED BY <2>1, EndStmtStep
<1> QED BY <1>1, <1>2

LEMMA StatementEndsStep ==
    ASSUME IInv, NEW m \in Stmts, Collect(m) \/ FetchOne(m) \/ DropStmt(m)
    PROVE  WireInv' /\ ClientInv' /\ Onward
<1>1. /\ stmt[m] \in {"parse", "exec"} /\ \E fails \in BOOLEAN : EndStmt(m, fails)
      /\ UNCHANGED <<wire, answer, lost, unheard, open>>
  BY DEF Collect, FetchOne, DropStmt, serverVars
<1> QED BY <1>1, EndStmtStep

\* Dropping every statement takes nothing back and leaves none running.
LEMMA DropAllFacts ==
    ASSUME TypeOK, DropAll, UNCHANGED owner
    PROVE  RunningInv' /\ \A m \in Stmts : StmtOnward(m)
<1>1. \A m \in Stmts : stmt'[m] = (IF stmt[m] = "new" THEN "new" ELSE "over")
  BY DropAllType
<1> QED BY <1>1 DEF RunningInv, StmtOnward

LEMMA TransactionStep ==
    ASSUME IInv, NEW t \in Txs, Transaction(t)
    PROVE  WireInv' /\ ClientInv' /\ Onward
<1> DEFINE r == Of(t, "BEGIN")
<1> USE DEF IInv, WireInv, ClientInv
<1>0. r \in Request /\ r.op = "BEGIN" /\ r.by = t
  BY OfRequest DEF Control
<1>a. /\ holder = NoTx /\ phase[t] = "new" /\ holder' = t
      /\ phase' = [phase EXCEPT ![t] = "begin"]
      /\ DropAll /\ Send(r)
      /\ UNCHANGED <<outcome, owner, answer, lost, unheard, open>>
  BY DEF Transaction, serverVars
<1>b. /\ phase'[t] = "begin"
      /\ \A u \in Txs : u # t => phase'[u] = phase[u]
  BY <1>a DEF TypeOK
<1> HIDE DEF r
<1>1. ~Traced(r)
  BY <1>0, <1>a DEF Traced
<1>2. ~OnWire(r) /\ answer[r] = "none"
  BY <1>0, <1>1, Untraced
<1>3. ~lost => Needs(r) = AtEnd
  BY <1>0, <1>a DEF Needs, EndInv
<1>4. ChainInv' /\ OnceInv' /\ LostInv' /\ (~lost => AtEnd' = t)
  BY <1>0, <1>a, <1>2, <1>3, SendKeepsWire DEF Leaves
<1>5. EndInv'
  BY <1>a, <1>b, <1>4, NotNone DEF EndInv
<1>6. HolderInv'
  BY <1>a, <1>b, NotNone DEF HolderInv
<1>7. RunningInv' /\ \A m \in Stmts : StmtOnward(m)
  BY <1>a, DropAllFacts
<1>8. Onward
  <2>1. \A u \in Txs : PhaseOnward(u)
    BY <1>a, <1>b DEF PhaseOnward
  <2> QED BY <1>a, <1>7, <2>1 DEF Onward
<1>9. SentInv'
  <2>1. Traced(r)'
    BY <1>0, <1>b DEF Traced
  <2>2. \A x \in Request : (OnWire(x)' \/ answer'[x] # "none") => Traced(x)'
    BY <1>0, <1>a, <1>8, <2>1, SendKeepsTraces
  <2>3. \A u \in Txs : phase'[u] \in {"body", "commit", "rollback"} => answer'[Of(u, "BEGIN")] = "ok"
    BY <1>a, <1>b DEF SentInv
  <2> QED BY <2>2, <2>3 DEF SentInv, Of
<1>10. ToldInv'
  <2>1. outcome[t] = "none"
    BY <1>a DEF HolderInv
  <2>2. \A u \in Txs : outcome[u] = "error" => r # Of(u, "BEGIN") /\ r # Of(u, "COMMIT")
    BY <1>0, <2>1 DEF Of
  <2> QED BY <1>0, <1>a, <2>2, SendKeepsTold
<1> QED BY <1>4, <1>5, <1>6, <1>7, <1>8, <1>9, <1>10

\* START TRANSACTION succeeded and the body starts.
LEMMA BodyStartsStep ==
    ASSUME IInv, NEW t \in Txs, BeginReturns(t), Answer(Of(t, "BEGIN")) = "ok"
    PROVE  WireInv' /\ ClientInv' /\ Onward
<1> USE DEF IInv, WireInv, ClientInv
<1>a. /\ phase[t] = "begin" /\ phase' = [phase EXCEPT ![t] = "body"]
      /\ UNCHANGED <<holder, outcome, stmt, owner, wire, answer, lost, unheard, open>>
  BY DEF BeginReturns, serverVars
<1>b. /\ phase'[t] = "body"
      /\ \A u \in Txs : u # t => phase'[u] = phase[u]
  BY <1>a DEF TypeOK
<1>c. holder = t
  BY <1>a, HolderPhase
<1>d. answer[Of(t, "BEGIN")] = "ok"
  BY DEF Answer
<1>1. ChainInv' /\ OnceInv' /\ LostInv' /\ AtEnd' = AtEnd
  BY <1>a, QuietWire
<1>2. EndInv'
  BY <1>a, <1>b, <1>c, <1>1 DEF EndInv
<1>3. HolderInv'
  BY <1>a, <1>b, <1>c DEF HolderInv
<1>4. RunningInv'
  BY <1>a, <1>b, <1>c, NotNone DEF RunningInv, MayRun
<1>5. Onward
  <2>1. \A u \in Txs : PhaseOnward(u)
    BY <1>a, <1>b DEF PhaseOnward
  <2>2. \A k \in Stmts : StmtOnward(k)
    BY <1>a DEF StmtOnward
  <2> QED BY <1>a, <2>1, <2>2 DEF Onward
<1>6. SentInv'
  <2>1. \A x \in Request : (OnWire(x)' \/ answer'[x] # "none") => Traced(x)'
    BY <1>a, <1>5, SilenceKeepsTraces
  <2>2. \A u \in Txs : phase'[u] \in {"body", "commit", "rollback"} => answer'[Of(u, "BEGIN")] = "ok"
    BY <1>a, <1>b, <1>d DEF SentInv
  <2> QED BY <2>1, <2>2 DEF SentInv, Of
<1>7. ToldInv'
  BY <1>a, SilenceKeepsTold
<1> QED BY <1>1, <1>2, <1>3, <1>4, <1>5, <1>6, <1>7

LEMMA BodyReturnsStep ==
    ASSUME IInv, NEW t \in Txs, BodyReturnsOk(t) \/ BodyReturnsErr(t)
    PROVE  WireInv' /\ ClientInv' /\ Onward
<1> USE DEF IInv, WireInv, ClientInv
<1>0. PICK op \in {"COMMIT", "ROLLBACK"}, next \in {"commit", "rollback"} :
          /\ BodyReturns(t, op, next)
          /\ op = "COMMIT" <=> next = "commit"
  BY DEF BodyReturnsOk, BodyReturnsErr
<1> DEFINE r == Of(t, op)
<1>r. r \in Request /\ r.op = op /\ r.by = t
  BY OfRequest DEF Control
<1>a. /\ phase[t] = "body" /\ phase' = [phase EXCEPT ![t] = next]
      /\ DropAll /\ Send(r)
      /\ UNCHANGED <<holder, outcome, owner, answer, lost, unheard, open>>
  BY <1>0 DEF BodyReturns, serverVars
<1>b. /\ phase'[t] = next
      /\ \A u \in Txs : u # t => phase'[u] = phase[u]
  BY <1>a DEF TypeOK
<1>c. holder = t /\ outcome[t] = "none"
  BY <1>a, HolderPhase
<1> HIDE DEF r
<1>1. ~Traced(r)
  BY <1>r, <1>a DEF Traced
<1>2. ~OnWire(r) /\ answer[r] = "none"
  BY <1>r, <1>1, Untraced
<1>3. ~lost => Needs(r) = AtEnd
  BY <1>r, <1>a, <1>c, NotNone DEF Needs, EndInv
<1>4. ChainInv' /\ OnceInv' /\ LostInv' /\ (~lost => AtEnd' = NoTx)
  BY <1>r, <1>a, <1>2, <1>3, SendKeepsWire DEF Leaves
<1>5. EndInv'
  BY <1>a, <1>b, <1>c, <1>4 DEF EndInv
<1>6. HolderInv'
  BY <1>a, <1>b, <1>c DEF HolderInv
<1>7. RunningInv' /\ \A m \in Stmts : StmtOnward(m)
  BY <1>a, DropAllFacts
<1>8. Onward
  <2>1. \A u \in Txs : PhaseOnward(u)
    BY <1>a, <1>b DEF PhaseOnward
  <2> QED BY <1>a, <1>7, <2>1 DEF Onward
<1>d. answer[Of(t, "BEGIN")] = "ok"
  BY <1>a DEF SentInv
<1>9. SentInv'
  <2>1. Traced(r)'
    BY <1>r, <1>0, <1>a, <1>b, <1>d DEF Traced, Of
  <2>2. \A x \in Request : (OnWire(x)' \/ answer'[x] # "none") => Traced(x)'
    BY <1>r, <1>a, <1>8, <2>1, SendKeepsTraces
  <2>3. \A u \in Txs : phase'[u] \in {"body", "commit", "rollback"} => answer'[Of(u, "BEGIN")] = "ok"
    BY <1>a, <1>b, <1>d DEF SentInv
  <2> QED BY <2>2, <2>3 DEF SentInv, Of
<1>10. ToldInv'
  <2>1. \A u \in Txs : outcome[u] = "error" => r # Of(u, "BEGIN") /\ r # Of(u, "COMMIT")
    BY <1>r, <1>c DEF Of
  <2> QED BY <1>r, <1>a, <2>1, SendKeepsTold
<1> QED BY <1>4, <1>5, <1>6, <1>7, <1>8, <1>9, <1>10

\* The transaction future is over: a caller told "ok" had its COMMIT answered, one told
\* "error" has nothing under way, and its COMMIT did not succeed unless the answer is lost.
LEMMA FinishStep ==
    ASSUME IInv, NEW t \in Txs, NEW result \in {"ok", "error", "cancelled"}, NEW done \in BOOLEAN,
           Finish(t, result, done), phase[t] \in {"begin", "body", "commit", "rollback"},
           done <=> phase[t] \in {"commit", "rollback"},
           result = "ok" => answer[Of(t, "COMMIT")] = "ok",
           result = "error" => /\ ~OnWire(Of(t, "BEGIN")) /\ ~OnWire(Of(t, "COMMIT"))
                               /\ answer[Of(t, "COMMIT")] = "ok" => lost
    PROVE  WireInv' /\ ClientInv' /\ Onward
<1> DEFINE r == Of(t, "DROP")
<1> USE DEF IInv, WireInv, ClientInv
<1>r. r \in Request /\ r.op = "DROP" /\ r.by = t
  BY OfRequest DEF Control
<1>a. /\ holder' = NoTx
      /\ phase' = [phase EXCEPT ![t] = "over"] /\ outcome' = [outcome EXCEPT ![t] = result]
      /\ DropAll /\ (IF done THEN UNCHANGED wire ELSE Send(r))
      /\ UNCHANGED <<owner, answer, lost, unheard, open>>
  BY DEF Finish, DropTransaction, serverVars
<1>b. /\ phase'[t] = "over" /\ outcome'[t] = result
      /\ \A u \in Txs : u # t => phase'[u] = phase[u] /\ outcome'[u] = outcome[u]
  BY <1>a DEF TypeOK
<1>c. holder = t /\ outcome[t] = "none"
  BY HolderPhase
<1> HIDE DEF r
<1>1. HolderInv'
  BY <1>a, <1>b, <1>c, NotNone DEF HolderInv
<1>2. RunningInv' /\ \A m \in Stmts : StmtOnward(m)
  BY <1>a, DropAllFacts
<1>3. Onward
  <2>1. \A u \in Txs : PhaseOnward(u)
    BY <1>b DEF PhaseOnward
  <2> QED BY <1>a, <1>2, <2>1 DEF Onward
<1>4. \A u \in Txs : phase'[u] \in {"body", "commit", "rollback"} => answer'[Of(u, "BEGIN")] = "ok"
  BY <1>a, <1>b DEF SentInv
<1>5. CASE done
  <2>1. ChainInv' /\ OnceInv' /\ LostInv' /\ AtEnd' = AtEnd
    BY <1>a, <1>5, QuietWire
  <2>2. EndInv'
    BY <1>a, <1>b, <1>c, <1>5, <2>1 DEF EndInv
  <2>3. \A x \in Request : (OnWire(x)' \/ answer'[x] # "none") => Traced(x)'
    BY <1>a, <1>3, <1>5, SilenceKeepsTraces
  <2>4. ToldInv'
    <3> SUFFICES ASSUME NEW u \in Txs
                 PROVE  /\ outcome'[u] = "ok" => answer'[Of(u, "COMMIT")] = "ok"
                        /\ outcome'[u] = "error" =>
                              /\ ~OnWire(Of(u, "BEGIN"))' /\ ~OnWire(Of(u, "COMMIT"))'
                              /\ answer'[Of(u, "COMMIT")] = "ok" => lost'
      BY DEF ToldInv, Of
    <3>1. UNCHANGED <<wire, answer, lost>>
      BY <1>a, <1>5
    <3>2. CASE u = t
      BY <1>b, <3>1, <3>2 DEF OnWire, Of
    <3>3. CASE u # t
      BY <1>b, <3>1, <3>3 DEF ToldInv, OnWire, Of
    <3> QED BY <3>2, <3>3
  <2> QED BY <1>1, <1>2, <1>3, <1>4, <2>1, <2>2, <2>3, <2>4 DEF SentInv, Of
<1>6. CASE ~done
  <2>a. Send(r) /\ phase[t] \in {"begin", "body"}
    BY <1>a, <1>6
  <2>1. ~Traced(r)
    BY <1>r, <2>a DEF Traced
  <2>2. ~OnWire(r) /\ answer[r] = "none"
    BY <1>r, <2>1, Untraced
  <2>3. ~lost => Needs(r) = AtEnd
    BY <1>r, <1>c, <2>a, NotNone DEF Needs, EndInv
  <2>4. ChainInv' /\ OnceInv' /\ LostInv' /\ (~lost => AtEnd' = NoTx)
    BY <1>r, <1>a, <2>a, <2>2, <2>3, SendKeepsWire DEF Leaves
  <2>5. EndInv'
    BY <1>a, <2>4 DEF EndInv
  <2>6. Traced(r)'
    BY <1>r, <1>b, <2>a DEF Traced
  <2>7. \A x \in Request : (OnWire(x)' \/ answer'[x] # "none") => Traced(x)'
    BY <1>r, <1>a, <1>3, <2>a, <2>6, SendKeepsTraces
  <2>8. ToldInv'
    <3> SUFFICES ASSUME NEW u \in Txs
                 PROVE  /\ outcome'[u] = "ok" => answer'[Of(u, "COMMIT")] = "ok"
                        /\ outcome'[u] = "error" =>
                              /\ ~OnWire(Of(u, "BEGIN"))' /\ ~OnWire(Of(u, "COMMIT"))'
                              /\ answer'[Of(u, "COMMIT")] = "ok" => lost'
      BY DEF ToldInv, Of
    <3>1. \A x : OnWire(x)' <=> (OnWire(x) \/ (x = r /\ ~lost))
      BY <1>r, <2>a, SendOnWire DEF TypeOK
    <3>2. r # Of(u, "BEGIN") /\ r # Of(u, "COMMIT")
      BY <1>r DEF Of
    <3>3. /\ OnWire(Of(u, "BEGIN"))' <=> OnWire(Of(u, "BEGIN"))
          /\ OnWire(Of(u, "COMMIT"))' <=> OnWire(Of(u, "COMMIT"))
      BY <3>1, <3>2 DEF Of
    <3>4. UNCHANGED <<answer, lost>>
      BY <1>a
    <3>5. CASE u = t
      BY <1>b, <3>3, <3>4, <3>5
    <3>6. CASE u # t
      BY <1>b, <3>3, <3>4, <3>6 DEF ToldInv
    <3> QED BY <3>5, <3>6
  <2> QED BY <1>1, <1>2, <1>3, <1>4, <2>4, <2>5, <2>7, <2>8 DEF SentInv, Of
<1> QED BY <1>5, <1>6

\* An answered request is no longer on the wire.
LEMMA AnsweredOffWire ==
    ASSUME LostInv, OnceInv, NEW r \in Request, Answered(r)
    PROVE  ~OnWire(r)
BY DEF LostInv, OnceInv, Answered, OnWire

LEMMA ResumeStep ==
    ASSUME IInv, NEW t \in Txs, Resume(t)
    PROVE  WireInv' /\ ClientInv' /\ Onward
<1> USE DEF IInv, WireInv, ClientInv
<1>0. \A op \in Control : Of(t, op) \in Request /\ Of(t, op).op = op /\ Of(t, op).by = t
  BY OfRequest
<1>1. CASE BeginReturns(t) /\ Answer(Of(t, "BEGIN")) = "ok"
  BY <1>1, BodyStartsStep
<1>2. CASE BeginReturns(t) /\ Answer(Of(t, "BEGIN")) # "ok"
  <2>1. phase[t] = "begin" /\ Answered(Of(t, "BEGIN")) /\ Finish(t, "error", FALSE)
    BY <1>2 DEF BeginReturns
  <2>2. ~OnWire(Of(t, "BEGIN"))
    BY <1>0, <2>1, AnsweredOffWire DEF Control
  <2>3. ~Traced(Of(t, "COMMIT"))
    BY <1>0, <2>1 DEF Traced, Control
  <2>4. ~OnWire(Of(t, "COMMIT")) /\ answer[Of(t, "COMMIT")] = "none"
    BY <1>0, <2>3, Untraced DEF Control
  <2> QED BY <2>1, <2>2, <2>4, FinishStep
<1>3. CASE CommitReturns(t)
  <2>1. /\ phase[t] = "commit" /\ Answered(Of(t, "COMMIT"))
        /\ Finish(t, IF Answer(Of(t, "COMMIT")) = "ok" THEN "ok" ELSE "error", TRUE)
    BY <1>3 DEF CommitReturns
  <2>2. ~OnWire(Of(t, "COMMIT"))
    BY <1>0, <2>1, AnsweredOffWire DEF Control
  <2>3. answer[Of(t, "BEGIN")] = "ok"
    BY <2>1 DEF SentInv
  <2>4. ~OnWire(Of(t, "BEGIN"))
    BY <1>0, <2>3 DEF OnceInv, Control
  <2>5. CASE Answer(Of(t, "COMMIT")) = "ok"
    <3>1. answer[Of(t, "COMMIT")] = "ok"
      BY <2>5 DEF Answer
    <3> QED BY <2>1, <2>5, <3>1, FinishStep
  <2>6. CASE Answer(Of(t, "COMMIT")) # "ok"
    <3>1. answer[Of(t, "COMMIT")] = "ok" => lost
      BY <2>6 DEF Answer, LostInv
    <3> QED BY <2>1, <2>2, <2>4, <2>6, <3>1, FinishStep
  <2> QED BY <2>5, <2>6
<1>4. CASE RollbackReturns(t)
  <2>1. phase[t] = "rollback" /\ Finish(t, "error", TRUE)
    BY <1>4 DEF RollbackReturns
  <2>2. answer[Of(t, "BEGIN")] = "ok"
    BY <2>1 DEF SentInv
  <2>3. ~OnWire(Of(t, "BEGIN"))
    BY <1>0, <2>2 DEF OnceInv, Control
  <2>4. ~Traced(Of(t, "COMMIT"))
    BY <1>0, <2>1 DEF Traced, Control
  <2>5. ~OnWire(Of(t, "COMMIT")) /\ answer[Of(t, "COMMIT")] = "none"
    BY <1>0, <2>4, Untraced DEF Control
  <2> QED BY <2>1, <2>3, <2>5, FinishStep
<1> QED BY <1>1, <1>2, <1>3, <1>4 DEF Resume

LEMMA CancelStep ==
    ASSUME IInv, NEW t \in Txs, Cancel(t)
    PROVE  WireInv' /\ ClientInv' /\ Onward
<1>1. /\ phase[t] \in {"begin", "body", "commit", "rollback"}
      /\ Finish(t, "cancelled", phase[t] \in {"commit", "rollback"})
  BY DEF Cancel
<1>2. CASE phase[t] \in {"commit", "rollback"}
  <2>1. (phase[t] \in {"commit", "rollback"}) = TRUE
    BY <1>2
  <2>2. Finish(t, "cancelled", TRUE)
    BY <1>1, <2>1
  <2> QED BY <1>1, <1>2, <2>2, FinishStep
<1>3. CASE phase[t] \in {"begin", "body"}
  <2>1. (phase[t] \in {"commit", "rollback"}) = FALSE
    BY <1>3
  <2>2. Finish(t, "cancelled", FALSE)
    BY <1>1, <2>1
  <2> QED BY <1>1, <1>3, <2>2, FinishStep
<1> QED BY <1>1, <1>2, <1>3

-----------------------------------------------------------------------------
(* The server's steps and the loss of the connection. *)

\* Whatever the server serves, it answers the head of the wire and leaves in progress what
\* that request promised: no START TRANSACTION meets a failed transaction.
LEMMA ServerReplies ==
    ASSUME TypeOK, WireInv, OpenInv, Server
    PROVE  /\ Waiting /\ \E v \in Answers \ {"none"} : Reply(v)
           /\ open' = Leaves(Head(wire))
           /\ UNCHANGED <<clientVars, lost, unheard>>
<1>1. Waiting /\ UNCHANGED <<clientVars, lost, unheard>>
  BY DEF Server, ServeParse, ServeExec, ServeBegin, ServeCommit, ServeRollback
<1>2. \E v \in Answers \ {"none"} : Reply(v)
  BY DEF Server, ServeParse, ServeExec, ServeBegin, ServeCommit, ServeRollback,
         FailStmt, Answers
<1>3. Needs(Head(wire)) = open
  BY <1>1, HeadFits DEF WireInv
<1>4. open' = Leaves(Head(wire))
  <2>1. CASE ServeParse
    BY <1>3, <2>1 DEF ServeParse, FailStmt, Needs, Leaves, serverVars
  <2>2. CASE ServeExec
    BY <1>3, <2>2 DEF ServeExec, FailStmt, Needs, Leaves
  <2>3. CASE ServeBegin
    <3>1. open = NoTx /\ ~failed
      BY <1>3, <2>3 DEF ServeBegin, Needs, OpenInv
    <3> QED BY <2>3, <3>1 DEF ServeBegin, Leaves
  <2>4. CASE ServeCommit \/ ServeRollback
    BY <2>4 DEF ServeCommit, ServeRollback, Discard, Leaves
  <2> QED BY <2>1, <2>2, <2>3, <2>4 DEF Server
<1> QED BY <1>1, <1>2, <1>4

LEMMA ServerStep ==
    ASSUME IInv, Server
    PROVE  WireInv' /\ ClientInv' /\ Onward
<1> USE DEF IInv, WireInv, ClientInv
<1>0. /\ Waiting /\ open' = Leaves(Head(wire))
      /\ UNCHANGED <<holder, phase, outcome, stmt, owner, lost, unheard>>
  BY ServerReplies DEF LedgerInv, clientVars
<1>1. PICK v \in Answers \ {"none"} : Reply(v)
  BY ServerReplies DEF LedgerInv
<1>2. ChainInv' /\ OnceInv' /\ LostInv' /\ AtEnd' = AtEnd
  BY <1>0, <1>1, ReplyKeepsWire
<1>3. EndInv'
  BY <1>0, <1>2 DEF EndInv
<1>4. HolderInv' /\ RunningInv'
  BY <1>0 DEF HolderInv, RunningInv, MayRun
<1>5. /\ Head(wire) \in Request /\ OnWire(Head(wire)) /\ answer[Head(wire)] = "none"
      /\ \A x \in Request : x # Head(wire) => answer'[x] = answer[x]
  BY <1>0, <1>1, ReplyFacts
<1>6. \A x : OnWire(x)' <=> (OnWire(x) /\ x # Head(wire))
  BY <1>0, <1>1, ReplyOnWire
<1>7. \A x \in Request : answer[x] # "none" => answer'[x] = answer[x]
  BY <1>5
<1>8. \A t \in Txs, op \in Control : Of(t, op) \in Request
  BY OfRequest
<1>9. Onward
  <2>1. \A t \in Txs : PhaseOnward(t)
    BY <1>0 DEF PhaseOnward
  <2>2. \A m \in Stmts : StmtOnward(m)
    BY <1>0 DEF StmtOnward
  <2>3. \A t \in Txs : answer[Of(t, "BEGIN")] = "ok" => answer'[Of(t, "BEGIN")] = "ok"
    BY <1>7, <1>8 DEF Control
  <2> QED BY <2>1, <2>2, <2>3 DEF Onward
<1>10. SentInv'
  <2>1. \A x \in Request : (OnWire(x)' \/ answer'[x] # "none") => Traced(x)'
    <3> SUFFICES ASSUME NEW x \in Request, OnWire(x)' \/ answer'[x] # "none" PROVE Traced(x)'
      OBVIOUS
    <3>1. OnWire(x) \/ answer[x] # "none"
      BY <1>5, <1>6
    <3>2. Traced(x)
      BY <3>1 DEF SentInv
    <3> QED BY <1>9, <3>2, TracedKept
  <2>2. \A t \in Txs : phase'[t] \in {"body", "commit", "rollback"} => answer'[Of(t, "BEGIN")] = "ok"
    BY <1>0, <1>7, <1>8 DEF SentInv, Control
  <2> QED BY <2>1, <2>2 DEF SentInv, Of
<1>11. ToldInv'
  <2> SUFFICES ASSUME NEW t \in Txs
               PROVE  /\ outcome'[t] = "ok" => answer'[Of(t, "COMMIT")] = "ok"
                      /\ outcome'[t] = "error" =>
                            /\ ~OnWire(Of(t, "BEGIN"))' /\ ~OnWire(Of(t, "COMMIT"))'
                            /\ answer'[Of(t, "COMMIT")] = "ok" => lost'
    BY DEF ToldInv, Of
  <2>1. Of(t, "BEGIN") \in Request /\ Of(t, "COMMIT") \in Request
    BY <1>8 DEF Control
  <2>2. CASE outcome[t] = "ok"
    <3>1. answer[Of(t, "COMMIT")] = "ok"
      BY <2>2 DEF ToldInv
    <3> QED BY <1>0, <1>7, <2>1, <2>2, <3>1
  <2>3. CASE outcome[t] = "error"
    <3>1. /\ ~OnWire(Of(t, "BEGIN")) /\ ~OnWire(Of(t, "COMMIT"))
          /\ answer[Of(t, "COMMIT")] = "ok" => lost
      BY <2>3 DEF ToldInv
    <3>2. Of(t, "COMMIT") # Head(wire)
      BY <1>5, <3>1
    <3>3. answer'[Of(t, "COMMIT")] = answer[Of(t, "COMMIT")]
      BY <1>5, <2>1, <3>2
    <3>4. ~OnWire(Of(t, "BEGIN"))' /\ ~OnWire(Of(t, "COMMIT"))'
      BY <1>6, <3>1 DEF Of
    <3> QED BY <1>0, <2>3, <3>1, <3>3, <3>4
  <2>4. CASE outcome[t] \notin {"ok", "error"}
    BY <1>0, <2>4
  <2> QED BY <2>2, <2>3, <2>4
<1> QED BY <1>2, <1>3, <1>4, <1>9, <1>10, <1>11

LEMMA LoseStep ==
    ASSUME IInv, Lose
    PROVE  WireInv' /\ ClientInv' /\ Onward
<1> USE DEF IInv, WireInv, ClientInv
<1>0. /\ lost' = TRUE /\ wire' = <<>> /\ open' = NoTx
      /\ UNCHANGED <<holder, phase, outcome, stmt, owner, answer>>
  BY DEF Lose, Discard, clientVars
<1>1. Len(wire') = 0 /\ \A x : ~OnWire(x)'
  BY <1>0 DEF OnWire
<1>2. ChainInv' /\ EndInv' /\ LostInv' /\ OnceInv'
  BY <1>0, <1>1 DEF ChainInv, EndInv, LostInv, OnceInv
<1>3. HolderInv' /\ RunningInv'
  BY <1>0 DEF HolderInv, RunningInv, MayRun
<1>4. Onward
  <2>1. \A t \in Txs : PhaseOnward(t)
    BY <1>0 DEF PhaseOnward
  <2>2. \A m \in Stmts : StmtOnward(m)
    BY <1>0 DEF StmtOnward
  <2> QED BY <1>0, <2>1, <2>2 DEF Onward
<1>5. SentInv'
  <2>1. \A x \in Request : (OnWire(x)' \/ answer'[x] # "none") => Traced(x)'
    <3> SUFFICES ASSUME NEW x \in Request, OnWire(x)' \/ answer'[x] # "none" PROVE Traced(x)'
      OBVIOUS
    <3>1. answer[x] # "none"
      BY <1>0, <1>1
    <3>2. Traced(x)
      BY <3>1 DEF SentInv
    <3> QED BY <1>4, <3>2, TracedKept
  <2>2. \A t \in Txs : phase'[t] \in {"body", "commit", "rollback"} => answer'[Of(t, "BEGIN")] = "ok"
    BY <1>0 DEF SentInv
  <2> QED BY <2>1, <2>2 DEF SentInv, Of
<1>6. ToldInv'
  <2>1. \A t \in Txs : ~OnWire(Of(t, "BEGIN"))' /\ ~OnWire(Of(t, "COMMIT"))'
    BY <1>1 DEF Of
  <2> QED BY <1>0, <2>1 DEF ToldInv, Of
<1> QED BY <1>2, <1>3, <1>4, <1>5, <1>6

-----------------------------------------------------------------------------
(* The server's books. *)

\* A statement the server has executed was started, in the transaction it was executed in.
LEMMA ExecutedStarted ==
    ASSUME TypeOK, SentInv, NEW m \in Stmts, NEW by \in Txs \cup {NoTx},
           answer[[op |-> "EXEC", by |-> by, stmt |-> m]] # "none"
    PROVE  /\ stmt[m] # "new" /\ owner[m] = by
           /\ by # NoTx => answer[Of(by, "BEGIN")] = "ok"
<1> DEFINE r == [op |-> "EXEC", by |-> by, stmt |-> m]
<1>1. r \in Request /\ r.op = "EXEC" /\ r.by = by /\ r.stmt = m
  BY StatementRequest
<1>2. Traced(r)
  BY <1>1 DEF SentInv
<1> HIDE DEF r
<1> QED BY <1>1, <1>2 DEF Traced

\* The client's steps leave every answer and, of a statement that was executed, its owner.
LEMMA ClientKeepsExecuted ==
    ASSUME TypeOK, SentInv, TypeOK', SentInv', Onward, UNCHANGED answer, NEW m \in Stmts
    PROVE  /\ answer'[For(m, "EXEC")'] = answer[For(m, "EXEC")]
           /\ answer[For(m, "EXEC")] # "none" => owner'[m] = owner[m]
<1>1. CASE stmt[m] # "new"
  <2>1. owner'[m] = owner[m]
    BY <1>1 DEF Onward, StmtOnward
  <2> QED BY <2>1 DEF For
<1>2. CASE stmt[m] = "new"
  <2>1. owner[m] \in Txs \cup {NoTx} /\ owner'[m] \in Txs \cup {NoTx}
    BY DEF TypeOK
  <2>2. \A by \in Txs \cup {NoTx} : answer[[op |-> "EXEC", by |-> by, stmt |-> m]] = "none"
    BY <1>2, ExecutedStarted
  <2> QED BY <2>1, <2>2 DEF For
<1> QED BY <1>1, <1>2

LEMMA ClientKeepsBooks ==
    ASSUME IInv, TypeOK', ClientInv', Onward, UNCHANGED answer, NEW t \in Txs
    PROVE  /\ Applied(t)' = Applied(t)
           /\ Failed(t)' <=> Failed(t)
           /\ Began(t)' <=> Began(t)
           /\ Committed(t)' <=> Committed(t)
<1>1. \A m \in Stmts : /\ answer'[For(m, "EXEC")'] = answer[For(m, "EXEC")]
                       /\ answer[For(m, "EXEC")] # "none" => owner'[m] = owner[m]
  BY ClientKeepsExecuted DEF IInv, ClientInv
<1>2. \A m \in Writes : (owner'[m] = t /\ answer'[For(m, "EXEC")'] = "ok")
                           <=> (owner[m] = t /\ answer[For(m, "EXEC")] = "ok")
  <2> SUFFICES ASSUME NEW m \in Writes
               PROVE  (owner'[m] = t /\ answer'[For(m, "EXEC")'] = "ok")
                         <=> (owner[m] = t /\ answer[For(m, "EXEC")] = "ok")
    OBVIOUS
  <2>1. m \in Stmts
    BY DEF Stmts
  <2>2. answer'[For(m, "EXEC")'] = answer[For(m, "EXEC")]
    BY <1>1, <2>1
  <2>3. answer[For(m, "EXEC")] = "ok" => owner'[m] = owner[m]
    BY <1>1, <2>1
  <2> QED BY <2>2, <2>3
<1>3. Applied(t)' = Applied(t)
  BY <1>2 DEF Applied
<1>4. Failed(t)' <=> Failed(t)
  BY DEF Failed
<1>5. Began(t)' <=> Began(t)
  BY DEF Began, Of
<1>6. Committed(t)' <=> Committed(t)
  BY <1>4 DEF Committed, Of
<1> QED BY <1>3, <1>4, <1>5, <1>6

LEMMA ClientKeepsLedger ==
    ASSUME IInv, TypeOK', ClientInv', Onward, UNCHANGED <<answer, open, failed, pending, durable>>
    PROVE  LedgerInv'
<1> USE DEF IInv, LedgerInv
<1>1. \A t \in Txs : Applied(t)' = Applied(t)
  BY ClientKeepsBooks
<1>2. \A t \in Txs : Failed(t)' <=> Failed(t)
  BY ClientKeepsBooks
<1>3. \A t \in Txs : Began(t)' <=> Began(t)
  BY ClientKeepsBooks
<1>4. \A t \in Txs : Committed(t)' <=> Committed(t)
  BY ClientKeepsBooks
<1>5. OpenInv'
  <2> SUFFICES ASSUME NEW t \in Txs, open' = t
               PROVE  /\ pending' = Applied(t)' /\ (failed' <=> Failed(t)')
                      /\ Began(t)' /\ answer'[Of(t, "COMMIT")] = "none"
    BY DEF OpenInv, Of
  <2>1. /\ pending = Applied(t) /\ (failed <=> Failed(t))
        /\ Began(t) /\ answer[Of(t, "COMMIT")] = "none"
    BY DEF OpenInv
  <2>2. pending' = Applied(t)'
    BY <1>1, <2>1
  <2>3. failed' <=> Failed(t)'
    BY <1>2, <2>1
  <2>4. Began(t)'
    BY <1>3, <2>1
  <2> QED BY <2>1, <2>2, <2>3, <2>4
<1>6. DurableInv'
  <2>0. pending \cup durable \subseteq Stmts
    BY DEF TypeOK, Stmts
  <2>1. \A m \in Stmts : /\ answer'[For(m, "EXEC")'] = answer[For(m, "EXEC")]
                         /\ answer[For(m, "EXEC")] # "none" => owner'[m] = owner[m]
    BY ClientKeepsExecuted DEF ClientInv
  <2>2. \A m \in pending' \cup durable' : answer'[For(m, "EXEC")'] = "ok"
    BY <2>0, <2>1 DEF DurableInv
  <2>3. ASSUME NEW t \in Txs, Committed(t)' PROVE Applied(t)' \subseteq durable'
    <3>1. Applied(t) \subseteq durable
      BY <1>4, <2>3 DEF DurableInv
    <3> QED BY <1>1, <3>1
  <2>4. ASSUME NEW t \in Txs, NEW m \in durable', owner'[m] = t PROVE Committed(t)'
    <3>1. m \in durable /\ m \in Stmts
      BY <2>0
    <3>2. answer[For(m, "EXEC")] = "ok"
      BY <3>1 DEF DurableInv
    <3>3. owner[m] = t
      BY <2>1, <2>4, <3>1, <3>2
    <3>4. Committed(t)
      BY <3>1, <3>3 DEF DurableInv
    <3> QED BY <1>4, <3>4
  <2> QED BY <2>2, <2>3, <2>4 DEF DurableInv
<1> QED BY <1>5, <1>6

\* What one answer adds to the books of a transaction.
LEMMA ServedBooks ==
    ASSUME TypeOK, OnceInv, Waiting, NEW v \in Answers \ {"none"}, Reply(v), UNCHANGED owner,
           NEW h \in Request, h = Head(wire), NEW t \in Txs
    PROVE  /\ \A x \in Request : answer'[x] = IF x = h THEN v ELSE answer[x]
           /\ answer[h] = "none"
           /\ \A m \in Writes : m \in Applied(t)' <=>
                 (m \in Applied(t) \/ (owner[m] = t /\ h = For(m, "EXEC") /\ v = "ok"))
           /\ Failed(t)' <=>
                 (Failed(t) \/ (h.by = t /\ h.stmt # NoStmt /\ v \in {"error", "late"}))
           /\ Began(t)' <=> (Began(t) \/ (h = Of(t, "BEGIN") /\ v = "ok"))
<1>1. answer[h] = "none" /\ \A x \in Request : answer'[x] = IF x = h THEN v ELSE answer[x]
  BY ReplyFacts
<1>2. ASSUME NEW m \in Writes
      PROVE  m \in Applied(t)' <=>
                 (m \in Applied(t) \/ (owner[m] = t /\ h = For(m, "EXEC") /\ v = "ok"))
  <2>1. m \in Stmts /\ For(m, "EXEC") \in Request
    BY StatementRequest DEF TypeOK, Stmts, For
  <2>2. For(m, "EXEC")' = For(m, "EXEC")
    BY DEF For
  <2>3. answer'[For(m, "EXEC")] = IF For(m, "EXEC") = h THEN v ELSE answer[For(m, "EXEC")]
    BY <1>1, <2>1
  <2>4. m \in Applied(t)' <=> (owner[m] = t /\ answer'[For(m, "EXEC")] = "ok")
    BY <2>2 DEF Applied
  <2>5. m \in Applied(t) <=> (owner[m] = t /\ answer[For(m, "EXEC")] = "ok")
    BY DEF Applied
  <2> QED BY <1>1, <2>3, <2>4, <2>5
<1>3. Failed(t)' <=> (Failed(t) \/ (h.by = t /\ h.stmt # NoStmt /\ v \in {"error", "late"}))
  <2>1. Failed(t)' <=> \E r \in Request : r.by = t /\ r.stmt # NoStmt /\ answer'[r] \in {"error", "late"}
    BY DEF Failed
  <2>2. Failed(t) <=> \E r \in Request : r.by = t /\ r.stmt # NoStmt /\ answer[r] \in {"error", "late"}
    BY DEF Failed
  <2> QED BY <1>1, <2>1, <2>2
<1>4. Began(t)' <=> (Began(t) \/ (h = Of(t, "BEGIN") /\ v = "ok"))
  <2>1. Of(t, "BEGIN") \in Request
    BY OfRequest DEF Control
  <2>2. Began(t)' <=> answer'[Of(t, "BEGIN")] = "ok"
    BY DEF Began, Of
  <2> QED BY <1>1, <2>1, <2>2 DEF Began
<1> QED BY <1>1, <1>2, <1>3, <1>4

\* A statement's answer settles no transaction: its own is still in progress.
LEMMA StatementKeepsCommitted ==
    ASSUME TypeOK, WireInv, OpenInv, Waiting, NEW v \in Answers \ {"none"}, Reply(v),
           UNCHANGED owner, NEW h \in Request, h = Head(wire), h.op \in {"PARSE", "EXEC"},
           NEW t \in Txs
    PROVE  /\ Committed(t)' <=> Committed(t)
           /\ answer'[Of(t, "COMMIT")] = answer[Of(t, "COMMIT")]
           /\ h.by = open
<1>1. /\ \A x \in Request : answer'[x] = IF x = h THEN v ELSE answer[x]
      /\ Failed(t)' <=> (Failed(t) \/ (h.by = t /\ h.stmt # NoStmt /\ v \in {"error", "late"}))
  BY ServedBooks DEF WireInv
<1>2. h.by = open
  BY HeadFits DEF WireInv, Needs
<1>3. Of(t, "COMMIT") \in Request /\ Of(t, "COMMIT") # h
  BY OfRequest DEF Control
<1>4. answer'[Of(t, "COMMIT")] = answer[Of(t, "COMMIT")]
  BY <1>1, <1>3
<1>5. open = t => answer[Of(t, "COMMIT")] = "none"
  BY DEF OpenInv
<1>6. Committed(t)' <=> (answer'[Of(t, "COMMIT")] = "ok" /\ ~Failed(t)')
  BY DEF Committed, Of
<1> QED BY <1>1, <1>2, <1>4, <1>5, <1>6 DEF Committed

\* The first part of the durable set's invariant only grows with the answers.
LEMMA ExecutedKept ==
    ASSUME TypeOK, OnceInv, Waiting, NEW v \in Answers \ {"none"}, Reply(v), UNCHANGED owner,
           NEW m \in Stmts, answer[For(m, "EXEC")] = "ok"
    PROVE  answer'[For(m, "EXEC")'] = "ok"
<1>1. For(m, "EXEC") \in Request /\ For(m, "EXEC")' = For(m, "EXEC")
  BY StatementRequest DEF TypeOK, For
<1>2. /\ answer[Head(wire)] = "none"
      /\ \A x \in Request : x # Head(wire) => answer'[x] = answer[x]
  BY ReplyFacts
<1> QED BY <1>1, <1>2

LEMMA FailKeepsLedger ==
    ASSUME IInv, Waiting, NEW v \in {"error", "late"}, FailStmt(v), UNCHANGED owner,
           NEW h \in Request, h = Head(wire), h.op \in {"PARSE", "EXEC"}
    PROVE  LedgerInv'
<1> USE DEF IInv, WireInv, LedgerInv
<1>0. /\ v \in Answers \ {"none"} /\ Reply(v) /\ failed' = (open # NoTx)
      /\ UNCHANGED <<open, pending, durable>>
  BY DEF FailStmt, Answers
<1>1. h.stmt \in Stmts /\ h.stmt # NoStmt
  BY RequestShape, NotNone DEF Control
<1>2. \A t \in Txs : Applied(t)' = Applied(t)
  <2> SUFFICES ASSUME NEW t \in Txs PROVE Applied(t)' = Applied(t)
    OBVIOUS
  <2>1. \A m \in Writes : m \in Applied(t)' <=> m \in Applied(t)
    BY <1>0, ServedBooks
  <2>2. Applied(t)' \subseteq Writes /\ Applied(t) \subseteq Writes
    BY DEF Applied
  <2> QED BY <2>1, <2>2
<1>3. \A t \in Txs : Failed(t)' <=> (Failed(t) \/ h.by = t)
  BY <1>0, <1>1, ServedBooks
<1>4. \A t \in Txs : Began(t) => Began(t)'
  BY <1>0, ServedBooks
<1>5. \A t \in Txs : Committed(t)' <=> Committed(t)
  BY <1>0, StatementKeepsCommitted
<1>6. \A t \in Txs : answer'[Of(t, "COMMIT")] = answer[Of(t, "COMMIT")]
  BY <1>0, StatementKeepsCommitted
<1>7. h.by = open
  BY HeadFits DEF Needs
<1>8. OpenInv'
  <2>1. open' = NoTx => pending' = {} /\ ~failed'
    BY <1>0 DEF OpenInv
  <2>2. ASSUME NEW t \in Txs, open' = t
        PROVE  /\ pending' = Applied(t)' /\ (failed' <=> Failed(t)')
               /\ Began(t)' /\ answer'[Of(t, "COMMIT")] = "none"
    <3>1. /\ pending = Applied(t)
          /\ Began(t) /\ answer[Of(t, "COMMIT")] = "none"
      BY <1>0, <2>2 DEF OpenInv
    <3>2. failed' /\ Failed(t)'
      BY <1>0, <1>3, <1>7, <2>2, NotNone
    <3>3. pending' = Applied(t)'
      BY <1>0, <1>2, <3>1
    <3>4. Began(t)'
      BY <1>4, <3>1
    <3> QED BY <1>6, <3>1, <3>2, <3>3, <3>4
  <2> QED BY <2>1, <2>2 DEF OpenInv, Of
<1>9. DurableInv'
  <2>1. ASSUME NEW m \in pending' \cup durable' PROVE answer'[For(m, "EXEC")'] = "ok"
    <3>1. m \in Stmts /\ answer[For(m, "EXEC")] = "ok"
      BY <1>0, <2>1 DEF DurableInv, TypeOK, Stmts
    <3> QED BY <1>0, <3>1, ExecutedKept
  <2>2. ASSUME NEW t \in Txs, Committed(t)' PROVE Applied(t)' \subseteq durable'
    <3>1. Applied(t) \subseteq durable
      BY <1>5, <2>2 DEF DurableInv
    <3> QED BY <1>0, <1>2, <3>1
  <2>3. ASSUME NEW t \in Txs, NEW m \in durable', owner'[m] = t PROVE Committed(t)'
    <3>1. Committed(t)
      BY <1>0, <2>3 DEF DurableInv
    <3> QED BY <1>5, <3>1
  <2> QED BY <2>1, <2>2, <2>3 DEF DurableInv
<1> QED BY <1>8, <1>9

\* An answer that is neither an execution's success nor a statement's failure leaves what is
\* applied and failed.
LEMMA QuietBooks ==
    ASSUME TypeOK, OnceInv, Waiting, NEW v \in Answers \ {"none"}, Reply(v), UNCHANGED owner,
           NEW h \in Request, h = Head(wire),
           h.op = "EXEC" => v # "ok", h.stmt # NoStmt => v = "ok",
           NEW t \in Txs
    PROVE  /\ Applied(t)' = Applied(t)
           /\ Failed(t)' <=> Failed(t)
           /\ Began(t) => Began(t)'
<1>1. \A m \in Writes : For(m, "EXEC").op = "EXEC"
  BY DEF For
<1>2. \A m \in Writes : m \in Applied(t)' <=> m \in Applied(t)
  <2>1. \A m \in Writes : m \in Applied(t)' <=>
            (m \in Applied(t) \/ (owner[m] = t /\ h = For(m, "EXEC") /\ v = "ok"))
    BY ServedBooks
  <2> QED BY <1>1, <2>1
<1>3. Applied(t)' \subseteq Writes /\ Applied(t) \subseteq Writes
  BY DEF Applied
<1>4. Failed(t)' <=> (Failed(t) \/ (h.by = t /\ h.stmt # NoStmt /\ v \in {"error", "late"}))
  BY ServedBooks
<1>5. Began(t) => Began(t)'
  BY ServedBooks
<1> QED BY <1>2, <1>3, <1>4, <1>5

LEMMA ParseKeepsLedger ==
    ASSUME IInv, Waiting, Reply("ok"), UNCHANGED serverVars, UNCHANGED owner,
           NEW h \in Request, h = Head(wire), h.op = "PARSE"
    PROVE  LedgerInv'
<1> USE DEF IInv, WireInv, LedgerInv
<1>0. UNCHANGED <<open, failed, pending, durable>> /\ "ok" \in Answers \ {"none"}
  BY DEF serverVars, Answers
<1>1. \A t \in Txs : Applied(t)' = Applied(t)
  BY <1>0, QuietBooks
<1>2. \A t \in Txs : Failed(t)' <=> Failed(t)
  BY <1>0, QuietBooks
<1>3. \A t \in Txs : Began(t) => Began(t)'
  BY <1>0, QuietBooks
<1>4. \A t \in Txs : Committed(t)' <=> Committed(t)
  BY <1>0, StatementKeepsCommitted
<1>5. \A t \in Txs : answer'[Of(t, "COMMIT")] = answer[Of(t, "COMMIT")]
  BY <1>0, StatementKeepsCommitted
<1>6. OpenInv'
  <2>1. open' = NoTx => pending' = {} /\ ~failed'
    BY <1>0 DEF OpenInv
  <2>2. ASSUME NEW t \in Txs, open' = t
        PROVE  /\ pending' = Applied(t)' /\ (failed' <=> Failed(t)')
               /\ Began(t)' /\ answer'[Of(t, "COMMIT")] = "none"
    <3>1. /\ pending = Applied(t) /\ (failed <=> Failed(t))
          /\ Began(t) /\ answer[Of(t, "COMMIT")] = "none"
      BY <1>0, <2>2 DEF OpenInv
    <3>2. failed' <=> Failed(t)'
      BY <1>0, <1>2, <3>1
    <3>3. pending' = Applied(t)'
      BY <1>0, <1>1, <3>1
    <3>4. Began(t)'
      BY <1>3, <3>1
    <3> QED BY <1>5, <3>1, <3>2, <3>3, <3>4
  <2> QED BY <2>1, <2>2 DEF OpenInv, Of
<1>7. DurableInv'
  <2>1. ASSUME NEW m \in pending' \cup durable' PROVE answer'[For(m, "EXEC")'] = "ok"
    <3>1. m \in Stmts /\ answer[For(m, "EXEC")] = "ok"
      BY <1>0, <2>1 DEF DurableInv, TypeOK, Stmts
    <3> QED BY <1>0, <3>1, ExecutedKept
  <2>2. ASSUME NEW t \in Txs, Committed(t)' PROVE Applied(t)' \subseteq durable'
    <3>1. Applied(t) \subseteq durable
      BY <1>4, <2>2 DEF DurableInv
    <3> QED BY <1>0, <1>1, <3>1
  <2>3. ASSUME NEW t \in Txs, NEW m \in durable', owner'[m] = t PROVE Committed(t)'
    <3>1. Committed(t)
      BY <1>0, <2>3 DEF DurableInv
    <3> QED BY <1>4, <3>1
  <2> QED BY <2>1, <2>2, <2>3 DEF DurableInv
<1> QED BY <1>6, <1>7

\* An execution that succeeded is pending in its transaction, or durable on its own.
LEMMA ExecKeepsLedger ==
    ASSUME IInv, Waiting, Reply("ok"), UNCHANGED owner, ~failed,
           NEW h \in Request, h = Head(wire), h.op = "EXEC", UNCHANGED <<open, failed>>,
           IF open = NoTx
             THEN durable' = durable \cup ({h.stmt} \cap Writes) /\ UNCHANGED pending
             ELSE pending' = pending \cup ({h.stmt} \cap Writes) /\ UNCHANGED durable
    PROVE  LedgerInv'
<1> USE DEF IInv, WireInv, ClientInv, LedgerInv
<1>0. "ok" \in Answers \ {"none"}
  BY DEF Answers
<1>1. PICK k \in Stmts, by \in Txs \cup {NoTx} : h = [op |-> "EXEC", by |-> by, stmt |-> k]
  BY RequestShape DEF Control
<1>2. h.stmt = k /\ h.by = by
  BY <1>1
<1>3. open = by
  BY <1>2, HeadFits DEF Needs
<1>4. Traced(h)
  BY HeadFits DEF SentInv
<1>5. owner[k] = by /\ For(k, "EXEC") = h
  BY <1>1, <1>2, <1>4 DEF Traced, For
<1>6. /\ \A t \in Txs : Failed(t)' <=> Failed(t)
      /\ \A t \in Txs : Began(t) => Began(t)'
  BY <1>0, ServedBooks
<1>7. \A t \in Txs : \A m \in Writes :
          m \in Applied(t)' <=> (m \in Applied(t) \/ (m = k /\ by = t))
  <2> SUFFICES ASSUME NEW t \in Txs, NEW m \in Writes
               PROVE  m \in Applied(t)' <=> (m \in Applied(t) \/ (m = k /\ by = t))
    OBVIOUS
  <2>1. m \in Applied(t)' <=> (m \in Applied(t) \/ (owner[m] = t /\ h = For(m, "EXEC")))
    BY <1>0, ServedBooks
  <2>2. h = For(m, "EXEC") <=> m = k
    BY <1>1, <1>2, <1>5 DEF For
  <2> QED BY <1>5, <2>1, <2>2
<1>a. \A t \in Txs : Applied(t)' \subseteq Writes /\ Applied(t) \subseteq Writes
  BY DEF Applied
<1>8. \A t \in Txs : Committed(t)' <=> Committed(t)
  BY <1>0, StatementKeepsCommitted
<1>9. \A t \in Txs : answer'[Of(t, "COMMIT")] = answer[Of(t, "COMMIT")]
  BY <1>0, StatementKeepsCommitted
<1>10. \A m \in Stmts : answer[For(m, "EXEC")] = "ok" => answer'[For(m, "EXEC")'] = "ok"
  BY <1>0, ExecutedKept
<1>11. answer'[For(k, "EXEC")'] = "ok"
  <2>1. For(k, "EXEC")' = h
    BY <1>5 DEF For
  <2>2. answer'[h] = "ok"
    BY <1>0, ReplyFacts
  <2> QED BY <2>1, <2>2
<1>12. OpenInv'
  <2>1. open' = NoTx => pending' = {} /\ ~failed'
    BY DEF OpenInv
  <2>2. ASSUME NEW t \in Txs, open' = t
        PROVE  /\ pending' = Applied(t)' /\ (failed' <=> Failed(t)')
               /\ Began(t)' /\ answer'[Of(t, "COMMIT")] = "none"
    <3>1. /\ pending = Applied(t) /\ (failed <=> Failed(t))
          /\ Began(t) /\ answer[Of(t, "COMMIT")] = "none"
      BY <2>2 DEF OpenInv
    <3>2. failed' <=> Failed(t)'
      BY <1>6, <3>1
    <3>3. by = t /\ pending' = pending \cup ({k} \cap Writes)
      BY <1>2, <1>3, <2>2, NotNone
    <3>4. pending' = Applied(t)'
      BY <1>7, <1>a, <3>1, <3>3
    <3>5. Began(t)'
      BY <1>6, <3>1
    <3> QED BY <1>9, <3>1, <3>2, <3>4, <3>5
  <2> QED BY <2>1, <2>2 DEF OpenInv, Of
<1>13. DurableInv'
  <2>1. ASSUME NEW m \in pending' \cup durable' PROVE answer'[For(m, "EXEC")'] = "ok"
    <3>1. m = k \/ m \in pending \cup durable
      BY <1>2, <2>1
    <3>2. CASE m = k
      BY <1>11, <3>2
    <3>3. CASE m \in pending \cup durable
      <4>1. m \in Stmts /\ answer[For(m, "EXEC")] = "ok"
        BY <3>3 DEF DurableInv, TypeOK, Stmts
      <4> QED BY <1>10, <4>1
    <3> QED BY <3>1, <3>2, <3>3
  <2>2. ASSUME NEW t \in Txs, Committed(t)' PROVE Applied(t)' \subseteq durable'
    <3>1. Committed(t)
      BY <1>8, <2>2
    <3>2. Applied(t) \subseteq durable
      BY <3>1 DEF DurableInv
    <3>3. by # t
      <4>1. answer[Of(t, "COMMIT")] = "ok"
        BY <3>1 DEF Committed
      <4> QED BY <1>3, <4>1 DEF OpenInv
    <3>4. Applied(t)' = Applied(t)
      BY <1>7, <1>a, <3>3
    <3>5. durable \subseteq durable'
      BY <1>2
    <3> QED BY <3>2, <3>4, <3>5
  <2>3. ASSUME NEW t \in Txs, NEW m \in durable', owner'[m] = t PROVE Committed(t)'
    <3>1. CASE m \in durable
      <4>1. Committed(t)
        BY <2>3, <3>1 DEF DurableInv
      <4> QED BY <1>8, <4>1
    <3>2. CASE m \notin durable
      <4>1. open = NoTx /\ m = k
        BY <1>2, <2>3, <3>2
      <4>2. owner[m] = NoTx
        BY <1>3, <1>5, <4>1
      <4> QED BY <2>3, <4>2, NotNone
    <3> QED BY <3>1, <3>2
  <2> QED BY <2>1, <2>2, <2>3 DEF DurableInv
<1> QED BY <1>12, <1>13

\* A transaction whose START TRANSACTION is being served has nothing in the books.
LEMMA FreshBooks ==
    ASSUME TypeOK, SentInv, NEW t \in Txs, answer[Of(t, "BEGIN")] = "none"
    PROVE  /\ Applied(t) = {} /\ ~Failed(t)
           /\ answer[Of(t, "COMMIT")] = "none"
<1>1. \A r \in Request : answer[r] # "none" => Traced(r)
  BY DEF SentInv
<1>2. \A r \in Request : (r.by = t /\ r.op \notin {"BEGIN", "DROP"}) => answer[r] = "none"
  BY <1>1, NotNone DEF Traced
<1>3. Applied(t) = {}
  <2> SUFFICES ASSUME NEW m \in Writes, owner[m] = t PROVE answer[For(m, "EXEC")] # "ok"
    BY DEF Applied
  <2>1. For(m, "EXEC") \in Request /\ For(m, "EXEC").by = t /\ For(m, "EXEC").op = "EXEC"
    BY StatementRequest DEF For, Stmts
  <2> QED BY <1>2, <2>1
<1>4. ~Failed(t)
  <2> SUFFICES ASSUME NEW r \in Request, r.by = t, r.stmt # NoStmt PROVE answer[r] = "none"
    BY DEF Failed
  <2>1. r.op \notin {"BEGIN", "DROP"}
    BY RequestShape DEF Of
  <2> QED BY <1>2, <2>1
<1>5. answer[Of(t, "COMMIT")] = "none"
  <2>1. /\ Of(t, "COMMIT") \in Request
        /\ Of(t, "COMMIT").op = "COMMIT" /\ Of(t, "COMMIT").by = t
    BY OfRequest DEF Control
  <2> QED BY <1>2, <2>1
<1> QED BY <1>3, <1>4, <1>5

\* Control requests change the books of a transaction only by what they answer for it.
LEMMA ControlBooks ==
    ASSUME TypeOK, OnceInv, Waiting, NEW v \in Answers \ {"none"}, Reply(v), UNCHANGED owner,
           NEW h \in Request, h = Head(wire), h.op \in Control, NEW t \in Txs
    PROVE  /\ Applied(t)' = Applied(t)
           /\ Failed(t)' <=> Failed(t)
           /\ Committed(t)' <=> (Committed(t) \/ (h = Of(t, "COMMIT") /\ v = "ok" /\ ~Failed(t)))
<1>1. h.stmt = NoStmt /\ h.op # "EXEC"
  BY RequestShape DEF Of, Control
<1>2. Applied(t)' = Applied(t) /\ (Failed(t)' <=> Failed(t))
  BY <1>1, QuietBooks
<1>3. Of(t, "COMMIT") \in Request
  BY OfRequest DEF Control
<1>4. answer[h] = "none" /\ answer'[Of(t, "COMMIT")] = IF Of(t, "COMMIT") = h THEN v ELSE answer[Of(t, "COMMIT")]
  BY <1>3, ServedBooks
<1>5. Committed(t)' <=> (answer'[Of(t, "COMMIT")] = "ok" /\ ~Failed(t)')
  BY DEF Committed, Of
<1> QED BY <1>2, <1>4, <1>5 DEF Committed

LEMMA BeginKeepsLedger ==
    ASSUME IInv, ServeBegin
    PROVE  LedgerInv'
<1> USE DEF IInv, WireInv, ClientInv, LedgerInv
<1>0. Waiting /\ Head(wire).op = "BEGIN" /\ UNCHANGED owner
  BY DEF ServeBegin, clientVars
<1>1. PICK h \in Request : h = Head(wire) /\ Needs(h) = open
  BY <1>0, HeadFits
<1>2. PICK b \in Txs : h = Of(b, "BEGIN")
  BY <1>0, <1>1, RequestShape
<1>3. open = NoTx /\ ~failed /\ pending = {}
  BY <1>0, <1>1 DEF Needs, OpenInv
<1>4. Reply("ok") /\ open' = b /\ UNCHANGED <<failed, pending, durable>> /\ "ok" \in Answers \ {"none"}
  BY <1>1, <1>2, <1>3 DEF ServeBegin, Of, Answers
<1>5. h.op \in Control
  BY <1>2 DEF Of, Control
<1>6. \A t \in Txs : Applied(t)' = Applied(t)
  BY <1>0, <1>1, <1>4, <1>5, ControlBooks
<1>7. \A t \in Txs : Failed(t)' <=> Failed(t)
  BY <1>0, <1>1, <1>4, <1>5, ControlBooks
<1>8. \A t \in Txs : Committed(t)' <=> Committed(t)
  <2>1. \A t \in Txs : h # Of(t, "COMMIT")
    BY <1>2 DEF Of
  <2> QED BY <1>0, <1>1, <1>4, <1>5, <2>1, ControlBooks
<1>9. answer[h] = "none" /\ answer'[h] = "ok"
  BY <1>0, <1>1, <1>4, ReplyFacts
<1>10. Applied(b) = {} /\ ~Failed(b) /\ answer[Of(b, "COMMIT")] = "none"
  BY <1>2, <1>9, FreshBooks
<1>11. OpenInv'
  <2>1. answer'[Of(b, "COMMIT")] = "none"
    <3>1. Of(b, "COMMIT") \in Request /\ Of(b, "COMMIT") # h
      BY <1>2, OfRequest DEF Control, Of
    <3>2. answer'[Of(b, "COMMIT")] = answer[Of(b, "COMMIT")]
      BY <1>0, <1>1, <1>4, <3>1, ReplyFacts
    <3> QED BY <1>10, <3>2
  <2>2. Began(b)'
    BY <1>2, <1>9 DEF Began, Of
  <2>3. pending' = Applied(b)' /\ (failed' <=> Failed(b)')
    BY <1>3, <1>4, <1>6, <1>7, <1>10
  <2> QED BY <1>3, <1>4, <2>1, <2>2, <2>3, NotNone DEF OpenInv, Of
<1>12. DurableInv'
  <2>1. ASSUME NEW m \in pending' \cup durable' PROVE answer'[For(m, "EXEC")'] = "ok"
    <3>1. m \in Stmts /\ answer[For(m, "EXEC")] = "ok"
      BY <1>4, <2>1 DEF DurableInv, TypeOK, Stmts
    <3> QED BY <1>0, <1>4, <3>1, ExecutedKept
  <2>2. ASSUME NEW t \in Txs, Committed(t)' PROVE Applied(t)' \subseteq durable'
    <3>1. Applied(t) \subseteq durable
      BY <1>8, <2>2 DEF DurableInv
    <3> QED BY <1>4, <1>6, <3>1
  <2>3. ASSUME NEW t \in Txs, NEW m \in durable', owner'[m] = t PROVE Committed(t)'
    <3>1. Committed(t)
      BY <1>0, <1>4, <2>3 DEF DurableInv
    <3> QED BY <1>8, <3>1
  <2> QED BY <2>1, <2>2, <2>3 DEF DurableInv
<1> QED BY <1>11, <1>12

\* The end of a transaction, or a control request outside one.  What was pending is durable
\* if the transaction commits, and gone otherwise.
LEMMA EndKeepsLedger ==
    ASSUME IInv, Waiting, NEW v \in {"ok", "error"}, Reply(v), UNCHANGED owner,
           NEW h \in Request, h = Head(wire), h.op \in {"COMMIT", "ROLLBACK", "DROP"},
           open' = NoTx, pending' = {}, ~failed',
           IF h.op = "COMMIT" /\ open # NoTx /\ ~failed /\ v = "ok"
             THEN durable' = durable \cup pending ELSE UNCHANGED durable
    PROVE  LedgerInv'
<1> USE DEF IInv, WireInv, ClientInv, LedgerInv
<1>0. v \in Answers \ {"none"} /\ h.op \in Control
  BY DEF Answers, Control
<1>1. open = h.by /\ h.by \in Txs
  BY <1>0, HeadFits, RequestShape DEF Needs
<1>2. \A t \in Txs : Applied(t)' = Applied(t)
  BY <1>0, ControlBooks
<1>3. \A t \in Txs : Failed(t)' <=> Failed(t)
  BY <1>0, ControlBooks
<1>4. \A t \in Txs : Committed(t)' <=> (Committed(t) \/ (h = Of(t, "COMMIT") /\ v = "ok" /\ ~Failed(t)))
  BY <1>0, ControlBooks
<1>5. pending = Applied(h.by) /\ (failed <=> Failed(h.by))
  BY <1>1 DEF OpenInv
<1>6. \A t \in Txs : h = Of(t, "COMMIT") <=> (h.op = "COMMIT" /\ t = h.by)
  BY <1>0, RequestShape DEF Of
<1>7. durable \subseteq durable' /\ durable' \subseteq durable \cup pending
  BY DEF LedgerInv
<1>8. OpenInv'
  BY NotNone DEF OpenInv
<1>9. DurableInv'
  <2>1. ASSUME NEW m \in pending' \cup durable' PROVE answer'[For(m, "EXEC")'] = "ok"
    <3>1. m \in pending \cup durable
      BY <1>7, <2>1
    <3>2. m \in Stmts /\ answer[For(m, "EXEC")] = "ok"
      BY <3>1 DEF DurableInv, TypeOK, Stmts
    <3> QED BY <1>0, <3>2, ExecutedKept
  <2>2. ASSUME NEW t \in Txs, Committed(t)' PROVE Applied(t)' \subseteq durable'
    <3>1. CASE Committed(t)
      BY <1>2, <1>7, <3>1 DEF DurableInv
    <3>2. CASE h = Of(t, "COMMIT") /\ v = "ok" /\ ~Failed(t)
      <4>1. h.op = "COMMIT" /\ t = h.by
        BY <1>6, <3>2
      <4>2. ~failed /\ open # NoTx
        BY <1>1, <1>5, <3>2, <4>1, NotNone
      <4>3. durable' = durable \cup pending
        BY <3>2, <4>1, <4>2
      <4> QED BY <1>2, <1>5, <4>1, <4>3
    <3> QED BY <1>4, <2>2, <3>1, <3>2
  <2>3. ASSUME NEW t \in Txs, NEW m \in durable', owner'[m] = t PROVE Committed(t)'
    <3>1. CASE m \in durable
      <4>1. Committed(t)
        BY <2>3, <3>1 DEF DurableInv
      <4> QED BY <1>4, <4>1
    <3>2. CASE m \notin durable
      <4>1. h.op = "COMMIT" /\ ~failed /\ v = "ok" /\ m \in pending
        BY <2>3, <3>2
      <4>2. owner[m] = h.by
        BY <1>5, <4>1 DEF Applied
      <4>3. t = h.by
        BY <2>3, <4>2
      <4>4. h = Of(t, "COMMIT") /\ ~Failed(t)
        BY <1>5, <1>6, <4>1, <4>3
      <4> QED BY <1>4, <4>1, <4>4
    <3> QED BY <3>1, <3>2
  <2> QED BY <2>1, <2>2, <2>3 DEF DurableInv
<1> QED BY <1>8, <1>9

LEMMA ServerKeepsLedger ==
    ASSUME IInv, Server
    PROVE  LedgerInv'
<1>0. Waiting /\ UNCHANGED owner
  BY DEF Server, ServeParse, ServeExec, ServeBegin, ServeCommit, ServeRollback, clientVars
<1>h. PICK h \in Request : h = Head(wire)
  BY <1>0, HeadFits DEF IInv, WireInv
<1>t. failed \in BOOLEAN
  BY DEF IInv, TypeOK
<1>1. CASE ServeParse
  <2>1. h.op = "PARSE"
    BY <1>1, <1>h DEF ServeParse
  <2>2. (Reply("ok") /\ UNCHANGED serverVars) \/ FailStmt("error")
    BY <1>1 DEF ServeParse
  <2> QED BY <1>0, <1>h, <2>1, <2>2, ParseKeepsLedger, FailKeepsLedger
<1>2. CASE ServeExec
  <2>1. h.op = "EXEC"
    BY <1>2, <1>h DEF ServeExec
  <2>2. CASE FailStmt("error") \/ FailStmt("late")
    BY <1>0, <1>h, <2>1, <2>2, FailKeepsLedger
  <2>3. CASE ~(FailStmt("error") \/ FailStmt("late"))
    <3>1. /\ ~failed /\ Reply("ok") /\ UNCHANGED <<open, failed>>
          /\ IF open = NoTx
               THEN durable' = durable \cup ({h.stmt} \cap Writes) /\ UNCHANGED pending
               ELSE pending' = pending \cup ({h.stmt} \cap Writes) /\ UNCHANGED durable
      BY <1>2, <1>h, <2>3 DEF ServeExec
    <3> QED BY <1>0, <1>h, <2>1, <3>1, ExecKeepsLedger
  <2> QED BY <2>2, <2>3
<1>3. CASE ServeBegin
  BY <1>3, BeginKeepsLedger
<1>4. CASE ServeCommit
  <2>1. h.op = "COMMIT"
    BY <1>4, <1>h DEF ServeCommit
  <2>2. \E v \in {"ok", "error"} :
            /\ Reply(v) /\ open' = NoTx /\ pending' = {} /\ ~failed'
            /\ IF open # NoTx /\ ~failed /\ v = "ok"
                 THEN durable' = durable \cup pending ELSE UNCHANGED durable
    <3>1. CASE (open = NoTx \/ failed) /\ Reply("ok") /\ Discard
      BY <3>1 DEF Discard
    <3>2. CASE open # NoTx /\ ~failed /\ Reply("error") /\ Discard
      BY <3>2 DEF Discard
    <3>3. CASE /\ open # NoTx /\ ~failed /\ Reply("ok")
               /\ durable' = durable \cup pending
               /\ open' = NoTx /\ pending' = {} /\ UNCHANGED failed
      BY <3>3
    <3> QED BY <1>4, <3>1, <3>2, <3>3 DEF ServeCommit
  <2> QED BY <1>0, <1>h, <2>1, <2>2, EndKeepsLedger
<1>5. CASE ServeRollback
  <2>1. h.op \in {"COMMIT", "ROLLBACK", "DROP"} /\ h.op # "COMMIT"
    BY <1>5, <1>h DEF ServeRollback
  <2>2. Reply("ok") /\ open' = NoTx /\ pending' = {} /\ ~failed' /\ UNCHANGED durable
    BY <1>5 DEF ServeRollback, Discard
  <2> QED BY <1>0, <1>h, <2>1, <2>2, EndKeepsLedger
<1> QED BY <1>1, <1>2, <1>3, <1>4, <1>5 DEF Server

LEMMA LoseKeepsLedger ==
    ASSUME IInv, TypeOK', ClientInv', Lose
    PROVE  LedgerInv'
<1> USE DEF IInv, LedgerInv
<1>0. /\ UNCHANGED <<answer, durable>>
      /\ open' = NoTx /\ pending' = {} /\ ~failed'
  BY DEF Lose, Discard
<1>1. Onward
  BY LoseStep
<1>2. \A t \in Txs : Applied(t)' = Applied(t)
  BY <1>0, <1>1, ClientKeepsBooks
<1>3. \A t \in Txs : Committed(t)' <=> Committed(t)
  BY <1>0, <1>1, ClientKeepsBooks
<1>4. OpenInv'
  BY <1>0, NotNone DEF OpenInv
<1>5. DurableInv'
  <2>0. UNCHANGED owner
    BY DEF Lose, clientVars
  <2>1. \A m \in durable' : answer'[For(m, "EXEC")'] = "ok"
    BY <1>0, <2>0 DEF DurableInv, For
  <2>2. \A t \in Txs : Committed(t)' => Applied(t)' \subseteq durable'
    BY <1>0, <1>2, <1>3 DEF DurableInv
  <2>3. \A t \in Txs, m \in durable' : owner'[m] = t => Committed(t)'
    BY <1>0, <1>3, <2>0 DEF DurableInv
  <2>4. pending' \cup durable' = durable'
    BY <1>0
  <2> QED BY <2>1, <2>2, <2>3, <2>4 DEF DurableInv
<1> QED BY <1>4, <1>5

-----------------------------------------------------------------------------
(* The invariant and what follows from it. *)

\* Every client step: the wire, the client's own books and the server's answers.
LEMMA ClientStep ==
    ASSUME IInv, [Next]_vars, ~Server, ~Lose
    PROVE  WireInv' /\ ClientInv' /\ Onward /\ UNCHANGED <<answer, open, failed, pending, durable>>
<1> USE DEF serverVars
<1>1. ASSUME NEW by \in Txs \cup {NoTx}, NEW m \in Stmts, Execute(by, m)
      PROVE  WireInv' /\ ClientInv' /\ Onward /\ UNCHANGED <<answer, open, failed, pending, durable>>
  BY <1>1, ExecuteStep DEF Execute
<1>2. ASSUME NEW m \in Stmts, Prepared(m)
      PROVE  WireInv' /\ ClientInv' /\ Onward /\ UNCHANGED <<answer, open, failed, pending, durable>>
  BY <1>2, PreparedStep DEF Prepared
<1>3. ASSUME NEW m \in Stmts, Collect(m) \/ FetchOne(m) \/ DropStmt(m)
      PROVE  WireInv' /\ ClientInv' /\ Onward /\ UNCHANGED <<answer, open, failed, pending, durable>>
  BY <1>3, StatementEndsStep DEF Collect, FetchOne, DropStmt
<1>4. ASSUME NEW t \in Txs, Transaction(t)
      PROVE  WireInv' /\ ClientInv' /\ Onward /\ UNCHANGED <<answer, open, failed, pending, durable>>
  BY <1>4, TransactionStep DEF Transaction
<1>5. ASSUME NEW t \in Txs, Resume(t)
      PROVE  WireInv' /\ ClientInv' /\ Onward /\ UNCHANGED <<answer, open, failed, pending, durable>>
  BY <1>5, ResumeStep DEF Resume, BeginReturns, CommitReturns, RollbackReturns, Finish
<1>6. ASSUME NEW t \in Txs, BodyReturnsOk(t) \/ BodyReturnsErr(t)
      PROVE  WireInv' /\ ClientInv' /\ Onward /\ UNCHANGED <<answer, open, failed, pending, durable>>
  BY <1>6, BodyReturnsStep DEF BodyReturnsOk, BodyReturnsErr, BodyReturns
<1>7. ASSUME NEW t \in Txs, Cancel(t)
      PROVE  WireInv' /\ ClientInv' /\ Onward /\ UNCHANGED <<answer, open, failed, pending, durable>>
  BY <1>7, CancelStep DEF Cancel, Finish
<1>8. ASSUME UNCHANGED vars
      PROVE  WireInv' /\ ClientInv' /\ Onward /\ UNCHANGED <<answer, open, failed, pending, durable>>
  <2>1. UNCHANGED <<holder, phase, outcome, stmt, owner, wire, answer, lost, unheard, open,
                    failed, pending, durable>>
    BY <1>8 DEF vars
  <2>2. ChainInv' /\ OnceInv' /\ LostInv' /\ AtEnd' = AtEnd
    BY <2>1, QuietWire DEF IInv
  <2>3. EndInv'
    BY <2>1, <2>2 DEF EndInv, IInv, WireInv
  <2>4. HolderInv' /\ RunningInv'
    BY <2>1 DEF HolderInv, RunningInv, MayRun, IInv, ClientInv
  <2>5. ToldInv'
    BY <2>1, SilenceKeepsTold DEF IInv, ClientInv
  <2>6. Onward
    BY <2>1 DEF Onward, PhaseOnward, StmtOnward
  <2>7. SentInv'
    <3>1. \A x \in Request : (OnWire(x)' \/ answer'[x] # "none") => Traced(x)'
      BY <2>1, <2>6, SilenceKeepsTraces DEF IInv, ClientInv
    <3>2. \A u \in Txs : phase'[u] \in {"body", "commit", "rollback"} => answer'[Of(u, "BEGIN")] = "ok"
      BY <2>1 DEF SentInv, IInv, ClientInv
    <3> QED BY <3>1, <3>2 DEF SentInv, Of
  <2> QED BY <2>1, <2>2, <2>3, <2>4, <2>5, <2>6, <2>7 DEF WireInv, ClientInv
<1> QED BY <1>1, <1>2, <1>3, <1>4, <1>5, <1>6, <1>7, <1>8 DEF Next

LEMMA InvInit == Init => IInv
<1> SUFFICES ASSUME Init PROVE IInv
  OBVIOUS
<1>1. TypeOK
  BY TypeInit
<1>2. Len(wire) = 0 /\ \A r : ~OnWire(r)
  BY DEF Init, OnWire
<1>3. \A r \in Request : answer[r] = "none"
  BY DEF Init
<1>4. WireInv
  BY <1>2, <1>3 DEF Init, WireInv, ChainInv, EndInv, AtEnd, LostInv, OnceInv
<1>5. ClientInv
  <2>1. HolderInv /\ RunningInv
    BY NotNone DEF Init, HolderInv, RunningInv
  <2>2. SentInv /\ ToldInv
    BY <1>2, <1>3 DEF Init, SentInv, ToldInv
  <2> QED BY <2>1, <2>2 DEF ClientInv
<1>6. LedgerInv
  <2>1. open = NoTx /\ pending = {} /\ durable = {} /\ ~failed
    BY DEF Init
  <2>2. \A t \in Txs : ~Committed(t)
    <3>1. \A t \in Txs : Of(t, "COMMIT") \in Request
      BY OfRequest DEF Control
    <3> QED BY <1>3, <3>1 DEF Committed
  <2> QED BY <2>1, <2>2, NotNone DEF LedgerInv, OpenInv, DurableInv
<1> QED BY <1>1, <1>4, <1>5, <1>6 DEF IInv

LEMMA InvStep == IInv /\ [Next]_vars => IInv'
<1> SUFFICES ASSUME IInv, [Next]_vars PROVE IInv'
  OBVIOUS
<1>1. TypeOK'
  BY TypeStep DEF IInv
<1>2. CASE Server
  BY <1>1, <1>2, ServerStep, ServerKeepsLedger DEF IInv
<1>3. CASE Lose
  BY <1>1, <1>3, LoseStep, LoseKeepsLedger DEF IInv
<1>4. CASE ~Server /\ ~Lose
  <2>1. WireInv' /\ ClientInv' /\ Onward /\ UNCHANGED <<answer, open, failed, pending, durable>>
    BY <1>4, ClientStep
  <2>2. LedgerInv'
    BY <1>1, <2>1, ClientKeepsLedger
  <2> QED BY <1>1, <2>1, <2>2 DEF IInv
<1> QED BY <1>2, <1>3, <1>4

LEMMA Invariance == Spec => []IInv
<1>1. Init => IInv
  BY InvInit
<1>2. IInv /\ [Next]_vars => IInv'
  BY InvStep
<1> QED BY <1>1, <1>2, PTL DEF Spec

\* IsolationInv, for any number of transactions and statements: the request the server is
\* about to serve belongs to the transaction in progress, or finds none and needs none.
THEOREM Isolation == Spec => []IsolationInv
<1>1. IInv => IsolationInv
  <2> SUFFICES ASSUME IInv, Waiting
               PROVE  IF Head(wire).op \in {"PARSE", "EXEC"}
                        THEN open = Head(wire).by
                        ELSE open \in {Head(wire).by, NoTx}
    BY DEF IsolationInv
  <2>1. Needs(Head(wire)) = open
    BY HeadFits DEF IInv, WireInv
  <2> QED BY <2>1 DEF Needs
<1> QED BY <1>1, Invariance, PTL

\* OutcomeIsSound, for any number of transactions and statements: what transaction() answers
\* is true of what the server made durable.
THEOREM Outcomes == Spec => []OutcomeIsSound
<1>1. IInv => OutcomeIsSound
  <2> SUFFICES ASSUME IInv, NEW t \in Txs
               PROVE  /\ outcome[t] = "ok" =>
                            (Committed(t) /\ Applied(t) \subseteq durable) \/ Failed(t)
                      /\ outcome[t] = "error" =>
                            Submitted(t) \cap durable = {} \/ (lost /\ Committed(t))
    BY DEF OutcomeIsSound
  <2>1. ASSUME outcome[t] = "ok", ~Failed(t) PROVE Committed(t) /\ Applied(t) \subseteq durable
    <3>1. Committed(t)
      BY <2>1 DEF IInv, ClientInv, ToldInv, Committed
    <3> QED BY <3>1 DEF IInv, LedgerInv, DurableInv
  <2>2. ASSUME outcome[t] = "error", NEW m \in Submitted(t) \cap durable
        PROVE  lost /\ Committed(t)
    <3>1. Committed(t)
      BY <2>2 DEF IInv, LedgerInv, DurableInv, Submitted
    <3> QED BY <2>2, <3>1 DEF IInv, ClientInv, ToldInv, Committed
  <2> QED BY <2>1, <2>2
<1> QED BY <1>1, Invariance, PTL

-----------------------------------------------------------------------------
(* What it takes for Ok to mean durable: a body that swallows nothing, and *)
(* reads that fail, if at all, before their first row.                     *)

\* The server has answered this request of t for m, and with success.
Succeeded(t, m, op) == answer[[op |-> op, by |-> t, stmt |-> m]] = "ok"

\* While a body has seen no error, every statement it has heard of has succeeded; all its
\* statements have, once it returned Ok.
OwnedInv(t, m) ==
    /\ phase[t] \notin {"new", "begin"} /\ stmt[m] # "new"
    /\ phase[t] = "body" /\ t \notin sawError =>
          /\ stmt[m] \in {"exec", "over"} => Succeeded(t, m, "PARSE")
          /\ stmt[m] = "over" => Succeeded(t, m, "EXEC")
    /\ phase[t] = "commit" \/ outcome[t] = "ok" =>
          Succeeded(t, m, "PARSE") /\ Succeeded(t, m, "EXEC")

HonestInv ==
    /\ \A r \in Request : answer[r] # "late"
    /\ \A t \in Txs, m \in Stmts : owner[m] = t => OwnedInv(t, m)

\* A success stays, and nothing fails after its first row.
LEMMA AnswersStay ==
    ASSUME IInv, HonestInv, [Next]_vars, ~MayFailLate
    PROVE  \A r \in Request : (answer[r] = "ok" => answer'[r] = "ok") /\ answer'[r] # "late"
<1>1. CASE Server
  <2>1. PICK v \in {"ok", "error"} : Waiting /\ Reply(v)
    BY <1>1 DEF Server, ServeParse, ServeExec, ServeBegin, ServeCommit, ServeRollback, FailStmt
  <2>2. v \in Answers
    BY DEF Answers
  <2>3. /\ answer[Head(wire)] = "none" /\ answer'[Head(wire)] = v
        /\ \A r \in Request : r # Head(wire) => answer'[r] = answer[r]
    BY <2>1, <2>2, ReplyFacts DEF IInv, WireInv
  <2> QED BY <2>3 DEF HonestInv
<1>2. CASE Lose
  BY <1>2 DEF Lose, HonestInv
<1>3. CASE ~Server /\ ~Lose
  BY <1>3, ClientStep DEF HonestInv
<1> QED BY <1>1, <1>2, <1>3

\* An answer that reads as a success is one.
LEMMA AnswerIsServers ==
    ASSUME NEW r, Answer(r) = "ok"
    PROVE  answer[r] = "ok"
BY DEF Answer

\* The ways a statement of a transaction that swallows nothing is over for its body: it was told
\* of a failure, or both requests had succeeded.
LEMMA EndIsHonest ==
    ASSUME IInv, HonestInv, ~MaySwallow, NEW t \in Txs, NEW m \in Stmts, owner[m] = t,
           Collect(m) \/ FetchOne(m) \/ DropStmt(m) \/ (Prepared(m) /\ stmt'[m] = "over")
    PROVE  t \in sawError' \/ (stmt[m] = "exec" /\ Succeeded(t, m, "EXEC"))
<1>0. For(m, "EXEC") = [op |-> "EXEC", by |-> t, stmt |-> m] /\ For(m, "EXEC") \in Request
  BY StatementRequest DEF For
<1>1. t # NoTx
  BY NotNone
<1>2. CASE Collect(m)
  BY <1>0, <1>1, <1>2, AnswerIsServers DEF Collect, EndStmt, Succeeded
<1>3. CASE FetchOne(m)
  <2>1. Answer(For(m, "EXEC")) \in {"ok", "error"}
    <3>1. answer[For(m, "EXEC")] \in {"none", "ok", "error"}
      BY <1>0 DEF IInv, TypeOK, Answers, HonestInv
    <3> QED BY <3>1 DEF Answer
  <2>2. Answer(For(m, "EXEC")) = "ok" => Succeeded(t, m, "EXEC")
    BY <1>0, AnswerIsServers DEF Succeeded
  <2> QED BY <1>1, <1>3, <2>1, <2>2 DEF FetchOne, EndStmt
<1>4. CASE DropStmt(m)
  BY <1>1, <1>4 DEF DropStmt
<1>5. CASE Prepared(m) /\ stmt'[m] = "over"
  <2>1. Answer(For(m, "PARSE")) # "ok"
    BY <1>5 DEF Prepared, IInv, TypeOK
  <2> QED BY <1>1, <1>5, <2>1 DEF Prepared, EndStmt
<1> QED BY <1>2, <1>3, <1>4, <1>5

\* A step that leaves the transaction and the statement alone.
LEMMA OwnedKept ==
    ASSUME NEW t \in Txs, NEW m \in Stmts, OwnedInv(t, m),
           \A r \in Request : answer[r] = "ok" => answer'[r] = "ok",
           phase'[t] = phase[t], outcome'[t] = outcome[t], t \in sawError => t \in sawError',
           stmt'[m] = stmt[m] \/ (stmt'[m] # "new" /\ phase[t] # "body")
    PROVE  OwnedInv(t, m)'
<1>1. \A op \in {"PARSE", "EXEC"} : Succeeded(t, m, op) => Succeeded(t, m, op)'
  BY StatementRequest DEF Succeeded
<1> QED BY <1>1 DEF OwnedInv

\* The transaction's own steps out of its body and to its end.
LEMMA FinishIsHonest ==
    ASSUME IInv, HonestInv, [Next]_vars, ~MayFailLate, NEW t \in Txs, NEW result, NEW done,
           Finish(t, result, done), phase[t] \notin {"new", "over"},
           result = "ok" => phase[t] = "commit",
           NEW u \in Txs, NEW m \in Stmts, owner[m] = u
    PROVE  OwnedInv(u, m)'
<1>0. /\ OwnedInv(u, m)
      /\ \A r \in Request : answer[r] = "ok" => answer'[r] = "ok"
      /\ \A op \in {"PARSE", "EXEC"} : Succeeded(u, m, op) => Succeeded(u, m, op)'
  BY AnswersStay, StatementRequest DEF HonestInv, Succeeded
<1>1. /\ phase' = [phase EXCEPT ![t] = "over"] /\ outcome' = [outcome EXCEPT ![t] = result]
      /\ stmt'[m] # "new" /\ UNCHANGED sawError
  BY <1>0 DEF Finish, DropAll, OwnedInv
<1>2. phase \in [Txs -> Phases] /\ DOMAIN outcome = Txs
  BY DEF IInv, TypeOK
<1>3. CASE u = t
  BY <1>0, <1>1, <1>2, <1>3 DEF OwnedInv
<1>4. CASE u # t
  <2>1. phase[u] # "body" /\ phase'[u] = phase[u] /\ outcome'[u] = outcome[u]
    BY <1>1, <1>2, <1>4 DEF IInv, ClientInv, HolderInv
  <2>2. /\ \A x \in Request : answer[x] = "ok" => answer'[x] = "ok"
        /\ u \in sawError => u \in sawError'
    BY <1>0, <1>1
  <2> QED BY <1>0, <1>1, <2>1, <2>2, OwnedKept
<1> QED BY <1>3, <1>4

LEMMA HonestStep ==
    ASSUME IInv, HonestInv, [Next]_vars, ~MaySwallow, ~MayFailLate
    PROVE  HonestInv'
<1> USE DEF IInv, TypeOK
<1>a. \A r \in Request : (answer[r] = "ok" => answer'[r] = "ok") /\ answer'[r] # "late"
  BY AnswersStay
<1>b. SUFFICES ASSUME NEW u \in Txs, NEW k \in Stmts, owner'[k] = u PROVE OwnedInv(u, k)'
  BY <1>a DEF HonestInv
<1>c. owner[k] = u => OwnedInv(u, k)
  BY DEF HonestInv
<1>d. \A op \in {"PARSE", "EXEC"} : Succeeded(u, k, op) => Succeeded(u, k, op)'
  BY <1>a, StatementRequest DEF Succeeded
<1>e. HolderInv /\ RunningInv /\ u # NoTx
  BY NotNone DEF ClientInv
<1>1. ASSUME NEW by \in Txs \cup {NoTx}, NEW m \in Stmts, Execute(by, m) PROVE OwnedInv(u, k)'
  <2>1. /\ MayRun(by) /\ stmt' = [stmt EXCEPT ![m] = "parse"]
        /\ owner' = [owner EXCEPT ![m] = by] /\ UNCHANGED <<phase, outcome, sawError>>
    BY <1>1 DEF Execute
  <2>2. CASE k = m
    <3>1. u = by /\ phase[u] = "body" /\ stmt'[k] = "parse"
      BY <1>b, <1>e, <2>1, <2>2 DEF MayRun
    <3>2. outcome[u] = "none"
      BY <1>e, <3>1 DEF HolderInv
    <3> QED BY <2>1, <3>1, <3>2 DEF OwnedInv
  <2>3. CASE k # m
    BY <1>a, <1>b, <1>c, <2>1, <2>3, OwnedKept
  <2> QED BY <2>2, <2>3
<1>2. ASSUME NEW m \in Stmts, Prepared(m) \/ Collect(m) \/ FetchOne(m) \/ DropStmt(m)
      PROVE  OwnedInv(u, k)'
  <2>1. /\ UNCHANGED <<phase, outcome, owner>> /\ sawError \subseteq sawError'
        /\ stmt[m] \in {"parse", "exec"} /\ \A j \in Stmts : j # m => stmt'[j] = stmt[j]
    BY <1>2 DEF Prepared, Collect, FetchOne, DropStmt, EndStmt
  <2>2. CASE k # m
    BY <1>a, <1>b, <1>c, <2>1, <2>2, OwnedKept
  <2>3. CASE k = m
    <3>1. phase[u] = "body" /\ outcome[u] = "none" /\ OwnedInv(u, k)
      BY <1>b, <1>c, <1>e, <2>1, <2>3 DEF RunningInv, MayRun, HolderInv
    <3>2. CASE Prepared(m) /\ stmt'[m] # "over"
      <4>1. Answer(For(m, "PARSE")) = "ok" /\ stmt'[m] = "exec"
        BY <3>2 DEF Prepared, EndStmt
      <4>2. Succeeded(u, k, "PARSE")
        BY <1>b, <2>1, <2>3, <4>1, AnswerIsServers DEF For, Succeeded
      <4> QED BY <1>d, <2>1, <2>3, <3>1, <4>1, <4>2 DEF OwnedInv
    <3>3. CASE (Prepared(m) /\ stmt'[m] = "over") \/ Collect(m) \/ FetchOne(m) \/ DropStmt(m)
      <4>1. u \in sawError' \/ (stmt[k] = "exec" /\ Succeeded(u, k, "EXEC"))
        BY <1>b, <2>1, <2>3, <3>3, EndIsHonest
      <4>2. u \notin sawError' => Succeeded(u, k, "PARSE") /\ Succeeded(u, k, "EXEC")
        BY <2>1, <3>1, <4>1 DEF OwnedInv
      <4>3. stmt'[k] = "over"
        BY <2>3, <3>3 DEF Collect, FetchOne, DropStmt, EndStmt
      <4> QED BY <1>d, <2>1, <3>1, <4>2, <4>3 DEF OwnedInv
    <3> QED BY <1>2, <3>2, <3>3
  <2> QED BY <2>2, <2>3
<1>3. ASSUME NEW t \in Txs, Transaction(t) PROVE OwnedInv(u, k)'
  <2>1. /\ holder = NoTx /\ phase[t] = "new" /\ phase' = [phase EXCEPT ![t] = "begin"]
        /\ UNCHANGED <<outcome, owner, sawError>> /\ DropAll
    BY <1>3 DEF Transaction
  <2>2. OwnedInv(u, k) /\ phase[u] \notin {"new", "body"}
    BY <1>b, <1>c, <1>e, <2>1 DEF OwnedInv, HolderInv
  <2>3. u # t /\ phase'[u] = phase[u] /\ stmt'[k] # "new"
    BY <2>1, <2>2 DEF DropAll, OwnedInv
  <2> QED BY <1>a, <2>1, <2>2, <2>3, OwnedKept
<1>4. ASSUME NEW t \in Txs, Resume(t) PROVE OwnedInv(u, k)'
  <2>1. CASE BeginReturns(t) /\ Answer(Of(t, "BEGIN")) = "ok"
    <3>1. /\ phase[t] = "begin" /\ phase' = [phase EXCEPT ![t] = "body"]
          /\ UNCHANGED <<outcome, stmt, owner, sawError>>
      BY <2>1 DEF BeginReturns
    <3>2. OwnedInv(u, k) /\ u # t
      BY <1>b, <1>c, <3>1 DEF OwnedInv
    <3> QED BY <1>a, <3>1, <3>2, OwnedKept
  <2>2. CASE ~(BeginReturns(t) /\ Answer(Of(t, "BEGIN")) = "ok")
    <3>1. PICK result \in {"ok", "error"}, done \in BOOLEAN :
              /\ Finish(t, result, done) /\ phase[t] \notin {"new", "over"}
              /\ result = "ok" => phase[t] = "commit"
      BY <1>4, <2>2 DEF Resume, BeginReturns, CommitReturns, RollbackReturns
    <3>2. owner[k] = u
      BY <1>b, <3>1 DEF Finish
    <3> QED BY <3>1, <3>2, FinishIsHonest
  <2> QED BY <2>1, <2>2
<1>5. ASSUME NEW t \in Txs, BodyReturnsOk(t) \/ BodyReturnsErr(t) PROVE OwnedInv(u, k)'
  <2>1. /\ phase[t] = "body" /\ UNCHANGED <<holder, outcome, owner, sawError>>
        /\ \A v \in Txs : v # t => phase'[v] = phase[v]
        /\ phase'[t] = IF BodyReturnsOk(t) /\ phase'[t] = "commit" THEN "commit" ELSE "rollback"
    BY <1>5 DEF BodyReturnsOk, BodyReturnsErr, BodyReturns
  <2>2. OwnedInv(u, k) /\ stmt'[k] # "new"
    BY <1>5, <1>b, <1>c, <2>1 DEF BodyReturnsOk, BodyReturnsErr, BodyReturns, DropAll, OwnedInv
  <2>3. CASE u # t
    <3>1. phase[u] # "body" /\ phase'[u] = phase[u]
      BY <1>e, <2>1, <2>3 DEF HolderInv
    <3> QED BY <1>a, <2>1, <2>2, <3>1, OwnedKept
  <2>4. CASE u = t
    <3>1. outcome[u] = "none"
      BY <1>e, <2>1, <2>4 DEF HolderInv
    <3>2. CASE phase'[t] = "commit" /\ BodyReturnsOk(t)
      <4>1. Running(t) = {} /\ t \notin sawError
        BY <3>2 DEF BodyReturnsOk
      <4>2. stmt[k] \in {"new", "over"}
        BY <1>b, <2>1, <2>4, <4>1 DEF Running, StmtStates
      <4>3. stmt[k] # "new"
        BY <2>2 DEF OwnedInv
      <4> QED BY <1>d, <2>1, <2>2, <2>4, <3>2, <4>1, <4>2, <4>3 DEF OwnedInv
    <3>3. CASE phase'[t] = "rollback"
      BY <2>1, <2>2, <2>4, <3>1, <3>3 DEF OwnedInv
    <3> QED BY <2>1, <3>2, <3>3
  <2> QED BY <2>3, <2>4
<1>6. ASSUME NEW t \in Txs, Cancel(t) PROVE OwnedInv(u, k)'
  <2>1. Finish(t, "cancelled", phase[t] \in {"commit", "rollback"}) /\ phase[t] \notin {"new", "over"}
    BY <1>6 DEF Cancel
  <2>2. owner[k] = u
    BY <1>b, <2>1 DEF Finish
  <2> QED BY <2>1, <2>2, FinishIsHonest
<1>7. CASE Server \/ Lose \/ UNCHANGED vars
  <2>1. UNCHANGED <<phase, outcome, owner, sawError, stmt>>
    BY <1>7 DEF Server, ServeParse, ServeExec, ServeBegin, ServeCommit, ServeRollback, Lose,
                clientVars, vars
  <2> QED BY <1>a, <1>b, <1>c, <2>1, OwnedKept
<1> QED BY <1>1, <1>2, <1>3, <1>4, <1>5, <1>6, <1>7 DEF Next

\* OkMeansDurable, for any number of transactions and statements, if bodies swallow nothing and
\* no read fails after its first row: the error that fetch_one does not read is the only way to
\* be told Ok for nothing.  The connection may be lost, and any of its answers with it.
THEOREM Honesty == ASSUME ~MaySwallow, ~MayFailLate PROVE Spec => []OkMeansDurable
<1>1. Init => HonestInv
  <2> SUFFICES ASSUME Init PROVE HonestInv
    OBVIOUS
  <2>1. \A t \in Txs, m \in Stmts : owner[m] # t
    BY NotNone DEF Init
  <2> QED BY <2>1 DEF Init, HonestInv
<1>2. IInv /\ HonestInv /\ [Next]_vars => HonestInv'
  BY HonestStep
<1>3. IInv /\ HonestInv => OkMeansDurable
  <2> SUFFICES ASSUME IInv, HonestInv, NEW t \in Txs, outcome[t] = "ok"
               PROVE  Applied(t) \subseteq durable
    BY DEF OkMeansDurable
  <2>1. ~Failed(t)
    <3> SUFFICES ASSUME NEW r \in Request, r.by = t, r.stmt # NoStmt,
                        answer[r] \in {"error", "late"}
                 PROVE  FALSE
      BY DEF Failed
    <3>1. r.op \in {"PARSE", "EXEC"} /\ r.stmt \in Stmts
          /\ r = [op |-> r.op, by |-> t, stmt |-> r.stmt]
      BY RequestShape DEF Of
    <3>2. owner[r.stmt] = t
      BY <3>1 DEF IInv, ClientInv, SentInv, Traced
    <3>3. Succeeded(t, r.stmt, r.op)
      BY <3>1, <3>2 DEF HonestInv, OwnedInv
    <3> QED BY <3>1, <3>3 DEF Succeeded
  <2> QED BY <2>1 DEF IInv, ClientInv, ToldInv, Committed, LedgerInv, DurableInv
<1> QED BY <1>1, <1>2, <1>3, Invariance, PTL DEF Spec

-----------------------------------------------------------------------------
(***************************************************************************)
(* PostgresSession implements AtomicTransactions, for any number of        *)
(* transactions and statements, whatever is cancelled, swallowed or lost.  *)
(*                                                                         *)
(* Under the mapping of PostgresSession only the server changes the state  *)
(* of a transaction: it serves START TRANSACTION as Begin, an execution as *)
(* Write or Plain, COMMIT as Commit, or as Abort in a failed transaction,  *)
(* and ROLLBACK as Abort; the loss of the connection is Abort when one is  *)
(* in progress.  The end of a transaction's future is Tell, and every      *)
(* other step changes nothing.                                             *)
(***************************************************************************)

\* The four states of a transaction, now and after a step: the cases of Status exclude each
\* other because a committed transaction is no longer open.
LEMMA StatusIs ==
    ASSUME NEW t, open = t => ~Committed(t)
    PROVE  Status(t) = IF Committed(t) THEN "committed"
                       ELSE IF open = t THEN "active"
                       ELSE IF Began(t) THEN "aborted" ELSE "idle"
<1>1. CASE Committed(t)
  BY <1>1 DEF Status
<1>2. CASE ~Committed(t) /\ open = t
  BY <1>2 DEF Status
<1>3. CASE ~Committed(t) /\ open # t /\ Began(t)
  BY <1>3 DEF Status
<1>4. CASE ~Committed(t) /\ open # t /\ ~Began(t)
  BY <1>4 DEF Status
<1> QED BY <1>1, <1>2, <1>3, <1>4

LEMMA StatusNextIs ==
    ASSUME NEW t, open' = t => ~Committed(t)'
    PROVE  Status(t)' = IF Committed(t)' THEN "committed"
                        ELSE IF open' = t THEN "active"
                        ELSE IF Began(t)' THEN "aborted" ELSE "idle"
<1>1. CASE Committed(t)'
  BY <1>1 DEF Status
<1>2. CASE ~Committed(t)' /\ open' = t
  BY <1>2 DEF Status
<1>3. CASE ~Committed(t)' /\ open' # t /\ Began(t)'
  BY <1>3 DEF Status
<1>4. CASE ~Committed(t)' /\ open' # t /\ ~Began(t)'
  BY <1>4 DEF Status
<1> QED BY <1>1, <1>2, <1>3, <1>4

\* A transaction in progress has begun and has not committed.
LEMMA OpenUncommitted ==
    ASSUME IInv, NEW t \in Txs, open = t
    PROVE  Began(t) /\ ~Committed(t) /\ pending = Applied(t) /\ (failed <=> Failed(t))
BY DEF IInv, LedgerInv, OpenInv, Committed

LEMMA ActiveIsOpen ==
    ASSUME IInv, NEW t \in Txs
    PROVE  /\ Status(t) = "active" <=> open = t
           /\ Status(t) = "committed" <=> Committed(t)
<1>1. open = t => ~Committed(t)
  BY OpenUncommitted
<1> QED BY <1>1, StatusIs

LEMMA StatusKept ==
    ASSUME IInv, IInv', NEW t \in Txs, Committed(t)' <=> Committed(t), Began(t)' <=> Began(t),
           open' = t <=> open = t
    PROVE  Status(t)' = Status(t)
<1>1. open = t => ~Committed(t)
  BY OpenUncommitted
<1>2. open' = t => ~Committed(t)'
  BY <1>1
<1> QED BY <1>1, <1>2, StatusIs, StatusNextIs

-----------------------------------------------------------------------------
(* The abstract steps, in terms of the mapping. *)

\* A step that changes nothing a reader of the abstract transactions sees.
Unseen == /\ \A t \in Txs : Status(t)' = Status(t)
          /\ \A t \in Txs : Applied(t)' = Applied(t)
          /\ \A t \in Txs : Told(t)' = Told(t)
          /\ UNCHANGED durable

LEMMA IsStutter == Unseen => UNCHANGED Atomic!vars
BY DEF Unseen, Atomic!vars

LEMMA IsBegin ==
    ASSUME NEW t \in Txs, Status(t) = "idle", \A u \in Txs : Status(u) # "active",
           Told(t) # "error", Status(t)' = "active",
           \A u \in Txs \ {t} : Status(u)' = Status(u),
           \A u \in Txs : Applied(u)' = Applied(u),
           \A u \in Txs : Told(u)' = Told(u), UNCHANGED durable
    PROVE  Atomic!Begin(t)
BY DEF Atomic!Begin, Atomic!NoneActive

LEMMA IsWrite ==
    ASSUME NEW t \in Txs, NEW m, Status(t) = "active", m \notin durable,
           \A u \in Txs : m \notin Applied(u),
           \A u \in Txs : Status(u)' = Status(u),
           Applied(t)' = Applied(t) \cup {m},
           \A u \in Txs \ {t} : Applied(u)' = Applied(u),
           \A u \in Txs : Told(u)' = Told(u), UNCHANGED durable
    PROVE  Atomic!Write(t, m)
BY DEF Atomic!Write

LEMMA IsCommit ==
    ASSUME NEW t \in Txs, Status(t) = "active", Told(t) # "error",
           Status(t)' = "committed", \A u \in Txs \ {t} : Status(u)' = Status(u),
           \A u \in Txs : Applied(u)' = Applied(u),
           \A u \in Txs : Told(u)' = Told(u), durable' = durable \cup Applied(t)
    PROVE  Atomic!Commit(t)
BY DEF Atomic!Commit

LEMMA IsAbort ==
    ASSUME NEW t \in Txs, Status(t) = "active",
           Status(t)' = "aborted", \A u \in Txs \ {t} : Status(u)' = Status(u),
           \A u \in Txs : Applied(u)' = Applied(u),
           \A u \in Txs : Told(u)' = Told(u), UNCHANGED durable
    PROVE  Atomic!Abort(t)
BY DEF Atomic!Abort

LEMMA IsTell ==
    ASSUME NEW t \in Txs, NEW r, Told(t) = "none", Told(t)' = r,
           r = "ok" => Status(t) = "committed", r = "error" => Status(t) # "committed",
           \A u \in Txs \ {t} : Told(u)' = Told(u),
           \A u \in Txs : Status(u)' = Status(u), \A u \in Txs : Applied(u)' = Applied(u),
           UNCHANGED durable
    PROVE  Atomic!Tell(t, r)
BY DEF Atomic!Tell

LEMMA IsPlain ==
    ASSUME NEW S, \A u \in Txs : Status(u) # "active", \A u \in Txs : S \cap Applied(u) = {},
           durable' = durable \cup S,
           \A u \in Txs : Status(u)' = Status(u), \A u \in Txs : Applied(u)' = Applied(u),
           \A u \in Txs : Told(u)' = Told(u)
    PROVE  Atomic!Plain(S)
BY DEF Atomic!Plain, Atomic!NoneActive

LEMMA RefinesInit == Init => Atomic!Init
<1> SUFFICES ASSUME Init PROVE Atomic!Init
  OBVIOUS
<1>1. /\ \A r \in Request : answer[r] = "none"
      /\ open = NoTx /\ durable = {} /\ outcome = [t \in Txs |-> "none"]
  BY DEF Init
<1>2. IInv
  BY InvInit
<1>3. ASSUME NEW t \in Txs
      PROVE  Status(t) = "idle" /\ Applied(t) = {} /\ Told(t) = "none"
  <2>1. Of(t, "BEGIN") \in Request /\ Of(t, "COMMIT") \in Request
    BY OfRequest DEF Control
  <2>2. ~Began(t) /\ ~Committed(t)
    BY <1>1, <2>1 DEF Began, Committed
  <2>3. Applied(t) = {}
    <3>1. answer[Of(t, "BEGIN")] = "none"
      BY <1>1, <2>1
    <3> QED BY <1>2, <3>1, FreshBooks DEF IInv, ClientInv
  <2>4. open # t
    BY <1>1, NotNone
  <2>5. Status(t) = "idle"
    BY <2>2, <2>4, StatusIs
  <2>6. Told(t) = "none"
    BY <1>1 DEF Told
  <2> QED BY <2>3, <2>5, <2>6
<1> QED BY <1>1, <1>3 DEF Atomic!Init

-----------------------------------------------------------------------------
(* What a caller was told does not change. *)

\* A step that ends nobody's transaction, commits nothing new of a caller who was told an
\* error, and fails nothing more of one who was told Ok.
LEMMA ToldKept ==
    ASSUME NEW t \in Txs, outcome'[t] = outcome[t],
           outcome[t] = "ok" => (Failed(t)' <=> Failed(t)),
           outcome[t] = "error" => ((Committed(t)' /\ lost') <=> (Committed(t) /\ lost))
    PROVE  Told(t)' = Told(t)
<1>1. CASE outcome[t] = "ok"
  BY <1>1 DEF Told
<1>2. CASE outcome[t] = "error"
  BY <1>2 DEF Told
<1>3. CASE outcome[t] \notin {"ok", "error"}
  BY <1>3 DEF Told
<1> QED BY <1>1, <1>2, <1>3

\* The server tells nobody anything new: whoever was told has nothing left to be served.
LEMMA ServerKeepsTold ==
    ASSUME IInv, Server, NEW t \in Txs
    PROVE  Told(t)' = Told(t)
<1> USE DEF IInv, WireInv, ClientInv, LedgerInv
<1>0. Waiting /\ ~lost /\ UNCHANGED <<outcome, owner, lost>>
  BY ServerReplies DEF clientVars, Waiting
<1>1. PICK v \in Answers \ {"none"} : Reply(v)
  BY ServerReplies
<1>2. PICK h \in Request : h = Head(wire) /\ Needs(h) = open
  BY <1>0, HeadFits
<1>3. ASSUME outcome[t] = "ok" PROVE Failed(t)' <=> Failed(t)
  <2>1. answer[Of(t, "COMMIT")] = "ok"
    BY <1>3 DEF ToldInv
  <2>2. open # t
    BY <2>1 DEF OpenInv
  <2>3. h.stmt # NoStmt => h.by # t
    <3> SUFFICES ASSUME h.stmt # NoStmt PROVE h.by # t
      OBVIOUS
    <3>1. h.op # "BEGIN"
      BY RequestShape DEF Of, Control
    <3> QED BY <1>2, <2>2, <3>1 DEF Needs
  <2> QED BY <1>0, <1>1, <1>2, <2>3, ServedBooks
<1> QED BY <1>0, <1>3, ToldKept

-----------------------------------------------------------------------------
(* The client's steps. *)

LEMMA ClientUnseen ==
    ASSUME IInv, IInv', Onward, UNCHANGED <<answer, open, durable, lost>>,
           NEW t \in Txs, outcome'[t] = outcome[t]
    PROVE  /\ Status(t)' = Status(t) /\ Applied(t)' = Applied(t)
           /\ Told(t)' = Told(t)
           /\ Committed(t)' <=> Committed(t)
<1>1. Applied(t)' = Applied(t)
  BY ClientKeepsBooks DEF IInv
<1>2. Failed(t)' <=> Failed(t)
  BY ClientKeepsBooks DEF IInv
<1>3. Began(t)' <=> Began(t)
  BY ClientKeepsBooks DEF IInv
<1>4. Committed(t)' <=> Committed(t)
  BY ClientKeepsBooks DEF IInv
<1>5. Status(t)' = Status(t)
  BY <1>3, <1>4, StatusKept
<1>6. Told(t)' = Told(t)
  BY <1>2, <1>4, ToldKept
<1> QED BY <1>1, <1>4, <1>5, <1>6

LEMMA ClientIsStutter ==
    ASSUME IInv, IInv', Onward, UNCHANGED <<answer, open, durable, lost, outcome>>
    PROVE  UNCHANGED Atomic!vars
<1>1. \A t \in Txs : Status(t)' = Status(t)
  BY ClientUnseen
<1>2. \A t \in Txs : Applied(t)' = Applied(t)
  BY ClientUnseen
<1>3. \A t \in Txs : Told(t)' = Told(t)
  BY ClientUnseen
<1> QED BY <1>1, <1>2, <1>3, IsStutter DEF Unseen

\* What a caller is told is true, or hidden from it.
LEMMA FinishIsTell ==
    ASSUME IInv, IInv', Onward, UNCHANGED <<answer, open, durable, lost>>,
           NEW t \in Txs, NEW result \in {"ok", "error", "cancelled"}, NEW done \in BOOLEAN,
           Finish(t, result, done), outcome[t] = "none"
    PROVE  Atomic!Next
<1>1. /\ outcome'[t] = result
      /\ \A u \in Txs \ {t} : outcome'[u] = outcome[u]
  BY DEF Finish, IInv, TypeOK
<1>2. \A u \in Txs \ {t} : Told(u)' = Told(u)
  BY <1>1, ClientUnseen
<1>3. \A u \in Txs : Applied(u)' = Applied(u)
  BY ClientKeepsBooks DEF IInv
<1>4. \A u \in Txs : Began(u)' <=> Began(u)
  BY ClientKeepsBooks DEF IInv
<1>5. \A u \in Txs : Committed(u)' <=> Committed(u)
  BY ClientKeepsBooks DEF IInv
<1>6. Failed(t)' <=> Failed(t)
  BY ClientKeepsBooks DEF IInv
<1>7. \A u \in Txs : Status(u)' = Status(u)
  BY <1>4, <1>5, StatusKept
<1>8. Told(t) = "none"
  BY DEF Told
<1>9. PICK r \in {"ok", "error", "cancelled"} : Told(t)' = r
  BY <1>1 DEF Told
<1>10. r = "ok" => Committed(t)
  <2> SUFFICES ASSUME r = "ok" PROVE Committed(t)
    OBVIOUS
  <2>1. outcome'[t] = "ok" /\ ~Failed(t)'
    BY <1>1, <1>9 DEF Told
  <2>2. answer'[Of(t, "COMMIT")] = "ok"
    BY <2>1 DEF IInv, ClientInv, ToldInv, Of
  <2> QED BY <1>6, <2>1, <2>2 DEF Committed
<1>11. r = "error" => ~Committed(t)
  <2> SUFFICES ASSUME r = "error", Committed(t) PROVE FALSE
    OBVIOUS
  <2>1. outcome'[t] = "error" /\ ~(Committed(t)' /\ lost')
    BY <1>1, <1>9 DEF Told
  <2>2. answer'[Of(t, "COMMIT")] = "ok" => lost'
    BY <2>1 DEF IInv, ClientInv, ToldInv, Of
  <2> QED BY <1>5, <2>1, <2>2 DEF Committed
<1>12. Atomic!Tell(t, r)
  BY <1>2, <1>3, <1>7, <1>8, <1>9, <1>10, <1>11, ActiveIsOpen, IsTell
<1> QED BY <1>12 DEF Atomic!Next

LEMMA ClientRefines ==
    ASSUME IInv, IInv', [Next]_vars, ~Server, ~Lose
    PROVE  Atomic!Next \/ UNCHANGED Atomic!vars
<1>0. Onward /\ UNCHANGED <<answer, open, durable>>
  BY ClientStep
<1>l. UNCHANGED lost
  BY DEF Next, Execute, Prepared, Collect, FetchOne, DropStmt, Transaction, Resume, BeginReturns,
         CommitReturns, RollbackReturns, BodyReturnsOk, BodyReturnsErr, BodyReturns, Cancel,
         Finish, EndStmt, vars
<1>1. ASSUME UNCHANGED outcome PROVE UNCHANGED Atomic!vars
  BY <1>0, <1>l, <1>1, ClientIsStutter
<1>2. ASSUME NEW t \in Txs, NEW result \in {"ok", "error", "cancelled"}, NEW done \in BOOLEAN,
             Finish(t, result, done), phase[t] \in {"begin", "body", "commit", "rollback"}
      PROVE  Atomic!Next
  <2>1. outcome[t] = "none"
    BY <1>2, HolderPhase DEF IInv, ClientInv
  <2> QED BY <1>0, <1>l, <1>2, <2>1, FinishIsTell
<1>3. ASSUME NEW t \in Txs, Resume(t) PROVE Atomic!Next \/ UNCHANGED Atomic!vars
  <2>1. CASE BeginReturns(t) /\ Answer(Of(t, "BEGIN")) = "ok"
    BY <1>1, <2>1 DEF BeginReturns
  <2>2. CASE BeginReturns(t) /\ Answer(Of(t, "BEGIN")) # "ok"
    BY <1>2, <2>2 DEF BeginReturns
  <2>3. CASE CommitReturns(t)
    <3>1. PICK result \in {"ok", "error"} : Finish(t, result, TRUE)
      BY <2>3 DEF CommitReturns
    <3> QED BY <1>2, <2>3, <3>1 DEF CommitReturns
  <2>4. CASE RollbackReturns(t)
    BY <1>2, <2>4 DEF RollbackReturns
  <2> QED BY <1>3, <2>1, <2>2, <2>3, <2>4 DEF Resume
<1>4. ASSUME NEW t \in Txs, Cancel(t) PROVE Atomic!Next
  <2>1. Finish(t, "cancelled", TRUE) \/ Finish(t, "cancelled", FALSE)
    <3>1. (phase[t] \in {"commit", "rollback"}) = TRUE \/ (phase[t] \in {"commit", "rollback"}) = FALSE
      OBVIOUS
    <3> QED BY <1>4, <3>1 DEF Cancel
  <2>2. phase[t] \in {"begin", "body", "commit", "rollback"}
    BY <1>4 DEF Cancel
  <2> QED BY <1>2, <2>1, <2>2
<1>5. CASE \/ \E by \in Txs \cup {NoTx}, m \in Stmts : Execute(by, m)
           \/ \E m \in Stmts : Prepared(m) \/ Collect(m) \/ FetchOne(m) \/ DropStmt(m)
           \/ \E t \in Txs : Transaction(t) \/ BodyReturnsOk(t) \/ BodyReturnsErr(t)
           \/ UNCHANGED vars
  <2>1. UNCHANGED outcome
    BY <1>5 DEF Execute, Prepared, Collect, FetchOne, DropStmt, Transaction, BodyReturnsOk,
                BodyReturnsErr, BodyReturns, EndStmt, vars
  <2> QED BY <1>1, <2>1
<1> QED BY <1>3, <1>4, <1>5 DEF Next

-----------------------------------------------------------------------------
(* The server's steps. *)

\* What is unseen when a step ends no transaction and begins, applies and commits nothing.
LEMMA QuietIsStutter ==
    ASSUME IInv, IInv', UNCHANGED <<open, durable>>,
           \A t \in Txs : Began(t)' <=> Began(t),
           \A t \in Txs : Committed(t)' <=> Committed(t),
           \A t \in Txs : Applied(t)' = Applied(t),
           \A t \in Txs : Told(t)' = Told(t)
    PROVE  UNCHANGED Atomic!vars
<1>1. \A t \in Txs : Status(t)' = Status(t)
  BY StatusKept
<1> QED BY <1>1, IsStutter DEF Unseen

\* The transaction in progress ends without being committed.
LEMMA EndIsAbort ==
    ASSUME IInv, IInv', NEW t \in Txs, open = t, open' = NoTx, UNCHANGED durable,
           \A u \in Txs : Began(u) => Began(u)',
           \A u \in Txs \ {t} : Began(u)' <=> Began(u),
           \A u \in Txs : Committed(u)' <=> Committed(u),
           \A u \in Txs : Applied(u)' = Applied(u),
           \A u \in Txs : Told(u)' = Told(u)
    PROVE  Atomic!Next
<1>1. Status(t) = "active"
  BY ActiveIsOpen
<1>2. Began(t)' /\ ~Committed(t)' /\ open' # t
  BY OpenUncommitted, NotNone
<1>3. Status(t)' = "aborted"
  BY <1>2, StatusNextIs
<1>4. ASSUME NEW u \in Txs \ {t} PROVE Status(u)' = Status(u)
  <2>1. open' = u <=> open = u
    BY NotNone
  <2> QED BY <2>1, StatusKept
<1>5. Atomic!Abort(t)
  BY <1>1, <1>3, <1>4, IsAbort
<1> QED BY <1>5 DEF Atomic!Next

\* An answer begins a transaction only if it is START TRANSACTION's.
LEMMA BeganKept ==
    ASSUME TypeOK, OnceInv, Waiting, NEW v \in Answers \ {"none"}, Reply(v), UNCHANGED owner,
           NEW h \in Request, h = Head(wire), h.op # "BEGIN", NEW t \in Txs
    PROVE  Began(t)' <=> Began(t)
<1>1. h # Of(t, "BEGIN")
  BY DEF Of
<1> QED BY <1>1, ServedBooks

LEMMA StatementRefines ==
    ASSUME IInv, IInv', ServeParse \/ ServeExec
    PROVE  Atomic!Next \/ UNCHANGED Atomic!vars
<1> USE DEF IInv, WireInv, ClientInv, LedgerInv
<1>0. Server /\ Waiting /\ UNCHANGED owner
  BY ServerReplies DEF Server, clientVars
<1>t. \A t \in Txs : Told(t)' = Told(t)
  BY <1>0, ServerKeepsTold
<1>v. PICK v \in Answers \ {"none"} : Reply(v)
  BY <1>0, ServerReplies
<1>h. PICK h \in Request : h = Head(wire) /\ Needs(h) = open /\ OnWire(h)
  BY <1>0, HeadFits
<1>o. h.op \in {"PARSE", "EXEC"}
  BY <1>h DEF ServeParse, ServeExec
<1>1. \A t \in Txs : Began(t)' <=> Began(t)
  BY <1>0, <1>v, <1>h, <1>o, BeganKept
<1>2. \A t \in Txs : Committed(t)' <=> Committed(t)
  BY <1>0, <1>v, <1>h, <1>o, StatementKeepsCommitted
<1>u. UNCHANGED open
  BY DEF ServeParse, ServeExec, FailStmt, serverVars
<1>3. CASE v # "ok" \/ h.op = "PARSE"
  <2>1. \A t \in Txs : Applied(t)' = Applied(t)
    <3> SUFFICES ASSUME NEW t \in Txs PROVE Applied(t)' = Applied(t)
      OBVIOUS
    <3>1. \A m \in Writes : h = For(m, "EXEC") => v # "ok"
      BY <1>3 DEF For
    <3>2. \A m \in Writes : m \in Applied(t)' <=> m \in Applied(t)
      BY <1>0, <1>v, <1>h, <3>1, ServedBooks
    <3>3. Applied(t)' \subseteq Writes /\ Applied(t) \subseteq Writes
      BY DEF Applied
    <3> QED BY <3>2, <3>3
  <2>2. UNCHANGED durable
    <3>1. answer'[h] = v
      BY <1>0, <1>v, <1>h, ReplyFacts
    <3>2. CASE ServeParse
      BY <3>2 DEF ServeParse, FailStmt, serverVars
    <3>3. CASE ServeExec
      <4>1. CASE Reply("ok")
        <5>1. answer'[h] = "ok"
          BY <1>0, <1>h, <4>1, ReplyFacts DEF Answers
        <5>2. h.op = "EXEC"
          BY <1>h, <3>3 DEF ServeExec
        <5> QED BY <1>3, <3>1, <5>1, <5>2
      <4>2. CASE ~Reply("ok")
        BY <3>3, <4>2 DEF ServeExec, FailStmt
      <4> QED BY <4>1, <4>2
    <3> QED BY <3>2, <3>3
  <2> QED BY <1>1, <1>2, <1>t, <1>u, <2>1, <2>2, QuietIsStutter
<1>4. CASE v = "ok" /\ h.op = "EXEC"
  <2>1. PICK k \in Stmts, by \in Txs \cup {NoTx} : h = [op |-> "EXEC", by |-> by, stmt |-> k]
    BY <1>4, RequestShape DEF Control
  <2>2. h.stmt = k /\ h.by = by /\ open = by
    BY <1>h, <2>1 DEF Needs
  <2>3. owner[k] = by /\ For(k, "EXEC") = h
    <3>1. Traced(h)
      BY <1>h DEF SentInv
    <3> QED BY <2>1, <2>2, <3>1 DEF Traced, For
  <2>4. answer[h] = "none" /\ answer'[h] = "ok"
    BY <1>0, <1>v, <1>h, <1>4, ReplyFacts
  <2>5. IF open = NoTx
          THEN durable' = durable \cup ({k} \cap Writes)
          ELSE UNCHANGED durable
    <3>1. ServeExec
      BY <1>4, <1>h DEF ServeParse
    <3>2. ~FailStmt("error") /\ ~FailStmt("late")
      <4> SUFFICES ASSUME NEW w \in {"error", "late"}, FailStmt(w) PROVE FALSE
        OBVIOUS
      <4>1. Reply(w) /\ w \in Answers
        BY DEF FailStmt, Answers
      <4>2. answer'[h] = w
        BY <1>0, <1>h, <4>1, ReplyFacts
      <4> QED BY <2>4, <4>2
    <3> QED BY <1>h, <2>2, <3>1, <3>2 DEF ServeExec
  <2>6. \A t \in Txs : \A m \in Writes : m \in Applied(t)' <=> (m \in Applied(t) \/ (m = k /\ by = t))
    <3> SUFFICES ASSUME NEW t \in Txs, NEW m \in Writes
                 PROVE  m \in Applied(t)' <=> (m \in Applied(t) \/ (m = k /\ by = t))
      OBVIOUS
    <3>1. m \in Applied(t)' <=> (m \in Applied(t) \/ (owner[m] = t /\ h = For(m, "EXEC")))
      BY <1>0, <1>v, <1>h, <1>4, ServedBooks
    <3>2. h = For(m, "EXEC") <=> m = k
      BY <2>1, <2>2, <2>3 DEF For
    <3> QED BY <2>3, <3>1, <3>2
  <2>7. \A t \in Txs : Applied(t)' \subseteq Writes /\ Applied(t) \subseteq Writes
    BY DEF Applied
  <2>8. k \notin durable /\ \A u \in Txs : k \notin Applied(u)
    BY <2>3, <2>4 DEF DurableInv, Applied
  <2>9. \A t \in Txs : Status(t)' = Status(t)
    BY <1>1, <1>2, <1>u, StatusKept
  <2>10. CASE by \in Txs /\ k \in Writes
    <3>1. Status(by) = "active" /\ UNCHANGED durable
      BY <2>2, <2>5, <2>10, ActiveIsOpen, NotNone
    <3>2. /\ Applied(by)' = Applied(by) \cup {k}
          /\ \A u \in Txs \ {by} : Applied(u)' = Applied(u)
      BY <2>6, <2>7, <2>10
    <3>3. Atomic!Write(by, k)
      BY <1>t, <2>8, <2>9, <2>10, <3>1, <3>2, IsWrite
    <3> QED BY <2>10, <3>3 DEF Atomic!Next
  <2>11. CASE by \in Txs /\ k \notin Writes
    <3>1. \A u \in Txs : Applied(u)' = Applied(u)
      BY <2>6, <2>7, <2>11
    <3>2. UNCHANGED durable
      BY <2>2, <2>5, <2>11, NotNone
    <3> QED BY <1>1, <1>2, <1>t, <1>u, <3>1, <3>2, QuietIsStutter
  <2>12. CASE by = NoTx
    <3>1. \A u \in Txs : Applied(u)' = Applied(u)
      BY <2>6, <2>7, <2>12, NotNone
    <3>2. \A u \in Txs : Status(u) # "active"
      BY <2>2, <2>12, ActiveIsOpen, NotNone
    <3> DEFINE S == {k} \cap Writes
    <3>3. S \in SUBSET Stmts /\ \A u \in Txs : S \cap Applied(u) = {}
      BY <2>8
    <3>4. durable' = durable \cup S
      BY <2>2, <2>5, <2>12
    <3> HIDE DEF S
    <3>5. Atomic!Plain(S)
      BY <1>t, <2>9, <3>1, <3>2, <3>3, <3>4, IsPlain
    <3> QED BY <3>3, <3>5 DEF Atomic!Next
  <2> QED BY <2>10, <2>11, <2>12
<1> QED BY <1>o, <1>3, <1>4

LEMMA BeginRefines ==
    ASSUME IInv, IInv', ServeBegin
    PROVE  Atomic!Next
<1> USE DEF IInv, WireInv, ClientInv, LedgerInv
<1>0. Server /\ Waiting /\ Head(wire).op = "BEGIN" /\ UNCHANGED owner
  BY DEF Server, ServeBegin, clientVars
<1>t. \A t \in Txs : Told(t)' = Told(t)
  BY <1>0, ServerKeepsTold
<1>1. PICK h \in Request : h = Head(wire) /\ Needs(h) = open /\ OnWire(h)
  BY <1>0, HeadFits
<1>2. PICK b \in Txs : h = Of(b, "BEGIN")
  BY <1>0, <1>1, RequestShape
<1>3. open = NoTx /\ ~failed
  BY <1>0, <1>1 DEF Needs, OpenInv
<1>4. Reply("ok") /\ open' = b /\ UNCHANGED durable /\ "ok" \in Answers \ {"none"}
  BY <1>1, <1>2, <1>3 DEF ServeBegin, Of, Answers
<1>5. h.op \in Control
  BY <1>2 DEF Of, Control
<1>6. \A t \in Txs : Applied(t)' = Applied(t)
  BY <1>0, <1>1, <1>4, <1>5, ControlBooks
<1>7. \A t \in Txs : Committed(t)' <=> Committed(t)
  <2>1. \A t \in Txs : h # Of(t, "COMMIT")
    BY <1>2 DEF Of
  <2> QED BY <1>0, <1>1, <1>4, <1>5, <2>1, ControlBooks
<1>8. \A t \in Txs : Began(t)' <=> (Began(t) \/ t = b)
  <2>1. \A t \in Txs : h = Of(t, "BEGIN") <=> t = b
    BY <1>2 DEF Of
  <2> QED BY <1>0, <1>1, <1>4, <2>1, ServedBooks
<1>9. answer[h] = "none"
  BY <1>1 DEF OnceInv
<1>10. ~Began(b) /\ ~Committed(b)
  BY <1>2, <1>9, FreshBooks DEF Began, Committed
<1>11. Status(b) = "idle"
  BY <1>3, <1>10, StatusIs, NotNone
<1>12. \A u \in Txs : Status(u) # "active"
  BY <1>3, ActiveIsOpen, NotNone
<1>13. Status(b)' = "active"
  BY <1>4, <1>7, <1>10, StatusNextIs
<1>14. ASSUME NEW u \in Txs \ {b} PROVE Status(u)' = Status(u)
  <2>1. (open' = u <=> open = u) /\ (Began(u)' <=> Began(u))
    BY <1>3, <1>4, <1>8, NotNone
  <2> QED BY <1>7, <2>1, StatusKept
<1>15. Told(b) # "error"
  <2>1. outcome[b] # "error"
    BY <1>1, <1>2 DEF ToldInv
  <2> QED BY <2>1 DEF Told
<1>16. Atomic!Begin(b)
  BY <1>t, <1>4, <1>6, <1>11, <1>12, <1>13, <1>14, <1>15, IsBegin
<1> QED BY <1>16 DEF Atomic!Next

LEMMA EndRefines ==
    ASSUME IInv, IInv', ServeCommit \/ ServeRollback
    PROVE  Atomic!Next
<1> USE DEF IInv, WireInv, ClientInv, LedgerInv
<1>0. Server /\ Waiting /\ UNCHANGED owner /\ open' = NoTx
  BY DEF Server, ServeCommit, ServeRollback, clientVars, Discard
<1>t. \A t \in Txs : Told(t)' = Told(t)
  BY <1>0, ServerKeepsTold
<1>v. PICK v \in Answers \ {"none"} : Reply(v)
  BY <1>0, ServerReplies
<1>h. PICK h \in Request : h = Head(wire) /\ Needs(h) = open /\ OnWire(h)
  BY <1>0, HeadFits
<1>o. h.op \in {"COMMIT", "ROLLBACK", "DROP"} /\ h.op \in Control
  BY <1>h DEF ServeCommit, ServeRollback, Control
<1>b. PICK b \in Txs : h = Of(b, h.op) /\ h.by = b /\ open = b
  BY <1>h, <1>o, RequestShape DEF Needs
<1>1. \A t \in Txs : Began(t)' <=> Began(t)
  BY <1>0, <1>v, <1>h, <1>o, BeganKept
<1>2. \A t \in Txs : Applied(t)' = Applied(t)
  BY <1>0, <1>v, <1>h, <1>o, ControlBooks
<1>3. \A t \in Txs : Committed(t)' <=> (Committed(t) \/ (h = Of(t, "COMMIT") /\ v = "ok" /\ ~Failed(t)))
  BY <1>0, <1>v, <1>h, <1>o, ControlBooks
<1>4. \A t \in Txs : h = Of(t, "COMMIT") <=> (h.op = "COMMIT" /\ t = b)
  BY <1>b DEF Of
<1>5. Began(b) /\ ~Committed(b) /\ pending = Applied(b) /\ (failed <=> Failed(b))
  BY <1>b, OpenUncommitted
<1>6. answer'[h] = v
  BY <1>0, <1>v, <1>h, ReplyFacts
<1>7. CASE h.op = "COMMIT" /\ v = "ok" /\ ~failed
  <2>1. Status(b) = "active"
    BY <1>b, ActiveIsOpen
  <2>2. Committed(b)' /\ open' # b
    BY <1>0, <1>3, <1>4, <1>5, <1>7, NotNone
  <2>3. Status(b)' = "committed"
    BY <2>2, StatusNextIs
  <2>4. ASSUME NEW u \in Txs \ {b} PROVE Status(u)' = Status(u)
    <3>1. (open' = u <=> open = u) /\ (Committed(u)' <=> Committed(u))
      BY <1>0, <1>b, <1>3, <1>4, NotNone
    <3> QED BY <1>1, <3>1, StatusKept
  <2>5. durable' = durable \cup Applied(b)
    <3>1. ServeCommit
      BY <1>7, <1>h DEF ServeRollback
    <3>2. ~Reply("error")
      <4> SUFFICES ASSUME Reply("error") PROVE FALSE
        OBVIOUS
      <4>1. answer'[h] = "error"
        BY <1>0, <1>h, ReplyFacts DEF Answers
      <4> QED BY <1>6, <1>7, <4>1
    <3>3. open # NoTx
      BY <1>b, NotNone
    <3>4. durable' = durable \cup pending
      BY <1>7, <3>1, <3>2, <3>3 DEF ServeCommit
    <3> QED BY <1>5, <3>4
  <2>6. Told(b) # "error"
    <3>1. OnWire(Of(b, "COMMIT"))
      BY <1>h, <1>4, <1>7
    <3>2. outcome[b] # "error"
      BY <3>1 DEF ToldInv
    <3> QED BY <3>2 DEF Told
  <2>7. Atomic!Commit(b)
    BY <1>t, <1>2, <2>1, <2>3, <2>4, <2>5, <2>6, IsCommit
  <2> QED BY <2>7 DEF Atomic!Next
<1>8. CASE ~(h.op = "COMMIT" /\ v = "ok" /\ ~failed)
  <2>1. \A t \in Txs : Committed(t)' <=> Committed(t)
    BY <1>3, <1>4, <1>5, <1>8
  <2>2. UNCHANGED durable
    <3>1. CASE ServeRollback
      BY <3>1 DEF ServeRollback, Discard
    <3>2. CASE ServeCommit
      <4>1. Reply("ok") => v = "ok"
        <5> SUFFICES ASSUME Reply("ok") PROVE v = "ok"
          OBVIOUS
        <5>1. answer'[h] = "ok"
          BY <1>0, <1>h, ReplyFacts DEF Answers
        <5> QED BY <1>6, <5>1
      <4>2. h.op = "COMMIT"
        BY <1>h, <3>2 DEF ServeCommit
      <4>3. Reply("ok") => failed
        BY <1>8, <4>1, <4>2
      <4> QED BY <3>2, <4>3 DEF ServeCommit, Discard
    <3> QED BY <3>1, <3>2
  <2> QED BY <1>0, <1>b, <1>t, <1>1, <1>2, <2>1, <2>2, EndIsAbort
<1> QED BY <1>7, <1>8

LEMMA LoseRefines ==
    ASSUME IInv, IInv', Lose
    PROVE  Atomic!Next \/ UNCHANGED Atomic!vars
<1> USE DEF IInv, ClientInv
<1>0. /\ ~lost /\ lost' /\ open' = NoTx
      /\ UNCHANGED <<answer, durable, outcome>>
  BY DEF Lose, Discard, clientVars
<1>1. Onward
  BY LoseStep
<1>2. \A t \in Txs : Began(t)' <=> Began(t)
  BY <1>0, <1>1, ClientKeepsBooks
<1>3. \A t \in Txs : Committed(t)' <=> Committed(t)
  BY <1>0, <1>1, ClientKeepsBooks
<1>4. \A t \in Txs : Applied(t)' = Applied(t)
  BY <1>0, <1>1, ClientKeepsBooks
<1>5. \A t \in Txs : Told(t)' = Told(t)
  <2> SUFFICES ASSUME NEW t \in Txs PROVE Told(t)' = Told(t)
    OBVIOUS
  <2>1. Failed(t)' <=> Failed(t)
    BY <1>0, <1>1, ClientKeepsBooks
  <2>2. outcome[t] = "error" => ~Committed(t)
    BY <1>0 DEF ToldInv, Committed
  <2> QED BY <1>0, <1>3, <2>1, <2>2, ToldKept
<1>6. CASE open = NoTx
  BY <1>0, <1>2, <1>3, <1>4, <1>5, <1>6, QuietIsStutter
<1>7. CASE open \in Txs
  <2>1. PICK t \in Txs : open = t
    BY <1>7
  <2> QED BY <1>0, <1>2, <1>3, <1>4, <1>5, <2>1, EndIsAbort
<1> QED BY <1>6, <1>7 DEF TypeOK

LEMMA RefinesStep ==
    ASSUME IInv, IInv', [Next]_vars
    PROVE  Atomic!Next \/ UNCHANGED Atomic!vars
<1>1. CASE Server
  BY <1>1, StatementRefines, BeginRefines, EndRefines DEF Server
<1>2. CASE Lose
  BY <1>2, LoseRefines
<1>3. CASE ~Server /\ ~Lose
  BY <1>3, ClientRefines
<1> QED BY <1>1, <1>2, <1>3

\* Every behaviour of the session, with any number of transactions and statements, whatever
\* is cancelled, swallowed or lost, is one of atomic transactions that run one at a time and
\* whose callers are told the truth or, where an error was swallowed or an answer lost, nothing.
THEOREM Refinement == Spec => ImplementsAtomic
<1>1. Init => Atomic!Init
  BY RefinesInit
<1>2. IInv /\ IInv' /\ [Next]_vars => [Atomic!Next]_(Atomic!vars)
  BY RefinesStep
<1> QED BY <1>1, <1>2, Invariance, PTL DEF Spec, ImplementsAtomic, Atomic!Spec
=============================================================================
