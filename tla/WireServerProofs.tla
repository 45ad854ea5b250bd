-------------------------- MODULE WireServerProofs --------------------------
(***************************************************************************)
(* Theorems about WireServer, for every set of connections, statements,    *)
(* threads and addresses, every capacity of the plan cache, every range of *)
(* statement ids and commands of any number in any order.                  *)
(***************************************************************************)
EXTENDS WireServer, Induction

---------------------------------------------------------------------------
(* What a connection keeps *)

IsFcn(f) == f = [c \in Conns |-> f[c]]

\* A statement that may be prepared.
Ordinary(text) == text \in Texts /\ Parse[text].kind \notin Control \cup SessionKinds

\* Why a statement is being planned or run decides where its text comes from.
Purpose(k) ==
  /\ k.text \in Texts
  /\ \/ k.for = "run" /\ k.pc # "prepared" /\ k.cmd.kind = "query" /\ k.cmd.text = k.text
     \/ /\ k.for = "prepare" /\ k.pc \in {"lookup", "parse", "prepared"}
        /\ k.cmd.kind = "query" \/ (k.cmd.kind = "stmtPrepare" /\ k.cmd.text = k.text)
     \/ /\ k.for \in {"execute", "kept"} /\ k.pc # "prepared"
        /\ Ordinary(k.text) /\ k.cmd.kind \in {"query", "stmtExecute"}

Planning(k) ==
  /\ k.pc \in {"lookup", "parse", "prepared", "control", "start"}
  /\ k = [pc |-> k.pc, cmd |-> k.cmd, text |-> k.text, for |-> k.for,
          parameters |-> k.parameters, seen |-> k.seen]
  /\ Purpose(k)

Binding(k) ==
  /\ k.pc = "bind"
  /\ k = [pc |-> "bind", cmd |-> k.cmd, prepared |-> k.prepared, parameters |-> k.parameters]
  /\ Ordinary(k.prepared.text) /\ k.cmd.kind \in {"query", "stmtExecute"}

Evaluating(k) ==
  /\ k.pc = "eval"
  /\ k = [pc |-> "eval", cmd |-> k.cmd, text |-> k.text, parameters |-> k.parameters,
          for |-> k.for, seen |-> k.seen, got |-> k.got,
          work |-> k.work, thread |-> k.thread, at |-> k.at]
  /\ Purpose(k)
  /\ IsSeq(k.got) /\ Len(k.got) <= Len(Parse[k.text].sites)
  /\ k.thread \in Threads
  /\ k.at \in Injection({i \in DOMAIN Parse[k.text].sites : ~Parse[k.text].sites[i].temporary},
                        Addresses)

CallInv(k) == k = Idle \/ Planning(k) \/ Binding(k) \/ Evaluating(k)

TxnInv(t) ==
  \/ t = NoTxn
  \/ /\ t.active = TRUE
     /\ t = [active |-> t.active, base |-> t.base, cat |-> t.cat, wrote |-> t.wrote,
             schemaChanged |-> t.schemaChanged]

Stored(s) ==
  /\ s = [text |-> s.text, schema |-> s.schema, parameters |-> s.parameters,
          typed |-> s.typed, long |-> s.long]
  /\ Ordinary(s.text)

ConnInv(c) ==
  /\ conn[c] \in {"greeted", "open", "closed"}
  /\ script[c] \in Seq(SUBSET Commands)
  /\ IsSeq(log[c])
  /\ CallInv(call[c]) /\ (conn[c] # "open" => call[c] = Idle)
  /\ TxnInv(txn[c])
  /\ nextId[c] \in 1..(IdLimit - 1)
  /\ statements[c] = [i \in DOMAIN statements[c] |-> statements[c][i]]
  /\ \A i \in DOMAIN statements[c] : Stored(statements[c][i])
  /\ \A n \in DOMAIN named[c] : Ordinary(named[c][n].text)

ShapeInv ==
  /\ IsFcn(conn) /\ IsFcn(script) /\ IsFcn(log) /\ IsFcn(call) /\ IsFcn(txn)
  /\ IsFcn(statements) /\ IsFcn(nextId) /\ IsFcn(named)
  /\ \A c \in Conns : ConnInv(c)

---------------------------------------------------------------------------
(* What the connections share *)

PlanInv ==
  /\ IsSeq(plans)
  /\ Len(plans) <= PlanCapacity
  /\ \A i, j \in DOMAIN plans : plans[i].text = plans[j].text => i = j

LockInv ==
  lock # NoConn => lock \in Conns /\ Running(lock) /\ ~txn[lock].active

\* What the subquery cache holds under the thread of a running statement is a
\* result of that statement: the one of a site that keeps its tree under the
\* address of the tree, and under any other address that of a temporary copy,
\* so that one has been evaluated.
OwnEntries(c) ==
  Running(c) => \A v, a :
    <<v, a, call[c].thread>> \in DOMAIN subqueries =>
      \/ \E i \in Kept(c) :
           /\ a = call[c].at[i]
           /\ subqueries[<<v, a, call[c].thread>>] =
                [query |-> Sites(c)[i].query, data |-> call[c].work.data]
      \/ /\ a \notin Range(call[c].at)
         /\ \E i \in DOMAIN Sites(c) \ Kept(c) : i <= Len(call[c].got)

\* A statement has at most one place where a subquery is evaluated from a copy
\* that is freed right after (an ON DUPLICATE KEY assignment).
OneTemporary ==
  \A t \in Texts : \A i, j \in DOMAIN Parse[t].sites :
    Parse[t].sites[i].temporary /\ Parse[t].sites[j].temporary => i = j

\* The results a running statement has got: those of sites that keep their
\* trees are its own, and all are when there is one temporary site at most.
OwnResults(c) ==
  Running(c) => \A i \in DOMAIN call[c].got :
    (i \in Kept(c) \/ OneTemporary) =>
      call[c].got[i] = [query |-> Sites(c)[i].query, data |-> call[c].work.data]

\* A thread runs one statement.
CacheInv ==
  /\ \A c, d \in Conns :
       Running(c) /\ Running(d) /\ call[c].thread = call[d].thread => c = d
  /\ \A c \in Conns : OwnEntries(c) /\ OwnResults(c)

---------------------------------------------------------------------------
(* What the client was told *)

\* The last reply with flags, and the transaction since.
FlagInv(c) ==
  conn[c] # "closed" => \E m \in {0} \cup DOMAIN log[c] :
    /\ m # 0 => Tells(log[c][m])
    /\ \A i \in DOMAIN log[c] : i > m => ~Tells(log[c][i])
    /\ IF m = 0 \/ log[c][m].flag = "out" THEN ~txn[c].active
       ELSE \/ txn[c].active
            \/ \E i \in DOMAIN log[c] : i > m /\ FailedCommit(log[c][i])

\* The statements prepared after an id was given.
Later(c, i) == {j \in PreparedAt(c) : j > i}

Closed(c, i) ==
  \E j \in DOMAIN log[c] :
    j > i /\ log[c][j].cmd.kind = "stmtClose" /\ log[c][j].cmd.id = log[c][i].value.id

\* Ids are consecutive, and start again at one after IdLimit - 1.
IdInv(c) ==
  conn[c] # "closed" => \A i \in PreparedAt(c) :
    LET id == log[c][i].value.id
        later == Cardinality(Later(c, i))
    IN /\ id \in 1..(IdLimit - 1)
       /\ later < IdLimit - 1 =>
            /\ nextId[c] \in {id + later + 1, id + later + 1 - (IdLimit - 1)}
            /\ \/ Closed(c, i)
               \/ id \in DOMAIN statements[c] /\ statements[c][id].text = log[c][i].cmd.text

IInv == ShapeInv /\ PlanInv /\ LockInv /\ \A c \in Conns : FlagInv(c) /\ IdInv(c)

---------------------------------------------------------------------------
(* A step is a step of one connection *)

Step(c) ==
  \/ Handshake(c) \/ Disconnect(c) \/ Session(c)
  \/ \E cmd \in Commands : Command(c, cmd)

\* g is f but for its value at c.
SameAt(f, g, c) == IsFcn(g) /\ \A d \in Conns \ {c} : g[d] = f[d]

\* A step changes what its own connection keeps, and nobody else's.
Local(c) ==
  /\ SameAt(conn, conn', c) /\ SameAt(script, script', c) /\ SameAt(log, log', c)
  /\ SameAt(call, call', c) /\ SameAt(txn, txn', c) /\ SameAt(statements, statements', c)
  /\ SameAt(nextId, nextId', c) /\ SameAt(named, named', c)

\* The parts of a connection's state.
LEMMA ConnParts ==
  ASSUME ShapeInv, NEW c \in Conns
  PROVE  /\ conn[c] \in {"greeted", "open", "closed"}
         /\ script[c] \in Seq(SUBSET Commands) /\ IsSeq(log[c])
         /\ CallInv(call[c]) /\ (conn[c] # "open" => call[c] = Idle)
         /\ TxnInv(txn[c]) /\ nextId[c] \in 1..(IdLimit - 1)
         /\ statements[c] = [i \in DOMAIN statements[c] |-> statements[c][i]]
         /\ \A i \in DOMAIN statements[c] : Stored(statements[c][i])
         /\ \A n \in DOMAIN named[c] : Ordinary(named[c][n].text)
  BY DEF ShapeInv, ConnInv

\* Commands come from the script, and the script consists of commands.
LEMMA StepCases ==
  ASSUME ShapeInv, Next
  PROVE  \E c \in Conns : Step(c)
  <1>1. PICK c \in Conns :
          \/ Handshake(c) \/ Disconnect(c) \/ Session(c)
          \/ script[c] # <<>> /\ \E cmd \in Head(script[c]) : Command(c, cmd)
    BY DEF Next
  <1>2. script[c] \in Seq(SUBSET Commands)
    BY ConnParts
  <1>3. CASE script[c] # <<>> /\ \E cmd \in Head(script[c]) : Command(c, cmd)
    <2>1. Head(script[c]) \in SUBSET Commands
      BY <1>2, <1>3
    <2> QED BY <1>3, <2>1 DEF Step
  <1> QED BY <1>1, <1>3 DEF Step

\* The entry of a reply in the log.
Entry(cmd, ok, flag, value) == [cmd |-> cmd, ok |-> ok, flag |-> flag, value |-> value]

\* What a reply does.
LEMMA ReplyFacts ==
  ASSUME ShapeInv, NEW c \in Conns, NEW cmd, NEW ok, NEW value, Reply(c, cmd, ok, value)
  PROVE  /\ SameAt(call, call', c) /\ SameAt(log, log', c) /\ call'[c] = Idle
         /\ log'[c] = Append(log[c], Entry(cmd, ok, IF ok THEN Status(c) ELSE "none", value))
  <1>1. IsFcn(call) /\ IsFcn(log)
    BY DEF ShapeInv
  <1> QED BY <1>1 DEF Reply, Logged, SameAt, IsFcn, Entry

\* The same for replies that do not end a call.
LEMMA LoggedFacts ==
  ASSUME ShapeInv, NEW c \in Conns, NEW cmd, NEW ok, NEW flag, NEW value,
         Logged(c, cmd, ok, flag, value)
  PROVE  SameAt(log, log', c) /\ log'[c] = Append(log[c], Entry(cmd, ok, flag, value))
  <1>1. IsFcn(log)
    BY DEF ShapeInv
  <1> QED BY <1>1 DEF Logged, SameAt, IsFcn, Entry

\* A function that is left alone or replaced at one place.
LEMMA Same ==
  ASSUME NEW f, IsFcn(f), NEW c \in Conns
  PROVE  SameAt(f, f, c)
  BY DEF SameAt

---------------------------------------------------------------------------
(* What a step does to what the client was told *)

\* A flagged reply tells the state of the transaction; without one the
\* transaction stays, or a COMMIT has failed.
FlagEffect(c) ==
  \/ conn'[c] = "closed"
  \/ /\ conn[c] # "closed"
     /\ \/ log'[c] = log[c] /\ txn'[c].active = txn[c].active
        \/ \E e : /\ log'[c] = Append(log[c], e)
                  /\ \/ e.flag = Status(c) /\ Tells(e)
                     \/ /\ ~Tells(e)
                        /\ \/ txn'[c].active = txn[c].active
                           \/ FailedCommit(e) /\ ~txn'[c].active

SameTexts(c, ids) ==
  \A i \in ids : i \in DOMAIN statements'[c] /\ statements'[c][i].text = statements[c][i].text

\* Statements stay, one is closed, or the next id names the new one.
IdEffect(c) ==
  \/ conn'[c] = "closed"
  \/ /\ conn[c] # "closed"
     /\ \/ /\ nextId'[c] = nextId[c] /\ SameTexts(c, DOMAIN statements[c])
           /\ \/ log'[c] = log[c]
              \/ \E e : log'[c] = Append(log[c], e) /\ ~(e.cmd.kind = "stmtPrepare" /\ e.ok)
        \/ \E e : /\ log'[c] = Append(log[c], e) /\ e.cmd.kind = "stmtClose"
                  /\ nextId'[c] = nextId[c] /\ SameTexts(c, DOMAIN statements[c] \ {e.cmd.id})
        \/ \E e : /\ log'[c] = Append(log[c], e) /\ e.cmd.kind = "stmtPrepare" /\ e.ok
                  /\ e.value.id = nextId[c] /\ nextId'[c] = NextStatementId(nextId[c])
                  /\ SameTexts(c, DOMAIN statements[c] \ {nextId[c]})
                  /\ nextId[c] \in DOMAIN statements'[c]
                  /\ statements'[c][nextId[c]].text = e.cmd.text

\* The wire statements stay, their long data and types aside.
SameStatements(c) ==
  /\ SameAt(statements, statements', c) /\ SameTexts(c, DOMAIN statements[c])
  /\ statements'[c] = [i \in DOMAIN statements'[c] |-> statements'[c][i]]
  /\ \A i \in DOMAIN statements'[c] : Stored(statements'[c][i])

Good(c) == Local(c) /\ ConnInv(c)' /\ FlagEffect(c) /\ IdEffect(c)

\* A step that ends a command with a reply and keeps the wire statements.
LEMMA ReplyGood ==
  ASSUME ShapeInv, NEW c \in Conns, NEW cmd, NEW ok \in BOOLEAN, NEW value,
         Reply(c, cmd, ok, value), conn[c] = "open", conn' = conn,
         SameAt(script, script', c), script'[c] \in Seq(SUBSET Commands),
         SameStatements(c), nextId' = nextId,
         SameAt(txn, txn', c), TxnInv(txn'[c]),
         SameAt(named, named', c), \A n \in DOMAIN named'[c] : Ordinary(named'[c][n].text),
         \/ ok
         \/ txn'[c].active = txn[c].active
         \/ ~txn'[c].active /\ cmd.kind = "query" /\ Parse[cmd.text].kind = "commit",
         ok => cmd.kind \in {"query", "stmtExecute"}
  PROVE  Good(c)
  <1> DEFINE e == Entry(cmd, ok, IF ok THEN Status(c) ELSE "none", value)
  <1>1. /\ SameAt(call, call', c) /\ SameAt(log, log', c) /\ call'[c] = Idle
        /\ log'[c] = Append(log[c], e)
    BY ReplyFacts
  <1>2. IsFcn(conn) /\ IsFcn(nextId)
    BY DEF ShapeInv
  <1>3. e.cmd = cmd /\ e.ok = ok /\ e.flag = IF ok THEN Status(c) ELSE "none"
    BY DEF Entry
  <1> HIDE DEF e
  <1>4. Local(c)
    BY <1>1, <1>2, Same DEF Local, SameStatements
  <1>5. ConnInv(c)'
    <2>1. IsSeq(log'[c])
      <3>1. IsSeq(log[c])
        BY ConnParts
      <3>2. IsSeq(Append(log[c], e))
        BY <3>1, AppendFacts
      <3> QED BY <1>1, <3>2
    <2> QED BY <1>1, <2>1, ConnParts DEF ConnInv, CallInv, SameStatements
  <1>6. FlagEffect(c)
    <2>1. IF ok THEN e.flag = Status(c) /\ Tells(e) ELSE ~Tells(e)
      BY <1>3 DEF Tells, Status
    <2> QED BY <1>1, <1>3, <2>1 DEF FlagEffect, FailedCommit
  <1>7. IdEffect(c)
    BY <1>1, <1>3 DEF IdEffect, SameStatements
  <1> QED BY <1>4, <1>5, <1>6, <1>7 DEF Good

\* A step that goes on with a call.
LEMMA CallGood ==
  ASSUME ShapeInv, NEW c \in Conns, conn[c] = "open", conn' = conn,
         SameAt(script, script', c), script'[c] \in Seq(SUBSET Commands),
         SameAt(call, call', c), CallInv(call'[c]),
         log' = log, txn' = txn, SameStatements(c), nextId' = nextId, named' = named
  PROVE  Good(c)
  <1>1. IsFcn(conn) /\ IsFcn(nextId) /\ IsFcn(log) /\ IsFcn(txn) /\ IsFcn(named)
    BY DEF ShapeInv
  <1>2. Local(c)
    BY <1>1, Same DEF Local, SameStatements
  <1>3. ConnInv(c)'
    BY ConnParts DEF ConnInv, SameStatements
  <1>4. FlagEffect(c)
    BY DEF FlagEffect
  <1>5. IdEffect(c)
    BY DEF IdEffect, SameStatements
  <1> QED BY <1>2, <1>3, <1>4, <1>5 DEF Good

\* A command that is answered without flags and touches a wire statement.
LEMMA LoggedGood ==
  ASSUME ShapeInv, NEW c \in Conns, NEW cmd, NEW ok, NEW flag, NEW value,
         Logged(c, cmd, ok, flag, value), cmd.kind \notin {"query", "stmtExecute"}, conn[c] = "open", conn' = conn,
         SameAt(script, script', c), script'[c] \in Seq(SUBSET Commands),
         call' = call, txn' = txn, nextId' = nextId, named' = named,
         SameAt(statements, statements', c),
         statements'[c] = [i \in DOMAIN statements'[c] |-> statements'[c][i]],
         \A i \in DOMAIN statements'[c] : Stored(statements'[c][i]),
         \/ SameTexts(c, DOMAIN statements[c]) /\ cmd.kind # "stmtPrepare"
         \/ SameTexts(c, DOMAIN statements[c] \ {cmd.id}) /\ cmd.kind = "stmtClose"
  PROVE  Good(c)
  <1> DEFINE e == Entry(cmd, ok, flag, value)
  <1>1. SameAt(log, log', c) /\ log'[c] = Append(log[c], e)
    BY LoggedFacts
  <1>2. IsFcn(conn) /\ IsFcn(call) /\ IsFcn(txn) /\ IsFcn(nextId) /\ IsFcn(named)
    BY DEF ShapeInv
  <1>3. e.cmd = cmd /\ e.ok = ok /\ ~Tells(e)
    BY DEF Entry, Tells
  <1> HIDE DEF e
  <1>4. Local(c)
    BY <1>1, <1>2, Same DEF Local
  <1>5. ConnInv(c)'
    <2>1. IsSeq(log'[c])
      <3>1. IsSeq(log[c])
        BY ConnParts
      <3>2. IsSeq(Append(log[c], e))
        BY <3>1, AppendFacts
      <3> QED BY <1>1, <3>2
    <2> QED BY <2>1, ConnParts DEF ConnInv
  <1>6. FlagEffect(c)
    BY <1>1, <1>3 DEF FlagEffect
  <1>7. IdEffect(c)
    BY <1>1, <1>3 DEF IdEffect
  <1> QED BY <1>4, <1>5, <1>6, <1>7 DEF Good

\* Reading a command leaves a script of commands.
LEMMA ReceiveFacts ==
  ASSUME ShapeInv, NEW c \in Conns, NEW cmd, Receive(c, cmd)
  PROVE  /\ SameAt(script, script', c) /\ script'[c] \in Seq(SUBSET Commands)
         /\ conn' = conn /\ conn[c] = "open" /\ call[c] = Idle
  <1>1. IsFcn(script) /\ script[c] \in Seq(SUBSET Commands)
    BY ConnParts DEF ShapeInv
  <1>2. script[c] # <<>> /\ script' = [script EXCEPT ![c] = Tail(script[c])]
    BY DEF Receive
  <1>3. SameAt(script, script', c) /\ script'[c] = Tail(script[c])
    BY <1>1, <1>2 DEF SameAt, IsFcn
  <1>4. Tail(script[c]) \in Seq(SUBSET Commands)
    BY <1>1, <1>2
  <1> QED BY <1>3, <1>4 DEF Receive

\* parse_cached is called with a text and a purpose.
LEMMA PlanFacts ==
  ASSUME ShapeInv, NEW c \in Conns, NEW cmd, NEW text \in Texts, NEW for, NEW parameters,
         Plan(c, cmd, text, for, parameters),
         \/ for = "run" /\ cmd.kind = "query" /\ cmd.text = text
         \/ for = "prepare" /\ (cmd.kind = "query" \/ (cmd.kind = "stmtPrepare" /\ cmd.text = text))
         \/ for = "execute" /\ Ordinary(text) /\ cmd.kind \in {"query", "stmtExecute"}
  PROVE  SameAt(call, call', c) /\ CallInv(call'[c])
  <1> DEFINE k == [pc |-> "lookup", cmd |-> cmd, text |-> text, for |-> for,
                   parameters |-> parameters, seen |-> catalog.schema]
  <1>1. call' = [call EXCEPT ![c] = k] /\ IsFcn(call)
    BY DEF Plan, ShapeInv
  <1>2. Planning(k)
    BY DEF Planning, Purpose
  <1> HIDE DEF k
  <1>3. SameAt(call, call', c) /\ call'[c] = k
    BY <1>1 DEF SameAt, IsFcn
  <1> QED BY <1>2, <1>3 DEF CallInv

\* The session variables are functions on the connections.
LEMMA Functional ==
  ASSUME ShapeInv, NEW c \in Conns
  PROVE  /\ SameAt(conn, conn, c) /\ SameAt(script, script, c) /\ SameAt(log, log, c)
         /\ SameAt(call, call, c) /\ SameAt(txn, txn, c)
         /\ SameAt(statements, statements, c) /\ SameAt(nextId, nextId, c)
         /\ SameAt(named, named, c)
  BY Same DEF ShapeInv

\* The commands' fields.
LEMMA CommandFields ==
  ASSUME NEW cmd \in Commands
  PROVE  cmd.kind \in {"query", "stmtPrepare"} => cmd.text \in Texts
  BY DEF Commands

\* Handshake and Disconnect.
LEMMA OpenGood ==
  ASSUME ShapeInv, NEW c \in Conns, Handshake(c) \/ Disconnect(c)
  PROVE  Good(c)
  <1>0. /\ SameAt(conn, conn, c) /\ SameAt(script, script, c) /\ SameAt(log, log, c)
        /\ SameAt(call, call, c) /\ SameAt(txn, txn, c)
        /\ SameAt(statements, statements, c) /\ SameAt(nextId, nextId, c)
        /\ SameAt(named, named, c)
    BY Functional
  <1>1. CASE Handshake(c)
    <2>1. PICK accepted \in BOOLEAN :
             conn' = [conn EXCEPT ![c] = IF accepted THEN "open" ELSE "closed"]
      BY <1>1 DEF Handshake
    <2>2. /\ SameAt(conn, conn', c) /\ conn'[c] \in {"open", "closed"}
      BY <2>1 DEF ShapeInv, SameAt, IsFcn
    <2>3. /\ conn[c] = "greeted"
          /\ UNCHANGED <<script, log, call, txn, statements, nextId, named>>
      BY <1>1 DEF Handshake, session
    <2>4. Local(c)
      BY <1>0, <2>2, <2>3 DEF Local
    <2>5. ConnInv(c)'
      BY <2>2, <2>3, ConnParts DEF ConnInv
    <2>6. FlagEffect(c) /\ IdEffect(c)
      BY <2>2, <2>3 DEF FlagEffect, IdEffect, SameTexts
    <2> QED BY <2>4, <2>5, <2>6 DEF Good
  <1>2. CASE Disconnect(c)
    <2>1. /\ conn' = [conn EXCEPT ![c] = "closed"] /\ txn' = [txn EXCEPT ![c] = NoTxn]
          /\ statements' = [statements EXCEPT ![c] = Empty]
          /\ named' = [named EXCEPT ![c] = Empty]
          /\ call[c] = Idle /\ UNCHANGED <<script, log, call, nextId>>
      BY <1>2 DEF Disconnect
    <2>2. /\ SameAt(conn, conn', c) /\ conn'[c] = "closed"
          /\ SameAt(txn, txn', c) /\ txn'[c] = NoTxn
          /\ SameAt(statements, statements', c) /\ statements'[c] = Empty
          /\ SameAt(named, named', c) /\ named'[c] = Empty
      BY <2>1 DEF ShapeInv, SameAt, IsFcn
    <2>3. DOMAIN Empty = {} /\ Empty = [i \in DOMAIN Empty |-> Empty[i]]
      BY DEF Empty
    <2>4. Local(c)
      BY <1>0, <2>1, <2>2 DEF Local
    <2>5. ConnInv(c)'
      BY <2>1, <2>2, <2>3, ConnParts DEF ConnInv, TxnInv
    <2>6. FlagEffect(c) /\ IdEffect(c)
      BY <2>2 DEF FlagEffect, IdEffect
    <2> QED BY <2>4, <2>5, <2>6 DEF Good
  <1> QED BY <1>1, <1>2

\* A statement stays a statement, and that of its text, when its long data
\* and its types change.
LEMMA StoredLong ==
  ASSUME NEW s, Stored(s), NEW x, NEW y
  PROVE  /\ Stored([s EXCEPT !.long = x]) /\ [s EXCEPT !.long = x].text = s.text
         /\ Stored([s EXCEPT !.typed = y, !.long = x])
         /\ [s EXCEPT !.typed = y, !.long = x].text = s.text
  <1>1. /\ s = [text |-> s.text, schema |-> s.schema, parameters |-> s.parameters,
                typed |-> s.typed, long |-> s.long]
        /\ Ordinary(s.text)
    BY DEF Stored
  <1>2. [s EXCEPT !.long = x] = [text |-> s.text, schema |-> s.schema,
             parameters |-> s.parameters, typed |-> s.typed, long |-> x]
    BY <1>1
  <1>3. [s EXCEPT !.typed = y, !.long = x] = [text |-> s.text, schema |-> s.schema,
             parameters |-> s.parameters, typed |-> y, long |-> x]
    <2> DEFINE t == [s EXCEPT !.typed = y]
    <2>1. t = [text |-> s.text, schema |-> s.schema, parameters |-> s.parameters,
               typed |-> y, long |-> s.long]
      BY <1>1
    <2>2. [s EXCEPT !.typed = y, !.long = x] = [t EXCEPT !.long = x]
      OBVIOUS
    <2> HIDE DEF t
    <2>3. [t EXCEPT !.long = x] = [text |-> s.text, schema |-> s.schema,
              parameters |-> s.parameters, typed |-> y, long |-> x]
      BY <2>1
    <2> QED BY <2>2, <2>3
  <1> QED BY <1>1, <1>2, <1>3 DEF Stored

\* A command changes one of the wire statements.
LEMMA StoredUpdate ==
  ASSUME ShapeInv, NEW c \in Conns, NEW id \in DOMAIN statements[c], NEW s,
         Stored(s), s.text = statements[c][id].text,
         statements' = [statements EXCEPT ![c][id] = s]
  PROVE  SameStatements(c)
  <1>1. /\ IsFcn(statements)
        /\ statements[c] = [i \in DOMAIN statements[c] |-> statements[c][i]]
        /\ \A i \in DOMAIN statements[c] : Stored(statements[c][i])
    BY ConnParts DEF ShapeInv
  <1>2. SameAt(statements, statements', c) /\ statements'[c] = [statements[c] EXCEPT ![id] = s]
    BY <1>1 DEF SameAt, IsFcn
  <1>3. /\ DOMAIN statements'[c] = DOMAIN statements[c] /\ statements'[c][id] = s
        /\ \A i \in DOMAIN statements[c] \ {id} : statements'[c][i] = statements[c][i]
        /\ statements'[c] = [i \in DOMAIN statements'[c] |-> statements'[c][i]]
    BY <1>1, <1>2
  <1>4. SameTexts(c, DOMAIN statements[c])
    BY <1>3 DEF SameTexts
  <1>5. \A i \in DOMAIN statements'[c] : Stored(statements'[c][i])
    BY <1>1, <1>3
  <1> QED BY <1>2, <1>3, <1>4, <1>5 DEF SameStatements

\* The same facts when it changes none.
LEMMA StoredSame ==
  ASSUME ShapeInv, NEW c \in Conns, statements' = statements
  PROVE  SameStatements(c)
  BY ConnParts, Functional DEF SameStatements, SameTexts

\* Commands without a session.
LEMMA CommandGood ==
  ASSUME ShapeInv, NEW c \in Conns, NEW cmd \in Commands, Command(c, cmd)
  PROVE  Good(c)
  <1>0. Receive(c, cmd)
    BY DEF Command, Ping, SystemQuery, Query, StmtPrepare, StmtReset, StmtClose, SendLongData,
           StmtExecute
  <1>1. /\ SameAt(script, script', c) /\ script'[c] \in Seq(SUBSET Commands)
        /\ conn' = conn /\ conn[c] = "open" /\ call[c] = Idle
    BY <1>0, ReceiveFacts
  <1>2. SameAt(txn, txn, c) /\ SameAt(named, named, c)
    BY Functional
  <1>3. TxnInv(txn[c]) /\ \A n \in DOMAIN named[c] : Ordinary(named[c][n].text)
    BY ConnParts
  <1>4. CASE Ping(c, cmd)
    <2>1. /\ Logged(c, cmd, cmd.kind = "ping", Unasked(cmd.kind = "ping"), Nothing) /\ cmd.kind \in {"ping", "unknown"}
          /\ UNCHANGED <<call, txn, statements, nextId, named>>
      BY <1>4 DEF Ping, session
    <2> QED BY <1>1, <2>1, StoredSame, LoggedGood DEF SameStatements
  <1>5. CASE SystemQuery(c, cmd)
    <2>1. /\ Reply(c, cmd, TRUE, Nothing) /\ cmd.kind = "query"
          /\ UNCHANGED <<txn, statements, nextId, named>>
      BY <1>5 DEF SystemQuery, session
    <2> QED BY <1>1, <1>2, <1>3, <2>1, StoredSame, ReplyGood
  <1>6. CASE Query(c, cmd) \/ StmtPrepare(c, cmd)
    <2>1. /\ cmd.kind \in {"query", "stmtPrepare"}
          /\ Plan(c, cmd, cmd.text, IF cmd.kind = "query" THEN "run" ELSE "prepare", <<>>)
          /\ UNCHANGED <<log, txn, statements, nextId, named>>
      BY <1>6 DEF Query, StmtPrepare, session
    <2>2. SameAt(call, call', c) /\ CallInv(call'[c])
      <3>1. CASE cmd.kind = "query"
        BY <2>1, <3>1, CommandFields, PlanFacts
      <3>2. CASE cmd.kind = "stmtPrepare"
        BY <2>1, <3>2, CommandFields, PlanFacts
      <3> QED BY <2>1, <3>1, <3>2
    <2> QED BY <1>1, <2>1, <2>2, StoredSame, CallGood
  <1>7. CASE StmtReset(c, cmd)
    <2>1. /\ Logged(c, cmd, cmd.id \in DOMAIN statements[c],
                    Unasked(cmd.id \in DOMAIN statements[c]), Nothing)
          /\ cmd.kind = "stmtReset" /\ UNCHANGED <<call, txn, nextId, named>>
      BY <1>7 DEF StmtReset
    <2>2. CASE cmd.id \in DOMAIN statements[c]
      <3> DEFINE s == [statements[c][cmd.id] EXCEPT !.long = Empty]
      <3>1. Stored(s) /\ s.text = statements[c][cmd.id].text
        BY <2>2, ConnParts, StoredLong
      <3>2. statements' = [statements EXCEPT ![c][cmd.id] = s]
        BY <1>7, <2>2 DEF StmtReset
      <3> HIDE DEF s
      <3> QED BY <1>1, <2>1, <2>2, <3>1, <3>2, StoredUpdate, LoggedGood DEF SameStatements
    <2>3. CASE cmd.id \notin DOMAIN statements[c]
      <3>1. statements' = statements
        BY <1>7, <2>3 DEF StmtReset
      <3> QED BY <1>1, <2>1, <3>1, StoredSame, LoggedGood DEF SameStatements
    <2> QED BY <2>2, <2>3
  <1>8. CASE StmtClose(c, cmd)
    <2>1. /\ Logged(c, cmd, TRUE, "none", Nothing)
          /\ cmd.kind = "stmtClose" /\ UNCHANGED <<call, txn, nextId, named>>
          /\ statements' = [statements EXCEPT ![c] =
                              RestrictDomain(statements[c], LAMBDA i : i # cmd.id)]
      BY <1>8 DEF StmtClose
    <2>2. RestrictDomain(statements[c], LAMBDA i : i # cmd.id) =
            [i \in DOMAIN statements[c] \ {cmd.id} |-> statements[c][i]]
      BY DEF RestrictDomain, Restrict
    <2>3. /\ SameAt(statements, statements', c)
          /\ statements'[c] = [i \in DOMAIN statements[c] \ {cmd.id} |-> statements[c][i]]
      BY <2>1, <2>2 DEF ShapeInv, SameAt, IsFcn
    <2>4. /\ DOMAIN statements'[c] = DOMAIN statements[c] \ {cmd.id}
          /\ \A i \in DOMAIN statements'[c] : statements'[c][i] = statements[c][i]
          /\ statements'[c] = [i \in DOMAIN statements'[c] |-> statements'[c][i]]
      BY <2>3
    <2>5. SameTexts(c, DOMAIN statements[c] \ {cmd.id})
      BY <2>4 DEF SameTexts
    <2>6. \A i \in DOMAIN statements'[c] : Stored(statements'[c][i])
      BY <2>4, ConnParts
    <2> QED BY <1>1, <2>1, <2>3, <2>4, <2>5, <2>6, LoggedGood
  <1>9. CASE SendLongData(c, cmd)
    <2>1. /\ Logged(c, cmd, TRUE, "none", Nothing)
          /\ cmd.kind = "longData" /\ UNCHANGED <<call, txn, nextId, named>>
      BY <1>9 DEF SendLongData
    <2>2. CASE cmd.id \in DOMAIN statements[c]
      <3>1. PICK after : statements' = [statements EXCEPT ![c][cmd.id].long = after]
        BY <1>9, <2>2 DEF SendLongData
      <3> DEFINE s == [statements[c][cmd.id] EXCEPT !.long = after]
      <3>2. Stored(s) /\ s.text = statements[c][cmd.id].text
        BY <2>2, ConnParts, StoredLong
      <3>3. statements' = [statements EXCEPT ![c][cmd.id] = s]
        BY <3>1
      <3> HIDE DEF s
      <3> QED BY <1>1, <2>1, <2>2, <3>2, <3>3, StoredUpdate, LoggedGood DEF SameStatements
    <2>3. CASE cmd.id \notin DOMAIN statements[c]
      <3>1. statements' = statements
        BY <1>9, <2>3 DEF SendLongData
      <3> QED BY <1>1, <2>1, <3>1, StoredSame, LoggedGood DEF SameStatements
    <2> QED BY <2>2, <2>3
  <1>10. CASE StmtExecute(c, cmd)
    <2> DEFINE stmt == statements[c][cmd.id]
    <2> DEFINE known == cmd.id \in DOMAIN statements[c]
    <2>1. cmd.kind = "stmtExecute" /\ UNCHANGED <<txn, nextId, named>>
      BY <1>10 DEF StmtExecute
    <2>2. SameStatements(c)
      <3>1. CASE known
        <4>1. /\ Stored(AfterDecode(stmt, cmd)) /\ AfterDecode(stmt, cmd).text = stmt.text
          BY <3>1, ConnParts, StoredLong DEF AfterDecode
        <4>2. statements' = [statements EXCEPT ![c][cmd.id] = AfterDecode(stmt, cmd)]
          BY <1>10, <3>1 DEF StmtExecute
        <4> QED BY <3>1, <4>1, <4>2, StoredUpdate
      <3>2. CASE ~known
        BY <1>10, <3>2, StoredSame DEF StmtExecute
      <3> QED BY <3>1, <3>2
    <2>3. CASE ~known \/ DecodeFails(stmt, cmd)
      <3>1. Reply(c, cmd, FALSE, Nothing)
        BY <1>10, <2>3 DEF StmtExecute
      <3> QED BY <1>1, <1>2, <1>3, <2>1, <2>2, <3>1, ReplyGood
    <2>4. CASE ~(~known \/ DecodeFails(stmt, cmd))
      <3>1. PICK values :
              /\ call' = [call EXCEPT ![c] = [pc |-> "bind", cmd |-> cmd, prepared |-> stmt,
                                              parameters |-> values]]
              /\ log' = log
        BY <1>10, <2>4 DEF StmtExecute
      <3> DEFINE k == [pc |-> "bind", cmd |-> cmd, prepared |-> stmt, parameters |-> values]
      <3>2. SameAt(call, call', c) /\ call'[c] = k
        BY <3>1 DEF ShapeInv, SameAt, IsFcn
      <3>3. Ordinary(stmt.text)
        BY <2>4, ConnParts DEF Stored
      <3>4. Binding(k)
        BY <2>1, <3>3 DEF Binding
      <3> QED BY <1>1, <2>1, <2>2, <3>1, <3>2, <3>4, CallGood DEF CallInv
    <2> QED BY <2>3, <2>4
  <1> QED BY <1>4, <1>5, <1>6, <1>7, <1>8, <1>9, <1>10 DEF Command

\* The shape of a call by the place it has reached.
LEMMA CallShapes ==
  ASSUME ShapeInv, NEW c \in Conns
  PROVE  /\ call[c].pc \in {"lookup", "parse", "prepared", "control", "start"} =>
              Planning(call[c]) /\ conn[c] = "open"
         /\ call[c].pc = "bind" => Binding(call[c]) /\ conn[c] = "open"
         /\ call[c].pc = "eval" => Evaluating(call[c]) /\ conn[c] = "open"
  <1>1. CallInv(call[c]) /\ (conn[c] # "open" => call[c] = Idle)
    BY ConnParts
  <1>2. Idle.pc = "idle"
    BY DEF Idle
  <1>3. /\ Planning(call[c]) => call[c].pc \in {"lookup", "parse", "prepared", "control", "start"}
        /\ Binding(call[c]) => call[c].pc = "bind"
        /\ Evaluating(call[c]) => call[c].pc = "eval"
    BY DEF Planning, Binding, Evaluating
  <1> QED BY <1>1, <1>2, <1>3 DEF CallInv

\* A statement that is planned goes on to what it was planned for.
LEMMA PlannedFacts ==
  ASSUME ShapeInv, NEW c \in Conns, call[c].pc \in {"lookup", "parse"},
         Planned(c)
  PROVE  SameAt(call, call', c) /\ CallInv(call'[c])
  <1> DEFINE k == call[c]
  <1> DEFINE next == IF k.for = "prepare" THEN "prepared"
                     ELSE IF Parse[k.text].kind \in Control \cup SessionKinds THEN "control"
                     ELSE "start"
  <1>1. Planning(k) /\ IsFcn(call)
    BY CallShapes DEF ShapeInv
  <1>2. call' = [call EXCEPT ![c].pc = next]
    BY DEF Planned
  <1>3. SameAt(call, call', c) /\ call'[c] = [k EXCEPT !.pc = next]
    BY <1>1, <1>2 DEF SameAt, IsFcn
  <1>4. next \in {"prepared", "control", "start"} /\ (next = "prepared" <=> k.for = "prepare")
    OBVIOUS
  <1> HIDE DEF next
  <1>5. call'[c] = [pc |-> next, cmd |-> k.cmd, text |-> k.text, for |-> k.for,
                    parameters |-> k.parameters, seen |-> k.seen]
    <2>1. [k EXCEPT !.pc = next] = [pc |-> next, cmd |-> k.cmd, text |-> k.text, for |-> k.for,
                    parameters |-> k.parameters, seen |-> k.seen]
      BY <1>1 DEF Planning
    <2> QED BY <1>3, <2>1
  <1>6. Purpose(call'[c])
    BY <1>1, <1>4, <1>5 DEF Planning, Purpose
  <1>7. Planning(call'[c])
    BY <1>4, <1>5, <1>6 DEF Planning
  <1> QED BY <1>3, <1>7 DEF CallInv

\* The entry of a text is found where it is.
LEMMA PlanAtFacts ==
  ASSUME PlanInv, NEW text, PlanPositions(text) # {}
  PROVE  /\ PlanAt(text) \in DOMAIN plans /\ plans[PlanAt(text)].text = text
         /\ \A i \in PlanPositions(text) : i = PlanAt(text)
  <1>1. PlanAt(text) \in PlanPositions(text)
    BY DEF PlanAt
  <1> QED BY <1>1 DEF PlanPositions, PlanInv

\* Planning a statement.
LEMMA PlanGood ==
  ASSUME ShapeInv, PlanInv, NEW c \in Conns, Lookup(c) \/ ParseAndInsert(c)
  PROVE  Good(c)
  <1>1. /\ call[c].pc \in {"lookup", "parse"} /\ conn' = conn /\ script' = script
        /\ UNCHANGED <<txn, statements, nextId, named>>
    BY DEF Lookup, ParseAndInsert, session
  <1>2. Planning(call[c]) /\ conn[c] = "open" /\ IsFcn(call)
    BY <1>1, CallShapes DEF ShapeInv
  <1>3. /\ SameAt(script, script', c) /\ script'[c] \in Seq(SUBSET Commands)
        /\ SameStatements(c) /\ SameAt(txn, txn', c) /\ SameAt(named, named', c)
        /\ TxnInv(txn'[c]) /\ \A n \in DOMAIN named'[c] : Ordinary(named'[c][n].text)
    BY <1>1, Functional, StoredSame, ConnParts
  <1>4. CASE log' = log /\ Planned(c)
    <2>1. SameAt(call, call', c) /\ CallInv(call'[c])
      BY <1>1, <1>4, PlannedFacts
    <2> QED BY <1>1, <1>2, <1>3, <1>4, <2>1, CallGood
  <1>5. CASE log' = log /\ call' = [call EXCEPT ![c].pc = "parse"]
    <2>1. SameAt(call, call', c) /\ call'[c] = [call[c] EXCEPT !.pc = "parse"]
      BY <1>2, <1>5 DEF SameAt, IsFcn
    <2>2. call'[c] = [pc |-> "parse", cmd |-> call[c].cmd, text |-> call[c].text,
                      for |-> call[c].for, parameters |-> call[c].parameters,
                      seen |-> call[c].seen]
      BY <1>2, <2>1 DEF Planning
    <2>3. CallInv(call'[c])
      BY <1>2, <2>2 DEF Planning, Purpose, CallInv
    <2> QED BY <1>1, <1>2, <1>3, <1>5, <2>1, <2>3, CallGood
  <1>6. CASE Reply(c, call[c].cmd, FALSE, Nothing)
    BY <1>1, <1>2, <1>3, <1>6, ReplyGood
  <1>7. CASE Lookup(c)
    <2>1. log' = log
      BY <1>7 DEF Lookup
    <2>2. CASE PlanHit(call[c].text, call[c].seen)
      <3>1. Planned(c)
        BY <1>7, <2>2 DEF Lookup
      <3> QED BY <1>4, <2>1, <3>1
    <2>3. CASE ~PlanHit(call[c].text, call[c].seen)
      BY <1>5, <1>7, <2>1, <2>3 DEF Lookup
    <2> QED BY <2>2, <2>3
  <1>8. CASE ParseAndInsert(c)
    BY <1>4, <1>6, <1>8 DEF ParseAndInsert
  <1> QED BY <1>7, <1>8

\* wrapping_add(1).max(1) on ids below IdLimit.
LEMMA NextIdFacts ==
  ASSUME NEW id \in 1..(IdLimit - 1)
  PROVE  /\ NextStatementId(id) = IF id = IdLimit - 1 THEN 1 ELSE id + 1
         /\ NextStatementId(id) \in 1..(IdLimit - 1)
  <1>1. IdLimit \in Nat /\ IdLimit > 1
    BY ServerAssumption
  <1>2. (id + 1) % IdLimit = IF id = IdLimit - 1 THEN 0 ELSE id + 1
    <2>1. CASE id = IdLimit - 1
      <3>1. id + 1 = IdLimit
        BY <1>1, <2>1
      <3> QED BY <1>1, <2>1, <3>1
    <2>2. CASE id # IdLimit - 1
      <3>1. id + 1 \in 0..(IdLimit - 1)
        BY <1>1, <2>2
      <3> QED BY <1>1, <2>2, <3>1
    <2> QED BY <2>1, <2>2
  <1> DEFINE n == (id + 1) % IdLimit
  <1>3. n \in Nat
    BY <1>1, <1>2
  <1>4. Max({n, 1}) = CHOOSE x \in {n, 1} : \A y \in {n, 1} : x >= y
    BY DEF Max
  <1> HIDE DEF n
  <1>5. Max({n, 1}) \in {n, 1} /\ Max({n, 1}) >= n /\ Max({n, 1}) >= 1
    <2>1. \E x \in {n, 1} : \A y \in {n, 1} : x >= y
      BY <1>3
    <2> QED BY <1>4, <2>1
  <1>6. NextStatementId(id) = Max({n, 1})
    BY DEF NextStatementId, n
  <1> QED BY <1>1, <1>2, <1>3, <1>5, <1>6 DEF n

\* The end of COM_STMT_PREPARE.
LEMMA StmtPreparedGood ==
  ASSUME ShapeInv, NEW c \in Conns, StmtPrepared(c)
  PROVE  Good(c)
  <1> DEFINE k == call[c]
  <1> DEFINE id == nextId[c]
  <1> DEFINE stmt == [text |-> k.text, schema |-> catalog.schema,
                      parameters |-> Parse[k.text].parameters, typed |-> FALSE, long |-> Empty]
  <1>1. /\ k.pc = "prepared" /\ k.cmd.kind = "stmtPrepare"
        /\ call' = [call EXCEPT ![c] = Idle]
        /\ Logged(c, k.cmd, ~PrepareFails(c), Unasked(~PrepareFails(c)),
                  IF PrepareFails(c) THEN Nothing ELSE NewStatement(id))
        /\ UNCHANGED <<conn, script, txn, named>>
    BY DEF StmtPrepared, StatementId
  <1>2. Planning(k) /\ conn[c] = "open" /\ IsFcn(call)
    BY <1>1, CallShapes DEF ShapeInv
  <1>3. k.text \in Texts /\ k.cmd.text = k.text
    BY <1>1, <1>2 DEF Planning, Purpose
  <1> DEFINE e == Entry(k.cmd, ~PrepareFails(c), Unasked(~PrepareFails(c)),
                        IF PrepareFails(c) THEN Nothing ELSE NewStatement(id))
  <1>4. SameAt(log, log', c) /\ log'[c] = Append(log[c], e)
    BY <1>1, LoggedFacts
  <1>5. /\ e.cmd = k.cmd /\ ~Tells(e) /\ e.ok = ~PrepareFails(c)
        /\ ~PrepareFails(c) => e.value.id = id
    BY <1>1 DEF Entry, NewStatement, Nothing, Tells
  <1> HIDE DEF e
  <1>6. SameAt(call, call', c) /\ call'[c] = Idle
    BY <1>1, <1>2 DEF SameAt, IsFcn
  <1>7. IsSeq(log'[c])
    <2>1. IsSeq(log[c])
      BY ConnParts
    <2>2. IsSeq(Append(log[c], e))
      BY <2>1, AppendFacts
    <2> QED BY <1>4, <2>2
  <1>8. /\ SameAt(conn, conn', c) /\ SameAt(script, script', c) /\ SameAt(txn, txn', c)
        /\ SameAt(named, named', c)
    BY <1>1, Functional
  <1>9. FlagEffect(c)
    BY <1>1, <1>2, <1>4, <1>5 DEF FlagEffect
  <1>10. CASE PrepareFails(c)
    <2>1. statements' = statements /\ nextId' = nextId
      BY <1>10 DEF StmtPrepared
    <2>2. SameStatements(c) /\ SameAt(nextId, nextId', c)
      BY <2>1, StoredSame, Functional
    <2>3. Local(c)
      BY <1>4, <1>6, <1>8, <2>2 DEF Local, SameStatements
    <2>4. ConnInv(c)'
      BY <1>1, <1>6, <1>7, <2>1, <2>2, ConnParts DEF ConnInv, CallInv, SameStatements
    <2>5. IdEffect(c)
      BY <1>2, <1>4, <1>5, <1>10, <2>1, <2>2 DEF IdEffect, SameStatements
    <2> QED BY <1>9, <2>3, <2>4, <2>5 DEF Good
  <1>11. CASE ~PrepareFails(c)
    <2>1. /\ statements' = [statements EXCEPT ![c] =
                [i \in DOMAIN statements[c] \cup {id} |->
                   IF i = id THEN stmt ELSE statements[c][i]]]
          /\ nextId' = [nextId EXCEPT ![c] = NextStatementId(id)]
      BY <1>11 DEF StmtPrepared, StatementId, Prepared
    <2>2. Stored(stmt) /\ stmt.text = k.text
      <3>1. Ordinary(k.text)
        BY <1>3, <1>11 DEF PrepareFails, Ordinary
      <3> QED BY <3>1 DEF Stored
    <2> HIDE DEF stmt
    <2>3. /\ SameAt(statements, statements', c) /\ SameAt(nextId, nextId', c)
          /\ statements'[c] = [i \in DOMAIN statements[c] \cup {id} |->
                                 IF i = id THEN stmt ELSE statements[c][i]]
          /\ nextId'[c] = NextStatementId(id)
      BY <2>1 DEF ShapeInv, SameAt, IsFcn
    <2>4. /\ DOMAIN statements'[c] = DOMAIN statements[c] \cup {id}
          /\ statements'[c][id] = stmt
          /\ \A i \in DOMAIN statements[c] \ {id} : statements'[c][i] = statements[c][i]
          /\ statements'[c] = [i \in DOMAIN statements'[c] |-> statements'[c][i]]
      BY <2>3
    <2>5. \A i \in DOMAIN statements'[c] : Stored(statements'[c][i])
      BY <2>2, <2>4, ConnParts
    <2>6. nextId'[c] \in 1..(IdLimit - 1)
      BY <2>3, ConnParts, NextIdFacts
    <2>7. Local(c)
      BY <1>4, <1>6, <1>8, <2>3 DEF Local
    <2>8. ConnInv(c)'
      BY <1>1, <1>6, <1>7, <2>4, <2>5, <2>6, ConnParts DEF ConnInv, CallInv
    <2>9. SameTexts(c, DOMAIN statements[c] \ {id})
      BY <2>4 DEF SameTexts
    <2>10. /\ log'[c] = Append(log[c], e) /\ e.cmd.kind = "stmtPrepare" /\ e.ok
           /\ e.value.id = nextId[c] /\ nextId'[c] = NextStatementId(nextId[c])
           /\ SameTexts(c, DOMAIN statements[c] \ {nextId[c]})
           /\ nextId[c] \in DOMAIN statements'[c]
      BY <1>1, <1>4, <1>5, <1>11, <2>3, <2>4, <2>9
    <2>11. statements'[c][nextId[c]].text = e.cmd.text
      BY <1>3, <1>5, <2>2, <2>4
    <2>12. IdEffect(c)
      BY <1>2, <2>10, <2>11 DEF IdEffect
    <2> QED BY <1>9, <2>7, <2>8, <2>12 DEF Good
  <1> QED BY <1>10, <1>11

\* Control statements come as queries of their own.
LEMMA ControlShape ==
  ASSUME ShapeInv, NEW c \in Conns, NEW kind \in Control \cup SessionKinds, InControl(c, kind)
  PROVE  /\ Planning(call[c]) /\ conn[c] = "open" /\ call[c].text \in Texts
         /\ call[c].cmd.kind = "query" /\ Parse[call[c].cmd.text].kind = kind
  <1>1. call[c].pc = "control" /\ Parse[call[c].text].kind = kind
    BY DEF InControl
  <1>2. Planning(call[c]) /\ conn[c] = "open"
    BY <1>1, CallShapes
  <1>3. call[c].text \in Texts /\ call[c].cmd.kind = "query" /\ call[c].cmd.text = call[c].text
    BY <1>1, <1>2 DEF Planning, Purpose, Ordinary
  <1> QED BY <1>1, <1>2, <1>3

\* Steps that leave all of a connection alone but its call and its log.
LEMMA SameGood ==
  ASSUME ShapeInv, NEW c \in Conns, conn[c] = "open",
         UNCHANGED <<conn, script, txn, statements, nextId, named>>,
         \/ /\ log' = log
            /\ SameAt(call, call', c) /\ CallInv(call'[c])
         \/ \E cmd, value : \E ok \in BOOLEAN :
              Reply(c, cmd, ok, value) /\ (ok => cmd.kind \in {"query", "stmtExecute"})
  PROVE  Good(c)
  <1>1. /\ SameAt(script, script', c) /\ script'[c] \in Seq(SUBSET Commands)
        /\ SameStatements(c) /\ SameAt(txn, txn', c) /\ SameAt(named, named', c)
        /\ TxnInv(txn'[c]) /\ \A n \in DOMAIN named'[c] : Ordinary(named'[c][n].text)
    BY Functional, StoredSame, ConnParts
  <1>2. CASE log' = log /\ SameAt(call, call', c) /\ CallInv(call'[c])
    BY <1>1, <1>2, CallGood
  <1>3. ASSUME NEW cmd, NEW value, NEW ok \in BOOLEAN,
               Reply(c, cmd, ok, value), ok => cmd.kind \in {"query", "stmtExecute"}
        PROVE  Good(c)
    BY <1>1, <1>3, ReplyGood
  <1> QED BY <1>2, <1>3

\* A record with its catalog replaced.
LEMMA CatalogField ==
  ASSUME NEW t, NEW a, NEW b, NEW p, NEW q, NEW r, NEW x,
         t = [active |-> a, base |-> b, cat |-> p, wrote |-> q, schemaChanged |-> r]
  PROVE  [t EXCEPT !.cat = x] =
           [active |-> a, base |-> b, cat |-> x, wrote |-> q, schemaChanged |-> r]
  OBVIOUS

\* A transaction whose catalog is replaced is a transaction.
LEMMA TxnCatalog ==
  ASSUME NEW t, TxnInv(t), t.active, NEW x, NEW w, w = [t EXCEPT !.cat = x]
  PROVE  TxnInv(w) /\ w.active = t.active
  <1>1. /\ t.active = TRUE
        /\ t = [active |-> t.active, base |-> t.base, cat |-> t.cat, wrote |-> t.wrote,
                schemaChanged |-> t.schemaChanged]
    BY DEF TxnInv, NoTxn
  <1>2. w = [active |-> t.active, base |-> t.base, cat |-> x, wrote |-> t.wrote,
             schemaChanged |-> t.schemaChanged]
    BY <1>1, CatalogField
  <1>3. w.active = t.active /\ w = [active |-> w.active, base |-> w.base, cat |-> w.cat,
                                    wrote |-> w.wrote, schemaChanged |-> w.schemaChanged]
    BY <1>2
  <1> QED BY <1>1, <1>3 DEF TxnInv

\* Statements that only read or write the session's transaction.
LEMMA TxnGood ==
  ASSUME ShapeInv, NEW c \in Conns,
         \/ Begin(c) \/ CommitIdle(c) \/ CommitOrConflict(c) \/ CommitLogErr(c) \/ Rollback(c)
  PROVE  Good(c)
  <1>1. UNCHANGED <<conn, script, statements, nextId, named>>
    BY DEF Begin, CommitIdle, CommitOrConflict, CommitLogErr, Rollback, session
  <1>2. \E kind \in {"begin", "commit", "rollback"} : InControl(c, kind)
    BY DEF Begin, CommitIdle, CommitOrConflict, CommitLogErr, Rollback
  <1>3. conn[c] = "open" /\ call[c].cmd.kind = "query"
    BY <1>2, ControlShape DEF Control
  <1>4. /\ SameAt(script, script', c) /\ script'[c] \in Seq(SUBSET Commands)
        /\ SameStatements(c) /\ SameAt(named, named', c)
        /\ \A n \in DOMAIN named'[c] : Ordinary(named'[c][n].text)
    BY <1>1, Functional, StoredSame, ConnParts
  <1>5. ASSUME NEW t, TxnInv(t), txn' = [txn EXCEPT ![c] = t]
        PROVE  SameAt(txn, txn', c) /\ txn'[c] = t
    BY <1>5 DEF ShapeInv, SameAt, IsFcn
  <1>6. TxnInv(NoTxn) /\ ~NoTxn.active
    BY DEF TxnInv, NoTxn
  <1>7. CASE Begin(c)
    <2>1. CASE txn[c].active
      <3>1. txn' = txn /\ Reply(c, call[c].cmd, FALSE, Nothing)
        BY <1>7, <2>1 DEF Begin
      <3> QED BY <1>1, <1>3, <3>1, SameGood
    <2>2. CASE ~txn[c].active
      <3> DEFINE t == [active |-> TRUE, base |-> catalog.version, cat |-> catalog,
                       wrote |-> FALSE, schemaChanged |-> FALSE]
      <3>1. txn' = [txn EXCEPT ![c] = t] /\ Reply(c, call[c].cmd, TRUE, Nothing)
        BY <1>7, <2>2 DEF Begin
      <3>2. TxnInv(t)
        BY DEF TxnInv
      <3> HIDE DEF t
      <3>3. SameAt(txn, txn', c) /\ TxnInv(txn'[c])
        BY <1>5, <3>1, <3>2
      <3> QED BY <1>1, <1>3, <1>4, <3>1, <3>3, ReplyGood
    <2> QED BY <2>1, <2>2
  <1>8. CASE CommitIdle(c)
    <2>1. txn' = txn /\ Reply(c, call[c].cmd, TRUE, Nothing)
      BY <1>8 DEF CommitIdle, session
    <2> QED BY <1>1, <1>3, <2>1, SameGood
  <1>9. CASE CommitOrConflict(c)
    <2>1. /\ txn' = [txn EXCEPT ![c] = NoTxn] /\ InControl(c, "commit")
          /\ Reply(c, call[c].cmd, ~(catalog.version # txn[c].base), Nothing)
      BY <1>9 DEF CommitOrConflict
    <2>2. SameAt(txn, txn', c) /\ TxnInv(txn'[c]) /\ ~txn'[c].active
      BY <1>5, <1>6, <2>1
    <2>3. Parse[call[c].cmd.text].kind = "commit"
      BY <2>1, ControlShape DEF Control
    <2> QED BY <1>1, <1>3, <1>4, <2>1, <2>2, <2>3, ReplyGood
  <1>10. CASE CommitLogErr(c)
    <2> DEFINE x == [txn[c].cat EXCEPT !.version = catalog.version + 1,
                                       !.schema = SchemaAfter(txn[c])]
               t == [txn[c] EXCEPT !.cat = x]
    <2>1. txn' = [txn EXCEPT ![c] = t] /\ Reply(c, call[c].cmd, FALSE, Nothing) /\ txn[c].active
      BY <1>10 DEF CommitLogErr
    <2>2. TxnInv(txn[c])
      BY ConnParts
    <2> HIDE DEF x
    <2>3. TxnInv(t) /\ t.active = txn[c].active
      BY <2>1, <2>2, TxnCatalog
    <2> HIDE DEF t
    <2>4. SameAt(txn, txn', c) /\ TxnInv(txn'[c]) /\ txn'[c].active = txn[c].active
      BY <1>5, <2>1, <2>3
    <2> QED BY <1>1, <1>3, <1>4, <2>1, <2>4, ReplyGood
  <1>11. CASE Rollback(c)
    <2>1. txn' = [txn EXCEPT ![c] = NoTxn] /\ Reply(c, call[c].cmd, TRUE, Nothing)
      BY <1>11 DEF Rollback
    <2>2. SameAt(txn, txn', c) /\ TxnInv(txn'[c])
      BY <1>5, <1>6, <2>1
    <2> QED BY <1>1, <1>3, <1>4, <2>1, <2>2, ReplyGood
  <1> QED BY <1>7, <1>8, <1>9, <1>10, <1>11

\* The statements on user variables and named statements.
LEMMA NamedGood ==
  ASSUME ShapeInv, NEW c \in Conns,
         \/ SqlPrepared(c) \/ SetVariable(c) \/ SqlPrepare(c) \/ SqlExecute(c) \/ Deallocate(c)
  PROVE  Good(c)
  <1>1. UNCHANGED <<conn, script, statements, nextId, txn>>
    BY DEF SqlPrepared, SetVariable, SqlPrepare, SqlExecute, Deallocate, session
  <1>2. /\ SameAt(script, script', c) /\ script'[c] \in Seq(SUBSET Commands)
        /\ SameStatements(c) /\ SameAt(txn, txn', c) /\ TxnInv(txn'[c])
    BY <1>1, Functional, StoredSame, ConnParts
  <1>3. \A n \in DOMAIN named[c] : Ordinary(named[c][n].text)
    BY ConnParts
  <1>4. ASSUME NEW f, named' = [named EXCEPT ![c] = f]
        PROVE  SameAt(named, named', c) /\ named'[c] = f
    BY <1>4 DEF ShapeInv, SameAt, IsFcn
  <1>5. CASE SqlPrepared(c)
    <2> DEFINE name == Parse[call[c].cmd.text].name
    <2>1. /\ call[c].pc = "prepared" /\ call[c].cmd.kind = "query"
          /\ Reply(c, call[c].cmd, ~PrepareFails(c), Nothing)
      BY <1>5 DEF SqlPrepared
    <2>2. Planning(call[c]) /\ conn[c] = "open"
      BY <2>1, CallShapes
    <2>3. CASE PrepareFails(c)
      <3>1. named' = named /\ Reply(c, call[c].cmd, FALSE, Nothing)
        BY <1>5, <2>3 DEF SqlPrepared
      <3> QED BY <1>1, <2>2, <3>1, SameGood
    <2>4. CASE ~PrepareFails(c)
      <3> DEFINE f == [n \in DOMAIN named[c] \cup {name} |->
                         IF n = name THEN Prepared(c) ELSE named[c][n]]
      <3>1. named' = [named EXCEPT ![c] = f] /\ Reply(c, call[c].cmd, TRUE, Nothing)
        BY <1>5, <2>4 DEF SqlPrepared
      <3>2. Ordinary(Prepared(c).text)
        BY <2>2, <2>4 DEF Planning, Purpose, PrepareFails, Ordinary, Prepared
      <3>3. \A n \in DOMAIN f : Ordinary(f[n].text)
        BY <1>3, <3>2
      <3> HIDE DEF f
      <3>4. SameAt(named, named', c) /\ \A n \in DOMAIN named'[c] : Ordinary(named'[c][n].text)
        BY <1>4, <3>1, <3>3
      <3> QED BY <1>1, <1>2, <2>1, <2>2, <3>1, <3>4, ReplyGood
    <2> QED BY <2>3, <2>4
  <1>6. CASE SetVariable(c)
    <2>1. InControl(c, "set") /\ named' = named /\ Reply(c, call[c].cmd, TRUE, Nothing)
      BY <1>6 DEF SetVariable
    <2>2. conn[c] = "open" /\ call[c].cmd.kind = "query"
      BY <2>1, ControlShape DEF SessionKinds
    <2> QED BY <1>1, <2>1, <2>2, SameGood
  <1>7. CASE SqlPrepare(c)
    <2>1. /\ InControl(c, "prepare") /\ named' = named
          /\ \/ \E text \in Texts : Plan(c, call[c].cmd, text, "prepare", <<>>) /\ log' = log
             \/ Reply(c, call[c].cmd, FALSE, Nothing)
      BY <1>7 DEF SqlPrepare, session
    <2>2. conn[c] = "open" /\ call[c].cmd.kind = "query"
      BY <2>1, ControlShape DEF SessionKinds
    <2>3. ASSUME NEW text \in Texts, Plan(c, call[c].cmd, text, "prepare", <<>>)
          PROVE  SameAt(call, call', c) /\ CallInv(call'[c])
      BY <2>2, <2>3, PlanFacts
    <2> QED BY <1>1, <2>1, <2>2, <2>3, SameGood
  <1>8. CASE SqlExecute(c)
    <2> DEFINE name == Parse[call[c].text].name
    <2>1. InControl(c, "execute") /\ named' = named
      BY <1>8 DEF SqlExecute, session
    <2>2. conn[c] = "open" /\ call[c].cmd.kind = "query"
      BY <2>1, ControlShape DEF SessionKinds
    <2>3. \/ \E parameters :
               /\ name \in DOMAIN named[c] /\ log' = log
               /\ call' = [call EXCEPT ![c] = [pc |-> "bind", cmd |-> call[c].cmd,
                             prepared |-> named[c][name], parameters |-> parameters]]
          \/ Reply(c, call[c].cmd, FALSE, Nothing)
      BY <1>8 DEF SqlExecute
    <2>4. CASE Reply(c, call[c].cmd, FALSE, Nothing)
      BY <1>1, <2>1, <2>2, <2>4, SameGood
    <2>5. ASSUME NEW parameters, name \in DOMAIN named[c], log' = log,
                 call' = [call EXCEPT ![c] = [pc |-> "bind", cmd |-> call[c].cmd,
                            prepared |-> named[c][name], parameters |-> parameters]]
          PROVE  Good(c)
      <3> DEFINE k == [pc |-> "bind", cmd |-> call[c].cmd,
                       prepared |-> named[c][name], parameters |-> parameters]
      <3>1. Binding(k)
        BY <1>3, <2>2, <2>5 DEF Binding
      <3>2. SameAt(call, call', c) /\ call'[c] = k
        BY <2>5 DEF ShapeInv, SameAt, IsFcn
      <3> QED BY <1>1, <2>1, <2>2, <2>5, <3>1, <3>2, SameGood DEF CallInv
    <2> QED BY <2>3, <2>4, <2>5
  <1>9. CASE Deallocate(c)
    <2> DEFINE name == Parse[call[c].text].name
    <2> DEFINE f == RestrictDomain(named[c], LAMBDA n : n # name)
    <2>1. /\ InControl(c, "deallocate") /\ named' = [named EXCEPT ![c] = f]
          /\ Reply(c, call[c].cmd, name \in DOMAIN named[c], Nothing)
      BY <1>9 DEF Deallocate
    <2>2. conn[c] = "open" /\ call[c].cmd.kind = "query"
      BY <2>1, ControlShape DEF SessionKinds
    <2>3. f = [n \in DOMAIN named[c] \ {name} |-> named[c][n]]
      BY DEF RestrictDomain, Restrict
    <2>4. \A n \in DOMAIN f : Ordinary(f[n].text)
      BY <1>3, <2>3
    <2> HIDE DEF f
    <2>5. SameAt(named, named', c) /\ \A n \in DOMAIN named'[c] : Ordinary(named'[c][n].text)
      BY <1>4, <2>1, <2>4
    <2>6. (name \in DOMAIN named[c]) \in BOOLEAN
      OBVIOUS
    <2> QED BY <1>1, <1>2, <2>1, <2>2, <2>5, <2>6, ReplyGood
  <1> QED BY <1>5, <1>6, <1>7, <1>8, <1>9

\* execute_prepared goes on with the plan it has, or plans again.
LEMMA BindGood ==
  ASSUME ShapeInv, NEW c \in Conns, Bind(c) \/ BindErr(c)
  PROVE  Good(c)
  <1>1. UNCHANGED <<conn, script, statements, nextId, txn, named>>
    BY DEF Bind, BindErr, session
  <1>2. CASE Bind(c)
    <2> DEFINE k == call[c]
    <2>1. k.pc = "bind" /\ log' = log
      BY <1>2 DEF Bind
    <2>2. Binding(k) /\ conn[c] = "open"
      BY <2>1, CallShapes
    <2>3. Ordinary(k.prepared.text) /\ k.cmd.kind \in {"query", "stmtExecute"}
      BY <2>2 DEF Binding
    <2>4. CASE catalog.schema = k.prepared.schema
      <3> DEFINE n == [pc |-> "start", cmd |-> k.cmd, text |-> k.prepared.text,
                       for |-> "kept", parameters |-> k.parameters,
                       seen |-> catalog.schema]
      <3>1. call' = [call EXCEPT ![c] = n]
        BY <1>2, <2>4 DEF Bind
      <3>2. Planning(n)
        BY <2>3 DEF Planning, Purpose, Ordinary
      <3> HIDE DEF n
      <3>3. SameAt(call, call', c) /\ call'[c] = n
        BY <3>1 DEF ShapeInv, SameAt, IsFcn
      <3> QED BY <1>1, <2>1, <2>2, <3>2, <3>3, SameGood DEF CallInv
    <2>5. CASE catalog.schema # k.prepared.schema
      <3>1. Plan(c, k.cmd, k.prepared.text, "execute", k.parameters)
        BY <1>2, <2>5 DEF Bind
      <3>2. k.prepared.text \in Texts
        BY <2>3 DEF Ordinary
      <3>3. SameAt(call, call', c) /\ CallInv(call'[c])
        BY <2>3, <3>1, <3>2, PlanFacts
      <3> QED BY <1>1, <2>1, <2>2, <3>3, SameGood
    <2> QED BY <2>4, <2>5
  <1>3. CASE BindErr(c)
    <2>1. call[c].pc = "start" /\ Reply(c, call[c].cmd, FALSE, Nothing)
      BY <1>3 DEF BindErr
    <2>2. conn[c] = "open"
      BY <2>1, CallShapes
    <2> QED BY <1>1, <2>1, <2>2, SameGood
  <1> QED BY <1>2, <1>3

\* What a call becomes when its statement starts.
Started(c, thread, at) ==
  LET k == call[c]
  IN [pc |-> "eval", cmd |-> k.cmd, text |-> k.text, parameters |-> k.parameters,
      for |-> k.for, seen |-> k.seen, got |-> <<>>,
      work |-> IF ~txn[c].active THEN catalog ELSE txn[c].cat, thread |-> thread, at |-> at]

\* A statement starts on a thread of its own with addresses of its own.
LEMMA StartFacts ==
  ASSUME ShapeInv, NEW c \in Conns, StartSomewhere(c)
  PROVE  /\ call[c].pc = "start" /\ conn[c] = "open" /\ Planning(call[c])
         /\ \E thread \in Threads \ BusyThreads :
              \E at \in Injection(Kept(c), Addresses \ Live) :
                 /\ SameAt(call, call', c) /\ call'[c] = Started(c, thread, at)
                 /\ subqueries' = Empty
                 /\ lock' = lock \/ (~txn[c].active /\ lock' = c)
                 /\ UNCHANGED <<conn, script, log, txn, statements, nextId, named, catalog, plans>>
  <1>1. call[c].pc = "start"
    BY DEF StartSomewhere
  <1>2. PICK thread \in Threads \ BusyThreads :
           \E at \in Injection(Kept(c), Addresses \ Live) : Start(c, thread, at)
    BY DEF StartSomewhere
  <1>3. PICK at \in Injection(Kept(c), Addresses \ Live) : Start(c, thread, at)
    BY <1>2
  <1>4. Planning(call[c]) /\ conn[c] = "open" /\ IsFcn(call)
    BY <1>1, CallShapes DEF ShapeInv
  <1>5. call' = [call EXCEPT ![c] = Started(c, thread, at)]
    BY <1>3 DEF Start, Started
  <1>6. SameAt(call, call', c) /\ call'[c] = Started(c, thread, at)
    BY <1>4, <1>5 DEF SameAt, IsFcn
  <1>7. /\ subqueries' = Empty /\ (lock' = lock \/ (~txn[c].active /\ lock' = c))
        /\ UNCHANGED <<conn, script, log, txn, statements, nextId, named, catalog, plans>>
    BY <1>3 DEF Start, Clear, session
  <1> QED BY <1>1, <1>4, <1>6, <1>7

\* Starting a statement.
LEMMA StartGood ==
  ASSUME ShapeInv, NEW c \in Conns, StartSomewhere(c)
  PROVE  Good(c)
  <1>1. /\ call[c].pc = "start" /\ conn[c] = "open" /\ Planning(call[c])
        /\ SameAt(call, call', c)
        /\ UNCHANGED <<conn, script, log, txn, statements, nextId, named>>
    BY StartFacts
  <1>2. PICK thread \in Threads, at \in Injection(Kept(c), Addresses \ Live) :
           call'[c] = Started(c, thread, at)
    BY StartFacts
  <1> DEFINE n == Started(c, thread, at)
  <1>3. /\ n.pc = "eval" /\ n.cmd = call[c].cmd /\ n.text = call[c].text
        /\ n.for = call[c].for /\ n.seen = call[c].seen
        /\ n.got = <<>> /\ n.thread = thread /\ n.at = at
        /\ n = [pc |-> "eval", cmd |-> n.cmd, text |-> n.text, parameters |-> n.parameters,
                for |-> n.for, seen |-> n.seen, got |-> n.got,
                work |-> n.work, thread |-> n.thread, at |-> n.at]
    BY DEF Started
  <1> HIDE DEF n
  <1>4. Purpose(n)
    BY <1>1, <1>3 DEF Planning, Purpose
  <1>5. at \in Injection(Kept(c), Addresses)
    BY DEF Injection, IsInjective
  <1>6. Kept(c) = {i \in DOMAIN Parse[n.text].sites : ~Parse[n.text].sites[i].temporary}
    BY <1>3 DEF Kept, Sites
  <1>7. IsSeq(n.got) /\ Len(n.got) <= Len(Parse[n.text].sites)
    <2>1. <<>> \in Seq({}) /\ Len(<<>>) = 0
      OBVIOUS
    <2>2. Parse[n.text].sites \in Seq([query : Queries, temporary : BOOLEAN])
      BY <1>4, ServerAssumption DEF Purpose
    <2>3. Len(Parse[n.text].sites) \in Nat
      BY <2>2
    <2> QED BY <1>3, <2>1, <2>3 DEF IsSeq
  <1>8. Evaluating(n)
    BY <1>3, <1>4, <1>5, <1>6, <1>7 DEF Evaluating
  <1> QED BY <1>1, <1>2, <1>8, SameGood DEF n, CallInv

\* The key of the subquery cache for an address.
Key(c, address) == <<call[c].work.version, address, call[c].thread>>

SubqueryResult(c, address) ==
  IF Key(c, address) \in DOMAIN subqueries THEN subqueries[Key(c, address)]
  ELSE [query |-> Sites(c)[Len(call[c].got) + 1].query, data |-> call[c].work.data]

\* What the evaluation of a subquery does.
LEMMA EvalFacts ==
  ASSUME ShapeInv, NEW c \in Conns, Eval(c)
  PROVE  /\ Running(c) /\ conn[c] = "open" /\ Evaluating(call[c])
         /\ Len(call[c].got) + 1 <= Len(Sites(c))
         /\ UNCHANGED <<conn, script, log, txn, statements, nextId, named, catalog, lock, plans>>
         /\ SameAt(call, call', c)
         /\ \E address :
              /\ IF Len(call[c].got) + 1 \in Kept(c)
                 THEN address = call[c].at[Len(call[c].got) + 1]
                 ELSE address \notin Live
              /\ call'[c] = [call[c] EXCEPT !.got = Append(call[c].got, SubqueryResult(c, address))]
              /\ subqueries' = [x \in DOMAIN subqueries \cup {Key(c, address)} |->
                                 IF x = Key(c, address) THEN SubqueryResult(c, address)
                                 ELSE subqueries[x]]
  <1>1. Running(c) /\ Len(call[c].got) + 1 <= Len(Sites(c))
    BY DEF Eval
  <1>2. PICK address :
          /\ IF Len(call[c].got) + 1 \in Kept(c)
             THEN address = call[c].at[Len(call[c].got) + 1]
             ELSE address \notin Live
          /\ EvalSubquery(c, address)
    BY DEF Eval
  <1>3. /\ call' = [call EXCEPT ![c].got = Append(call[c].got, SubqueryResult(c, address))]
        /\ subqueries' = [x \in DOMAIN subqueries \cup {Key(c, address)} |->
                           IF x = Key(c, address) THEN SubqueryResult(c, address)
                           ELSE subqueries[x]]
        /\ UNCHANGED <<conn, script, log, txn, statements, nextId, named, catalog, lock, plans>>
    BY <1>2 DEF EvalSubquery, SubqueryResult, Key, session
  <1>4. Evaluating(call[c]) /\ conn[c] = "open" /\ IsFcn(call)
    BY <1>1, CallShapes DEF ShapeInv, Running
  <1>5. /\ SameAt(call, call', c)
        /\ call'[c] = [call[c] EXCEPT !.got = Append(call[c].got, SubqueryResult(c, address))]
    BY <1>3, <1>4 DEF SameAt, IsFcn
  <1> QED BY <1>1, <1>2, <1>3, <1>4, <1>5

\* A call whose statement has one result more.
LEMMA EvalCall ==
  ASSUME NEW k, Evaluating(k), NEW r, Len(k.got) + 1 <= Len(Parse[k.text].sites)
  PROVE  LET n == [k EXCEPT !.got = Append(k.got, r)]
         IN /\ Evaluating(n) /\ n.got = Append(k.got, r) /\ n.text = k.text
            /\ n.work = k.work /\ n.thread = k.thread /\ n.at = k.at
            /\ IsSeq(k.got)
  <1> DEFINE n == [k EXCEPT !.got = Append(k.got, r)]
  <1>1. IsSeq(k.got)
    BY DEF Evaluating
  <1>2. n = [pc |-> "eval", cmd |-> k.cmd, text |-> k.text, parameters |-> k.parameters,
             for |-> k.for, seen |-> k.seen, got |-> Append(k.got, r),
             work |-> k.work, thread |-> k.thread, at |-> k.at]
    <2> DEFINE g == Append(k.got, r)
    <2> HIDE DEF g
    <2>1. [k EXCEPT !.got = g] =
            [pc |-> "eval", cmd |-> k.cmd, text |-> k.text, parameters |-> k.parameters,
             for |-> k.for, seen |-> k.seen, got |-> g,
             work |-> k.work, thread |-> k.thread, at |-> k.at]
      <3>1. k = [pc |-> "eval", cmd |-> k.cmd, text |-> k.text, parameters |-> k.parameters,
                 for |-> k.for, seen |-> k.seen, got |-> k.got,
                 work |-> k.work, thread |-> k.thread, at |-> k.at]
        BY DEF Evaluating
      <3> QED BY <3>1
    <2> QED BY <2>1 DEF g
  <1> HIDE DEF n
  <1>3. /\ n.pc = "eval" /\ n.cmd = k.cmd /\ n.text = k.text /\ n.for = k.for
        /\ n.seen = k.seen /\ n.got = Append(k.got, r)
        /\ n.work = k.work /\ n.thread = k.thread /\ n.at = k.at
        /\ n = [pc |-> "eval", cmd |-> n.cmd, text |-> n.text, parameters |-> n.parameters,
                for |-> n.for, seen |-> n.seen, got |-> n.got,
                work |-> n.work, thread |-> n.thread, at |-> n.at]
    BY <1>2
  <1>4. Purpose(n)
    BY <1>3 DEF Evaluating, Purpose
  <1>5. IsSeq(n.got) /\ Len(n.got) = Len(k.got) + 1
    BY <1>1, <1>3, AppendFacts
  <1>6. Evaluating(n)
    BY <1>3, <1>4, <1>5 DEF Evaluating
  <1> QED BY <1>1, <1>3, <1>6 DEF n

\* Evaluating a subquery.
LEMMA EvalGood ==
  ASSUME ShapeInv, NEW c \in Conns, Eval(c)
  PROVE  Good(c)
  <1>1. /\ Evaluating(call[c]) /\ conn[c] = "open"
        /\ Len(call[c].got) + 1 <= Len(Parse[call[c].text].sites)
        /\ UNCHANGED <<conn, script, log, txn, statements, nextId, named>>
        /\ SameAt(call, call', c)
    BY EvalFacts DEF Sites
  <1>a. PICK address :
          call'[c] = [call[c] EXCEPT !.got = Append(call[c].got, SubqueryResult(c, address))]
    BY EvalFacts
  <1> DEFINE r == SubqueryResult(c, address)
  <1>b. Evaluating([call[c] EXCEPT !.got = Append(call[c].got, r)])
    BY <1>1, EvalCall
  <1>2. Evaluating(call'[c])
    BY <1>a, <1>b
  <1> QED BY <1>1, <1>2, SameGood DEF CallInv

\* A record with three of its fields replaced.
LEMMA TxnFields ==
  ASSUME NEW t, NEW a, NEW b, NEW p, NEW q, NEW r, NEW x, NEW y, NEW z,
         t = [active |-> a, base |-> b, cat |-> p, wrote |-> q, schemaChanged |-> r]
  PROVE  [t EXCEPT !.cat = x, !.wrote = y, !.schemaChanged = z] =
           [active |-> a, base |-> b, cat |-> x, wrote |-> y, schemaChanged |-> z]
  <1> DEFINE u == [t EXCEPT !.cat = x]
  <1> DEFINE v == [u EXCEPT !.wrote = y]
  <1> DEFINE w == [v EXCEPT !.schemaChanged = z]
  <1>1. u = [active |-> a, base |-> b, cat |-> x, wrote |-> q, schemaChanged |-> r]
    OBVIOUS
  <1> HIDE DEF u
  <1>2. v = [active |-> a, base |-> b, cat |-> x, wrote |-> y, schemaChanged |-> r]
    BY <1>1
  <1> HIDE DEF v
  <1>3. w = [active |-> a, base |-> b, cat |-> x, wrote |-> y, schemaChanged |-> z]
    BY <1>2
  <1> HIDE DEF w
  <1>4. w = [t EXCEPT !.cat = x, !.wrote = y, !.schemaChanged = z]
    BY DEF u, v, w
  <1> QED BY <1>3, <1>4

\* A transaction stays one when a statement writes to it.
LEMMA TxnWrite ==
  ASSUME NEW t, TxnInv(t), t # NoTxn, NEW x, NEW y, NEW z, NEW w,
         w = [t EXCEPT !.cat = x, !.wrote = y, !.schemaChanged = z]
  PROVE  TxnInv(w) /\ w.active = TRUE
  <1>1. t = [active |-> t.active, base |-> t.base, cat |-> t.cat, wrote |-> t.wrote,
             schemaChanged |-> t.schemaChanged]
    BY DEF TxnInv
  <1>2. w = [active |-> t.active, base |-> t.base, cat |-> x, wrote |-> y, schemaChanged |-> z]
    BY <1>1, TxnFields
  <1>3. t.active = TRUE
    BY DEF TxnInv
  <1>4. w.active = t.active /\ w = [active |-> w.active, base |-> w.base, cat |-> w.cat,
                                    wrote |-> w.wrote, schemaChanged |-> w.schemaChanged]
    BY <1>2
  <1> QED BY <1>3, <1>4 DEF TxnInv

\* What the end of a statement does.
LEMMA FinishFacts ==
  ASSUME ShapeInv, NEW c \in Conns, Finish(c)
  PROVE  /\ Running(c) /\ conn[c] = "open" /\ Evaluating(call[c])
         /\ UNCHANGED <<conn, script, statements, nextId, named, plans, subqueries>>
         /\ lock' = IF lock = c THEN NoConn ELSE lock
         /\ SameAt(txn, txn', c) /\ TxnInv(txn'[c]) /\ txn'[c].active = txn[c].active
         /\ \E ok \in BOOLEAN : Reply(c, call[c].cmd, ok, Ran(call[c].parameters))
  <1> DEFINE k == call[c]
  <1> DEFINE kind == Parse[k.text].kind
  <1> DEFINE write == kind \in Writes
  <1> DEFINE written == [k.work EXCEPT !.data = Append(@, k.text)]
  <1>1. PICK ok \in {TRUE, ~write /\ ~Unbound(c)} :
          /\ txn' = IF ok /\ write /\ txn[c].active
                    THEN [txn EXCEPT ![c].cat = written, ![c].wrote = TRUE,
                                     ![c].schemaChanged = @ \/ kind = "schema"]
                    ELSE txn
          /\ lock' = Released(c, ok)
          /\ UNCHANGED <<conn, script, statements, nextId, named, plans, subqueries>>
          /\ \E told \in {ok, ok /\ (kind # "schema" \/ txn[c].active)} :
               Reply(c, k.cmd, told, Ran(k.parameters))
    BY DEF Finish
  <1>2. Running(c)
    BY DEF Finish
  <1>3. Evaluating(call[c]) /\ conn[c] = "open"
    BY <1>2, CallShapes DEF Running
  <1>4. \E told \in BOOLEAN : Reply(c, k.cmd, told, Ran(k.parameters))
    <2>1. {ok, ok /\ (kind # "schema" \/ txn[c].active)} \subseteq BOOLEAN
      OBVIOUS
    <2> QED BY <1>1, <2>1
  <1>5. SameAt(txn, txn', c) /\ TxnInv(txn'[c]) /\ txn'[c].active = txn[c].active
    <2>1. CASE ok /\ write /\ txn[c].active
      <3> DEFINE z == txn[c].schemaChanged \/ kind = "schema"
      <3>1. /\ SameAt(txn, txn', c)
            /\ txn'[c] = [txn[c] EXCEPT !.cat = written, !.wrote = TRUE, !.schemaChanged = z]
        BY <1>1, <2>1 DEF ShapeInv, SameAt, IsFcn
      <3> HIDE DEF z, written
      <3>2. TxnInv(txn[c])
        BY ConnParts
      <3>3. txn[c] # NoTxn /\ txn[c].active = TRUE
        BY <2>1, <3>2 DEF NoTxn, TxnInv
      <3>4. TxnInv(txn'[c]) /\ txn'[c].active = TRUE
        BY <3>1, <3>2, <3>3, TxnWrite
      <3> QED BY <2>1, <3>1, <3>2, <3>3, <3>4
    <2>2. CASE ~(ok /\ write /\ txn[c].active)
      <3>1. txn' = txn
        BY <1>1, <2>2
      <3> QED BY <3>1, Functional, ConnParts
    <2> QED BY <2>1, <2>2
  <1> HIDE DEF write
  <1> QED BY <1>1, <1>2, <1>3, <1>4, <1>5 DEF Released

\* The end of a statement.
LEMMA FinishGood ==
  ASSUME ShapeInv, NEW c \in Conns, Finish(c)
  PROVE  Good(c)
  <1>1. /\ conn[c] = "open" /\ Evaluating(call[c])
        /\ UNCHANGED <<conn, script, statements, nextId, named>>
        /\ SameAt(txn, txn', c) /\ TxnInv(txn'[c]) /\ txn'[c].active = txn[c].active
    BY FinishFacts
  <1>2. PICK ok \in BOOLEAN : Reply(c, call[c].cmd, ok, Ran(call[c].parameters))
    BY FinishFacts
  <1>3. call[c].cmd.kind \in {"query", "stmtExecute"}
    BY <1>1 DEF Evaluating, Purpose
  <1>4. /\ SameAt(script, script', c) /\ script'[c] \in Seq(SUBSET Commands)
        /\ SameStatements(c) /\ SameAt(named, named', c)
        /\ \A n \in DOMAIN named'[c] : Ordinary(named'[c][n].text)
    BY <1>1, Functional, StoredSame, ConnParts
  <1> QED BY <1>1, <1>2, <1>3, <1>4, ReplyGood

\* Every step of a connection keeps the shape of its state.
LEMMA StepGood ==
  ASSUME ShapeInv, PlanInv, NEW c \in Conns, Step(c)
  PROVE  Good(c)
  <1>1. CASE Handshake(c) \/ Disconnect(c)
    BY <1>1, OpenGood
  <1>2. CASE \E cmd \in Commands : Command(c, cmd)
    BY <1>2, CommandGood
  <1>3. CASE Session(c)
    BY <1>3, PlanGood, StmtPreparedGood, NamedGood, BindGood, TxnGood, StartGood, EvalGood,
       FinishGood DEF Session
  <1> QED BY <1>1, <1>2, <1>3 DEF Step

\* What one connection does to itself leaves the others in shape.
LEMMA ShapeStep ==
  ASSUME ShapeInv, NEW c \in Conns, Good(c)
  PROVE  ShapeInv'
  <1>1. /\ IsFcn(conn') /\ IsFcn(script') /\ IsFcn(log') /\ IsFcn(call') /\ IsFcn(txn')
        /\ IsFcn(statements') /\ IsFcn(nextId') /\ IsFcn(named')
    BY DEF Good, Local, SameAt
  <1>2. ASSUME NEW d \in Conns PROVE ConnInv(d)'
    <2>1. CASE d = c
      BY <2>1 DEF Good
    <2>2. CASE d # c
      <3>1. /\ conn'[d] = conn[d] /\ script'[d] = script[d] /\ log'[d] = log[d]
            /\ call'[d] = call[d] /\ txn'[d] = txn[d] /\ statements'[d] = statements[d]
            /\ nextId'[d] = nextId[d] /\ named'[d] = named[d]
        BY <2>2 DEF Good, Local, SameAt
      <3>2. ConnInv(d)
        BY DEF ShapeInv
      <3> QED BY <3>1, <3>2 DEF ConnInv
    <2> QED BY <2>1, <2>2
  <1> QED BY <1>1, <1>2 DEF ShapeInv

---------------------------------------------------------------------------
(* The plan cache *)

\* One entry for a text.
Distinct(s) == IsSeq(s) /\ \A i, j \in DOMAIN s : s[i].text = s[j].text => i = j

\* An entry of another text is added.
LEMMA AppendDistinct ==
  ASSUME NEW s, Distinct(s), NEW e, \A i \in DOMAIN s : s[i].text # e.text
  PROVE  Distinct(Append(s, e)) /\ Len(Append(s, e)) = Len(s) + 1
  <1> DEFINE t == Append(s, e)
  <1>1. /\ IsSeq(t) /\ Len(s) \in Nat /\ Len(t) = Len(s) + 1
        /\ DOMAIN s = 1..Len(s) /\ DOMAIN t = 1..(Len(s) + 1)
        /\ \A i \in 1..Len(s) : t[i] = s[i]
        /\ t[Len(s) + 1] = e
    BY AppendFacts DEF Distinct
  <1> HIDE DEF t
  <1>2. ASSUME NEW i \in DOMAIN t, NEW j \in DOMAIN t, t[i].text = t[j].text
        PROVE  i = j
    <2>1. (i \in 1..Len(s) \/ i = Len(s) + 1) /\ (j \in 1..Len(s) \/ j = Len(s) + 1)
      BY <1>1
    <2>2. CASE i \in 1..Len(s) /\ j \in 1..Len(s)
      BY <1>1, <1>2, <2>2 DEF Distinct
    <2> QED BY <1>1, <1>2, <2>1, <2>2
  <1>3. Distinct(t)
    BY <1>1, <1>2 DEF Distinct
  <1> QED BY <1>1, <1>3 DEF t

\* The cache without the entry of a text.
LEMMA WithoutFacts ==
  ASSUME PlanInv, NEW text
  PROVE  /\ Distinct(Without(text)) /\ \A i \in DOMAIN Without(text) : Without(text)[i].text # text
         /\ PlanPositions(text) = {} => Len(Without(text)) = Len(plans)
         /\ PlanPositions(text) # {} => Len(Without(text)) = Len(plans) - 1
  <1>1. CASE PlanPositions(text) = {}
    <2>1. Without(text) = plans
      BY <1>1 DEF Without
    <2>2. \A i \in DOMAIN plans : plans[i].text # text
      BY <1>1 DEF PlanPositions
    <2> QED BY <1>1, <2>1, <2>2 DEF Distinct, PlanInv
  <1>2. CASE PlanPositions(text) # {}
    <2> DEFINE p == PlanAt(text)
    <2> DEFINE w == Without(text)
    <2>1. p \in DOMAIN plans /\ plans[p].text = text
      BY <1>2, PlanAtFacts
    <2>2. w = RemoveAt(plans, p)
      BY <1>2 DEF Without
    <2>3. IsSeq(plans)
      BY DEF PlanInv
    <2> HIDE DEF p, w
    <2>4. /\ IsSeq(w) /\ Len(w) = Len(plans) - 1 /\ DOMAIN w = 1..(Len(plans) - 1)
          /\ \A i \in 1..(Len(plans) - 1) : w[i] = plans[IF i < p THEN i ELSE i + 1]
      BY <2>1, <2>2, <2>3, RemoveAtFacts
    <2>5. Len(plans) \in Nat /\ DOMAIN plans = 1..Len(plans)
      BY <2>3, AppendFacts
    <2>6. ASSUME NEW i \in DOMAIN w, NEW j \in DOMAIN w, w[i].text = w[j].text
          PROVE  i = j
      <3> DEFINE a == IF i < p THEN i ELSE i + 1
      <3> DEFINE b == IF j < p THEN j ELSE j + 1
      <3>1. a \in DOMAIN plans /\ b \in DOMAIN plans /\ w[i] = plans[a] /\ w[j] = plans[b]
        BY <2>4, <2>5
      <3>2. a = b
        BY <2>6, <3>1 DEF PlanInv
      <3> QED BY <2>1, <2>4, <2>5, <3>2
    <2>7. ASSUME NEW i \in DOMAIN w PROVE w[i].text # text
      <3> DEFINE a == IF i < p THEN i ELSE i + 1
      <3>1. a \in DOMAIN plans /\ w[i] = plans[a] /\ a # p
        BY <2>1, <2>4, <2>5
      <3> QED BY <2>1, <3>1 DEF PlanInv
    <2>8. Distinct(w)
      BY <2>4, <2>6 DEF Distinct
    <2> QED BY <1>2, <2>4, <2>7, <2>8 DEF w
  <1> QED BY <1>1, <1>2

\* The least recently used entry is evicted.
LEMMA TailDistinct ==
  ASSUME NEW s, Distinct(s), Len(s) > 0
  PROVE  /\ Distinct(Tail(s)) /\ Len(Tail(s)) = Len(s) - 1
         /\ \A i \in DOMAIN Tail(s) : \E j \in DOMAIN s : Tail(s)[i] = s[j]
  <1>1. PICK S : s \in Seq(S)
    BY DEF Distinct, IsSeq
  <1>2. /\ Len(s) \in Nat /\ DOMAIN s = 1..Len(s) /\ s # <<>>
    BY <1>1
  <1>3. /\ Tail(s) \in Seq(S) /\ Len(Tail(s)) = Len(s) - 1
        /\ \A i \in 1..(Len(s) - 1) : Tail(s)[i] = s[i + 1]
    BY <1>1, <1>2
  <1>4. DOMAIN Tail(s) = 1..(Len(s) - 1)
    BY <1>3
  <1> DEFINE t == Tail(s)
  <1> HIDE DEF t
  <1>5. /\ Len(t) = Len(s) - 1 /\ DOMAIN t = 1..(Len(s) - 1)
        /\ \A i \in 1..(Len(s) - 1) : t[i] = s[i + 1]
    BY <1>3, <1>4 DEF t
  <1>6. \A i \in DOMAIN t : i + 1 \in DOMAIN s /\ t[i] = s[i + 1]
    BY <1>2, <1>5
  <1>7. ASSUME NEW i \in DOMAIN t, NEW j \in DOMAIN t, t[i].text = t[j].text
        PROVE  i = j
    <2>1. i + 1 = j + 1
      BY <1>6, <1>7 DEF Distinct
    <2> QED BY <1>2, <1>5, <2>1
  <1>8. IsSeq(t)
    BY <1>3 DEF IsSeq, t
  <1> QED BY <1>5, <1>6, <1>7, <1>8 DEF Distinct, t

\* Looking a plan up and inserting one keep the cache in bounds.
LEMMA PlanGetKeeps ==
  ASSUME PlanInv, NEW text, NEW version, PlanGet(text, version)
  PROVE  PlanInv'
  <1>1. /\ IsSeq(plans) /\ Len(plans) <= PlanCapacity /\ PlanCapacity \in Nat
        /\ Len(plans) \in Nat
    BY ServerAssumption, AppendFacts DEF PlanInv
  <1>2. /\ Distinct(Without(text)) /\ \A i \in DOMAIN Without(text) : Without(text)[i].text # text
        /\ PlanPositions(text) = {} => Len(Without(text)) = Len(plans)
        /\ PlanPositions(text) # {} => Len(Without(text)) = Len(plans) - 1
    BY WithoutFacts
  <1>3. CASE PlanHit(text, version)
    <2>1. PlanPositions(text) # {}
      BY <1>3 DEF PlanHit
    <2>2. plans[PlanAt(text)].text = text
      BY <2>1, PlanAtFacts
    <2>3. plans' = Append(Without(text), plans[PlanAt(text)])
      BY <1>3 DEF PlanGet
    <2>4. Distinct(plans') /\ Len(plans') = Len(plans)
      BY <1>1, <1>2, <2>1, <2>2, <2>3, AppendDistinct
    <2> QED BY <1>1, <2>4 DEF PlanInv, Distinct
  <1>4. CASE ~PlanHit(text, version)
    <2>1. plans' = Without(text)
      BY <1>4 DEF PlanGet
    <2>2. Len(plans') <= PlanCapacity
      BY <1>1, <1>2, <2>1
    <2> QED BY <1>2, <2>1, <2>2 DEF PlanInv, Distinct
  <1> QED BY <1>3, <1>4

\* PlanCache::insert.
LEMMA PlanInsertKeeps ==
  ASSUME PlanInv, NEW text, NEW version, PlanInsert(text, version)
  PROVE  PlanInv'
  <1>1. /\ Distinct(plans) /\ Len(plans) <= PlanCapacity /\ PlanCapacity \in Nat
        /\ Len(plans) \in Nat
    BY ServerAssumption, AppendFacts DEF PlanInv, Distinct
  <1>2. /\ Distinct(Without(text)) /\ \A i \in DOMAIN Without(text) : Without(text)[i].text # text
        /\ PlanPositions(text) = {} => Len(Without(text)) = Len(plans)
        /\ PlanPositions(text) # {} => Len(Without(text)) = Len(plans) - 1
    BY WithoutFacts
  <1> DEFINE e == [text |-> text, version |-> version]
  <1> DEFINE kept == IF Full(text) THEN Tail(plans) ELSE Without(text)
  <1>3. e.text = text
    OBVIOUS
  <1>4. CASE PlanCapacity = 0
    <2>1. plans' = plans
      BY <1>4 DEF PlanInsert
    <2> QED BY <2>1 DEF PlanInv
  <1>5. CASE PlanCapacity # 0
    <2>1. plans' = Append(kept, e)
      BY <1>5 DEF PlanInsert
    <2>2. /\ Distinct(kept) /\ (\A i \in DOMAIN kept : kept[i].text # text)
          /\ Len(kept) + 1 <= PlanCapacity
      <3>1. CASE Full(text)
        <4>1. Len(plans) > 0 /\ PlanPositions(text) = {}
          BY <1>1, <1>5, <3>1 DEF Full
        <4>2. \A i \in DOMAIN plans : plans[i].text # text
          BY <4>1 DEF PlanPositions
        <4>3. /\ Distinct(Tail(plans)) /\ Len(Tail(plans)) = Len(plans) - 1
              /\ \A i \in DOMAIN Tail(plans) : \E j \in DOMAIN plans : Tail(plans)[i] = plans[j]
          BY <1>1, <4>1, TailDistinct
        <4>4. kept = Tail(plans)
          BY <3>1
        <4> HIDE DEF kept
        <4> QED BY <1>1, <4>2, <4>3, <4>4
      <3>2. CASE ~Full(text)
        <4>1. Len(plans) < PlanCapacity \/ PlanPositions(text) # {}
          BY <1>1, <3>2 DEF Full
        <4>2. kept = Without(text)
          BY <3>2
        <4> HIDE DEF kept
        <4> QED BY <1>1, <1>2, <4>1, <4>2
      <3> QED BY <3>1, <3>2
    <2> HIDE DEF e, kept
    <2>3. Distinct(plans') /\ Len(plans') = Len(kept) + 1
      BY <1>3, <2>1, <2>2, AppendDistinct
    <2> QED BY <2>2, <2>3 DEF PlanInv, Distinct
  <1> QED BY <1>4, <1>5

\* Of all steps, those that plan a statement and COMMIT change the cache.
LEMMA PlanStep ==
  ASSUME PlanInv, NEW c \in Conns, Step(c)
  PROVE  PlanInv'
  <1>1. CASE plans' = plans
    BY <1>1 DEF PlanInv
  <1>2. CASE plans' = <<>>
    <2>1. <<>> \in Seq({}) /\ Len(<<>>) = 0 /\ DOMAIN <<>> = {}
      OBVIOUS
    <2> QED BY <1>2, <2>1, ServerAssumption DEF PlanInv, IsSeq
  <1>3. CASE Handshake(c) \/ Disconnect(c)
    BY <1>1, <1>3 DEF Handshake, Disconnect, shared
  <1>4. ASSUME NEW cmd, Command(c, cmd) PROVE PlanInv'
    BY <1>1, <1>4 DEF Command, Ping, SystemQuery, Query, StmtPrepare, StmtReset, StmtClose,
       SendLongData, StmtExecute, shared
  <1>5. CASE Session(c)
    <2>1. CASE Lookup(c)
      BY <2>1, PlanGetKeeps DEF Lookup
    <2>2. CASE ParseAndInsert(c)
      BY <1>1, <2>2, PlanInsertKeeps DEF ParseAndInsert
    <2>3. CASE CommitOrConflict(c)
      BY <1>1, <1>2, <2>3 DEF CommitOrConflict
    <2>4. CASE StmtPrepared(c) \/ SqlPrepared(c) \/ Bind(c)
      BY <1>1, <2>4 DEF StmtPrepared, SqlPrepared, Bind, shared
    <2>5. CASE Begin(c) \/ CommitIdle(c) \/ CommitLogErr(c) \/ Rollback(c)
      BY <1>1, <2>5 DEF Begin, CommitIdle, CommitLogErr, Rollback, shared
    <2>6. CASE SetVariable(c) \/ SqlPrepare(c) \/ SqlExecute(c) \/ Deallocate(c)
      BY <1>1, <2>6 DEF SetVariable, SqlPrepare, SqlExecute, Deallocate, shared
    <2>7. CASE BindErr(c) \/ StartSomewhere(c)
      BY <1>1, <2>7 DEF BindErr, StartSomewhere, Start, shared
    <2>8. CASE Eval(c) \/ Finish(c)
      BY <1>1, <2>8 DEF Eval, EvalSubquery, Finish
    <2> QED BY <1>5, <2>1, <2>2, <2>3, <2>4, <2>5, <2>6, <2>7, <2>8 DEF Session
  <1> QED BY <1>3, <1>4, <1>5 DEF Step

---------------------------------------------------------------------------
(* The catalog's lock *)

\* Running statements start, evaluate and finish; all other steps are of
\* connections that run none, before and after.
LEMMA QuietStep ==
  ASSUME ShapeInv, NEW c \in Conns, Step(c), ~StartSomewhere(c), ~Eval(c), ~Finish(c)
  PROVE  ~Running(c) /\ ~Running(c)' /\ lock' = lock /\ subqueries' = subqueries
  <1>1. IsFcn(call)
    BY DEF ShapeInv
  <1>2. ASSUME NEW k, call' = [call EXCEPT ![c] = k], k.pc # "eval" PROVE ~Running(c)'
    BY <1>1, <1>2 DEF IsFcn, Running
  <1>3. ASSUME NEW cmd, NEW ok, NEW value, Reply(c, cmd, ok, value) PROVE ~Running(c)'
    <2>1. Idle.pc # "eval"
      BY DEF Idle
    <2> QED BY <1>2, <1>3, <2>1 DEF Reply
  <1>4. ASSUME NEW cmd, NEW text, NEW for, NEW parameters, Plan(c, cmd, text, for, parameters)
        PROVE  ~Running(c)'
    <2> DEFINE k == [pc |-> "lookup", cmd |-> cmd, text |-> text, for |-> for,
                     parameters |-> parameters, seen |-> catalog.schema]
    <2>1. call' = [call EXCEPT ![c] = k] /\ k.pc = "lookup"
      BY <1>4 DEF Plan
    <2> HIDE DEF k
    <2> QED BY <1>2, <2>1
  <1>5. call[c] = Idle => ~Running(c)
    BY DEF Idle, Running
  <1>6. CASE Handshake(c) \/ Disconnect(c)
    <2>1. call[c] = Idle /\ UNCHANGED <<call, lock, subqueries>>
      BY <1>6, ConnParts DEF Handshake, Disconnect, shared
    <2> QED BY <1>5, <2>1 DEF Running
  <1>7. ASSUME NEW cmd, Command(c, cmd)
        PROVE  ~Running(c) /\ ~Running(c)' /\ lock' = lock /\ subqueries' = subqueries
    <2>1. call[c] = Idle
      BY <1>7 DEF Command, Ping, SystemQuery, Query, StmtPrepare, StmtReset, StmtClose,
         SendLongData, StmtExecute, Receive
    <2>2. lock' = lock /\ subqueries' = subqueries
      BY <1>7 DEF Command, Ping, SystemQuery, Query, StmtPrepare, StmtReset, StmtClose,
         SendLongData, StmtExecute, shared
    <2>3. CASE Ping(c, cmd) \/ StmtReset(c, cmd) \/ StmtClose(c, cmd) \/ SendLongData(c, cmd)
      <3>1. call' = call
        BY <2>3 DEF Ping, StmtReset, StmtClose, SendLongData
      <3> QED BY <1>5, <2>1, <2>2, <3>1 DEF Running
    <2>4. CASE SystemQuery(c, cmd)
      BY <1>3, <1>5, <2>1, <2>2, <2>4 DEF SystemQuery
    <2>5. CASE Query(c, cmd) \/ StmtPrepare(c, cmd)
      BY <1>4, <1>5, <2>1, <2>2, <2>5 DEF Query, StmtPrepare
    <2>6. CASE StmtExecute(c, cmd)
      <3> DEFINE stmt == statements[c][cmd.id]
      <3> DEFINE fails == cmd.id \notin DOMAIN statements[c] \/ DecodeFails(stmt, cmd)
      <3>1. CASE fails
        <4>1. Reply(c, cmd, FALSE, Nothing)
          BY <2>6, <3>1 DEF StmtExecute
        <4> QED BY <1>3, <1>5, <2>1, <2>2, <4>1
      <3>2. CASE ~fails
        <4>1. PICK values :
                call' = [call EXCEPT ![c] = [pc |-> "bind", cmd |-> cmd, prepared |-> stmt,
                                             parameters |-> values]]
          BY <2>6, <3>2 DEF StmtExecute
        <4> DEFINE k == [pc |-> "bind", cmd |-> cmd, prepared |-> stmt, parameters |-> values]
        <4>2. call' = [call EXCEPT ![c] = k] /\ k.pc = "bind"
          BY <4>1
        <4> HIDE DEF k
        <4> QED BY <1>2, <1>5, <2>1, <2>2, <4>2
      <3> QED BY <3>1, <3>2
    <2> QED BY <1>5, <1>7, <2>1, <2>2, <2>3, <2>4, <2>5, <2>6 DEF Command
  <1>8. CASE Session(c)
    <2>1. CASE Lookup(c) \/ ParseAndInsert(c)
      <3>1. call[c].pc \in {"lookup", "parse"} /\ lock' = lock /\ subqueries' = subqueries
        BY <2>1 DEF Lookup, ParseAndInsert
      <3>2. \/ Planned(c)
            \/ call' = [call EXCEPT ![c].pc = "parse"]
            \/ Reply(c, call[c].cmd, FALSE, Nothing)
        BY <2>1 DEF Lookup, ParseAndInsert
      <3>3. Planning(call[c])
        BY <3>1, CallShapes
      <3>4. ASSUME Planned(c) PROVE ~Running(c)'
        <4> DEFINE next == IF call[c].for = "prepare" THEN "prepared"
                           ELSE IF Parse[call[c].text].kind \in Control \cup SessionKinds
                                THEN "control" ELSE "start"
        <4>1. call' = [call EXCEPT ![c].pc = next]
          BY <3>4 DEF Planned
        <4>2. call'[c] = [call[c] EXCEPT !.pc = next]
          BY <1>1, <4>1 DEF IsFcn
        <4>3. next # "eval"
          OBVIOUS
        <4> HIDE DEF next
        <4>4. [call[c] EXCEPT !.pc = next] =
                [pc |-> next, cmd |-> call[c].cmd, text |-> call[c].text, for |-> call[c].for,
                 parameters |-> call[c].parameters, seen |-> call[c].seen]
          BY <3>3 DEF Planning
        <4>5. call'[c].pc = next
          BY <4>2, <4>4
        <4> QED BY <4>3, <4>5 DEF Running
      <3>5. ASSUME call' = [call EXCEPT ![c].pc = "parse"] PROVE ~Running(c)'
        <4>1. call'[c] = [call[c] EXCEPT !.pc = "parse"]
          BY <1>1, <3>5 DEF IsFcn
        <4>2. call'[c].pc = "parse"
          BY <3>3, <4>1 DEF Planning
        <4> QED BY <4>2 DEF Running
      <3> QED BY <1>3, <3>1, <3>2, <3>4, <3>5 DEF Running
    <2>2. CASE StmtPrepared(c)
      <3>1. /\ call[c].pc = "prepared" /\ lock' = lock /\ subqueries' = subqueries
            /\ call' = [call EXCEPT ![c] = Idle]
        BY <2>2 DEF StmtPrepared, shared
      <3> QED BY <1>2, <3>1 DEF Running, Idle
    <2>3. CASE SqlPrepared(c)
      <3>1. /\ call[c].pc = "prepared" /\ lock' = lock /\ subqueries' = subqueries
            /\ Reply(c, call[c].cmd, ~PrepareFails(c), Nothing)
        BY <2>3 DEF SqlPrepared, shared
      <3> QED BY <1>3, <3>1 DEF Running
    <2>4. CASE Bind(c)
      <3>1. call[c].pc = "bind" /\ lock' = lock /\ subqueries' = subqueries
        BY <2>4 DEF Bind, shared
      <3>2. \/ \E x, y, z, w :
                 call' = [call EXCEPT ![c] =
                   [pc |-> "start", cmd |-> x, text |-> y, for |-> "kept", parameters |-> z,
                    seen |-> w]]
            \/ Plan(c, call[c].cmd, call[c].prepared.text, "execute", call[c].parameters)
        BY <2>4 DEF Bind
      <3> QED BY <1>2, <1>4, <3>1, <3>2 DEF Running
    <2>5. CASE \/ Begin(c) \/ CommitIdle(c) \/ CommitOrConflict(c) \/ CommitLogErr(c)
               \/ Rollback(c) \/ SetVariable(c) \/ Deallocate(c)
      <3>1. /\ call[c].pc = "control" /\ lock' = lock /\ subqueries' = subqueries
        BY <2>5 DEF Begin, CommitIdle, CommitOrConflict, CommitLogErr, Rollback, SetVariable,
           Deallocate, InControl, shared
      <3>2. \E ok : Reply(c, call[c].cmd, ok, Nothing)
        BY <2>5 DEF Begin, CommitIdle, CommitOrConflict, CommitLogErr, Rollback, SetVariable,
           Deallocate
      <3> QED BY <1>3, <3>1, <3>2 DEF Running
    <2>6. CASE SqlPrepare(c)
      <3>1. call[c].pc = "control" /\ lock' = lock /\ subqueries' = subqueries
        BY <2>6 DEF SqlPrepare, InControl, shared
      <3>2. \/ \E text : Plan(c, call[c].cmd, text, "prepare", <<>>)
            \/ Reply(c, call[c].cmd, FALSE, Nothing)
        BY <2>6 DEF SqlPrepare
      <3> QED BY <1>3, <1>4, <3>1, <3>2 DEF Running
    <2>7. CASE SqlExecute(c)
      <3>1. call[c].pc = "control" /\ lock' = lock /\ subqueries' = subqueries
        BY <2>7 DEF SqlExecute, InControl, shared
      <3>2. \/ \E x, y : call' = [call EXCEPT ![c] = [pc |-> "bind", cmd |-> call[c].cmd,
                                                      prepared |-> x, parameters |-> y]]
            \/ Reply(c, call[c].cmd, FALSE, Nothing)
        BY <2>7 DEF SqlExecute
      <3> QED BY <1>2, <1>3, <3>1, <3>2 DEF Running
    <2>8. CASE BindErr(c)
      <3>1. /\ call[c].pc = "start" /\ lock' = lock /\ subqueries' = subqueries
            /\ Reply(c, call[c].cmd, FALSE, Nothing)
        BY <2>8 DEF BindErr, shared
      <3> QED BY <1>3, <3>1 DEF Running
    <2> QED BY <1>8, <2>1, <2>2, <2>3, <2>4, <2>5, <2>6, <2>7, <2>8 DEF Session
  <1> QED BY <1>6, <1>7, <1>8 DEF Step

\* Only the statement that took the write lock can release it, and nobody
\* takes it while it is held.
LEMMA LockStep ==
  ASSUME ShapeInv, LockInv, NEW c \in Conns, Step(c), Good(c)
  PROVE  LockInv'
  <1>1. \A d \in Conns \ {c} : call'[d] = call[d] /\ txn'[d] = txn[d]
    BY DEF Good, Local, SameAt
  <1>2. NoConn \notin Conns
    BY ServerAssumption
  <1>3. ASSUME lock' = lock, lock # c PROVE LockInv'
    BY <1>1, <1>3 DEF LockInv, Running
  <1>4. CASE ~StartSomewhere(c) /\ ~Eval(c) /\ ~Finish(c)
    <2>1. ~Running(c) /\ lock' = lock
      BY <1>4, QuietStep
    <2>2. lock # c
      BY <1>2, <2>1 DEF LockInv
    <2> QED BY <1>3, <2>1, <2>2
  <1>5. CASE StartSomewhere(c)
    <2>1. /\ call[c].pc = "start" /\ txn' = txn /\ (lock' = lock \/ (~txn[c].active /\ lock' = c))
      BY <1>5, StartFacts
    <2>2. PICK thread, at : call'[c] = Started(c, thread, at)
      BY <1>5, StartFacts
    <2>3. lock # c
      BY <1>2, <2>1 DEF LockInv, Running
    <2>4. call'[c].pc = "eval"
      BY <2>2 DEF Started
    <2>5. CASE lock' = c /\ ~txn[c].active
      BY <2>1, <2>4, <2>5 DEF LockInv, Running
    <2> QED BY <1>3, <2>1, <2>3, <2>5
  <1>6. CASE Eval(c)
    <2>1. Evaluating(call[c]) /\ lock' = lock /\ txn' = txn
          /\ Len(call[c].got) + 1 <= Len(Parse[call[c].text].sites)
      BY <1>6, EvalFacts DEF Sites
    <2>2. PICK address :
            call'[c] = [call[c] EXCEPT !.got = Append(call[c].got, SubqueryResult(c, address))]
      BY <1>6, EvalFacts
    <2> DEFINE r == SubqueryResult(c, address)
    <2>3. Evaluating([call[c] EXCEPT !.got = Append(call[c].got, r)])
      BY <2>1, EvalCall
    <2>4. call'[c].pc = "eval"
      BY <2>2, <2>3 DEF Evaluating
    <2> QED BY <1>1, <2>1, <2>4 DEF LockInv, Running
  <1>7. CASE Finish(c)
    <2>1. lock' = IF lock = c THEN NoConn ELSE lock
      BY <1>7, FinishFacts
    <2> QED BY <1>3, <2>1 DEF LockInv
  <1> QED BY <1>4, <1>5, <1>6, <1>7

---------------------------------------------------------------------------
(* What the client was told stays true *)

\* A log with an entry more.
LEMMA LogGrows ==
  ASSUME ShapeInv, NEW c \in Conns, NEW e, log'[c] = Append(log[c], e)
  PROVE  \E n \in Nat \ {0} :
           /\ DOMAIN log[c] = 1..(n - 1) /\ DOMAIN log'[c] = 1..n
           /\ \A i \in 1..(n - 1) : log'[c][i] = log[c][i]
           /\ log'[c][n] = e
  <1>1. IsSeq(log[c])
    BY ConnParts
  <1>2. /\ Len(log[c]) \in Nat /\ DOMAIN log[c] = 1..Len(log[c])
        /\ DOMAIN Append(log[c], e) = 1..(Len(log[c]) + 1)
        /\ \A i \in 1..Len(log[c]) : Append(log[c], e)[i] = log[c][i]
        /\ Append(log[c], e)[Len(log[c]) + 1] = e
    BY <1>1, AppendFacts
  <1> DEFINE n == Len(log[c]) + 1
  <1>3. n \in Nat \ {0} /\ n - 1 = Len(log[c])
    BY <1>2
  <1> QED BY <1>2, <1>3

\* The flag of the last flagged reply tells the transaction's state.
LEMMA FlagStep ==
  ASSUME ShapeInv, NEW c \in Conns, FlagInv(c), FlagEffect(c)
  PROVE  FlagInv(c)'
  <1> SUFFICES ASSUME conn'[c] # "closed" PROVE FlagInv(c)'
    BY DEF FlagInv
  <1>1. conn[c] # "closed"
    BY DEF FlagEffect
  <1>2. PICK m \in {0} \cup DOMAIN log[c] :
          /\ m # 0 => Tells(log[c][m])
          /\ \A i \in DOMAIN log[c] : i > m => ~Tells(log[c][i])
          /\ IF m = 0 \/ log[c][m].flag = "out" THEN ~txn[c].active
             ELSE \/ txn[c].active
                  \/ \E i \in DOMAIN log[c] : i > m /\ FailedCommit(log[c][i])
    BY <1>1 DEF FlagInv
  <1>3. CASE log'[c] = log[c] /\ txn'[c].active = txn[c].active
    BY <1>2, <1>3 DEF FlagInv
  <1>4. ASSUME NEW e, log'[c] = Append(log[c], e), e.flag = Status(c), Tells(e)
        PROVE  FlagInv(c)'
    <2>1. PICK n \in Nat \ {0} :
             /\ DOMAIN log'[c] = 1..n /\ log'[c][n] = e
      BY <1>4, LogGrows
    <2>2. log'[c][n].flag = IF txn'[c].active THEN "in" ELSE "out"
      BY <1>4, <2>1 DEF Status
    <2>3. n \in DOMAIN log'[c] /\ \A i \in DOMAIN log'[c] : ~(i > n)
      BY <2>1
    <2>4. Tells(log'[c][n])
      BY <1>4, <2>1
    <2> QED BY <2>1, <2>2, <2>3, <2>4 DEF FlagInv
  <1>5. ASSUME NEW e, log'[c] = Append(log[c], e), ~Tells(e),
               txn'[c].active = txn[c].active \/ (FailedCommit(e) /\ ~txn'[c].active)
        PROVE  FlagInv(c)'
    <2>1. PICK n \in Nat \ {0} :
             /\ DOMAIN log[c] = 1..(n - 1) /\ DOMAIN log'[c] = 1..n
             /\ \A i \in 1..(n - 1) : log'[c][i] = log[c][i]
             /\ log'[c][n] = e
      BY <1>5, LogGrows
    <2>2. /\ m \in {0} \cup DOMAIN log'[c] /\ m < n /\ n \in DOMAIN log'[c]
          /\ m # 0 => log'[c][m] = log[c][m]
      BY <1>2, <2>1
    <2>3. ASSUME NEW i \in DOMAIN log'[c], i > m PROVE ~Tells(log'[c][i])
      <3>1. i = n \/ i \in 1..(n - 1)
        BY <2>1
      <3> QED BY <1>2, <1>5, <2>1, <2>3, <3>1
    <2>4. IF m = 0 \/ log'[c][m].flag = "out" THEN ~txn'[c].active
          ELSE \/ txn'[c].active
               \/ \E i \in DOMAIN log'[c] : i > m /\ FailedCommit(log'[c][i])
      <3>1. CASE m = 0 \/ log'[c][m].flag = "out"
        BY <1>2, <1>5, <2>2, <3>1
      <3>2. CASE ~(m = 0 \/ log'[c][m].flag = "out")
        <4>1. ASSUME NEW i \in DOMAIN log[c], i > m, FailedCommit(log[c][i])
              PROVE  \E j \in DOMAIN log'[c] : j > m /\ FailedCommit(log'[c][j])
          <5>1. i \in DOMAIN log'[c] /\ log'[c][i] = log[c][i]
            BY <2>1
          <5> QED BY <4>1, <5>1
        <4>2. FailedCommit(e) => \E j \in DOMAIN log'[c] : j > m /\ FailedCommit(log'[c][j])
          BY <2>1, <2>2
        <4>3. \/ txn[c].active
              \/ \E i \in DOMAIN log[c] : i > m /\ FailedCommit(log[c][i])
          BY <1>2, <2>2, <3>2
        <4> QED BY <1>5, <3>2, <4>1, <4>2, <4>3
      <3> QED BY <3>1, <3>2
    <2>5. m # 0 => Tells(log'[c][m])
      BY <1>2, <2>2
    <2> QED BY <2>2, <2>3, <2>4, <2>5 DEF FlagInv
  <1> QED BY <1>3, <1>4, <1>5 DEF FlagEffect

\* The statements prepared after a reply are finitely many.
LEMMA LaterFinite ==
  ASSUME ShapeInv, NEW c \in Conns, NEW i
  PROVE  IsFiniteSet(Later(c, i)) /\ Cardinality(Later(c, i)) \in Nat
  <1>1. IsSeq(log[c])
    BY ConnParts
  <1>2. Len(log[c]) \in Nat /\ DOMAIN log[c] = 1..Len(log[c])
    BY <1>1, AppendFacts
  <1>3. IsFiniteSet(1..Len(log[c]))
    BY <1>2, FS_Interval
  <1>4. Later(c, i) \subseteq 1..Len(log[c])
    BY <1>2 DEF Later, PreparedAt
  <1> QED BY <1>3, <1>4, FS_Subset, FS_CardinalityType

\* Ids follow one another, and only going round reaches one in use.
LEMMA IdRound ==
  ASSUME NEW L \in Nat, L > 1, NEW id \in 1..(L - 1), NEW later \in Nat, NEW next \in 1..(L - 1),
         later + 1 < L - 1,
         next \in {id + later + 1, id + later + 1 - (L - 1)},
         NEW after, after = IF next = L - 1 THEN 1 ELSE next + 1
  PROVE  /\ after \in {id + (later + 1) + 1, id + (later + 1) + 1 - (L - 1)}
         /\ id # next
  OBVIOUS

\* An id the client was given names its statement until it has gone round.
LEMMA IdStep ==
  ASSUME ShapeInv, NEW c \in Conns, IdInv(c), IdEffect(c)
  PROVE  IdInv(c)'
  <1> SUFFICES ASSUME conn'[c] # "closed" PROVE IdInv(c)'
    BY DEF IdInv
  <1>0. IdLimit \in Nat /\ IdLimit > 1 /\ nextId[c] \in 1..(IdLimit - 1) /\ conn[c] # "closed"
    BY ServerAssumption, ConnParts DEF IdEffect
  <1>1. CASE /\ nextId'[c] = nextId[c] /\ SameTexts(c, DOMAIN statements[c])
             /\ log'[c] = log[c]
    <2>1. PreparedAt(c)' = PreparedAt(c) /\ \A i : Later(c, i)' = Later(c, i)
      BY <1>1 DEF PreparedAt, Later
    <2>2. \A i : Closed(c, i)' <=> Closed(c, i)
      BY <1>1 DEF Closed
    <2> QED BY <1>0, <1>1, <2>1, <2>2 DEF IdInv, SameTexts
  <1>2. ASSUME NEW e, log'[c] = Append(log[c], e), ~(e.cmd.kind = "stmtPrepare" /\ e.ok),
               nextId'[c] = nextId[c],
               \/ SameTexts(c, DOMAIN statements[c])
               \/ e.cmd.kind = "stmtClose" /\ SameTexts(c, DOMAIN statements[c] \ {e.cmd.id})
        PROVE  IdInv(c)'
    <2>1. PICK n \in Nat \ {0} :
             /\ DOMAIN log[c] = 1..(n - 1) /\ DOMAIN log'[c] = 1..n
             /\ \A i \in 1..(n - 1) : log'[c][i] = log[c][i]
             /\ log'[c][n] = e
      BY <1>2, LogGrows
    <2>2. PreparedAt(c)' = PreparedAt(c)
      <3>1. PreparedAt(c)' = {i \in 1..n : log'[c][i].cmd.kind = "stmtPrepare" /\ log'[c][i].ok}
        BY <2>1 DEF PreparedAt
      <3>2. PreparedAt(c) = {i \in 1..(n - 1) : log[c][i].cmd.kind = "stmtPrepare" /\ log[c][i].ok}
        BY <2>1 DEF PreparedAt
      <3>3. \A i \in 1..n : i \in 1..(n - 1) \/ i = n
        OBVIOUS
      <3>4. \A i \in 1..(n - 1) : i \in 1..n
        OBVIOUS
      <3> QED BY <1>2, <2>1, <3>1, <3>2, <3>3, <3>4
    <2>3. \A i : Later(c, i)' = Later(c, i)
      BY <2>2 DEF Later
    <2>4. ASSUME NEW i \in PreparedAt(c)
          PROVE  /\ log'[c][i] = log[c][i]
                 /\ Closed(c, i) => Closed(c, i)'
                 /\ e.cmd.kind = "stmtClose" /\ e.cmd.id = log[c][i].value.id => Closed(c, i)'
      <3>1. i \in 1..(n - 1)
        BY <2>1 DEF PreparedAt
      <3>2. log'[c][i] = log[c][i] /\ n > i /\ n \in DOMAIN log'[c]
        BY <2>1, <3>1
      <3>3. ASSUME Closed(c, i) PROVE Closed(c, i)'
        <4>1. PICK j \in DOMAIN log[c] :
                j > i /\ log[c][j].cmd.kind = "stmtClose" /\ log[c][j].cmd.id = log[c][i].value.id
          BY <3>3 DEF Closed
        <4>2. j \in DOMAIN log'[c] /\ log'[c][j] = log[c][j]
          BY <2>1
        <4> QED BY <3>2, <4>1, <4>2 DEF Closed
      <3>4. ASSUME e.cmd.kind = "stmtClose", e.cmd.id = log[c][i].value.id PROVE Closed(c, i)'
        BY <2>1, <3>2, <3>4 DEF Closed
      <3> QED BY <3>2, <3>3, <3>4
    <2> SUFFICES ASSUME NEW i \in PreparedAt(c)
                 PROVE  LET id == log'[c][i].value.id
                            later == Cardinality(Later(c, i)')
                        IN /\ id \in 1..(IdLimit - 1)
                           /\ later < IdLimit - 1 =>
                                /\ nextId'[c] \in {id + later + 1, id + later + 1 - (IdLimit - 1)}
                                /\ \/ Closed(c, i)'
                                   \/ /\ id \in DOMAIN statements'[c]
                                      /\ statements'[c][id].text = log'[c][i].cmd.text
      BY <2>2 DEF IdInv
    <2> DEFINE id == log[c][i].value.id
    <2> DEFINE later == Cardinality(Later(c, i))
    <2>5. /\ id \in 1..(IdLimit - 1)
          /\ later < IdLimit - 1 =>
               /\ nextId[c] \in {id + later + 1, id + later + 1 - (IdLimit - 1)}
               /\ \/ Closed(c, i)
                  \/ id \in DOMAIN statements[c] /\ statements[c][id].text = log[c][i].cmd.text
      BY <1>0 DEF IdInv
    <2>6. /\ log'[c][i] = log[c][i]
          /\ Closed(c, i) => Closed(c, i)'
          /\ e.cmd.kind = "stmtClose" /\ e.cmd.id = id => Closed(c, i)'
      BY <2>4
    <2>7. Cardinality(Later(c, i)') = later
      BY <2>3
    <2>8. id \in DOMAIN statements[c] =>
             \/ Closed(c, i)'
             \/ id \in DOMAIN statements'[c] /\ statements'[c][id].text = statements[c][id].text
      BY <1>2, <2>6 DEF SameTexts
    <2> HIDE DEF id, later
    <2>9. log'[c][i].value.id = id
      BY <2>6 DEF id
    <2> QED BY <1>2, <2>5, <2>6, <2>7, <2>8, <2>9
  <1>3. ASSUME NEW e, log'[c] = Append(log[c], e), e.cmd.kind = "stmtPrepare", e.ok,
               e.value.id = nextId[c], nextId'[c] = NextStatementId(nextId[c]),
               SameTexts(c, DOMAIN statements[c] \ {nextId[c]}),
               nextId[c] \in DOMAIN statements'[c],
               statements'[c][nextId[c]].text = e.cmd.text
        PROVE  IdInv(c)'
    <2>1. PICK n \in Nat \ {0} :
             /\ DOMAIN log[c] = 1..(n - 1) /\ DOMAIN log'[c] = 1..n
             /\ \A i \in 1..(n - 1) : log'[c][i] = log[c][i]
             /\ log'[c][n] = e
      BY <1>3, LogGrows
    <2>2. PreparedAt(c)' = PreparedAt(c) \cup {n} /\ PreparedAt(c) \subseteq 1..(n - 1)
      <3>1. PreparedAt(c)' = {i \in 1..n : log'[c][i].cmd.kind = "stmtPrepare" /\ log'[c][i].ok}
        BY <2>1 DEF PreparedAt
      <3>2. PreparedAt(c) = {i \in 1..(n - 1) : log[c][i].cmd.kind = "stmtPrepare" /\ log[c][i].ok}
        BY <2>1 DEF PreparedAt
      <3>3. \A i \in 1..n : i \in 1..(n - 1) \/ i = n
        OBVIOUS
      <3>4. n \in 1..n /\ \A i \in 1..(n - 1) : i \in 1..n
        OBVIOUS
      <3> QED BY <1>3, <2>1, <3>1, <3>2, <3>3, <3>4
    <2>3. NextStatementId(nextId[c]) = IF nextId[c] = IdLimit - 1 THEN 1 ELSE nextId[c] + 1
      BY <1>0, NextIdFacts
    <2> SUFFICES ASSUME NEW i \in PreparedAt(c)'
                 PROVE  LET id == log'[c][i].value.id
                            later == Cardinality(Later(c, i)')
                        IN /\ id \in 1..(IdLimit - 1)
                           /\ later < IdLimit - 1 =>
                                /\ nextId'[c] \in {id + later + 1, id + later + 1 - (IdLimit - 1)}
                                /\ \/ Closed(c, i)'
                                   \/ /\ id \in DOMAIN statements'[c]
                                      /\ statements'[c][id].text = log'[c][i].cmd.text
      BY DEF IdInv
    <2>4. CASE i = n
      <3>1. Later(c, i)' = {}
        <4>1. \A j \in PreparedAt(c)' : ~(j > n)
          BY <2>1, <2>2
        <4> QED BY <2>4, <4>1 DEF Later
      <3>2. Cardinality(Later(c, i)') = 0
        BY <3>1, FS_EmptySet
      <3>3. log'[c][i].value.id = nextId[c] /\ log'[c][i] = e
        BY <1>3, <2>1, <2>4
      <3>4. nextId'[c] \in {nextId[c] + 0 + 1, nextId[c] + 0 + 1 - (IdLimit - 1)}
        BY <1>0, <1>3, <2>3
      <3> QED BY <1>0, <1>3, <3>2, <3>3, <3>4
    <2>5. CASE i \in PreparedAt(c)
      <3> DEFINE id == log[c][i].value.id
      <3> DEFINE later == Cardinality(Later(c, i))
      <3>1. i \in 1..(n - 1) /\ log'[c][i] = log[c][i]
        BY <2>1, <2>2, <2>5
      <3>2. Later(c, i)' = Later(c, i) \cup {n} /\ n \notin Later(c, i)
        BY <2>2, <3>1 DEF Later
      <3>3. Cardinality(Later(c, i)') = later + 1 /\ later \in Nat
        BY <3>2, LaterFinite, FS_AddElement
      <3>4. /\ id \in 1..(IdLimit - 1)
            /\ later < IdLimit - 1 =>
                 /\ nextId[c] \in {id + later + 1, id + later + 1 - (IdLimit - 1)}
                 /\ \/ Closed(c, i)
                    \/ id \in DOMAIN statements[c] /\ statements[c][id].text = log[c][i].cmd.text
        BY <1>0, <2>5 DEF IdInv
      <3>5. ASSUME Closed(c, i) PROVE Closed(c, i)'
        <4>1. PICK j \in DOMAIN log[c] :
                j > i /\ log[c][j].cmd.kind = "stmtClose" /\ log[c][j].cmd.id = id
          BY <3>5 DEF Closed
        <4>2. j \in DOMAIN log'[c] /\ log'[c][j] = log[c][j]
          BY <2>1
        <4> QED BY <3>1, <4>1, <4>2 DEF Closed
      <3>6. log'[c][i].value.id = id
        BY <3>1
      <3> HIDE DEF id, later
      <3>7. ASSUME later + 1 < IdLimit - 1
            PROVE  /\ nextId'[c] \in {id + (later + 1) + 1, id + (later + 1) + 1 - (IdLimit - 1)}
                   /\ \/ Closed(c, i)'
                      \/ id \in DOMAIN statements'[c]
                         /\ statements'[c][id].text = log[c][i].cmd.text
        <4>1. later < IdLimit - 1
          BY <1>0, <3>3, <3>7
        <4>2. nextId'[c] = IF nextId[c] = IdLimit - 1 THEN 1 ELSE nextId[c] + 1
          BY <1>3, <2>3
        <4>3. /\ nextId'[c] \in {id + (later + 1) + 1, id + (later + 1) + 1 - (IdLimit - 1)}
              /\ id # nextId[c]
          BY <1>0, <3>3, <3>4, <3>7, <4>1, <4>2, IdRound
        <4>4. id \in DOMAIN statements[c] =>
                id \in DOMAIN statements'[c] /\ statements'[c][id].text = statements[c][id].text
          BY <1>3, <4>3 DEF SameTexts
        <4> QED BY <3>4, <3>5, <4>1, <4>3, <4>4
      <3> QED BY <3>1, <3>3, <3>4, <3>6, <3>7
    <2> QED BY <2>2, <2>4, <2>5
  <1>4. CASE \E e : /\ log'[c] = Append(log[c], e) /\ e.cmd.kind = "stmtClose"
                    /\ nextId'[c] = nextId[c] /\ SameTexts(c, DOMAIN statements[c] \ {e.cmd.id})
    BY <1>2, <1>4
  <1>5. CASE /\ nextId'[c] = nextId[c] /\ SameTexts(c, DOMAIN statements[c])
             /\ \/ log'[c] = log[c]
                \/ \E e : log'[c] = Append(log[c], e) /\ ~(e.cmd.kind = "stmtPrepare" /\ e.ok)
    BY <1>1, <1>2, <1>5
  <1> QED BY <1>3, <1>4, <1>5 DEF IdEffect

---------------------------------------------------------------------------
(* The subquery cache *)

\* Connections that do not move keep what they have in the cache, as long as
\* nothing is added under their threads.
LEMMA OwnKept ==
  ASSUME NEW d \in Conns, call'[d] = call[d], OwnEntries(d), OwnResults(d),
         \/ subqueries' = subqueries
         \/ \A v, a : Running(d) /\ <<v, a, call[d].thread>> \in DOMAIN subqueries' =>
              /\ <<v, a, call[d].thread>> \in DOMAIN subqueries
              /\ subqueries'[<<v, a, call[d].thread>>] = subqueries[<<v, a, call[d].thread>>]
  PROVE  OwnEntries(d)' /\ OwnResults(d)'
  <1>1. Sites(d)' = Sites(d) /\ Kept(d)' = Kept(d) /\ (Running(d)' <=> Running(d))
    BY DEF Sites, Kept, Running
  <1>2. OwnResults(d)'
    BY <1>1 DEF OwnResults
  <1>3. OwnEntries(d)'
    BY <1>1 DEF OwnEntries
  <1> QED BY <1>2, <1>3

\* A connection that runs nothing has nothing in the cache.
LEMMA OwnIdle ==
  ASSUME NEW d \in Conns, ~Running(d)'
  PROVE  OwnEntries(d)' /\ OwnResults(d)'
  BY DEF OwnEntries, OwnResults

\* A running statement's addresses.
LEMMA AddressFacts ==
  ASSUME ShapeInv, NEW c \in Conns, Running(c)
  PROVE  /\ Evaluating(call[c]) /\ call[c].text \in Texts
         /\ Sites(c) \in Seq([query : Queries, temporary : BOOLEAN])
         /\ \A i \in Kept(c) : call[c].at[i] \in Range(call[c].at)
         /\ \A i, j \in Kept(c) : call[c].at[i] = call[c].at[j] => i = j
         /\ Range(call[c].at) \subseteq Live
         /\ IsSeq(call[c].got) /\ Len(call[c].got) \in Nat
         /\ DOMAIN call[c].got = 1..Len(call[c].got)
  <1>1. Evaluating(call[c])
    BY CallShapes DEF Running
  <1>2. call[c].text \in Texts /\ IsSeq(call[c].got)
    BY <1>1 DEF Evaluating, Purpose
  <1>3. call[c].at \in Injection(Kept(c), Addresses)
    BY <1>1 DEF Evaluating, Kept, Sites
  <1>4. DOMAIN call[c].at = Kept(c) /\ IsInjective(call[c].at)
    BY <1>3 DEF Injection
  <1>5. /\ \A i \in Kept(c) : call[c].at[i] \in Range(call[c].at)
        /\ \A i, j \in Kept(c) : call[c].at[i] = call[c].at[j] => i = j
    BY <1>4 DEF IsInjective, Range
  <1>6. Sites(c) \in Seq([query : Queries, temporary : BOOLEAN])
    BY <1>2, ServerAssumption DEF Sites
  <1>7. Range(call[c].at) \subseteq Live
    BY DEF Live
  <1>8. Len(call[c].got) \in Nat /\ DOMAIN call[c].got = 1..Len(call[c].got)
    BY <1>2, AppendFacts
  <1> QED BY <1>1, <1>2, <1>5, <1>6, <1>7, <1>8

\* What execute_subquery_cached returns is the subquery's own result.
LEMMA ResultIsOwn ==
  ASSUME ShapeInv, CacheInv, NEW c \in Conns, Running(c),
         NEW i, i = Len(call[c].got) + 1, i <= Len(Sites(c)), NEW address,
         IF i \in Kept(c) THEN address = call[c].at[i] ELSE address \notin Live,
         i \in Kept(c) \/ OneTemporary
  PROVE  SubqueryResult(c, address) =
           [query |-> Sites(c)[i].query, data |-> call[c].work.data]
  <1>1. /\ call[c].text \in Texts
        /\ Sites(c) \in Seq([query : Queries, temporary : BOOLEAN])
        /\ \A j \in Kept(c) : call[c].at[j] \in Range(call[c].at)
        /\ \A j, k \in Kept(c) : call[c].at[j] = call[c].at[k] => j = k
        /\ Range(call[c].at) \subseteq Live /\ Len(call[c].got) \in Nat
    BY AddressFacts
  <1>2. i \in DOMAIN Sites(c)
    BY <1>1
  <1>3. CASE Key(c, address) \notin DOMAIN subqueries
    BY <1>3 DEF SubqueryResult
  <1>4. CASE Key(c, address) \in DOMAIN subqueries
    <2>1. SubqueryResult(c, address) = subqueries[Key(c, address)]
      BY <1>4 DEF SubqueryResult
    <2>2. \/ \E j \in Kept(c) :
               /\ address = call[c].at[j]
               /\ subqueries[Key(c, address)] =
                    [query |-> Sites(c)[j].query, data |-> call[c].work.data]
          \/ /\ address \notin Range(call[c].at)
             /\ \E j \in DOMAIN Sites(c) \ Kept(c) : j <= Len(call[c].got)
      BY <1>4 DEF CacheInv, OwnEntries, Key
    <2>3. CASE i \in Kept(c)
      BY <1>1, <2>1, <2>2, <2>3
    <2>4. CASE i \notin Kept(c)
      <3>1. address \notin Range(call[c].at)
        BY <1>1, <2>4
      <3>2. PICK j \in DOMAIN Sites(c) \ Kept(c) : j <= Len(call[c].got)
        BY <1>1, <2>2, <3>1
      <3>3. Sites(c)[i].temporary /\ Sites(c)[j].temporary /\ OneTemporary
        BY <1>2, <2>4, <3>2 DEF Kept
      <3>4. i = j
        BY <1>1, <1>2, <3>2, <3>3 DEF OneTemporary, Sites
      <3> QED BY <1>1, <3>2, <3>4
    <2> QED BY <2>3, <2>4
  <1> QED BY <1>3, <1>4

\* Evaluating a subquery adds an entry of the statement's own.
LEMMA CacheEval ==
  ASSUME ShapeInv, CacheInv, NEW c \in Conns, Eval(c), Good(c)
  PROVE  CacheInv'
  <1> DEFINE k == call[c]
  <1> DEFINE i == Len(k.got) + 1
  <1>1. Running(c) /\ i <= Len(Sites(c))
    BY EvalFacts
  <1>2. PICK address :
          /\ IF i \in Kept(c) THEN address = k.at[i] ELSE address \notin Live
          /\ call'[c] = [k EXCEPT !.got = Append(k.got, SubqueryResult(c, address))]
          /\ subqueries' = [x \in DOMAIN subqueries \cup {Key(c, address)} |->
                             IF x = Key(c, address) THEN SubqueryResult(c, address)
                             ELSE subqueries[x]]
    BY EvalFacts
  <1> DEFINE r == SubqueryResult(c, address)
  <1>3. /\ Evaluating(k) /\ k.text \in Texts /\ Range(k.at) \subseteq Live
        /\ Sites(c) \in Seq([query : Queries, temporary : BOOLEAN])
        /\ IsSeq(k.got) /\ Len(k.got) \in Nat /\ DOMAIN k.got = 1..Len(k.got)
    BY <1>1, AddressFacts
  <1>4. i \in DOMAIN Sites(c)
    BY <1>1, <1>3
  <1>5. /\ Evaluating(call'[c]) /\ call'[c].got = Append(k.got, r) /\ call'[c].text = k.text
        /\ call'[c].work = k.work /\ call'[c].thread = k.thread /\ call'[c].at = k.at
    <2> DEFINE n == [k EXCEPT !.got = Append(k.got, r)]
    <2>1. Len(k.got) + 1 <= Len(Parse[k.text].sites)
      BY <1>1 DEF Sites
    <2> HIDE DEF r, k
    <2>2. /\ Evaluating(n) /\ n.got = Append(k.got, r) /\ n.text = k.text
          /\ n.work = k.work /\ n.thread = k.thread /\ n.at = k.at
      BY <1>3, <2>1, EvalCall
    <2>3. call'[c] = n
      BY <1>2 DEF r
    <2> QED BY <2>2, <2>3
  <1>6. /\ Len(call'[c].got) = i /\ DOMAIN call'[c].got = 1..i
        /\ (\A j \in 1..Len(k.got) : call'[c].got[j] = k.got[j]) /\ call'[c].got[i] = r
    BY <1>3, <1>5, AppendFacts
  <1>7. Sites(c)' = Sites(c) /\ Kept(c)' = Kept(c)
    BY <1>5 DEF Sites, Kept
  <1>8. \A d \in Conns \ {c} : call'[d] = call[d]
    BY DEF Good, Local, SameAt
  <1>9. i \in Kept(c) \/ OneTemporary => r = [query |-> Sites(c)[i].query, data |-> k.work.data]
    BY <1>1, <1>2, ResultIsOwn
  <1>10. /\ DOMAIN subqueries' = DOMAIN subqueries \cup {Key(c, address)}
         /\ subqueries'[Key(c, address)] = r
         /\ \A x \in DOMAIN subqueries \ {Key(c, address)} : subqueries'[x] = subqueries[x]
    BY <1>2
  <1> HIDE DEF r
  <1>11. call'[c].pc = "eval"
    BY <1>5 DEF Evaluating
  <1>12. \A d \in Conns : (Running(d)' <=> Running(d)) /\ (Running(d) => call'[d].thread = call[d].thread)
    BY <1>1, <1>5, <1>8, <1>11 DEF Running
  <1>13. \A d, b \in Conns :
           Running(d)' /\ Running(b)' /\ call'[d].thread = call'[b].thread => d = b
    BY <1>12 DEF CacheInv
  <1>14. ASSUME NEW d \in Conns \ {c} PROVE OwnEntries(d)' /\ OwnResults(d)'
    <2>1. \A v, a : Running(d) => <<v, a, call[d].thread>> # Key(c, address)
      BY <1>1 DEF CacheInv, Key
    <2>2. \A v, a : Running(d) /\ <<v, a, call[d].thread>> \in DOMAIN subqueries' =>
              /\ <<v, a, call[d].thread>> \in DOMAIN subqueries
              /\ subqueries'[<<v, a, call[d].thread>>] = subqueries[<<v, a, call[d].thread>>]
      BY <1>10, <2>1
    <2> QED BY <1>8, <2>2, OwnKept DEF CacheInv
  <1>15. OwnResults(c)'
    <2> SUFFICES ASSUME NEW j \in DOMAIN call'[c].got, j \in Kept(c) \/ OneTemporary
                 PROVE  call'[c].got[j] = [query |-> Sites(c)[j].query, data |-> k.work.data]
      BY <1>5, <1>7 DEF OwnResults
    <2>1. j = i \/ j \in 1..Len(k.got)
      BY <1>3, <1>6
    <2>2. CASE j = i
      BY <1>6, <1>9, <2>2
    <2>3. CASE j \in 1..Len(k.got)
      BY <1>1, <1>3, <1>6, <2>3 DEF CacheInv, OwnResults
    <2> QED BY <2>1, <2>2, <2>3
  <1>16. OwnEntries(c)'
    <2> SUFFICES ASSUME NEW v, NEW a, <<v, a, k.thread>> \in DOMAIN subqueries'
                 PROVE  \/ \E j \in Kept(c) :
                             /\ a = k.at[j]
                             /\ subqueries'[<<v, a, k.thread>>] =
                                  [query |-> Sites(c)[j].query, data |-> k.work.data]
                        \/ /\ a \notin Range(k.at)
                           /\ \E j \in DOMAIN Sites(c) \ Kept(c) : j <= i
      BY <1>5, <1>6, <1>7 DEF OwnEntries
    <2>1. CASE <<v, a, k.thread>> = Key(c, address)
      <3>1. a = address
        BY <2>1 DEF Key
      <3>2. subqueries'[<<v, a, k.thread>>] = r
        BY <1>10, <2>1
      <3>3. CASE i \in Kept(c)
        BY <1>2, <1>9, <3>1, <3>2, <3>3
      <3>4. CASE i \notin Kept(c)
        <4>1. a \notin Range(k.at)
          BY <1>2, <1>3, <3>1, <3>4
        <4>2. i <= i
          BY <1>3
        <4> QED BY <1>4, <3>4, <4>1, <4>2
      <3> QED BY <3>3, <3>4
    <2>2. CASE <<v, a, k.thread>> # Key(c, address)
      <3>1. /\ <<v, a, k.thread>> \in DOMAIN subqueries
            /\ subqueries'[<<v, a, k.thread>>] = subqueries[<<v, a, k.thread>>]
        BY <1>10, <2>2
      <3>2. \/ \E j \in Kept(c) :
                  /\ a = k.at[j]
                  /\ subqueries[<<v, a, k.thread>>] =
                       [query |-> Sites(c)[j].query, data |-> k.work.data]
            \/ /\ a \notin Range(k.at)
               /\ \E j \in DOMAIN Sites(c) \ Kept(c) : j <= Len(k.got)
        BY <1>1, <3>1 DEF CacheInv, OwnEntries
      <3>3. \A j \in DOMAIN Sites(c) : j <= Len(k.got) => j <= i
        BY <1>3
      <3> QED BY <3>1, <3>2, <3>3
    <2> QED BY <2>1, <2>2
  <1> QED BY <1>13, <1>14, <1>15, <1>16 DEF CacheInv

\* Clearing the cache as a statement starts.
LEMMA CacheStart ==
  ASSUME ShapeInv, CacheInv, NEW c \in Conns, StartSomewhere(c), Good(c)
  PROVE  CacheInv'
  <1>1. PICK thread \in Threads \ BusyThreads :
           \E at : call'[c] = Started(c, thread, at)
    BY StartFacts
  <1>2. PICK at : call'[c] = Started(c, thread, at)
    BY <1>1
  <1>3. subqueries' = Empty /\ call[c].pc = "start"
    BY StartFacts
  <1>4. call'[c].thread = thread /\ call'[c].got = <<>> /\ call'[c].pc = "eval"
    BY <1>2 DEF Started
  <1>5. \A d \in Conns \ {c} : call'[d] = call[d]
    BY DEF Good, Local, SameAt
  <1>6. DOMAIN subqueries' = {}
    BY <1>3 DEF Empty
  <1>7. ASSUME NEW d \in Conns \ {c}, Running(d) PROVE call[d].thread # thread
    BY <1>7 DEF BusyThreads
  <1>8. \A d, b \in Conns :
           Running(d)' /\ Running(b)' /\ call'[d].thread = call'[b].thread => d = b
    BY <1>4, <1>5, <1>7 DEF CacheInv, Running
  <1>9. ASSUME NEW d \in Conns \ {c} PROVE OwnEntries(d)' /\ OwnResults(d)'
    BY <1>5, <1>6, OwnKept DEF CacheInv
  <1>10. OwnEntries(c)' /\ OwnResults(c)'
    <2>1. DOMAIN <<>> = {}
      OBVIOUS
    <2> QED BY <1>4, <1>6, <2>1 DEF OwnEntries, OwnResults
  <1> QED BY <1>8, <1>9, <1>10 DEF CacheInv

\* A running statement finds its own results in the shared cache.
LEMMA CacheStep ==
  ASSUME ShapeInv, CacheInv, NEW c \in Conns, Step(c), Good(c)
  PROVE  CacheInv'
  <1>1. \A d \in Conns \ {c} : call'[d] = call[d]
    BY DEF Good, Local, SameAt
  <1>2. ASSUME ~Running(c)', subqueries' = subqueries PROVE CacheInv'
    <2>1. OwnEntries(c)' /\ OwnResults(c)'
      BY <1>2, OwnIdle
    <2>2. ASSUME NEW d \in Conns \ {c} PROVE OwnEntries(d)' /\ OwnResults(d)'
      BY <1>1, <1>2, OwnKept DEF CacheInv
    <2>3. \A d, b \in Conns :
            Running(d)' /\ Running(b)' /\ call'[d].thread = call'[b].thread => d = b
      BY <1>1, <1>2 DEF CacheInv, Running
    <2> QED BY <2>1, <2>2, <2>3 DEF CacheInv
  <1>3. CASE ~StartSomewhere(c) /\ ~Eval(c) /\ ~Finish(c)
    BY <1>2, <1>3, QuietStep
  <1>4. CASE Finish(c)
    <2>1. subqueries' = subqueries /\ \E cmd, ok, value : Reply(c, cmd, ok, value)
      BY <1>4, FinishFacts
    <2>2. call'[c] = Idle
      BY <2>1, ReplyFacts
    <2>3. ~Running(c)'
      BY <2>2 DEF Running, Idle
    <2> QED BY <1>2, <2>1, <2>3
  <1> QED BY <1>3, <1>4, CacheEval, CacheStart

---------------------------------------------------------------------------
(* The theorems *)

FullInv == IInv /\ CacheInv

\* Before the first command everything is in shape.
LEMMA InitInv ==
  ASSUME Init
  PROVE  FullInv
  <1>1. IsSeq(<<>>) /\ Len(<<>>) = 0 /\ DOMAIN <<>> = {}
    <2>1. <<>> \in Seq({})
      OBVIOUS
    <2> QED BY <2>1 DEF IsSeq
  <1>2. DOMAIN Empty = {} /\ Empty = [i \in DOMAIN Empty |-> Empty[i]]
    BY DEF Empty
  <1>3. PlanCapacity \in Nat /\ IdLimit \in Nat /\ IdLimit > 1
    BY ServerAssumption
  <1>4. script \in [Conns -> Seq(SUBSET Commands)]
    BY ServerAssumption DEF Init
  <1>5. ASSUME NEW c \in Conns
        PROVE  /\ conn[c] = "greeted" /\ script[c] \in Seq(SUBSET Commands) /\ log[c] = <<>>
               /\ call[c] = Idle /\ txn[c] = NoTxn /\ statements[c] = Empty /\ nextId[c] = 1
               /\ named[c] = Empty
    BY <1>4 DEF Init
  <1>6. ShapeInv
    <2>1. /\ IsFcn(conn) /\ IsFcn(script) /\ IsFcn(log) /\ IsFcn(call) /\ IsFcn(txn)
          /\ IsFcn(statements) /\ IsFcn(nextId) /\ IsFcn(named)
      BY <1>4 DEF Init, IsFcn
    <2>2. ASSUME NEW c \in Conns PROVE ConnInv(c)
      BY <1>1, <1>2, <1>3, <1>5 DEF ConnInv, CallInv, TxnInv
    <2> QED BY <2>1, <2>2 DEF ShapeInv
  <1>7. PlanInv /\ LockInv
    BY <1>1, <1>3 DEF Init, PlanInv, LockInv
  <1>8. ASSUME NEW c \in Conns PROVE FlagInv(c) /\ IdInv(c) /\ ~Running(c)
    <2>1. ~txn[c].active /\ call[c].pc = "idle" /\ log[c] = <<>>
      BY <1>5 DEF NoTxn, Idle
    <2>2. FlagInv(c)
      BY <1>1, <2>1 DEF FlagInv
    <2>3. IdInv(c)
      BY <1>1, <2>1 DEF IdInv, PreparedAt
    <2> QED BY <2>1, <2>2, <2>3 DEF Running
  <1>9. CacheInv
    BY <1>8 DEF CacheInv, OwnEntries, OwnResults
  <1> QED BY <1>6, <1>7, <1>8, <1>9 DEF FullInv, IInv

\* A connection that does not move has been told the same.
LEMMA Unmoved ==
  ASSUME ShapeInv, NEW d \in Conns, FlagInv(d), IdInv(d),
         conn'[d] = conn[d], log'[d] = log[d], txn'[d] = txn[d],
         statements'[d] = statements[d], nextId'[d] = nextId[d]
  PROVE  FlagInv(d)' /\ IdInv(d)'
  <1>1. FlagEffect(d)
    BY DEF FlagEffect
  <1>2. IdEffect(d)
    BY DEF IdEffect, SameTexts
  <1> QED BY <1>1, <1>2, FlagStep, IdStep

\* Every step keeps the invariant.
LEMMA NextInv ==
  ASSUME FullInv, [Next]_vars
  PROVE  FullInv'
  <1>1. ShapeInv /\ PlanInv /\ LockInv /\ CacheInv /\ \A d \in Conns : FlagInv(d) /\ IdInv(d)
    BY DEF FullInv, IInv
  <1>2. CASE Next
    <2>1. PICK c \in Conns : Step(c)
      BY <1>1, <1>2, StepCases
    <2>2. Good(c)
      BY <1>1, <2>1, StepGood
    <2>3. ShapeInv'
      BY <1>1, <2>2, ShapeStep
    <2>4. PlanInv'
      BY <1>1, <2>1, PlanStep
    <2>5. LockInv'
      BY <1>1, <2>1, <2>2, LockStep
    <2>6. CacheInv'
      BY <1>1, <2>1, <2>2, CacheStep
    <2>7. FlagEffect(c) /\ IdEffect(c) /\ Local(c)
      BY <2>2 DEF Good
    <2>8. FlagInv(c)' /\ IdInv(c)'
      BY <1>1, <2>7, FlagStep, IdStep
    <2>9. ASSUME NEW d \in Conns \ {c} PROVE FlagInv(d)' /\ IdInv(d)'
      <3>1. /\ conn'[d] = conn[d] /\ log'[d] = log[d] /\ txn'[d] = txn[d]
            /\ statements'[d] = statements[d] /\ nextId'[d] = nextId[d]
        BY <2>7 DEF Local, SameAt
      <3> QED BY <1>1, <3>1, Unmoved
    <2> QED BY <2>3, <2>4, <2>5, <2>6, <2>8, <2>9 DEF FullInv, IInv
  <1>3. CASE UNCHANGED vars
    <2>1. /\ UNCHANGED <<conn, script, log, call, txn, statements, nextId, named>>
          /\ UNCHANGED <<lock, plans, subqueries>>
      BY <1>3 DEF vars
    <2>2. ShapeInv' /\ PlanInv' /\ LockInv'
      BY <1>1, <2>1 DEF ShapeInv, ConnInv, PlanInv, LockInv, Running
    <2>3. ASSUME NEW d \in Conns PROVE FlagInv(d)' /\ IdInv(d)'
      BY <1>1, <2>1, Unmoved
    <2>4. CacheInv'
      <3>1. ASSUME NEW d \in Conns PROVE OwnEntries(d)' /\ OwnResults(d)'
        BY <1>1, <2>1, OwnKept DEF CacheInv
      <3>2. \A d, b \in Conns :
              Running(d)' /\ Running(b)' /\ call'[d].thread = call'[b].thread => d = b
        BY <1>1, <2>1 DEF CacheInv, Running
      <3> QED BY <3>1, <3>2 DEF CacheInv
    <2> QED BY <2>2, <2>3, <2>4 DEF FullInv, IInv
  <1> QED BY <1>2, <1>3

\* The invariant holds in every reachable state.
LEMMA Invariance == Spec => []FullInv
  <1>1. Init => FullInv
    BY InitInv
  <1>2. FullInv /\ [Next]_vars => FullInv'
    BY NextInv
  <1> QED BY <1>1, <1>2, PTL DEF Spec

\* The type invariant: the plan cache never exceeds its capacity nor holds two
\* entries of a text, and the catalog's lock is held by a statement that runs
\* outside a transaction.
THEOREM TypeCorrect == Spec => []TypeOK
  <1>1. FullInv => TypeOK
    <2> SUFFICES ASSUME FullInv PROVE TypeOK
      OBVIOUS
    <2>1. ShapeInv /\ PlanInv /\ LockInv
      BY DEF FullInv, IInv
    <2>2. conn \in [Conns -> {"greeted", "open", "closed"}]
      <3>1. conn = [c \in Conns |-> conn[c]] /\ \A c \in Conns : conn[c] \in {"greeted", "open", "closed"}
        BY <2>1, ConnParts DEF ShapeInv, IsFcn
      <3> QED BY <3>1
    <2>3. \A c \in Conns : nextId[c] \in 1..(IdLimit - 1)
      BY <2>1, ConnParts
    <2> QED BY <2>1, <2>2, <2>3 DEF TypeOK, PlanInv, LockInv
  <1> QED BY <1>1, Invariance, PTL

\* SERVER_STATUS_IN_TRANS in the last answer to COM_QUERY or COM_STMT_EXECUTE
\* that has flags is true of the session until its next command, but for a
\* COMMIT that failed since.
THEOREM TransactionFlagIsTrueHolds == Spec => []TransactionFlagIsTrue
  <1>1. FullInv => TransactionFlagIsTrue
    <2> SUFFICES ASSUME FullInv, NEW c \in Conns, conn[c] = "open"
                 PROVE  LET last == Max(Flagged(c) \cup {0})
                        IN IF last = 0 \/ log[c][last].flag = "out" THEN ~txn[c].active
                           ELSE \/ txn[c].active
                                \/ \E i \in DOMAIN log[c] : i > last /\ FailedCommit(log[c][i])
      BY DEF TransactionFlagIsTrue
    <2>1. ShapeInv /\ FlagInv(c)
      BY DEF FullInv, IInv
    <2>2. PICK m \in {0} \cup DOMAIN log[c] :
            /\ m # 0 => Tells(log[c][m])
            /\ \A i \in DOMAIN log[c] : i > m => ~Tells(log[c][i])
            /\ IF m = 0 \/ log[c][m].flag = "out" THEN ~txn[c].active
               ELSE \/ txn[c].active
                    \/ \E i \in DOMAIN log[c] : i > m /\ FailedCommit(log[c][i])
      BY <2>1 DEF FlagInv
    <2>3. IsSeq(log[c])
      BY <2>1, ConnParts
    <2>4. Len(log[c]) \in Nat /\ DOMAIN log[c] = 1..Len(log[c])
      BY <2>3, AppendFacts
    <2> DEFINE S == Flagged(c) \cup {0}
    <2>5. S \subseteq Nat /\ m \in S /\ \A y \in S : m >= y
      BY <2>2, <2>4 DEF Flagged
    <2>6. Max(S) = CHOOSE x \in S : \A y \in S : x >= y
      BY DEF Max
    <2> HIDE DEF S
    <2>7. Max(S) \in S /\ \A y \in S : Max(S) >= y
      BY <2>5, <2>6
    <2>8. Max(S) = m
      <3>1. Max(S) >= m /\ m >= Max(S) /\ Max(S) \in Nat /\ m \in Nat
        BY <2>5, <2>7
      <3> QED BY <3>1
    <2> QED BY <2>2, <2>8 DEF S
  <1> QED BY <1>1, Invariance, PTL

\* However prepares and closes alternate, an id the client was given names the
\* statement it was given for, until it closes it or ids have gone round.
THEOREM StatementIdsResolveHolds == Spec => []StatementIdsResolve
  <1>1. FullInv => StatementIdsResolve
    <2> SUFFICES ASSUME FullInv, NEW c \in Conns, conn[c] = "open", NEW i \in PreparedAt(c)
                 PROVE  LET id == log[c][i].value.id
                        IN \/ Closed(c, i)
                           \/ Cardinality(Later(c, i)) >= IdLimit - 1
                           \/ id \in DOMAIN statements[c] /\ statements[c][id].text = log[c][i].cmd.text
      BY DEF StatementIdsResolve, Closed, Later
    <2>1. ShapeInv /\ IdInv(c)
      BY DEF FullInv, IInv
    <2>2. Cardinality(Later(c, i)) \in Nat /\ IdLimit \in Nat
      BY <2>1, LaterFinite, ServerAssumption
    <2>3. ~(Cardinality(Later(c, i)) < IdLimit - 1) => Cardinality(Later(c, i)) >= IdLimit - 1
      BY <2>2
    <2> QED BY <2>1, <2>3 DEF IdInv
  <1> QED BY <1>1, Invariance, PTL

\* When a statement has at most one subquery that is evaluated from a temporary
\* copy, all subqueries of all statements get their own results from the cache
\* that all sessions share and clear.
THEOREM SubqueryIsOwnHolds ==
  ASSUME OneTemporary
  PROVE  Spec => []SubqueryIsOwn
  <1>1. FullInv => SubqueryIsOwn
    BY DEF FullInv, CacheInv, OwnResults, SubqueryIsOwn
  <1> QED BY <1>1, Invariance, PTL

\* A subquery whose tree lives as long as its statement gets its own result.
KeptSubqueryIsOwn ==
  \A c \in Conns : Running(c) => \A i \in DOMAIN call[c].got \cap Kept(c) :
    call[c].got[i] = [query |-> Sites(c)[i].query, data |-> call[c].work.data]

\* Without that hypothesis the subqueries in temporary copies are the only ones
\* that can get the result of another: the pointers of all others identify them
\* as long as the entry can be found.
THEOREM KeptSubqueryIsOwnHolds == Spec => []KeptSubqueryIsOwn
  <1>1. FullInv => KeptSubqueryIsOwn
    BY DEF FullInv, CacheInv, OwnResults, KeptSubqueryIsOwn
  <1> QED BY <1>1, Invariance, PTL

---------------------------------------------------------------------------
(* Long data: what a log says of one parameter of one statement *)

\* Entry j sends a chunk for the parameter, leaves none behind, or is an
\* execution that did not get as far as running.
Sends(L, id, p, j) ==
  L[j].cmd.kind = "longData" /\ L[j].cmd.id = id /\ L[j].cmd.param = p

Drops(L, id, p, j) ==
  \/ L[j].cmd.kind = "stmtPrepare" /\ L[j].ok /\ L[j].value.id = id
  \/ L[j].cmd.kind \in {"stmtReset", "stmtClose"} /\ L[j].cmd.id = id
  \/ /\ L[j].cmd.kind = "stmtExecute" /\ L[j].cmd.id = id
     /\ L[j].value.ran /\ p \notin L[j].cmd.nulls

Fails(L, id, j) ==
  L[j].cmd.kind = "stmtExecute" /\ L[j].cmd.id = id /\ ~L[j].value.ran

SentIn(L, id, p, m, n) == {j \in (m + 1)..n : Sends(L, id, p, j)}

Spelt(L, K) == [i \in DOMAIN At(L, K) |-> At(L, K)[i].cmd.chunk]

\* m is the last entry up to n that drops the data, or 0.
LastDrop(L, id, p, n, m) ==
  /\ m \in 0..n
  /\ m # 0 => Drops(L, id, p, m)
  /\ \A j \in (m + 1)..n : ~Drops(L, id, p, j)

\* x is the data the first n entries leave, or what failed executions have
\* left of it.
Fits(L, id, p, n, x) ==
  \E m : /\ LastDrop(L, id, p, n, m)
         /\ LET all == Spelt(L, SentIn(L, id, p, m, n))
            IN \/ x = all
               \/ (\E j \in (m + 1)..n : Fails(L, id, j)) /\ IsSuffix(x, all)

\* Positions in some log.
Placed(K) == \E n \in Nat : K \subseteq 1..n

\* What is spelt is a sequence, one chunk for each position.
LEMMA SpeltFacts ==
  ASSUME NEW L, NEW K, Placed(K)
  PROVE  /\ IsSeq(Spelt(L, K)) /\ Len(Spelt(L, K)) = Cardinality(K) /\ Cardinality(K) \in Nat
         /\ \A i \in 1..Cardinality(K) : Spelt(L, K)[i] = At(L, K)[i].cmd.chunk
  <1>0. PICK N \in Nat : K \subseteq 1..N
    BY DEF Placed
  <1>1. Cardinality(K) \in Nat /\ DOMAIN At(L, K) = 1..Cardinality(K)
    BY <1>0, AtFacts
  <1> DEFINE f == Spelt(L, K)
  <1>2. f = [i \in 1..Cardinality(K) |-> At(L, K)[i].cmd.chunk]
    BY <1>1 DEF Spelt
  <1> HIDE DEF f
  <1>3. f = [i \in 1..Cardinality(K) |-> f[i]]
    BY <1>2
  <1>4. IsSeq(f) /\ Len(f) = Cardinality(K)
    BY <1>1, <1>3, FunctionIsSeq
  <1> QED BY <1>1, <1>2, <1>4 DEF f

\* Logs that agree on the positions spell the same.
LEMMA SpeltSame ==
  ASSUME NEW L, NEW M, NEW K, Placed(K), \A k \in K : L[k] = M[k]
  PROVE  Spelt(L, K) = Spelt(M, K)
  <1>0. PICK N \in Nat : K \subseteq 1..N
    BY DEF Placed
  <1>1. At(L, K) = At(M, K)
    BY <1>0, AtSame
  <1> QED BY <1>1 DEF Spelt

\* One chunk more, at the end.
LEMMA SpeltExtend ==
  ASSUME NEW L, NEW M, NEW K, NEW n, Extends(M, K, n)
  PROVE  Spelt(L, M) = Append(Spelt(L, K), L[n].cmd.chunk)
  <1> DEFINE s == Spelt(L, K)
             t == Spelt(L, M)
             a == At(L, K)
             e == L[n]
  <1>1. n - 1 \in Nat /\ K \subseteq 1..(n - 1)
    BY DEF Extends
  <1>2. IsSeq(a)
    <2> DEFINE m == n - 1
    <2>1. m \in Nat /\ K \subseteq 1..m
      BY <1>1
    <2> HIDE DEF m
    <2> QED BY <2>1, AtFacts
  <1>3. At(L, M) = Append(a, e)
    BY AtExtend
  <1> HIDE DEF a, e
  <1>4. /\ Len(a) \in Nat /\ DOMAIN a = 1..Len(a) /\ DOMAIN Append(a, e) = 1..(Len(a) + 1)
        /\ \A i \in 1..Len(a) : Append(a, e)[i] = a[i]
        /\ Append(a, e)[Len(a) + 1] = e
    BY <1>2, AppendFacts
  <1>5. s = [i \in 1..Len(a) |-> a[i].cmd.chunk]
    BY <1>4 DEF Spelt, a
  <1>6. t = [i \in 1..(Len(a) + 1) |-> Append(a, e)[i].cmd.chunk]
    BY <1>3, <1>4 DEF Spelt
  <1> HIDE DEF s, t
  <1>7. s = [i \in 1..Len(a) |-> s[i]] /\ t = [i \in 1..(Len(a) + 1) |-> t[i]]
    BY <1>5, <1>6
  <1>8. IsSeq(s) /\ Len(s) = Len(a) /\ Len(a) + 1 \in Nat
    BY <1>4, <1>7, FunctionIsSeq
  <1> DEFINE c == e.cmd.chunk
             u == Append(s, c)
  <1>9. /\ IsSeq(u) /\ Len(u) = Len(a) + 1 /\ u[Len(a) + 1] = c
        /\ \A i \in 1..Len(a) : u[i] = s[i]
    BY <1>8, AppendFacts
  <1> HIDE DEF u
  <1>10. ASSUME NEW i \in 1..(Len(a) + 1) PROVE t[i] = u[i]
    <2>1. CASE i \in 1..Len(a)
      BY <1>4, <1>5, <1>6, <1>9, <2>1
    <2>2. CASE i = Len(a) + 1
      BY <1>4, <1>6, <1>9, <2>2
    <2> QED BY <1>4, <2>1, <2>2
  <1>11. u = [i \in 1..(Len(a) + 1) |-> u[i]]
    BY <1>9, SeqIsFunction
  <1>12. t = u
    BY <1>7, <1>10, <1>11
  <1> QED BY <1>12 DEF s, t, u, e

\* The empty sequence ends every sequence; a suffix stays one when both grow.
LEMMA SuffixGrows ==
  ASSUME NEW t, IsSeq(t)
  PROVE  /\ IsSuffix(<<>>, t)
         /\ \A s, e : IsSeq(s) /\ IsSuffix(s, t) => IsSuffix(Append(s, e), Append(t, e))
  <1>1. IsSeq(<<>>) /\ Len(<<>>) = 0 /\ Len(t) \in Nat
    <2>1. <<>> \in Seq({})
      OBVIOUS
    <2> QED BY <2>1, SeqIsFunction DEF IsSeq
  <1>2. IsSuffix(<<>>, t)
    <2>1. Len(<<>>) <= Len(t) /\ \A i \in 1..Len(<<>>) : <<>>[i] = t[Len(t) - Len(<<>>) + i]
      BY <1>1
    <2> QED BY <1>1, <2>1, SuffixFacts
  <1>3. ASSUME NEW s, NEW e, IsSeq(s), IsSuffix(s, t)
        PROVE  IsSuffix(Append(s, e), Append(t, e))
    <2> DEFINE x == Append(s, e)
               y == Append(t, e)
    <2>1. /\ Len(s) \in Nat /\ Len(s) <= Len(t)
          /\ \A i \in 1..Len(s) : s[i] = t[Len(t) - Len(s) + i]
      BY <1>3, SuffixFacts, SeqIsFunction
    <2>2. /\ IsSeq(x) /\ Len(x) = Len(s) + 1 /\ x[Len(s) + 1] = e
          /\ \A i \in 1..Len(s) : x[i] = s[i]
      BY <1>3, AppendFacts
    <2>3. /\ IsSeq(y) /\ Len(y) = Len(t) + 1 /\ y[Len(t) + 1] = e
          /\ \A i \in 1..Len(t) : y[i] = t[i]
      BY AppendFacts
    <2> HIDE DEF x, y
    <2>4. ASSUME NEW i \in 1..Len(x) PROVE x[i] = y[Len(y) - Len(x) + i]
      <3>1. Len(y) - Len(x) = Len(t) - Len(s)
        BY <1>1, <2>1, <2>2, <2>3
      <3>2. CASE i \in 1..Len(s)
        <4>1. Len(t) - Len(s) + i \in 1..Len(t)
          BY <1>1, <2>1, <3>2
        <4> QED BY <2>1, <2>2, <2>3, <3>1, <3>2, <4>1
      <3>3. CASE i = Len(s) + 1
        <4>1. Len(t) - Len(s) + i = Len(t) + 1
          BY <1>1, <2>1, <3>3
        <4> QED BY <2>2, <2>3, <3>1, <3>3, <4>1
      <3> QED BY <2>1, <2>2, <3>2, <3>3
    <2>5. Len(x) <= Len(y)
      BY <1>1, <2>1, <2>2, <2>3
    <2>6. IsSuffix(x, y)
      BY <2>2, <2>3, <2>4, <2>5, SuffixFacts
    <2> QED BY <2>6 DEF x, y
  <1> QED BY <1>2, <1>3


\* The chunks between two entries of a log.
LEMMA SentPlaced ==
  ASSUME NEW L, NEW id, NEW p, NEW n \in Nat, NEW m \in 0..n
  PROVE  SentIn(L, id, p, m, n) \subseteq 1..n /\ Placed(SentIn(L, id, p, m, n))
  <1>1. SentIn(L, id, p, m, n) \subseteq 1..n
    BY DEF SentIn
  <1> QED BY <1>1 DEF Placed

\* A log that goes on says the same of its first entries.
LEMMA FitsSame ==
  ASSUME NEW L, NEW M, NEW n \in Nat, \A j \in 1..n : M[j] = L[j],
         NEW id, NEW p, NEW x, Fits(L, id, p, n, x)
  PROVE  Fits(M, id, p, n, x)
  <1> DEFINE all(G, m) == Spelt(G, SentIn(G, id, p, m, n))
  <1>1. PICK m : /\ LastDrop(L, id, p, n, m)
                 /\ \/ x = all(L, m)
                    \/ (\E j \in (m + 1)..n : Fails(L, id, j)) /\ IsSuffix(x, all(L, m))
    BY DEF Fits
  <1>2. m \in 0..n
    BY <1>1 DEF LastDrop
  <1>3. \A j \in (m + 1)..n : j \in 1..n
    BY <1>2
  <1>4. LastDrop(M, id, p, n, m)
    <2>1. m # 0 => m \in 1..n
      BY <1>2
    <2> QED BY <1>1, <1>3, <2>1 DEF LastDrop, Drops
  <1>5. SentIn(M, id, p, m, n) = SentIn(L, id, p, m, n)
    BY <1>3 DEF SentIn, Sends
  <1>6. all(M, m) = all(L, m)
    <2> DEFINE K == SentIn(L, id, p, m, n)
    <2>1. K \subseteq 1..n /\ Placed(K)
      BY <1>2, SentPlaced
    <2> HIDE DEF K
    <2>2. \A k \in K : M[k] = L[k]
      BY <2>1
    <2>3. Spelt(M, K) = Spelt(L, K)
      BY <2>1, <2>2, SpeltSame
    <2> QED BY <1>5, <2>3 DEF K
  <1>7. (\E j \in (m + 1)..n : Fails(L, id, j)) => \E j \in (m + 1)..n : Fails(M, id, j)
    BY <1>3 DEF Fails
  <1> HIDE DEF all
  <1>8. \/ x = all(M, m)
        \/ (\E j \in (m + 1)..n : Fails(M, id, j)) /\ IsSuffix(x, all(M, m))
    BY <1>1, <1>6, <1>7
  <1> QED BY <1>4, <1>8 DEF Fits, all

\* An entry that drops the data leaves nothing.
LEMMA FitsDrop ==
  ASSUME NEW L, NEW id, NEW p, NEW n \in Nat \ {0}, Drops(L, id, p, n)
  PROVE  Fits(L, id, p, n, <<>>)
  <1>1. LastDrop(L, id, p, n, n)
    BY DEF LastDrop
  <1>2. SentIn(L, id, p, n, n) = {}
    BY DEF SentIn
  <1>3. Spelt(L, {}) = <<>>
    <2>1. At(L, {}) = <<>>
      BY AtNone
    <2>2. DOMAIN <<>> = {}
      OBVIOUS
    <2>3. Spelt(L, {}) = [i \in {} |-> At(L, {})[i].cmd.chunk]
      BY <2>1, <2>2 DEF Spelt
    <2> QED BY <2>3
  <1>4. <<>> = Spelt(L, SentIn(L, id, p, n, n))
    BY <1>2, <1>3
  <1> QED BY <1>1, <1>4 DEF Fits

\* Other entries leave the data alone, which a failed execution may have
\* taken, and a chunk is appended.
LEMMA FitsNext ==
  ASSUME NEW L, NEW id, NEW p, NEW n \in Nat, NEW x, IsSeq(x), Fits(L, id, p, n, x),
         ~Drops(L, id, p, n + 1)
  PROVE  /\ Sends(L, id, p, n + 1) => Fits(L, id, p, n + 1, Append(x, L[n + 1].cmd.chunk))
         /\ ~Sends(L, id, p, n + 1) => Fits(L, id, p, n + 1, x)
         /\ ~Sends(L, id, p, n + 1) /\ Fails(L, id, n + 1) => Fits(L, id, p, n + 1, <<>>)
  <1> DEFINE K(m) == SentIn(L, id, p, m, n)
             M(m) == SentIn(L, id, p, m, n + 1)
  <1>1. PICK m : /\ LastDrop(L, id, p, n, m)
                 /\ \/ x = Spelt(L, K(m))
                    \/ /\ \E j \in (m + 1)..n : Fails(L, id, j)
                       /\ IsSuffix(x, Spelt(L, K(m)))
    BY DEF Fits
  <1>2. m \in 0..n /\ m \in 0..(n + 1)
    BY <1>1 DEF LastDrop
  <1>3. (m + 1)..(n + 1) = ((m + 1)..n) \cup {n + 1}
    BY <1>2
  <1>4. LastDrop(L, id, p, n + 1, m)
    BY <1>1, <1>2, <1>3 DEF LastDrop
  <1>5. Placed(K(m)) /\ K(m) \subseteq 1..n
    BY <1>2, SentPlaced
  <1>6. IsSeq(Spelt(L, K(m)))
    <2> HIDE DEF K
    <2> QED BY <1>5, SpeltFacts
  <1>7. ASSUME Sends(L, id, p, n + 1)
        PROVE  Fits(L, id, p, n + 1, Append(x, L[n + 1].cmd.chunk))
    <2> DEFINE c == L[n + 1].cmd.chunk
               s == Spelt(L, K(m))
    <2>1. M(m) = K(m) \cup {n + 1}
      BY <1>3, <1>7 DEF SentIn
    <2>2. Extends(M(m), K(m), n + 1)
      <3>1. n + 1 \in Nat \ {0} /\ n + 1 - 1 = n
        OBVIOUS
      <3> HIDE DEF K, M
      <3> QED BY <1>5, <2>1, <3>1 DEF Extends
    <2>3. Spelt(L, M(m)) = Append(s, c)
      <3> DEFINE k == n + 1
      <3>1. Extends(M(m), K(m), k)
        BY <2>2
      <3> HIDE DEF K, M, k
      <3>2. Spelt(L, M(m)) = Append(Spelt(L, K(m)), L[k].cmd.chunk)
        BY <3>1, SpeltExtend
      <3> QED BY <3>2 DEF k
    <2>4. IsSeq(s) /\ (x = s \/ IsSuffix(x, s))
      BY <1>1, <1>6
    <2> HIDE DEF K, M, c, s
    <2>5. IsSuffix(x, s) => IsSuffix(Append(x, c), Append(s, c))
      BY <2>4, SuffixGrows
    <2>6. \/ Append(x, c) = Spelt(L, M(m))
          \/ /\ \E j \in (m + 1)..(n + 1) : Fails(L, id, j)
             /\ IsSuffix(Append(x, c), Spelt(L, M(m)))
      BY <1>1, <1>3, <2>3, <2>5 DEF s
    <2> QED BY <1>4, <2>6 DEF Fits, M, c
  <1>8. ASSUME ~Sends(L, id, p, n + 1) PROVE M(m) = K(m)
    BY <1>3, <1>8 DEF SentIn
  <1>9. ASSUME ~Sends(L, id, p, n + 1) PROVE Fits(L, id, p, n + 1, x)
    <2>1. M(m) = K(m)
      BY <1>8, <1>9
    <2> HIDE DEF K, M
    <2>2. \/ x = Spelt(L, M(m))
          \/ /\ \E j \in (m + 1)..(n + 1) : Fails(L, id, j)
             /\ IsSuffix(x, Spelt(L, M(m)))
      BY <1>1, <1>3, <2>1
    <2> QED BY <1>4, <2>2 DEF Fits, M
  <1>10. ASSUME ~Sends(L, id, p, n + 1), Fails(L, id, n + 1)
         PROVE  Fits(L, id, p, n + 1, <<>>)
    <2>1. M(m) = K(m)
      BY <1>8, <1>10
    <2> HIDE DEF K, M
    <2>2. IsSuffix(<<>>, Spelt(L, M(m)))
      BY <1>6, <2>1, SuffixGrows
    <2>3. \E j \in (m + 1)..(n + 1) : Fails(L, id, j)
      BY <1>3, <1>10
    <2> QED BY <1>4, <2>2, <2>3 DEF Fits, M
  <1> QED BY <1>7, <1>9, <1>10


---------------------------------------------------------------------------
(* Long data: the invariant *)

\* COM_STMT_EXECUTE has taken the data of its parameters and has not replied.
Pending(c) == call[c] # Idle /\ call[c].cmd.kind = "stmtExecute"

Takes(c, id, p) == Pending(c) /\ call[c].cmd.id = id /\ p \notin call[c].cmd.nulls

LongOf(stmt, p) == IF p \in DOMAIN stmt.long THEN stmt.long[p] ELSE <<>>

BoundLong(value) == IF value = <<"inline">> THEN <<>> ELSE value

\* The data of a parameter, in the statement or in the call that executes it.
Held(c, id, p) ==
  IF Takes(c, id, p) THEN BoundLong(call[c].parameters[p]) ELSE LongOf(statements[c][id], p)

LongTyped(c) ==
  \A id \in DOMAIN statements[c] : \A p \in DOMAIN statements[c][id].long :
    statements[c][id].long[p] \in Seq({"head", "tail"})

HeldInv(c) ==
  conn[c] # "closed" =>
    /\ LongTyped(c)
    /\ Pending(c) =>
         /\ call[c].cmd.id \in DOMAIN statements[c]
         /\ DOMAIN call[c].parameters = 1..statements[c][call[c].cmd.id].parameters
    /\ \A id \in DOMAIN statements[c] : \A p \in 1..statements[c][id].parameters :
         /\ Takes(c, id, p) => LongOf(statements[c][id], p) = <<>>
         /\ IsSeq(Held(c, id, p)) /\ Fits(log[c], id, p, Len(log[c]), Held(c, id, p))

\* Every execution that ran was given what the log before it leaves.
Bindings(L, i) ==
  L[i].cmd.kind = "stmtExecute" /\ L[i].value.ran =>
    \A p \in DOMAIN L[i].value.bound : p \notin L[i].cmd.nulls =>
      Fits(L, L[i].cmd.id, p, i - 1, BoundLong(L[i].value.bound[p]))

PastInv(c) == \A i \in DOMAIN log[c] : Bindings(log[c], i)

---------------------------------------------------------------------------
(* Long data: what a step does *)

Quiet(c) ==
  /\ log'[c] = log[c] /\ statements'[c] = statements[c]
  /\ \/ ~Pending(c) /\ ~Pending(c)'
     \/ /\ Pending(c) /\ Pending(c)'
        /\ call'[c].cmd = call[c].cmd /\ call'[c].parameters = call[c].parameters

\* The entry that a step adds and the data after it.
Moves(c, id, p) ==
  LET L == log'[c]
      n == Len(log[c]) + 1
      x == LongOf(statements'[c][id], p)
      old == LongOf(statements[c][id], p)
  IN \/ Drops(L, id, p, n) /\ x = <<>>
     \/ /\ ~Drops(L, id, p, n)
        /\ id \in DOMAIN statements[c] /\ p \in 1..statements[c][id].parameters
        /\ \/ Sends(L, id, p, n) /\ x = Append(old, L[n].cmd.chunk)
           \/ ~Sends(L, id, p, n) /\ x = old
           \/ ~Sends(L, id, p, n) /\ Fails(L, id, n) /\ x = <<>>

Told(c) ==
  /\ ~Pending(c) /\ ~Pending(c)' /\ LongTyped(c)'
  /\ \E e : log'[c] = Append(log[c], e) /\ ~(e.cmd.kind = "stmtExecute" /\ e.value.ran)
  /\ \A id \in DOMAIN statements'[c] : \A p \in 1..statements'[c][id].parameters :
       Moves(c, id, p)

Ended(c) ==
  /\ Pending(c) /\ ~Pending(c)' /\ statements'[c] = statements[c]
  /\ \E e : /\ log'[c] = Append(log[c], e)
            /\ e.cmd = call[c].cmd /\ e.value \in {Nothing, Ran(call[c].parameters)}

\* The data of the parameters goes from the statement into the call.
Taken(c, id, p) ==
  LET x == LongOf(statements'[c][id], p)
      old == LongOf(statements[c][id], p)
  IN IF p \in call'[c].cmd.nulls THEN x = old
     ELSE x = <<>> /\ BoundLong(call'[c].parameters[p]) = old

BeginsRun(c) ==
  /\ ~Pending(c) /\ Pending(c)' /\ LongTyped(c)' /\ log'[c] = log[c]
  /\ DOMAIN statements'[c] = DOMAIN statements[c]
  /\ \A j \in DOMAIN statements[c] \ {call'[c].cmd.id} : statements'[c][j] = statements[c][j]
  /\ LET id == call'[c].cmd.id
     IN /\ id \in DOMAIN statements[c]
        /\ statements'[c][id].parameters = statements[c][id].parameters
        /\ DOMAIN call'[c].parameters = 1..statements[c][id].parameters
        /\ \A p \in 1..statements[c][id].parameters : Taken(c, id, p)

LongEffect(c) ==
  \/ conn'[c] = "closed" /\ log'[c] = log[c]
  \/ conn[c] # "closed" /\ (Quiet(c) \/ Told(c) \/ Ended(c) \/ BeginsRun(c))

\* The data that a statement keeps is a sequence.
LEMMA LongIsSeq ==
  ASSUME NEW c, LongTyped(c), NEW id \in DOMAIN statements[c], NEW p
  PROVE  LongOf(statements[c][id], p) \in Seq({"head", "tail"}) /\ IsSeq(LongOf(statements[c][id], p))
  <1>1. LongOf(statements[c][id], p) \in Seq({"head", "tail"})
    BY DEF LongTyped, LongOf
  <1> QED BY <1>1 DEF IsSeq

\* An entry more leaves what was said of the entries before.
LEMMA PastGrows ==
  ASSUME ShapeInv, NEW c \in Conns, PastInv(c), NEW e, log'[c] = Append(log[c], e)
  PROVE  /\ Len(log[c]) \in Nat /\ Len(log'[c]) = Len(log[c]) + 1
         /\ log'[c][Len(log[c]) + 1] = e
         /\ \A j \in 1..Len(log[c]) : log'[c][j] = log[c][j]
         /\ Bindings(log'[c], Len(log[c]) + 1) => PastInv(c)'
  <1> DEFINE L == log[c]
             M == log'[c]
             n == Len(L)
  <1>1. IsSeq(L)
    BY ConnParts
  <1>2. /\ n \in Nat /\ DOMAIN L = 1..n /\ Len(M) = n + 1 /\ DOMAIN M = 1..(n + 1)
        /\ \A j \in 1..n : M[j] = L[j]
        /\ M[n + 1] = e
    BY <1>1, AppendFacts
  <1> HIDE DEF L, M, n
  <1>3. ASSUME NEW i \in 1..n PROVE Bindings(M, i)
    <2>1. M[i] = L[i] /\ Bindings(L, i)
      BY <1>2 DEF PastInv, L
    <2>2. i - 1 \in Nat /\ \A j \in 1..(i - 1) : M[j] = L[j]
      BY <1>2
    <2>3. ASSUME NEW id, NEW p, NEW x, Fits(L, id, p, i - 1, x) PROVE Fits(M, id, p, i - 1, x)
      <3> DEFINE k == i - 1
      <3>1. k \in Nat /\ (\A j \in 1..k : M[j] = L[j]) /\ Fits(L, id, p, k, x)
        BY <2>2, <2>3
      <3> HIDE DEF k
      <3>2. Fits(M, id, p, k, x)
        BY <3>1, FitsSame
      <3> QED BY <3>2 DEF k
    <2> QED BY <2>1, <2>3 DEF Bindings
  <1>4. Bindings(M, n + 1) => \A i \in DOMAIN M : Bindings(M, i)
    <2>1. \A i \in DOMAIN M : i \in 1..n \/ i = n + 1
      BY <1>2
    <2> QED BY <1>3, <2>1
  <1> QED BY <1>2, <1>4 DEF PastInv, L, M, n

\* A step that changes neither the log nor the data.
LEMMA LongQuiet ==
  ASSUME NEW c \in Conns, HeldInv(c), PastInv(c), conn[c] # "closed", Quiet(c)
  PROVE  HeldInv(c)' /\ PastInv(c)'
  <1>1. log'[c] = log[c] /\ statements'[c] = statements[c]
    BY DEF Quiet
  <1>2. PastInv(c)'
    BY <1>1 DEF PastInv
  <1>3. LongTyped(c)'
    BY <1>1 DEF LongTyped, HeldInv
  <1>4. ASSUME NEW id, NEW p
        PROVE  Takes(c, id, p)' = Takes(c, id, p) /\ Held(c, id, p)' = Held(c, id, p)
    <2>1. CASE ~Pending(c) /\ ~Pending(c)'
      BY <1>1, <2>1 DEF Takes, Held
    <2>2. CASE /\ Pending(c) /\ Pending(c)'
               /\ call'[c].cmd = call[c].cmd /\ call'[c].parameters = call[c].parameters
      BY <1>1, <2>2 DEF Takes, Held
    <2> QED BY <2>1, <2>2 DEF Quiet
  <1>5. Pending(c)' => /\ call'[c].cmd.id \in DOMAIN statements'[c]
                       /\ DOMAIN call'[c].parameters = 1..statements'[c][call'[c].cmd.id].parameters
    BY <1>1 DEF Quiet, HeldInv
  <1> QED BY <1>1, <1>2, <1>3, <1>4, <1>5 DEF HeldInv

\* A reply to a command that executes nothing.
LEMMA LongTold ==
  ASSUME ShapeInv, NEW c \in Conns, HeldInv(c), PastInv(c), conn[c] # "closed", Told(c)
  PROVE  HeldInv(c)' /\ PastInv(c)'
  <1> DEFINE L == log[c]
             M == log'[c]
             n == Len(L)
             new(id, p) == LongOf(statements'[c][id], p)
             old(id, p) == LongOf(statements[c][id], p)
  <1>0. ~Pending(c) /\ ~Pending(c)' /\ LongTyped(c)' /\ LongTyped(c)
    BY DEF Told, HeldInv
  <1>1. PICK e : M = Append(L, e) /\ ~(e.cmd.kind = "stmtExecute" /\ e.value.ran)
    BY DEF Told
  <1>2. /\ n \in Nat /\ Len(M) = n + 1 /\ M[n + 1] = e
        /\ \A j \in 1..n : M[j] = L[j]
        /\ Bindings(M, n + 1) => PastInv(c)'
    BY <1>1, PastGrows
  <1>3. PastInv(c)'
    BY <1>1, <1>2 DEF Bindings
  <1>4. ASSUME NEW id \in DOMAIN statements'[c], NEW p \in 1..statements'[c][id].parameters
        PROVE  IsSeq(new(id, p)) /\ Fits(M, id, p, n + 1, new(id, p))
    <2>1. Moves(c, id, p)
      BY DEF Told
    <2>2. IsSeq(new(id, p))
      BY <1>0 DEF LongTyped, LongOf, IsSeq
    <2> DEFINE k == n + 1
               x == new(id, p)
               y == old(id, p)
    <2>3. \/ Drops(M, id, p, k) /\ x = <<>>
          \/ /\ ~Drops(M, id, p, k)
             /\ id \in DOMAIN statements[c] /\ p \in 1..statements[c][id].parameters
             /\ \/ Sends(M, id, p, k) /\ x = Append(y, M[k].cmd.chunk)
                \/ ~Sends(M, id, p, k) /\ x = y
                \/ ~Sends(M, id, p, k) /\ Fails(M, id, k) /\ x = <<>>
      BY <2>1 DEF Moves
    <2>4. CASE Drops(M, id, p, k) /\ x = <<>>
      <3>1. k \in Nat \ {0}
        BY <1>2
      <3> HIDE DEF M, k, x
      <3>2. Fits(M, id, p, k, x)
        BY <2>4, <3>1, FitsDrop
      <3> QED BY <2>2, <3>2 DEF k, x
    <2>5. CASE /\ ~Drops(M, id, p, k)
               /\ id \in DOMAIN statements[c] /\ p \in 1..statements[c][id].parameters
      <3>1. Held(c, id, p) = y
        BY <1>0 DEF Held, Takes
      <3>2. IsSeq(y) /\ Fits(L, id, p, n, y)
        BY <2>5, <3>1 DEF HeldInv
      <3> HIDE DEF L, M, n, x, y
      <3>3. Fits(M, id, p, n, y)
        BY <1>2, <3>2, FitsSame
      <3>4. /\ Sends(M, id, p, n + 1) => Fits(M, id, p, n + 1, Append(y, M[n + 1].cmd.chunk))
            /\ ~Sends(M, id, p, n + 1) => Fits(M, id, p, n + 1, y)
            /\ ~Sends(M, id, p, n + 1) /\ Fails(M, id, n + 1) => Fits(M, id, p, n + 1, <<>>)
        BY <1>2, <2>5, <3>2, <3>3, FitsNext
      <3>5. Fits(M, id, p, n + 1, x)
        BY <2>3, <2>5, <3>4
      <3> QED BY <2>2, <3>5 DEF x
    <2> QED BY <2>3, <2>4, <2>5
  <1>5. ASSUME NEW id, NEW p
        PROVE  ~Takes(c, id, p)' /\ Held(c, id, p)' = new(id, p)
    BY <1>0 DEF Takes, Held
  <1> HIDE DEF new
  <1>6. \A id \in DOMAIN statements'[c] : \A p \in 1..statements'[c][id].parameters :
          /\ ~Takes(c, id, p)'
          /\ IsSeq(Held(c, id, p)') /\ Fits(log'[c], id, p, Len(log'[c]), Held(c, id, p)')
    BY <1>2, <1>4, <1>5
  <1> QED BY <1>0, <1>3, <1>6 DEF HeldInv

\* What the reply to an execution tells.
LEMMA RanFields ==
  ASSUME NEW values
  PROVE  Ran(values).bound = values
  <1> DEFINE none == <<>>
             yes == TRUE
             no == FALSE
             r == [id |-> 0, bound |-> none, ran |-> no]
             t == [r EXCEPT !.bound = values]
  <1>1. Ran(values) = [t EXCEPT !.ran = yes]
    BY DEF Ran, Nothing
  <1> HIDE DEF none, yes, no
  <1>2. t = [id |-> 0, bound |-> values, ran |-> no]
    OBVIOUS
  <1> HIDE DEF t
  <1>3. [t EXCEPT !.ran = yes] = [id |-> 0, bound |-> values, ran |-> yes]
    BY <1>2
  <1> QED BY <1>1, <1>3

\* The reply to an execution.
LEMMA LongEnded ==
  ASSUME ShapeInv, NEW c \in Conns, HeldInv(c), PastInv(c), conn[c] # "closed", Ended(c)
  PROVE  HeldInv(c)' /\ PastInv(c)'
  <1> DEFINE L == log[c]
             M == log'[c]
             n == Len(L)
             cmd == call[c].cmd
             values == call[c].parameters
             left(id, p) == LongOf(statements[c][id], p)
             held(id, p) == Held(c, id, p)
  <1>0. Pending(c) /\ ~Pending(c)' /\ statements'[c] = statements[c] /\ LongTyped(c)
    BY DEF Ended, HeldInv
  <1>1. PICK e : M = Append(L, e) /\ e.cmd = cmd /\ e.value \in {Nothing, Ran(values)}
    BY DEF Ended
  <1>2. /\ n \in Nat /\ Len(M) = n + 1 /\ M[n + 1] = e
        /\ \A j \in 1..n : M[j] = L[j]
        /\ Bindings(M, n + 1) => PastInv(c)'
    BY <1>1, PastGrows
  <1>3. cmd.kind = "stmtExecute"
    BY <1>0 DEF Pending
  <1>4. cmd.id \in DOMAIN statements[c] /\ DOMAIN values = 1..statements[c][cmd.id].parameters
    BY <1>0 DEF HeldInv
  <1>5. ASSUME NEW id \in DOMAIN statements[c], NEW p \in 1..statements[c][id].parameters
        PROVE  IsSeq(held(id, p)) /\ Fits(M, id, p, n, held(id, p))
    <2> DEFINE x == held(id, p)
    <2>1. IsSeq(x) /\ Fits(L, id, p, n, x)
      BY DEF HeldInv
    <2> HIDE DEF L, M, n, x
    <2>2. Fits(M, id, p, n, x)
      BY <1>2, <2>1, FitsSame
    <2> QED BY <2>1, <2>2 DEF x
  <1>6. e.value.ran => e.value.bound = values
    <2> HIDE DEF values
    <2>1. CASE e.value = Nothing
      BY <2>1 DEF Nothing
    <2>2. CASE e.value = Ran(values)
      <3>1. Ran(values).bound = values
        BY RanFields
      <3> QED BY <2>2, <3>1
    <2> QED BY <1>1, <2>1, <2>2
  <1>7. PastInv(c)'
    <2>1. ASSUME e.value.ran, NEW p \in DOMAIN values, p \notin cmd.nulls
          PROVE  Fits(M, cmd.id, p, n, BoundLong(values[p]))
      <3>1. Held(c, cmd.id, p) = BoundLong(values[p])
        BY <1>0, <2>1 DEF Held, Takes
      <3> QED BY <1>4, <1>5, <3>1
    <2>2. n + 1 - 1 = n
      BY <1>2
    <2>3. Bindings(M, n + 1)
      <3> HIDE DEF L, M, n, cmd, values
      <3> QED BY <1>1, <1>2, <1>6, <2>1, <2>2 DEF Bindings
    <2> QED BY <1>2, <2>3
  <1>8. ASSUME NEW id \in DOMAIN statements[c], NEW p \in 1..statements[c][id].parameters
        PROVE  IsSeq(left(id, p)) /\ Fits(M, id, p, n + 1, left(id, p))
    <2> DEFINE x == left(id, p)
               y == held(id, p)
    <2>1. IsSeq(x)
      BY <1>0, LongIsSeq
    <2>2. ~Sends(M, id, p, n + 1)
      BY <1>1, <1>2, <1>3 DEF Sends
    <2>3. Drops(M, id, p, n + 1) <=> cmd.id = id /\ e.value.ran /\ p \notin cmd.nulls
      <3> HIDE DEF L, M, n, cmd
      <3> QED BY <1>1, <1>2, <1>3 DEF Drops
    <2>4. CASE Drops(M, id, p, n + 1)
      <3>1. x = <<>>
        BY <1>0, <2>3, <2>4 DEF HeldInv, Takes
      <3> DEFINE k == n + 1
      <3>2. k \in Nat \ {0} /\ Drops(M, id, p, k)
        BY <1>2, <2>4
      <3> HIDE DEF M, k, x
      <3>3. Fits(M, id, p, k, x)
        BY <3>1, <3>2, FitsDrop
      <3> QED BY <2>1, <3>3 DEF x, k
    <2>5. CASE ~Drops(M, id, p, n + 1)
      <3>1. IsSeq(y) /\ Fits(M, id, p, n, y)
        BY <1>5
      <3>2. \/ x = y
            \/ x = <<>> /\ Fails(M, id, n + 1)
        <4>1. CASE Takes(c, id, p)
          <5>1. x = <<>>
            BY <4>1 DEF HeldInv
          <5>2. cmd.id = id /\ p \notin cmd.nulls
            BY <4>1 DEF Takes
          <5>3. ~e.value.ran
            BY <2>3, <2>5, <5>2
          <5>4. Fails(M, id, n + 1)
            <6> HIDE DEF L, M, n, cmd
            <6> QED BY <1>1, <1>2, <1>3, <5>2, <5>3 DEF Fails
          <5> QED BY <5>1, <5>4
        <4>2. CASE ~Takes(c, id, p)
          BY <4>2 DEF Held
        <4> QED BY <4>1, <4>2
      <3> HIDE DEF L, M, n, x, y
      <3>3. /\ ~Sends(M, id, p, n + 1) => Fits(M, id, p, n + 1, y)
            /\ ~Sends(M, id, p, n + 1) /\ Fails(M, id, n + 1) => Fits(M, id, p, n + 1, <<>>)
        BY <1>2, <2>5, <3>1, FitsNext
      <3>4. Fits(M, id, p, n + 1, x)
        BY <2>2, <3>2, <3>3
      <3> QED BY <2>1, <3>4 DEF x
    <2> QED BY <2>4, <2>5
  <1>9. ASSUME NEW id, NEW p
        PROVE  ~Takes(c, id, p)' /\ Held(c, id, p)' = left(id, p)
    BY <1>0 DEF Takes, Held
  <1>10. LongTyped(c)'
    BY <1>0 DEF LongTyped
  <1> HIDE DEF left
  <1>11. \A id \in DOMAIN statements'[c] : \A p \in 1..statements'[c][id].parameters :
           /\ ~Takes(c, id, p)'
           /\ IsSeq(Held(c, id, p)') /\ Fits(log'[c], id, p, Len(log'[c]), Held(c, id, p)')
    BY <1>0, <1>2, <1>8, <1>9
  <1> QED BY <1>0, <1>7, <1>10, <1>11 DEF HeldInv

\* An execution takes the data of its statement.
LEMMA LongBegins ==
  ASSUME NEW c \in Conns, HeldInv(c), PastInv(c), conn[c] # "closed", BeginsRun(c)
  PROVE  HeldInv(c)' /\ PastInv(c)'
  <1> DEFINE at == call'[c].cmd.id
  <1>0. /\ ~Pending(c) /\ Pending(c)' /\ LongTyped(c)' /\ log'[c] = log[c]
        /\ DOMAIN statements'[c] = DOMAIN statements[c] /\ at \in DOMAIN statements[c]
        /\ \A j \in DOMAIN statements[c] \ {at} : statements'[c][j] = statements[c][j]
        /\ statements'[c][at].parameters = statements[c][at].parameters
        /\ DOMAIN call'[c].parameters = 1..statements[c][at].parameters
        /\ \A p \in 1..statements[c][at].parameters : Taken(c, at, p)
    BY DEF BeginsRun
  <1>1. PastInv(c)'
    BY <1>0 DEF PastInv
  <1>2. ASSUME NEW id \in DOMAIN statements[c], NEW p \in 1..statements[c][id].parameters
        PROVE  /\ Takes(c, id, p)' => LongOf(statements'[c][id], p) = <<>>
               /\ Held(c, id, p)' = Held(c, id, p)
    <2>1. Held(c, id, p) = LongOf(statements[c][id], p)
      BY <1>0 DEF Held, Takes
    <2>2. CASE id # at
      BY <1>0, <2>1, <2>2 DEF Held, Takes
    <2>3. CASE id = at
      <3>1. Taken(c, id, p)
        BY <1>0, <2>3
      <3>2. Takes(c, id, p)' <=> p \notin call'[c].cmd.nulls
        BY <1>0, <2>3 DEF Takes
      <3> QED BY <2>1, <3>1, <3>2 DEF Taken, Held
    <2> QED BY <2>2, <2>3
  <1>3. \A id \in DOMAIN statements'[c] :
          statements'[c][id].parameters = statements[c][id].parameters
    BY <1>0
  <1>4. ASSUME NEW id \in DOMAIN statements'[c], NEW p \in 1..statements'[c][id].parameters
        PROVE  /\ Takes(c, id, p)' => LongOf(statements'[c][id], p) = <<>>
               /\ IsSeq(Held(c, id, p)') /\ Fits(log'[c], id, p, Len(log'[c]), Held(c, id, p)')
    <2>1. id \in DOMAIN statements[c] /\ p \in 1..statements[c][id].parameters
      BY <1>0, <1>3
    <2>2. IsSeq(Held(c, id, p)) /\ Fits(log[c], id, p, Len(log[c]), Held(c, id, p))
      BY <2>1 DEF HeldInv
    <2> QED BY <1>0, <1>2, <2>1, <2>2
  <1> QED BY <1>0, <1>1, <1>3, <1>4 DEF HeldInv

\* What the invariant needs to know of a step.
LEMMA LongStep ==
  ASSUME ShapeInv, NEW c \in Conns, HeldInv(c), PastInv(c), LongEffect(c)
  PROVE  HeldInv(c)' /\ PastInv(c)'
  <1>1. CASE conn'[c] = "closed" /\ log'[c] = log[c]
    BY <1>1 DEF HeldInv, PastInv
  <1> QED BY <1>1, LongQuiet, LongTold, LongEnded, LongBegins DEF LongEffect

---------------------------------------------------------------------------
(* Long data: the steps of a connection *)

\* The reply to a command that has nothing to do with any statement's data.
LEMMA ToldSame ==
  ASSUME ShapeInv, NEW c \in Conns, HeldInv(c), conn[c] = "open",
         ~Pending(c), ~Pending(c)', statements'[c] = statements[c],
         NEW e, log'[c] = Append(log[c], e),
         \/ e.cmd.kind \in {"query", "ping", "unknown"}
         \/ e.cmd.kind = "stmtPrepare" /\ ~e.ok
         \/ /\ e.cmd.kind \in {"stmtReset", "stmtClose", "longData", "stmtExecute"}
            /\ e.cmd.id \notin DOMAIN statements[c]
            /\ e.cmd.kind = "stmtExecute" => ~e.value.ran
  PROVE  Told(c)
  <1>1. LongTyped(c)'
    BY DEF HeldInv, LongTyped
  <1>2. log'[c][Len(log[c]) + 1] = e
    <2>1. IsSeq(log[c])
      BY ConnParts
    <2> QED BY <2>1, AppendFacts
  <1>3. ASSUME NEW id \in DOMAIN statements'[c], NEW p \in 1..statements'[c][id].parameters
        PROVE  Moves(c, id, p)
    <2>1. ~Drops(log'[c], id, p, Len(log[c]) + 1) /\ ~Sends(log'[c], id, p, Len(log[c]) + 1)
      <3> DEFINE M == log'[c]
                 n == Len(log[c]) + 1
      <3>1. M[n] = e
        BY <1>2
      <3> HIDE DEF M, n
      <3>2. ~Drops(M, id, p, n) /\ ~Sends(M, id, p, n)
        BY <3>1 DEF Drops, Sends
      <3> QED BY <3>2 DEF M, n
    <2> QED BY <2>1 DEF Moves
  <1>4. ~(e.cmd.kind = "stmtExecute" /\ e.value.ran)
    OBVIOUS
  <1> QED BY <1>1, <1>3, <1>4 DEF Told

\* What a command on one statement makes of the data y of a parameter.
Alters(e, p, y, x) ==
  \/ e.cmd.kind = "stmtReset" /\ x = <<>>
  \/ e.cmd.kind = "longData" /\ p = e.cmd.param /\ x = Append(y, e.cmd.chunk)
  \/ e.cmd.kind = "longData" /\ p # e.cmd.param /\ x = y
  \/ e.cmd.kind = "stmtExecute" /\ x \in {y, <<>>}

\* The same for one that changes the data of one statement.
LEMMA ToldAt ==
  ASSUME ShapeInv, NEW c \in Conns, HeldInv(c), conn[c] = "open",
         ~Pending(c), ~Pending(c)', NEW id \in DOMAIN statements[c], NEW s,
         statements' = [statements EXCEPT ![c][id] = s],
         s.parameters = statements[c][id].parameters,
         \A p \in DOMAIN s.long : s.long[p] \in Seq({"head", "tail"}),
         NEW e, log'[c] = Append(log[c], e), e.cmd.id = id,
         e.cmd.kind \in {"stmtReset", "longData", "stmtExecute"},
         e.cmd.kind = "stmtExecute" => ~e.value.ran,
         \A p \in 1..s.parameters : Alters(e, p, LongOf(statements[c][id], p), LongOf(s, p))
  PROVE  Told(c)
  <1> DEFINE M == log'[c]
             n == Len(log[c]) + 1
  <1>0. /\ IsFcn(statements)
        /\ statements[c] = [i \in DOMAIN statements[c] |-> statements[c][i]]
    BY ConnParts DEF ShapeInv
  <1>1. statements'[c] = [statements[c] EXCEPT ![id] = s]
    BY <1>0 DEF IsFcn
  <1>2. /\ DOMAIN statements'[c] = DOMAIN statements[c] /\ statements'[c][id] = s
        /\ \A i \in DOMAIN statements[c] \ {id} : statements'[c][i] = statements[c][i]
    BY <1>0, <1>1
  <1>3. LongTyped(c)'
    <2>1. ASSUME NEW i \in DOMAIN statements'[c], NEW p \in DOMAIN statements'[c][i].long
          PROVE  statements'[c][i].long[p] \in Seq({"head", "tail"})
      <3>1. CASE i = id
        BY <1>2, <2>1, <3>1
      <3>2. CASE i # id
        BY <1>2, <2>1, <3>2 DEF HeldInv, LongTyped
      <3> QED BY <3>1, <3>2
    <2> QED BY <2>1 DEF LongTyped
  <1>4. M[n] = e
    <2>1. IsSeq(log[c])
      BY ConnParts
    <2> QED BY <2>1, AppendFacts
  <1>5. ASSUME NEW i \in DOMAIN statements'[c], NEW p \in 1..statements'[c][i].parameters
        PROVE  Moves(c, i, p)
    <2> DEFINE x == LongOf(statements'[c][i], p)
               y == LongOf(statements[c][i], p)
    <2>1. i \in DOMAIN statements[c] /\ p \in 1..statements[c][i].parameters
      BY <1>2
    <2>2. CASE i # id
      <3>1. x = y
        BY <1>2, <2>2
      <3>2. ~Drops(M, i, p, n) /\ ~Sends(M, i, p, n)
        <4> HIDE DEF M, n
        <4> QED BY <1>4, <2>2 DEF Drops, Sends
      <3> QED BY <2>1, <3>1, <3>2 DEF Moves
    <2>3. CASE i = id
      <3>1. \/ Drops(M, i, p, n) /\ x = <<>>
            \/ /\ ~Drops(M, i, p, n)
               /\ \/ Sends(M, i, p, n) /\ x = Append(y, M[n].cmd.chunk)
                  \/ ~Sends(M, i, p, n) /\ x = y
                  \/ ~Sends(M, i, p, n) /\ Fails(M, i, n) /\ x = <<>>
        <4>1. \/ e.cmd.kind = "stmtReset" /\ x = <<>>
              \/ e.cmd.kind = "longData" /\ p = e.cmd.param /\ x = Append(y, e.cmd.chunk)
              \/ e.cmd.kind = "longData" /\ p # e.cmd.param /\ x = y
              \/ e.cmd.kind = "stmtExecute" /\ x \in {y, <<>>}
          BY <1>2, <2>3 DEF Alters
        <4> HIDE DEF M, n, x, y
        <4> QED BY <1>4, <2>3, <4>1 DEF Drops, Sends, Fails
      <3> QED BY <2>1, <3>1 DEF Moves
    <2> QED BY <2>2, <2>3
  <1>6. ~(e.cmd.kind = "stmtExecute" /\ e.value.ran)
    OBVIOUS
  <1> QED BY <1>3, <1>5, <1>6 DEF Told

\* A reply that ends a call.
LEMMA ReplyLong ==
  ASSUME ShapeInv, NEW c \in Conns, HeldInv(c), conn[c] = "open", call[c] # Idle,
         NEW ok \in BOOLEAN, NEW value \in {Nothing, Ran(call[c].parameters)},
         Reply(c, call[c].cmd, ok, value), statements' = statements,
         \/ call[c].cmd.kind \in {"query", "stmtExecute"}
         \/ call[c].cmd.kind = "stmtPrepare" /\ ~ok
  PROVE  LongEffect(c)
  <1> DEFINE e == Entry(call[c].cmd, ok, IF ok THEN Status(c) ELSE "none", value)
  <1>1. call'[c] = Idle /\ log'[c] = Append(log[c], e)
    BY ReplyFacts
  <1>2. e.cmd = call[c].cmd /\ e.ok = ok /\ e.value = value
    BY DEF Entry
  <1> HIDE DEF e
  <1>3. ~Pending(c)'
    BY <1>1 DEF Pending
  <1>4. CASE Pending(c)
    <2>1. Ended(c)
      BY <1>1, <1>2, <1>3, <1>4 DEF Ended
    <2> QED BY <2>1 DEF LongEffect
  <1>5. CASE ~Pending(c)
    <2>1. e.cmd.kind = "query" \/ (e.cmd.kind = "stmtPrepare" /\ ~e.ok)
      BY <1>2, <1>5 DEF Pending
    <2>2. Told(c)
      BY <1>1, <1>3, <1>5, <2>1, ToldSame
    <2> QED BY <2>2 DEF LongEffect
  <1> QED BY <1>4, <1>5

\* A call that goes on.
LEMMA CallLong ==
  ASSUME NEW c \in Conns, conn[c] = "open", log' = log, statements' = statements,
         call'[c] # Idle,
         \/ call'[c].cmd.kind # "stmtExecute" /\ (call[c] = Idle \/ call'[c].cmd = call[c].cmd)
         \/ /\ call[c] # Idle /\ call'[c].cmd = call[c].cmd
            /\ call'[c].parameters = call[c].parameters
  PROVE  LongEffect(c)
  BY DEF LongEffect, Quiet, Pending

\* The fields of a statement that a change of its data or its types leaves.
LEMMA LongFields ==
  ASSUME NEW s, Stored(s), NEW x, NEW y
  PROVE  /\ [s EXCEPT !.long = x].long = x
         /\ [s EXCEPT !.long = x].parameters = s.parameters
         /\ [s EXCEPT !.typed = y, !.long = x].long = x
         /\ [s EXCEPT !.typed = y, !.long = x].parameters = s.parameters
  <1>1. s = [text |-> s.text, schema |-> s.schema, parameters |-> s.parameters,
             typed |-> s.typed, long |-> s.long]
    BY DEF Stored
  <1>2. [s EXCEPT !.long = x] = [text |-> s.text, schema |-> s.schema,
             parameters |-> s.parameters, typed |-> s.typed, long |-> x]
    BY <1>1
  <1>3. [s EXCEPT !.typed = y, !.long = x] = [text |-> s.text, schema |-> s.schema,
             parameters |-> s.parameters, typed |-> y, long |-> x]
    <2> DEFINE t == [s EXCEPT !.typed = y]
    <2>1. t = [text |-> s.text, schema |-> s.schema, parameters |-> s.parameters,
               typed |-> y, long |-> s.long]
      BY <1>1
    <2>2. [s EXCEPT !.typed = y, !.long = x] = [t EXCEPT !.long = x]
      OBVIOUS
    <2> HIDE DEF t
    <2>3. [t EXCEPT !.long = x] = [text |-> s.text, schema |-> s.schema,
              parameters |-> s.parameters, typed |-> y, long |-> x]
      BY <2>1
    <2> QED BY <2>2, <2>3
  <1> QED BY <1>2, <1>3

\* COM_STMT_EXECUTE removes the data of the parameters it reached.
LEMMA DecodeFacts ==
  ASSUME NEW s, Stored(s), NEW cmd
  PROVE  LET t == AfterDecode(s, cmd)
             taken == (1..Decoded(s, cmd)) \ cmd.nulls
         IN /\ t.parameters = s.parameters
            /\ \A p \in DOMAIN t.long : p \in DOMAIN s.long /\ t.long[p] = s.long[p]
            /\ \A p : LongOf(t, p) = IF p \in taken THEN <<>> ELSE LongOf(s, p)
  <1> DEFINE t == AfterDecode(s, cmd)
             taken == (1..Decoded(s, cmd)) \ cmd.nulls
             left == RestrictDomain(s.long, LAMBDA p : p \notin taken)
             typed == Typed(s, cmd)
  <1>1. left = [p \in DOMAIN s.long \ taken |-> s.long[p]]
    BY DEF RestrictDomain, Restrict
  <1>2. t = [s EXCEPT !.typed = typed, !.long = left]
    BY DEF AfterDecode
  <1> HIDE DEF taken, left, typed
  <1>3. t.long = left /\ t.parameters = s.parameters
    BY <1>2, LongFields
  <1> HIDE DEF t
  <1>4. \A p \in DOMAIN t.long : p \in DOMAIN s.long /\ t.long[p] = s.long[p]
    BY <1>1, <1>3
  <1>5. ASSUME NEW p PROVE LongOf(t, p) = IF p \in taken THEN <<>> ELSE LongOf(s, p)
    BY <1>1, <1>3 DEF LongOf
  <1>6. /\ t.parameters = s.parameters
        /\ \A p \in DOMAIN t.long : p \in DOMAIN s.long /\ t.long[p] = s.long[p]
        /\ \A p : LongOf(t, p) = IF p \in taken THEN <<>> ELSE LongOf(s, p)
    BY <1>3, <1>4, <1>5
  <1> QED BY <1>6 DEF t, taken

\* An execution that decodes all of its parameters.
LEMMA ExecuteLong ==
  ASSUME ShapeInv, NEW c \in Conns, HeldInv(c), conn[c] = "open", call[c] = Idle,
         NEW cmd, cmd.kind = "stmtExecute", cmd.id \in DOMAIN statements[c],
         ~DecodeFails(statements[c][cmd.id], cmd), log' = log,
         statements' = [statements EXCEPT ![c][cmd.id] = AfterDecode(statements[c][cmd.id], cmd)],
         call'[c].cmd = cmd, call'[c] # Idle,
         call'[c].parameters = [p \in 1..statements[c][cmd.id].parameters |->
                                  ParameterValue(statements[c][cmd.id], cmd, p)]
  PROVE  LongEffect(c)
  <1> DEFINE id == cmd.id
             s == statements[c][id]
             t == AfterDecode(s, cmd)
             taken == (1..Decoded(s, cmd)) \ cmd.nulls
  <1>0. /\ IsFcn(statements) /\ Stored(s)
        /\ statements[c] = [i \in DOMAIN statements[c] |-> statements[c][i]]
    BY ConnParts DEF ShapeInv
  <1>1. statements'[c] = [statements[c] EXCEPT ![id] = t]
    BY <1>0 DEF IsFcn
  <1>2. /\ DOMAIN statements'[c] = DOMAIN statements[c] /\ statements'[c][id] = t
        /\ \A i \in DOMAIN statements[c] \ {id} : statements'[c][i] = statements[c][i]
    BY <1>0, <1>1
  <1>3. /\ t.parameters = s.parameters
        /\ \A p \in DOMAIN t.long : p \in DOMAIN s.long /\ t.long[p] = s.long[p]
        /\ \A p : LongOf(t, p) = IF p \in taken THEN <<>> ELSE LongOf(s, p)
    BY <1>0, DecodeFacts
  <1>4. \A p \in DOMAIN s.long : s.long[p] \in Seq({"head", "tail"})
    BY DEF HeldInv, LongTyped
  <1>5. Decoded(s, cmd) = s.parameters
    <2>1. Typed(s, cmd) /\ \A p \in 1..s.parameters : ~Undecodable(s, cmd, p)
      BY DEF DecodeFails
    <2>2. {p \in 1..s.parameters : Undecodable(s, cmd, p)} = {}
      BY <2>1
    <2> QED BY <2>1, <2>2 DEF Decoded
  <1>6. ASSUME NEW p \in 1..s.parameters PROVE Taken(c, id, p)
    <2>1. call'[c].parameters[p] = ParameterValue(s, cmd, p)
      OBVIOUS
    <2>2. CASE p \in cmd.nulls
      <3>1. LongOf(statements'[c][id], p) = LongOf(s, p)
        BY <1>2, <1>3, <2>2
      <3> QED BY <2>2, <3>1 DEF Taken
    <2>3. CASE p \notin cmd.nulls
      <3>1. LongOf(statements'[c][id], p) = <<>>
        BY <1>2, <1>3, <1>5, <2>3
      <3>2. BoundLong(ParameterValue(s, cmd, p)) = LongOf(s, p)
        <4>1. CASE p \in DOMAIN s.long
          <5>1. s.long[p] # <<"inline">>
            <6> SUFFICES ASSUME s.long[p] = <<"inline">> PROVE FALSE
              OBVIOUS
            <6>1. <<"inline">> \in Seq({"head", "tail"})
              BY <1>4, <4>1
            <6>2. Len(<<"inline">>) = 1 /\ <<"inline">>[1] = "inline"
              OBVIOUS
            <6>3. <<"inline">>[1] \in {"head", "tail"}
              BY <6>1, <6>2
            <6> QED BY <6>2, <6>3
          <5> QED BY <2>3, <4>1, <5>1 DEF ParameterValue, BoundLong, LongOf
        <4>2. CASE p \notin DOMAIN s.long
          BY <2>3, <4>2 DEF ParameterValue, BoundLong, LongOf
        <4> QED BY <4>1, <4>2
      <3> QED BY <2>1, <2>3, <3>1, <3>2 DEF Taken
    <2> QED BY <2>2, <2>3
  <1>7. LongTyped(c)'
    <2>1. ASSUME NEW i \in DOMAIN statements'[c], NEW p \in DOMAIN statements'[c][i].long
          PROVE  statements'[c][i].long[p] \in Seq({"head", "tail"})
      <3>1. CASE i = id
        BY <1>2, <1>3, <1>4, <2>1, <3>1
      <3>2. CASE i # id
        BY <1>2, <2>1, <3>2 DEF HeldInv, LongTyped
      <3> QED BY <3>1, <3>2
    <2> QED BY <2>1 DEF LongTyped
  <1>8. ~Pending(c) /\ Pending(c)'
    BY DEF Pending
  <1>9. DOMAIN call'[c].parameters = 1..s.parameters
    OBVIOUS
  <1>10. BeginsRun(c)
    BY <1>2, <1>3, <1>6, <1>7, <1>8, <1>9 DEF BeginsRun
  <1> QED BY <1>10 DEF LongEffect

\* The chunk of a command is one of the two halves of a character.
LEMMA ChunkFields ==
  ASSUME NEW cmd \in Commands
  PROVE  cmd.kind = "longData" => cmd.chunk \in {"head", "tail"}
  BY DEF Commands

\* The commands that the connection reads.
LEMMA CommandLong ==
  ASSUME ShapeInv, NEW c \in Conns, HeldInv(c), NEW cmd \in Commands, Command(c, cmd)
  PROVE  LongEffect(c)
  <1>0. Receive(c, cmd)
    BY DEF Command, Ping, SystemQuery, Query, StmtPrepare, StmtReset, StmtClose, SendLongData,
           StmtExecute
  <1>1. conn[c] = "open" /\ call[c] = Idle /\ ~Pending(c)
    BY <1>0, ReceiveFacts DEF Pending
  <1>2. /\ IsFcn(statements) /\ IsFcn(call)
        /\ statements[c] = [i \in DOMAIN statements[c] |-> statements[c][i]]
        /\ \A i \in DOMAIN statements[c] : Stored(statements[c][i])
        /\ LongTyped(c)
    BY <1>1, ConnParts DEF ShapeInv, HeldInv
  <1> DEFINE id == cmd.id
             s == statements[c][id]
             known == id \in DOMAIN statements[c]
             entry(ok, flag) == Entry(cmd, ok, flag, Nothing)
  <1>3. ASSUME NEW ok, NEW flag
        PROVE  /\ entry(ok, flag).cmd = cmd /\ entry(ok, flag).ok = ok
               /\ ~entry(ok, flag).value.ran
    BY DEF Entry, Nothing
  <1>4. CASE Ping(c, cmd)
    <2>1. cmd.kind \in {"ping", "unknown"} /\ UNCHANGED <<call, statements>>
      BY <1>4 DEF Ping, session
    <2>2. log'[c] = Append(log[c], entry(cmd.kind = "ping", Unasked(cmd.kind = "ping")))
      BY <1>4, LoggedFacts DEF Ping
    <2>3. ~Pending(c)'
      BY <1>1, <2>1 DEF Pending
    <2> HIDE DEF entry
    <2>4. Told(c)
      BY <1>1, <1>3, <2>1, <2>2, <2>3, ToldSame
    <2> QED BY <1>1, <2>4 DEF LongEffect
  <1>5. CASE SystemQuery(c, cmd)
    <2>1. cmd.kind = "query" /\ statements' = statements /\ Reply(c, cmd, TRUE, Nothing)
      BY <1>5 DEF SystemQuery, session
    <2>2. call'[c] = Idle /\ log'[c] = Append(log[c], entry(TRUE, IF TRUE THEN Status(c) ELSE "none"))
      BY <2>1, ReplyFacts
    <2>3. ~Pending(c)'
      BY <2>2 DEF Pending
    <2> HIDE DEF entry
    <2>4. Told(c)
      BY <1>1, <1>3, <2>1, <2>2, <2>3, ToldSame
    <2> QED BY <1>1, <2>4 DEF LongEffect
  <1>6. CASE Query(c, cmd) \/ StmtPrepare(c, cmd)
    <2>1. /\ cmd.kind \in {"query", "stmtPrepare"} /\ UNCHANGED <<log, statements>>
          /\ \E for : Plan(c, cmd, cmd.text, for, <<>>)
      BY <1>6 DEF Query, StmtPrepare, session
    <2>2. PICK for : Plan(c, cmd, cmd.text, for, <<>>)
      BY <2>1
    <2>3. call'[c] = [pc |-> "lookup", cmd |-> cmd, text |-> cmd.text, for |-> for,
                      parameters |-> <<>>, seen |-> catalog.schema]
      BY <1>2, <2>2 DEF Plan, IsFcn
    <2>4. call'[c].pc = "lookup" /\ call'[c].cmd = cmd /\ Idle.pc = "idle"
      BY <2>3 DEF Idle
    <2>5. call'[c] # Idle
      BY <2>4
    <2> QED BY <1>1, <2>1, <2>4, <2>5, CallLong
  <1>7. CASE StmtReset(c, cmd)
    <2>1. cmd.kind = "stmtReset" /\ call' = call
      BY <1>7 DEF StmtReset
    <2>2. log'[c] = Append(log[c], entry(known, Unasked(known)))
      BY <1>7, LoggedFacts DEF StmtReset
    <2>3. ~Pending(c)'
      BY <1>1, <2>1 DEF Pending
    <2>4. CASE known
      <3> DEFINE t == [s EXCEPT !.long = Empty]
      <3>1. statements' = [statements EXCEPT ![c][id] = t]
        BY <1>7, <2>4 DEF StmtReset
      <3>2. t.parameters = s.parameters /\ t.long = Empty /\ DOMAIN Empty = {}
        BY <1>2, <2>4, LongFields DEF Empty
      <3>3. \A p : LongOf(t, p) = <<>>
        BY <3>2 DEF LongOf
      <3> DEFINE e == entry(known, Unasked(known))
      <3>4. e.cmd = cmd /\ log'[c] = Append(log[c], e)
        BY <1>3, <2>2
      <3>5. \A p \in DOMAIN t.long : t.long[p] \in Seq({"head", "tail"})
        BY <3>2
      <3> HIDE DEF t, e
      <3>6. /\ e.cmd.id = id /\ e.cmd.kind = "stmtReset"
            /\ \A p \in 1..t.parameters : Alters(e, p, LongOf(s, p), LongOf(t, p))
        BY <2>1, <3>3, <3>4 DEF Alters
      <3>7. Told(c)
        BY <1>1, <2>3, <2>4, <3>1, <3>2, <3>4, <3>5, <3>6, ToldAt
      <3> QED BY <1>1, <3>7 DEF LongEffect
    <2>5. CASE ~known
      <3>1. statements' = statements
        BY <1>7, <2>5 DEF StmtReset
      <3> HIDE DEF entry
      <3>2. Told(c)
        BY <1>1, <1>3, <2>1, <2>2, <2>3, <2>5, <3>1, ToldSame
      <3> QED BY <1>1, <3>2 DEF LongEffect
    <2> QED BY <2>4, <2>5
  <1>8. CASE StmtClose(c, cmd)
    <2>1. /\ cmd.kind = "stmtClose" /\ call' = call
          /\ statements' = [statements EXCEPT ![c] =
                              RestrictDomain(statements[c], LAMBDA i : i # id)]
      BY <1>8 DEF StmtClose
    <2> DEFINE e == entry(TRUE, "none")
               M == log'[c]
               n == Len(log[c]) + 1
    <2>2. M = Append(log[c], e)
      BY <1>8, LoggedFacts DEF StmtClose
    <2>3. ~Pending(c)'
      BY <1>1, <2>1 DEF Pending
    <2>4. RestrictDomain(statements[c], LAMBDA i : i # id) =
            [i \in DOMAIN statements[c] \ {id} |-> statements[c][i]]
      BY DEF RestrictDomain, Restrict
    <2>5. statements'[c] = [i \in DOMAIN statements[c] \ {id} |-> statements[c][i]]
      BY <1>2, <2>1, <2>4 DEF IsFcn
    <2>6. /\ DOMAIN statements'[c] = DOMAIN statements[c] \ {id}
          /\ \A i \in DOMAIN statements'[c] : statements'[c][i] = statements[c][i]
      BY <2>5
    <2>7. e.cmd = cmd /\ e.ok = TRUE /\ ~e.value.ran
      BY <1>3
    <2>8. M[n] = e
      <3>1. IsSeq(log[c])
        BY ConnParts
      <3> QED BY <2>2, <3>1, AppendFacts
    <2>9. ASSUME NEW i \in DOMAIN statements'[c], NEW p \in 1..statements'[c][i].parameters
          PROVE  Moves(c, i, p)
      <3>1. i \in DOMAIN statements[c] /\ i # id /\ statements'[c][i] = statements[c][i]
        BY <2>6
      <3>2. ~Drops(M, i, p, n) /\ ~Sends(M, i, p, n)
        <4> HIDE DEF M, n, e
        <4> QED BY <2>1, <2>7, <2>8, <3>1 DEF Drops, Sends
      <3> QED BY <3>1, <3>2 DEF Moves
    <2>10. LongTyped(c)'
      BY <1>2, <2>6 DEF LongTyped
    <2> HIDE DEF e
    <2>11. Told(c)
      BY <1>1, <2>1, <2>2, <2>3, <2>7, <2>9, <2>10 DEF Told
    <2> QED BY <1>1, <2>11 DEF LongEffect
  <1>9. CASE SendLongData(c, cmd)
    <2>1. cmd.kind = "longData" /\ call' = call
      BY <1>9 DEF SendLongData
    <2>2. log'[c] = Append(log[c], entry(TRUE, "none"))
      BY <1>9, LoggedFacts DEF SendLongData
    <2>3. ~Pending(c)'
      BY <1>1, <2>1 DEF Pending
    <2>4. CASE known
      <3> DEFINE long == s.long
                 before == IF cmd.param \in DOMAIN long THEN long[cmd.param] ELSE <<>>
                 after == [p \in DOMAIN long \cup {cmd.param} |->
                             IF p = cmd.param THEN Append(before, cmd.chunk) ELSE long[p]]
                 t == [s EXCEPT !.long = after]
      <3>1. statements' = [statements EXCEPT ![c][id] = t]
        BY <1>9, <2>4 DEF SendLongData
      <3>2. before = LongOf(s, cmd.param)
        BY DEF LongOf
      <3>3. before \in Seq({"head", "tail"})
        <4>1. LongOf(s, cmd.param) \in Seq({"head", "tail"})
          <5> DEFINE q == cmd.param
          <5> HIDE DEF q
          <5>1. LongOf(s, q) \in Seq({"head", "tail"})
            BY <1>2, <2>4, LongIsSeq
          <5> QED BY <5>1 DEF q
        <4> QED BY <3>2, <4>1
      <3>4. cmd.chunk \in {"head", "tail"}
        BY <2>1, ChunkFields
      <3> HIDE DEF before
      <3>5. Append(before, cmd.chunk) \in Seq({"head", "tail"})
        BY <3>3, <3>4
      <3>6. \A p \in DOMAIN long : long[p] \in Seq({"head", "tail"})
        BY <1>2, <2>4 DEF LongTyped
      <3>7. \A p \in DOMAIN after : after[p] \in Seq({"head", "tail"})
        BY <3>5, <3>6
      <3>8. /\ DOMAIN after = DOMAIN long \cup {cmd.param}
            /\ after[cmd.param] = Append(before, cmd.chunk)
            /\ \A p \in DOMAIN long \ {cmd.param} : after[p] = long[p]
        OBVIOUS
      <3> HIDE DEF after
      <3>9. t.parameters = s.parameters /\ t.long = after
        BY <1>2, <2>4, LongFields
      <3> HIDE DEF t
      <3>10. LongOf(t, cmd.param) = Append(LongOf(s, cmd.param), cmd.chunk)
        BY <3>2, <3>8, <3>9 DEF LongOf
      <3>11. \A p : p # cmd.param => LongOf(t, p) = LongOf(s, p)
        BY <3>8, <3>9 DEF LongOf
      <3> DEFINE e == entry(TRUE, "none")
      <3>12. e.cmd = cmd /\ log'[c] = Append(log[c], e)
        BY <1>3, <2>2
      <3> HIDE DEF long, e
      <3>13. \A p \in DOMAIN t.long : t.long[p] \in Seq({"head", "tail"})
        BY <3>7, <3>9
      <3>14. /\ e.cmd.id = id /\ e.cmd.kind = "longData"
             /\ \A p \in 1..t.parameters : Alters(e, p, LongOf(s, p), LongOf(t, p))
        BY <2>1, <3>10, <3>11, <3>12 DEF Alters
      <3>15. Told(c)
        BY <1>1, <2>3, <2>4, <3>1, <3>9, <3>12, <3>13, <3>14, ToldAt
      <3> QED BY <1>1, <3>15 DEF LongEffect
    <2>5. CASE ~known
      <3>1. statements' = statements
        BY <1>9, <2>5 DEF SendLongData
      <3> DEFINE e == entry(TRUE, "none")
      <3>2. e.cmd = cmd /\ log'[c] = Append(log[c], e)
        BY <1>3, <2>2
      <3> HIDE DEF e
      <3>3. e.cmd.kind = "longData" /\ e.cmd.id \notin DOMAIN statements[c]
        BY <2>1, <2>5, <3>2
      <3>4. Told(c)
        BY <1>1, <2>3, <3>1, <3>2, <3>3, ToldSame
      <3> QED BY <1>1, <3>4 DEF LongEffect
    <2> QED BY <2>4, <2>5
  <1>10. CASE StmtExecute(c, cmd)
    <2>1. cmd.kind = "stmtExecute"
      BY <1>10 DEF StmtExecute
    <2>2. CASE ~known \/ DecodeFails(s, cmd)
      <3>1. Reply(c, cmd, FALSE, Nothing)
        BY <1>10, <2>2 DEF StmtExecute
      <3>2. call'[c] = Idle /\ log'[c] = Append(log[c], entry(FALSE, IF FALSE THEN Status(c) ELSE "none"))
        BY <3>1, ReplyFacts
      <3>3. ~Pending(c)'
        BY <3>2 DEF Pending
      <3> DEFINE e == entry(FALSE, IF FALSE THEN Status(c) ELSE "none")
      <3>6. e.cmd = cmd /\ ~e.value.ran /\ log'[c] = Append(log[c], e)
        BY <1>3, <3>2
      <3> HIDE DEF e
      <3>4. CASE known
        <4> DEFINE t == AfterDecode(s, cmd)
        <4>1. statements' = [statements EXCEPT ![c][id] = t]
          BY <1>10, <3>4 DEF StmtExecute
        <4>2. /\ t.parameters = s.parameters
              /\ \A p \in DOMAIN t.long : p \in DOMAIN s.long /\ t.long[p] = s.long[p]
              /\ \A p : LongOf(t, p) \in {LongOf(s, p), <<>>}
          BY <1>2, <3>4, DecodeFacts
        <4>3. \A p \in DOMAIN t.long : t.long[p] \in Seq({"head", "tail"})
          BY <1>2, <3>4, <4>2 DEF LongTyped
        <4> HIDE DEF t
        <4>4. /\ e.cmd.id = id /\ e.cmd.kind = "stmtExecute"
              /\ \A p \in 1..t.parameters : Alters(e, p, LongOf(s, p), LongOf(t, p))
          BY <2>1, <3>6, <4>2 DEF Alters
        <4>5. Told(c)
          BY <1>1, <3>3, <3>4, <3>6, <4>1, <4>2, <4>3, <4>4, ToldAt
        <4> QED BY <1>1, <4>5 DEF LongEffect
      <3>5. CASE ~known
        <4>1. statements' = statements
          BY <1>10, <3>5 DEF StmtExecute
        <4>2. e.cmd.kind = "stmtExecute" /\ e.cmd.id \notin DOMAIN statements[c]
          BY <2>1, <3>5, <3>6
        <4>3. Told(c)
          BY <1>1, <3>3, <3>6, <4>1, <4>2, ToldSame
        <4> QED BY <1>1, <4>3 DEF LongEffect
      <3> QED BY <3>4, <3>5
    <2>3. CASE ~(~known \/ DecodeFails(s, cmd))
      <3> DEFINE values == [p \in 1..s.parameters |-> ParameterValue(s, cmd, p)]
                 k == [pc |-> "bind", cmd |-> cmd, prepared |-> s, parameters |-> values]
      <3>1. /\ statements' = [statements EXCEPT ![c][id] = AfterDecode(s, cmd)]
            /\ call' = [call EXCEPT ![c] = k] /\ log' = log
        BY <1>10, <2>3 DEF StmtExecute
      <3>2. k.pc = "bind" /\ k.cmd = cmd /\ k.parameters = values /\ Idle.pc = "idle"
        BY DEF Idle
      <3> HIDE DEF k
      <3>3. call'[c] = k /\ k # Idle
        BY <1>2, <3>1, <3>2 DEF IsFcn
      <3> QED BY <1>1, <2>1, <2>3, <3>1, <3>2, <3>3, ExecuteLong
    <2> QED BY <2>2, <2>3
  <1> QED BY <1>4, <1>5, <1>6, <1>7, <1>8, <1>9, <1>10 DEF Command

\* The end of COM_STMT_PREPARE: a new statement has no data.
LEMMA PreparedLong ==
  ASSUME ShapeInv, NEW c \in Conns, HeldInv(c), StmtPrepared(c)
  PROVE  LongEffect(c)
  <1> DEFINE k == call[c]
             id == nextId[c]
             stmt == [text |-> k.text, schema |-> catalog.schema,
                      parameters |-> Parse[k.text].parameters, typed |-> FALSE, long |-> Empty]
             e == Entry(k.cmd, ~PrepareFails(c), Unasked(~PrepareFails(c)),
                        IF PrepareFails(c) THEN Nothing ELSE NewStatement(id))
             M == log'[c]
             n == Len(log[c]) + 1
  <1>1. /\ k.pc = "prepared" /\ k.cmd.kind = "stmtPrepare"
        /\ call' = [call EXCEPT ![c] = Idle]
        /\ Logged(c, k.cmd, ~PrepareFails(c), Unasked(~PrepareFails(c)),
                  IF PrepareFails(c) THEN Nothing ELSE NewStatement(id))
    BY DEF StmtPrepared, StatementId
  <1>2. /\ conn[c] = "open" /\ IsFcn(call) /\ IsFcn(statements) /\ IsSeq(log[c])
        /\ statements[c] = [i \in DOMAIN statements[c] |-> statements[c][i]]
    BY <1>1, CallShapes, ConnParts DEF ShapeInv
  <1>3. M = Append(log[c], e)
    BY <1>1, LoggedFacts
  <1>4. /\ e.cmd = k.cmd /\ e.ok = ~PrepareFails(c)
        /\ ~PrepareFails(c) => e.value.id = id
    BY DEF Entry, NewStatement, Nothing
  <1> HIDE DEF e
  <1>5. M[n] = e
    BY <1>2, <1>3, AppendFacts
  <1>6. call'[c] = Idle /\ ~Pending(c)' /\ ~Pending(c)
    BY <1>1, <1>2 DEF IsFcn, Pending
  <1>7. CASE PrepareFails(c)
    <2>1. statements' = statements
      BY <1>7 DEF StmtPrepared
    <2>2. Told(c)
      BY <1>1, <1>2, <1>3, <1>4, <1>6, <1>7, <2>1, ToldSame
    <2> QED BY <1>2, <2>2 DEF LongEffect
  <1>8. CASE ~PrepareFails(c)
    <2>1. statements' = [statements EXCEPT ![c] =
                [i \in DOMAIN statements[c] \cup {id} |->
                   IF i = id THEN stmt ELSE statements[c][i]]]
      BY <1>8 DEF StmtPrepared, StatementId, Prepared
    <2>2. stmt.long = Empty /\ DOMAIN Empty = {}
      BY DEF Empty
    <2> HIDE DEF stmt
    <2>3. statements'[c] = [i \in DOMAIN statements[c] \cup {id} |->
                              IF i = id THEN stmt ELSE statements[c][i]]
      BY <1>2, <2>1 DEF IsFcn
    <2>4. /\ DOMAIN statements'[c] = DOMAIN statements[c] \cup {id}
          /\ statements'[c][id] = stmt
          /\ \A i \in DOMAIN statements[c] \ {id} : statements'[c][i] = statements[c][i]
      BY <2>3
    <2>5. LongTyped(c)'
      <3>1. ASSUME NEW i \in DOMAIN statements'[c], NEW p \in DOMAIN statements'[c][i].long
            PROVE  statements'[c][i].long[p] \in Seq({"head", "tail"})
        <4>1. CASE i = id
          BY <2>2, <2>4, <3>1, <4>1
        <4>2. CASE i # id
          BY <1>2, <2>4, <3>1, <4>2 DEF HeldInv, LongTyped
        <4> QED BY <4>1, <4>2
      <3> QED BY <3>1 DEF LongTyped
    <2>6. ASSUME NEW i \in DOMAIN statements'[c], NEW p \in 1..statements'[c][i].parameters
          PROVE  Moves(c, i, p)
      <3>1. CASE i = id
        <4>1. LongOf(statements'[c][i], p) = <<>>
          BY <2>2, <2>4, <3>1 DEF LongOf
        <4>2. Drops(M, i, p, n)
          <5> HIDE DEF M, n, k, id
          <5> QED BY <1>1, <1>4, <1>5, <1>8, <3>1 DEF Drops
        <4> QED BY <4>1, <4>2 DEF Moves
      <3>2. CASE i # id
        <4>1. i \in DOMAIN statements[c] /\ statements'[c][i] = statements[c][i]
          BY <2>4, <3>2
        <4>2. ~Drops(M, i, p, n) /\ ~Sends(M, i, p, n)
          <5> HIDE DEF M, n, k, id
          <5> QED BY <1>1, <1>4, <1>5, <1>8, <3>2 DEF Drops, Sends
        <4> QED BY <4>1, <4>2 DEF Moves
      <3> QED BY <3>1, <3>2
    <2>7. ~(e.cmd.kind = "stmtExecute" /\ e.value.ran)
      BY <1>1, <1>4
    <2>8. Told(c)
      BY <1>3, <1>6, <2>5, <2>6, <2>7 DEF Told
    <2> QED BY <1>2, <2>8 DEF LongEffect
  <1> QED BY <1>7, <1>8

\* Statements that control the transaction or the session.
LEMMA ControlLong ==
  ASSUME ShapeInv, NEW c \in Conns, HeldInv(c),
         \/ Begin(c) \/ CommitIdle(c) \/ CommitOrConflict(c) \/ CommitLogErr(c) \/ Rollback(c)
         \/ SetVariable(c) \/ SqlPrepare(c) \/ SqlExecute(c) \/ Deallocate(c)
  PROVE  LongEffect(c)
  <1>1. \E kind \in Control \cup SessionKinds : InControl(c, kind)
    BY DEF Begin, CommitIdle, CommitOrConflict, CommitLogErr, Rollback, SetVariable, SqlPrepare,
           SqlExecute, Deallocate, Control, SessionKinds
  <1>2. conn[c] = "open" /\ call[c].cmd.kind = "query" /\ IsFcn(call)
    BY <1>1, ControlShape DEF ShapeInv
  <1>3. call[c] # Idle
    <2>1. call[c].pc = "control" /\ Idle.pc = "idle"
      BY <1>1 DEF InControl, Idle
    <2> QED BY <2>1
  <1>4. statements' = statements
    BY DEF Begin, CommitIdle, CommitOrConflict, CommitLogErr, Rollback, SetVariable, SqlPrepare,
           SqlExecute, Deallocate, session
  <1>5. ASSUME NEW ok \in BOOLEAN, Reply(c, call[c].cmd, ok, Nothing)
        PROVE  LongEffect(c)
    BY <1>2, <1>3, <1>4, <1>5, ReplyLong
  <1>6. ASSUME NEW k, k.cmd = call[c].cmd, k.pc # "idle", call' = [call EXCEPT ![c] = k], log' = log
        PROVE  LongEffect(c)
    <2>1. call'[c] = k /\ Idle.pc = "idle"
      BY <1>2, <1>6 DEF IsFcn, Idle
    <2>2. call'[c] # Idle
      BY <1>6, <2>1
    <2> QED BY <1>2, <1>4, <1>6, <2>1, <2>2, CallLong
  <1>7. CASE \/ Begin(c) \/ CommitIdle(c) \/ CommitOrConflict(c) \/ CommitLogErr(c) \/ Rollback(c)
             \/ SetVariable(c) \/ Deallocate(c)
    <2>1. \E ok \in BOOLEAN : Reply(c, call[c].cmd, ok, Nothing)
      <3>1. CASE Begin(c)
        BY <3>1, ConnParts DEF Begin, TxnInv, NoTxn
      <3>2. CASE CommitIdle(c) \/ Rollback(c) \/ SetVariable(c)
        <4>1. Reply(c, call[c].cmd, TRUE, Nothing)
          BY <3>2 DEF CommitIdle, Rollback, SetVariable
        <4> QED BY <4>1
      <3>3. CASE CommitOrConflict(c)
        <4>1. Reply(c, call[c].cmd, ~(catalog.version # txn[c].base), Nothing)
          BY <3>3 DEF CommitOrConflict
        <4>2. (~(catalog.version # txn[c].base)) \in BOOLEAN
          OBVIOUS
        <4> QED BY <4>1, <4>2
      <3>4. CASE CommitLogErr(c)
        <4>1. Reply(c, call[c].cmd, FALSE, Nothing)
          BY <3>4 DEF CommitLogErr
        <4> QED BY <4>1
      <3>5. CASE Deallocate(c)
        <4> DEFINE found == Parse[call[c].text].name \in DOMAIN named[c]
        <4>1. Reply(c, call[c].cmd, found, Nothing) /\ found \in BOOLEAN
          BY <3>5 DEF Deallocate
        <4> QED BY <4>1
      <3> QED BY <1>7, <3>1, <3>2, <3>3, <3>4, <3>5
    <2> QED BY <1>5, <2>1
  <1>8. CASE SqlPrepare(c)
    <2>1. \/ \E text : Plan(c, call[c].cmd, text, "prepare", <<>>) /\ log' = log
          \/ Reply(c, call[c].cmd, FALSE, Nothing)
      BY <1>8 DEF SqlPrepare
    <2>2. ASSUME NEW text, Plan(c, call[c].cmd, text, "prepare", <<>>), log' = log
          PROVE  LongEffect(c)
      <3> DEFINE k == [pc |-> "lookup", cmd |-> call[c].cmd, text |-> text, for |-> "prepare",
                       parameters |-> <<>>, seen |-> catalog.schema]
      <3>1. call' = [call EXCEPT ![c] = k]
        BY <2>2 DEF Plan
      <3>2. k.cmd = call[c].cmd /\ k.pc # "idle"
        OBVIOUS
      <3> HIDE DEF k
      <3> QED BY <1>6, <2>2, <3>1, <3>2
    <2> QED BY <1>5, <2>1, <2>2
  <1>9. CASE SqlExecute(c)
    <2>1. \/ \E s, values :
               /\ call' = [call EXCEPT ![c] = [pc |-> "bind", cmd |-> call[c].cmd,
                             prepared |-> s, parameters |-> values]]
               /\ log' = log
          \/ Reply(c, call[c].cmd, FALSE, Nothing)
      BY <1>9 DEF SqlExecute
    <2>2. ASSUME NEW s, NEW values, log' = log,
                 call' = [call EXCEPT ![c] = [pc |-> "bind", cmd |-> call[c].cmd,
                            prepared |-> s, parameters |-> values]]
          PROVE  LongEffect(c)
      <3> DEFINE k == [pc |-> "bind", cmd |-> call[c].cmd, prepared |-> s, parameters |-> values]
      <3>1. call' = [call EXCEPT ![c] = k] /\ k.cmd = call[c].cmd /\ k.pc # "idle"
        BY <2>2
      <3> HIDE DEF k
      <3> QED BY <1>6, <2>2, <3>1
    <2> QED BY <1>5, <2>1, <2>2
  <1> QED BY <1>7, <1>8, <1>9

\* Planning, binding and running a statement, with the parameters it has.
LEMMA RunLong ==
  ASSUME ShapeInv, NEW c \in Conns, HeldInv(c),
         \/ Lookup(c) \/ ParseAndInsert(c) \/ SqlPrepared(c) \/ Bind(c) \/ BindErr(c)
         \/ StartSomewhere(c) \/ Eval(c) \/ Finish(c)
  PROVE  LongEffect(c)
  <1> DEFINE k == call[c]
  <1>1. statements' = statements
    BY DEF Lookup, ParseAndInsert, SqlPrepared, Bind, BindErr, StartSomewhere, Start, Eval,
           EvalSubquery, Finish, session
  <1>2. k.pc \in {"lookup", "parse", "prepared", "bind", "start", "eval"}
    BY DEF Lookup, ParseAndInsert, SqlPrepared, Bind, BindErr, StartSomewhere, Eval, Finish, Running
  <1>3. conn[c] = "open" /\ (Planning(k) \/ Binding(k) \/ Evaluating(k)) /\ IsFcn(call)
    BY <1>2, CallShapes DEF ShapeInv
  <1>4. k # Idle
    <2>1. Idle.pc = "idle"
      BY DEF Idle
    <2> QED BY <1>2, <2>1
  <1>5. /\ k.cmd.kind \in {"query", "stmtPrepare", "stmtExecute"}
        /\ k.pc \in {"start", "eval"} => k.cmd.kind \in {"query", "stmtExecute"}
    BY <1>3 DEF Planning, Binding, Evaluating, Purpose
  <1>6. ASSUME log' = log, call'[c].pc # "idle", call'[c].cmd = k.cmd, call'[c].parameters = k.parameters
        PROVE  LongEffect(c)
    <2>1. Idle.pc = "idle"
      BY DEF Idle
    <2>2. call'[c] # Idle
      BY <1>6, <2>1
    <2> QED BY <1>1, <1>3, <1>4, <1>6, <2>2, CallLong
  <1>7. ASSUME NEW ok \in BOOLEAN, NEW value \in {Nothing, Ran(k.parameters)},
               Reply(c, k.cmd, ok, value), k.cmd.kind # "stmtPrepare" \/ ~ok
        PROVE  LongEffect(c)
    BY <1>1, <1>3, <1>4, <1>5, <1>7, ReplyLong
  <1>8. ASSUME Planned(c), log' = log, k.pc \in {"lookup", "parse"}
        PROVE  LongEffect(c)
    <2>1. Planning(k)
      BY <1>8, CallShapes
    <2>2. PICK next \in {"prepared", "control", "start"} :
            call' = [call EXCEPT ![c].pc = next]
      BY <1>8 DEF Planned
    <2>3. call'[c] = [k EXCEPT !.pc = next]
      BY <1>3, <2>2 DEF IsFcn
    <2>4. [k EXCEPT !.pc = next] = [pc |-> next, cmd |-> k.cmd, text |-> k.text, for |-> k.for,
                    parameters |-> k.parameters, seen |-> k.seen]
      BY <2>1 DEF Planning
    <2>5. call'[c] = [pc |-> next, cmd |-> k.cmd, text |-> k.text, for |-> k.for,
                      parameters |-> k.parameters, seen |-> k.seen]
      BY <2>3, <2>4
    <2>6. call'[c].pc # "idle" /\ call'[c].cmd = k.cmd /\ call'[c].parameters = k.parameters
      BY <2>2, <2>5
    <2> QED BY <1>6, <1>8, <2>6
  <1>9. CASE Lookup(c)
    <2>1. /\ k.pc = "lookup" /\ log' = log
          /\ \/ Planned(c)
             \/ call' = [call EXCEPT ![c].pc = "parse"]
      BY <1>9 DEF Lookup
    <2>2. CASE call' = [call EXCEPT ![c].pc = "parse"]
      <3>1. Planning(k)
        BY <2>1, CallShapes
      <3>2. call'[c] = [k EXCEPT !.pc = "parse"]
        BY <1>3, <2>2 DEF IsFcn
      <3>3. call'[c] = [pc |-> "parse", cmd |-> k.cmd, text |-> k.text, for |-> k.for,
                        parameters |-> k.parameters, seen |-> k.seen]
        BY <3>1, <3>2 DEF Planning
      <3>4. call'[c].pc # "idle" /\ call'[c].cmd = k.cmd /\ call'[c].parameters = k.parameters
        BY <3>3
      <3> QED BY <1>6, <2>1, <3>4
    <2> QED BY <1>8, <2>1, <2>2
  <1>10. CASE ParseAndInsert(c)
    <2>1. /\ k.pc = "parse"
          /\ \/ Reply(c, k.cmd, FALSE, Nothing)
             \/ Planned(c) /\ log' = log
      BY <1>10 DEF ParseAndInsert
    <2> QED BY <1>7, <1>8, <2>1
  <1>11. CASE SqlPrepared(c)
    <2>1. k.cmd.kind = "query" /\ Reply(c, k.cmd, ~PrepareFails(c), Nothing)
      BY <1>11 DEF SqlPrepared
    <2>2. (~PrepareFails(c)) \in BOOLEAN
      BY DEF PrepareFails
    <2> QED BY <1>7, <2>1, <2>2
  <1>12. CASE Bind(c)
    <2>1. /\ log' = log
          /\ \E pc \in {"start", "lookup"} : \E for, text :
               call' = [call EXCEPT ![c] = [pc |-> pc, cmd |-> k.cmd, text |-> text,
                         for |-> for, parameters |-> k.parameters,
                         seen |-> catalog.schema]]
      BY <1>12 DEF Bind, Plan
    <2>2. PICK pc \in {"start", "lookup"} : \E for, text :
            call' = [call EXCEPT ![c] = [pc |-> pc, cmd |-> k.cmd, text |-> text,
                      for |-> for, parameters |-> k.parameters,
                      seen |-> catalog.schema]]
      BY <2>1
    <2>5. PICK for, text :
            call' = [call EXCEPT ![c] = [pc |-> pc, cmd |-> k.cmd, text |-> text,
                      for |-> for, parameters |-> k.parameters,
                      seen |-> catalog.schema]]
      BY <2>2
    <2>3. call'[c] = [pc |-> pc, cmd |-> k.cmd, text |-> text, for |-> for,
                      parameters |-> k.parameters, seen |-> catalog.schema]
      BY <1>3, <2>5 DEF IsFcn
    <2>4. call'[c].pc # "idle" /\ call'[c].cmd = k.cmd /\ call'[c].parameters = k.parameters
      BY <2>2, <2>3
    <2> QED BY <1>6, <2>1, <2>4
  <1>13. CASE BindErr(c)
    <2>1. k.pc = "start" /\ Reply(c, k.cmd, FALSE, Nothing)
      BY <1>13 DEF BindErr
    <2> QED BY <1>7, <2>1
  <1>14. CASE StartSomewhere(c)
    <2>1. PICK thread, at : call'[c] = Started(c, thread, at) /\ log' = log
      BY <1>14, StartFacts
    <2>2. call'[c].pc # "idle" /\ call'[c].cmd = k.cmd /\ call'[c].parameters = k.parameters
      BY <2>1 DEF Started
    <2> QED BY <1>6, <2>1, <2>2
  <1>15. CASE Eval(c)
    <2>1. /\ Evaluating(k) /\ log' = log
          /\ \E r : call'[c] = [k EXCEPT !.got = r]
      BY <1>15, EvalFacts
    <2>2. PICK r : call'[c] = [k EXCEPT !.got = r]
      BY <2>1
    <2>3. call'[c] = [pc |-> "eval", cmd |-> k.cmd, text |-> k.text, parameters |-> k.parameters,
                      for |-> k.for, seen |-> k.seen, got |-> r,
                      work |-> k.work, thread |-> k.thread, at |-> k.at]
      BY <2>1, <2>2 DEF Evaluating
    <2>4. call'[c].pc # "idle" /\ call'[c].cmd = k.cmd /\ call'[c].parameters = k.parameters
      BY <2>3
    <2> QED BY <1>6, <2>1, <2>4
  <1>16. CASE Finish(c)
    <2>1. k.pc = "eval" /\ \E ok \in BOOLEAN : Reply(c, k.cmd, ok, Ran(k.parameters))
      BY <1>16, FinishFacts DEF Running
    <2>2. k.cmd.kind # "stmtPrepare"
      BY <1>5, <2>1
    <2> QED BY <1>7, <2>1, <2>2
  <1> QED BY <1>9, <1>10, <1>11, <1>12, <1>13, <1>14, <1>15, <1>16

\* Every step of a connection.
LEMMA LongEffects ==
  ASSUME ShapeInv, NEW c \in Conns, HeldInv(c), Step(c)
  PROVE  LongEffect(c)
  <1>1. CASE Handshake(c)
    <2>1. /\ conn[c] = "greeted" /\ UNCHANGED <<log, call, statements>>
      BY <1>1 DEF Handshake, session
    <2>2. call[c] = Idle
      BY <2>1, ConnParts
    <2> QED BY <2>1, <2>2 DEF LongEffect, Quiet, Pending
  <1>2. CASE Disconnect(c)
    <2>1. conn' = [conn EXCEPT ![c] = "closed"] /\ log' = log /\ IsFcn(conn)
      BY <1>2 DEF Disconnect, ShapeInv
    <2>2. conn'[c] = "closed"
      BY <2>1 DEF IsFcn
    <2> QED BY <2>1, <2>2 DEF LongEffect
  <1>3. CASE Session(c)
    BY <1>3, PreparedLong, ControlLong, RunLong DEF Session
  <1> QED BY <1>1, <1>2, <1>3, CommandLong DEF Step

---------------------------------------------------------------------------
(* Long data: the theorem *)

LongInv == FullInv /\ \A c \in Conns : HeldInv(c) /\ PastInv(c)

\* Before the first command there is no data.
LEMMA LongInit ==
  ASSUME Init
  PROVE  LongInv
  <1>1. ASSUME NEW c \in Conns PROVE HeldInv(c) /\ PastInv(c)
    <2>1. log[c] = <<>> /\ statements[c] = Empty /\ call[c] = Idle
      BY DEF Init
    <2>2. DOMAIN Empty = {} /\ DOMAIN <<>> = {}
      BY DEF Empty
    <2> QED BY <2>1, <2>2 DEF HeldInv, PastInv, LongTyped, Pending
  <1> QED BY <1>1, InitInv DEF LongInv

\* Every step keeps what is known of the data.
LEMMA LongNext ==
  ASSUME LongInv, [Next]_vars
  PROVE  LongInv'
  <1>1. FullInv /\ FullInv' /\ ShapeInv /\ PlanInv /\ \A d \in Conns : HeldInv(d) /\ PastInv(d)
    BY NextInv DEF LongInv, FullInv, IInv
  <1>2. ASSUME NEW d \in Conns, conn'[d] = conn[d], log'[d] = log[d], call'[d] = call[d],
               statements'[d] = statements[d]
        PROVE  HeldInv(d)' /\ PastInv(d)'
    <2>1. CASE conn[d] = "closed"
      BY <1>1, <1>2, <2>1 DEF HeldInv, PastInv
    <2>2. CASE conn[d] # "closed"
      <3>1. Quiet(d)
        BY <1>2 DEF Quiet, Pending
      <3> QED BY <1>1, <2>2, <3>1, LongQuiet
    <2> QED BY <2>1, <2>2
  <1>3. ASSUME NEW d \in Conns PROVE HeldInv(d)' /\ PastInv(d)'
    <2>1. CASE Next
      <3>1. PICK c \in Conns : Step(c)
        BY <1>1, <2>1, StepCases
      <3>2. CASE d = c
        <4>1. LongEffect(c)
          BY <1>1, <3>1, LongEffects
        <4> QED BY <1>1, <3>2, <4>1, LongStep
      <3>3. CASE d # c
        <4>1. Local(c)
          BY <1>1, <3>1, StepGood DEF Good
        <4>2. /\ conn'[d] = conn[d] /\ log'[d] = log[d] /\ call'[d] = call[d]
              /\ statements'[d] = statements[d]
          BY <3>3, <4>1 DEF Local, SameAt
        <4> QED BY <1>2, <4>2
      <3> QED BY <3>2, <3>3
    <2>2. CASE UNCHANGED vars
      BY <1>2, <2>2 DEF vars
    <2> QED BY <2>1, <2>2
  <1> QED BY <1>1, <1>3 DEF LongInv

\* What is known of the data holds in every reachable state.
LEMMA LongInvariance == Spec => []LongInv
  <1>1. Init => LongInv
    BY LongInit
  <1>2. LongInv /\ [Next]_vars => LongInv'
    BY LongNext
  <1> QED BY <1>1, <1>2, PTL DEF Spec

\* Whatever chunks, resets, executions, closes and prepares come in which
\* order, a parameter of an execution that runs is bound to the chunks sent
\* for it since its data was last dropped, or to the last of them when an
\* execution in between could not be decoded: none is used twice, none comes
\* from another statement that had the id.
THEOREM LongDataIsFreshHolds == Spec => []LongDataIsFresh
  <1>1. LongInv => LongDataIsFresh
    <2> SUFFICES ASSUME LongInv, NEW c \in Conns, NEW i \in DOMAIN log[c],
                        log[c][i].cmd.kind = "stmtExecute", log[c][i].value.ran,
                        NEW p \in DOMAIN log[c][i].value.bound, p \notin log[c][i].cmd.nulls
                 PROVE  LET id == log[c][i].cmd.id
                            value == log[c][i].value.bound
                            from == Max({j \in 1..(i - 1) : Discards(c, id, p, j)} \cup {0}) + 1
                            all == Chunks(c, id, p, from, i)
                            bound == IF value[p] = <<"inline">> THEN <<>> ELSE value[p]
                            failed == \E j \in from..i : log[c][j].cmd.kind = "stmtExecute"
                                                         /\ log[c][j].cmd.id = id
                                                         /\ ~log[c][j].value.ran
                        IN bound = all \/ (failed /\ IsSuffix(bound, all))
      BY DEF LongDataIsFresh
    <2> DEFINE L == log[c]
               id == L[i].cmd.id
               n == i - 1
               x == BoundLong(L[i].value.bound[p])
               S == {j \in 1..n : Discards(c, id, p, j)} \cup {0}
    <2>1. ShapeInv /\ PastInv(c)
      BY DEF LongInv, FullInv, IInv
    <2>2. i \in Nat /\ n \in Nat /\ n + 1 = i
      <3>1. IsSeq(L)
        BY <2>1, ConnParts
      <3>2. Len(L) \in Nat /\ DOMAIN L = 1..Len(L)
        BY <3>1, AppendFacts
      <3> QED BY <3>2
    <2>3. Fits(L, id, p, n, x)
      BY <2>1 DEF PastInv, Bindings
    <2>4. PICK m : /\ LastDrop(L, id, p, n, m)
                   /\ \/ x = Spelt(L, SentIn(L, id, p, m, n))
                      \/ /\ \E j \in (m + 1)..n : Fails(L, id, j)
                         /\ IsSuffix(x, Spelt(L, SentIn(L, id, p, m, n)))
      BY <2>3 DEF Fits
    <2>5. /\ m \in 0..n /\ (m # 0 => Drops(L, id, p, m))
          /\ \A j \in (m + 1)..n : ~Drops(L, id, p, j)
      BY <2>4 DEF LastDrop
    <2>6. \A j : Discards(c, id, p, j) <=> Drops(L, id, p, j)
      BY DEF Discards, Drops
    <2>7. Max(S) = m
      <3> HIDE DEF L, id, n
      <3>1. S \subseteq Nat /\ m \in S /\ \A y \in S : m >= y
        BY <2>2, <2>5, <2>6
      <3>2. Max(S) = CHOOSE y \in S : \A z \in S : y >= z
        BY DEF Max
      <3> HIDE DEF S
      <3>3. Max(S) \in S /\ \A y \in S : Max(S) >= y
        BY <3>1, <3>2
      <3>4. Max(S) >= m /\ m >= Max(S) /\ Max(S) \in Nat /\ m \in Nat
        BY <3>1, <3>3
      <3> QED BY <3>4
    <2>8. Chunks(c, id, p, m + 1, i) = Spelt(L, SentIn(L, id, p, m, n))
      <3>1. {j \in (m + 1)..i : Sends(L, id, p, j)} = SentIn(L, id, p, m, n)
        <4>1. ~Sends(L, id, p, i)
          BY DEF Sends
        <4>2. (m + 1)..i = ((m + 1)..n) \cup {i}
          BY <2>2, <2>5
        <4> HIDE DEF L, id, n
        <4> QED BY <4>1, <4>2 DEF SentIn
      <3>2. Chunks(c, id, p, m + 1, i) = Spelt(L, {j \in (m + 1)..i : Sends(L, id, p, j)})
        BY DEF Chunks, Spelt, Sends
      <3> QED BY <3>1, <3>2
    <2>9. (\E j \in (m + 1)..n : Fails(L, id, j)) => \E j \in (m + 1)..i : Fails(L, id, j)
      <3>1. \A j \in (m + 1)..n : j \in (m + 1)..i
        BY <2>2, <2>5
      <3> HIDE DEF L, id, n
      <3> QED BY <3>1
    <2> DEFINE all == Chunks(c, id, p, m + 1, i)
    <2>10. x = all \/ ((\E j \in (m + 1)..i : Fails(L, id, j)) /\ IsSuffix(x, all))
      BY <2>4, <2>8, <2>9
    <2> QED BY <2>7, <2>10 DEF Fails, BoundLong
  <1> QED BY <1>1, LongInvariance, PTL
=============================================================================
