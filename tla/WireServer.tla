----------------------------- MODULE WireServer -----------------------------
(***************************************************************************)
(* Connections of the MySQL wire protocol (wire/mod.rs), the session each  *)
(* of them owns, and what the sessions share: the published catalog, the   *)
(* plan cache (database.rs) and the cache of subquery results              *)
(* (executor.rs).                                                          *)
(*                                                                         *)
(* A connection's task handles one command at a time.  A command that runs *)
(* SQL takes several steps, one for every time it takes a lock others can  *)
(* take in between: read the schema version, look the plan up, parse and   *)
(* insert it, start, evaluate each subquery, finish.  COMMIT and its log   *)
(* are one step here; SqlDatabase has their detail.                        *)
(*                                                                         *)
(* A text stands for its normalised SQL and Parse gives its statement: the *)
(* kind, the number of parameters and the places where it evaluates a      *)
(* subquery.  A catalog's contents are the writes that made them, and the  *)
(* result of a subquery is the pair of query and contents.  Packet layout, *)
(* result encoding and the metadata of result columns are left out.        *)
(***************************************************************************)
EXTENDS Integers, Sequences, FiniteSets, SequencesExt, FiniteSetsExt, Functions, Positions

CONSTANTS
  Conns,
  Parse,        \* text -> statement; the texts are its domain
  Scripts,      \* connection -> the choices of its next commands: the bound
  Threads,      \* worker threads; a statement runs on one of them
  Addresses,    \* where an expression tree may be allocated
  PlanCapacity, \* SQLDatabaseOptions::plan_cache_capacity
  IdLimit       \* 2^32 in the code: statement ids are below it

Texts == DOMAIN Parse
NoConn == "none"

\* The commands of the protocol, by their fields.
Commands ==
  [kind : {"query", "stmtPrepare"}, text : Texts]
    \cup [kind : {"stmtReset", "stmtClose"}, id : Nat]
    \cup [kind : {"longData"}, id : Nat, param : Nat, chunk : {"head", "tail"}]
    \cup [kind : {"stmtExecute"}, id : Nat, nulls : SUBSET Nat, types : BOOLEAN,
          bad : SUBSET Nat]
    \cup [kind : {"ping", "unknown"}]

Queries == UNION {{Parse[t].sites[i].query : i \in DOMAIN Parse[t].sites} : t \in Texts}

ASSUME ServerAssumption ==
  /\ PlanCapacity \in Nat
  /\ IdLimit \in Nat /\ IdLimit > 1
  /\ NoConn \notin Conns
  /\ Cardinality(Threads) >= Cardinality(Conns)
  /\ \A t \in Texts : Parse[t].sites \in Seq([query : Queries, temporary : BOOLEAN])
  /\ Scripts \subseteq [Conns -> Seq(SUBSET Commands)]

VARIABLES
  conn,      \* connection -> "greeted", "open" or "closed"
  script,    \* what is left of Scripts
  log,       \* connection -> the commands it has handled, with their replies
  call,      \* connection -> the command being handled
  txn,       \* connection -> its session's transaction
  statements,\* connection -> id -> WirePreparedStatement
  nextId,    \* connection -> next_statement_id
  userVars,  \* connection -> the session's user variables
  named,     \* connection -> the session's named prepared statements
  catalog,   \* the published catalog
  lock,      \* the connection that holds the catalog's write lock
  plans,     \* plan cache entries, the least recently used first
  subqueries \* subquery cache: key -> result

vars == <<conn, script, log, call, txn, statements, nextId, userVars, named,
          catalog, lock, plans, subqueries>>
session == <<txn, statements, nextId, userVars, named>>
shared == <<catalog, lock, plans, subqueries>>

NoTxn == [active |-> FALSE]
Idle == [pc |-> "idle"]
Empty == [x \in {} |-> x]

Writes == {"write", "schema"}
Control == {"begin", "commit", "rollback"}
SessionKinds == {"set", "prepare", "execute", "deallocate"}

---------------------------------------------------------------------------
(* Replies *)

\* The status flags of a reply to COM_QUERY and COM_STMT_EXECUTE, read from
\* the session once the statement has run.  An error packet carries none.
Status_Before(c) == IF txn[c].active THEN "in" ELSE "out"
Status(c) == IF txn'[c].active THEN "in" ELSE "out"

\* COM_PING, COM_INIT_DB, COM_FIELD_LIST, COM_STMT_RESET and the packets that
\* end the columns of COM_STMT_PREPARE carry SERVER_STATUS_AUTOCOMMIT alone,
\* as if there were no transaction: the session is not asked.
Unasked(ok) == IF ok THEN "out" ELSE "none"

\* What a reply tells besides success: a statement id, the values bound.
Nothing == [id |-> 0, bound |-> <<>>, ran |-> FALSE]
NewStatement(id) == [Nothing EXCEPT !.id = id]
Ran(parameters) == [Nothing EXCEPT !.bound = parameters, !.ran = TRUE]

Logged(c, cmd, ok, flag, value) ==
  log' = [log EXCEPT ![c] =
            Append(@, [cmd |-> cmd, ok |-> ok, flag |-> flag, value |-> value])]

\* The command is done and its reply is written.
Reply(c, cmd, ok, value) ==
  /\ call' = [call EXCEPT ![c] = Idle]
  /\ Logged(c, cmd, ok, IF ok THEN Status(c) ELSE "none", value)

---------------------------------------------------------------------------
(* The plan cache *)

PlanPositions(text) == {i \in DOMAIN plans : plans[i].text = text}
PlanAt(text) == CHOOSE i \in PlanPositions(text) : TRUE
Without(text) ==
  IF PlanPositions(text) = {} THEN plans ELSE RemoveAt(plans, PlanAt(text))

\* PlanCache::get: an entry of another schema version is dropped, a hit
\* becomes the most recently used.
PlanHit(text, version) ==
  \E i \in PlanPositions(text) : plans[i].version = version

PlanGet(text, version) ==
  plans' = IF PlanHit(text, version)
           THEN Append(Without(text), plans[PlanAt(text)])
           ELSE Without(text)

\* PlanCache::insert evicts the least recently used entry of a full cache.
Full_Late(text) == Len(plans) > PlanCapacity /\ PlanPositions(text) = {}
Full(text) == Len(plans) >= PlanCapacity /\ PlanPositions(text) = {}

PlanInsert(text, version) ==
  LET kept == IF Full(text) THEN Tail(plans) ELSE Without(text)
  IN plans' = IF PlanCapacity = 0 THEN plans
              ELSE Append(kept, [text |-> text, version |-> version])

---------------------------------------------------------------------------
(* The connection *)

Init ==
  /\ conn = [c \in Conns |-> "greeted"]
  /\ script \in Scripts
  /\ log = [c \in Conns |-> <<>>]
  /\ call = [c \in Conns |-> Idle]
  /\ txn = [c \in Conns |-> NoTxn]
  /\ statements = [c \in Conns |-> Empty]
  /\ nextId = [c \in Conns |-> 1]
  /\ userVars = [c \in Conns |-> Empty]
  /\ named = [c \in Conns |-> Empty]
  /\ catalog = [version |-> 0, schema |-> 0, data |-> <<>>]
  /\ lock = NoConn
  /\ plans = <<>>
  /\ subqueries = Empty

\* The handshake: the credentials match, or the connection is closed.
Handshake(c) ==
  /\ conn[c] = "greeted"
  /\ \E accepted \in BOOLEAN :
       conn' = [conn EXCEPT ![c] = IF accepted THEN "open" ELSE "closed"]
  /\ UNCHANGED <<script, log, call, session, shared>>

\* COM_QUIT, an empty packet, a read or a write that fails: the loop ends
\* and the session is dropped with all that it holds.
Disconnect(c) ==
  /\ conn[c] = "open" /\ call[c] = Idle
  /\ conn' = [conn EXCEPT ![c] = "closed"]
  /\ txn' = [txn EXCEPT ![c] = NoTxn]
  /\ statements' = [statements EXCEPT ![c] = Empty]
  /\ userVars' = [userVars EXCEPT ![c] = Empty]
  /\ named' = [named EXCEPT ![c] = Empty]
  /\ UNCHANGED <<script, log, call, nextId, shared>>

\* The next command is read from the socket.
Receive(c, cmd) ==
  /\ conn[c] = "open" /\ call[c] = Idle
  /\ script[c] # <<>>
  /\ cmd \in Head(script[c])
  /\ script' = [script EXCEPT ![c] = Tail(@)]
  /\ UNCHANGED conn

\* COM_PING, COM_INIT_DB and COM_FIELD_LIST; a command the server does not
\* know is an error.
Ping(c, cmd) ==
  /\ Receive(c, cmd)
  /\ cmd.kind \in {"ping", "unknown"}
  /\ Logged(c, cmd, cmd.kind = "ping", Unasked(cmd.kind = "ping"), Nothing)
  /\ UNCHANGED <<call, session, shared>>

\* try_handle_system_query answers without the session.
SystemQuery(c, cmd) ==
  /\ Receive(c, cmd)
  /\ cmd.kind = "query" /\ Parse[cmd.text].kind = "system"
  /\ UNCHANGED <<session, shared>>
  /\ Reply(c, cmd, TRUE, Nothing)

\* parse_cached begins: the schema version is read from the catalog, which a
\* writer may hold.  "for" is what the plan is wanted for.
Plan(c, cmd, text, for, parameters) ==
  /\ lock = NoConn
  /\ call' = [call EXCEPT ![c] =
       [pc |-> "lookup", cmd |-> cmd, text |-> text, for |-> for,
        parameters |-> parameters, seen |-> catalog.schema]]

Query(c, cmd) ==
  /\ Receive(c, cmd)
  /\ cmd.kind = "query" /\ Parse[cmd.text].kind # "system"
  /\ Plan(c, cmd, cmd.text, "run", <<>>)
  /\ UNCHANGED <<log, session, shared>>

StmtPrepare(c, cmd) ==
  /\ Receive(c, cmd)
  /\ cmd.kind = "stmtPrepare"
  /\ Plan(c, cmd, cmd.text, "prepare", <<>>)
  /\ UNCHANGED <<log, session, shared>>

\* COM_STMT_RESET clears the statement's long data.
StmtReset(c, cmd) ==
  LET known == cmd.id \in DOMAIN statements[c]
  IN /\ Receive(c, cmd)
     /\ cmd.kind = "stmtReset"
     /\ statements' = IF known
                      THEN [statements EXCEPT ![c][cmd.id].long = Empty]
                      ELSE statements
     /\ Logged(c, cmd, known, Unasked(known), Nothing)
     /\ UNCHANGED <<call, txn, nextId, userVars, named, shared>>

\* COM_STMT_CLOSE has no reply.
StmtClose(c, cmd) ==
  /\ Receive(c, cmd)
  /\ cmd.kind = "stmtClose"
  /\ statements' = [statements EXCEPT ![c] = RestrictDomain(@, LAMBDA i : i # cmd.id)]
  /\ Logged(c, cmd, TRUE, "none", Nothing)
  /\ UNCHANGED <<call, txn, nextId, userVars, named, shared>>

\* COM_STMT_SEND_LONG_DATA appends to the parameter's data and has no reply;
\* neither the statement nor the parameter needs to exist.
SendLongData(c, cmd) ==
  LET known == cmd.id \in DOMAIN statements[c]
      long == statements[c][cmd.id].long
      before == IF cmd.param \in DOMAIN long THEN long[cmd.param] ELSE <<>>
      after == [p \in DOMAIN long \cup {cmd.param} |->
                  IF p = cmd.param THEN Append(before, cmd.chunk) ELSE long[p]]
  IN /\ Receive(c, cmd)
     /\ cmd.kind = "longData"
     /\ statements' = IF known
                      THEN [statements EXCEPT ![c][cmd.id].long = after]
                      ELSE statements
     /\ Logged(c, cmd, TRUE, "none", Nothing)
     /\ UNCHANGED <<call, txn, nextId, userVars, named, shared>>

---------------------------------------------------------------------------
(* COM_STMT_EXECUTE *)

\* Chunks are halves of one character: the bytes are UTF-8 when every head
\* is followed by its tail.
IsUtf8(bytes) ==
  /\ Len(bytes) % 2 = 0
  /\ \A i \in DOMAIN bytes : bytes[i] = IF i % 2 = 1 THEN "head" ELSE "tail"

\* decode_stmt_parameters takes the parameters in order, up to the first one
\* it cannot decode.  cmd.nulls are the bits of the NULL bitmap, cmd.bad the
\* parameters whose inline value is truncated or of an unsupported type.
Undecodable(stmt, cmd, p) ==
  /\ p \notin cmd.nulls
  /\ IF p \in DOMAIN stmt.long THEN ~IsUtf8(stmt.long[p]) ELSE p \in cmd.bad

\* Types come with the packet or are kept from an earlier execution.  Without
\* parameters the byte that announces them is still asked for: cmd.types says
\* that the packet has it.
Typed(stmt, cmd) == cmd.types \/ (stmt.typed /\ stmt.parameters > 0)

Decoded(stmt, cmd) ==
  LET stops == {p \in 1..stmt.parameters : Undecodable(stmt, cmd, p)}
  IN IF ~Typed(stmt, cmd) THEN 0
     ELSE IF stops = {} THEN stmt.parameters ELSE Min(stops)

DecodeFails(stmt, cmd) ==
  ~Typed(stmt, cmd) \/ \E p \in 1..stmt.parameters : Undecodable(stmt, cmd, p)

\* The long data of every parameter it reached is removed, except where the
\* bitmap says NULL.  Types stay for the executions after it.
AfterDecode_Keep(stmt, cmd) == [stmt EXCEPT !.typed = Typed(stmt, cmd)]
AfterDecode(stmt, cmd) ==
  LET taken == (1..Decoded(stmt, cmd)) \ cmd.nulls
  IN [stmt EXCEPT !.typed = Typed(stmt, cmd),
                  !.long = RestrictDomain(@, LAMBDA p : p \notin taken)]

ParameterValue(stmt, cmd, p) ==
  IF p \in cmd.nulls THEN <<"null">>
  ELSE IF p \in DOMAIN stmt.long THEN stmt.long[p] ELSE <<"inline">>

StmtExecute(c, cmd) ==
  LET known == cmd.id \in DOMAIN statements[c]
      stmt == statements[c][cmd.id]
      fails == ~known \/ DecodeFails(stmt, cmd)
      values == [p \in 1..stmt.parameters |-> ParameterValue(stmt, cmd, p)]
  IN /\ Receive(c, cmd)
     /\ cmd.kind = "stmtExecute"
     /\ statements' = IF known
                      THEN [statements EXCEPT ![c][cmd.id] = AfterDecode(@, cmd)]
                      ELSE statements
     /\ UNCHANGED <<txn, nextId, userVars, named, shared>>
     /\ IF fails
        THEN Reply(c, cmd, FALSE, Nothing)
        ELSE /\ call' = [call EXCEPT ![c] =
                  [pc |-> "bind", cmd |-> cmd, prepared |-> stmt,
                   parameters |-> values]]
             /\ UNCHANGED log

---------------------------------------------------------------------------
(* Planning *)

\* The statement is ready: what parse_cached was called for goes on.
Planned(c) ==
  LET k == call[c]
      next == IF k.for = "prepare" THEN "prepared"
              ELSE IF Parse[k.text].kind \in Control \cup SessionKinds THEN "control"
              ELSE "start"
  IN call' = [call EXCEPT ![c].pc = next]

Lookup(c) ==
  LET text == call[c].text
  IN /\ call[c].pc = "lookup"
     /\ PlanGet(text, call[c].seen)
     /\ IF PlanHit(text, call[c].seen)
        THEN Planned(c)
        ELSE call' = [call EXCEPT ![c].pc = "parse"]
     /\ UNCHANGED <<conn, script, log, session, catalog, lock, subqueries>>

\* parse_sql and the optimizer; only a statement that parses is inserted.
ParseAndInsert(c) ==
  LET text == call[c].text
  IN /\ call[c].pc = "parse"
     /\ UNCHANGED <<conn, script, session, catalog, lock, subqueries>>
     /\ IF Parse[text].kind = "invalid"
        THEN Reply(c, call[c].cmd, FALSE, Nothing) /\ UNCHANGED plans
        ELSE PlanInsert(text, call[c].seen) /\ Planned(c) /\ UNCHANGED log

---------------------------------------------------------------------------
(* Prepared statements *)

\* SQLSession::prepare refuses transaction and session control, and reads the
\* schema version a second time for the statement it returns.
PrepareFails(c) == Parse[call[c].text].kind \in Control \cup SessionKinds

Prepared(c) ==
  [text |-> call[c].text, schema |-> catalog.schema,
   parameters |-> Parse[call[c].text].parameters]

\* next_statement_id.wrapping_add(1).max(1)
NextStatementId(id) == Max({(id + 1) % IdLimit, 1})

StatementId_Reuse(c) == Cardinality(DOMAIN statements[c]) + 1
StatementId(c) == nextId[c]

\* The end of COM_STMT_PREPARE.  An id that is still in use is replaced.
StmtPrepared(c) ==
  LET id == StatementId(c)
      stmt == [text |-> Prepared(c).text, schema |-> Prepared(c).schema,
               parameters |-> Prepared(c).parameters,
               typed |-> FALSE, long |-> Empty]
      fails == PrepareFails(c)
  IN /\ call[c].pc = "prepared" /\ call[c].cmd.kind = "stmtPrepare"
     /\ lock = NoConn
     /\ statements' = IF fails THEN statements
                      ELSE [statements EXCEPT ![c] =
                              [i \in DOMAIN @ \cup {id} |-> IF i = id THEN stmt ELSE @[i]]]
     /\ nextId' = IF fails THEN nextId
                  ELSE [nextId EXCEPT ![c] = NextStatementId(@)]
     /\ call' = [call EXCEPT ![c] = Idle]
     /\ Logged(c, call[c].cmd, ~fails, Unasked(~fails),
               IF fails THEN Nothing ELSE NewStatement(id))
     /\ UNCHANGED <<conn, script, txn, userVars, named, shared>>

\* The end of the statement PREPARE.
SqlPrepared(c) ==
  LET name == Parse[call[c].cmd.text].name
      fails == PrepareFails(c)
  IN /\ call[c].pc = "prepared" /\ call[c].cmd.kind = "query"
     /\ lock = NoConn
     /\ named' = IF fails THEN named
                 ELSE [named EXCEPT ![c] =
                         [n \in DOMAIN @ \cup {name} |->
                            IF n = name THEN Prepared(c) ELSE @[n]]]
     /\ UNCHANGED <<conn, script, txn, statements, nextId, userVars, shared>>
     /\ Reply(c, call[c].cmd, ~fails, Nothing)

\* execute_prepared keeps the plan while the schema version is the one the
\* statement was prepared under, and plans its text again otherwise.
\* parse_cached reads the version a second time; versions only grow, so the
\* two reads are one step, that of the second.
Bind(c) ==
  LET k == call[c]
  IN /\ k.pc = "bind"
     /\ lock = NoConn
     /\ IF catalog.schema = k.prepared.schema
        THEN call' = [call EXCEPT ![c] =
               [pc |-> "start", cmd |-> k.cmd, text |-> k.prepared.text,
                for |-> "kept", parameters |-> k.parameters,
                seen |-> catalog.schema]]
        ELSE Plan(c, k.cmd, k.prepared.text, "execute", k.parameters)
     /\ UNCHANGED <<conn, script, log, session, shared>>

---------------------------------------------------------------------------
(* Transaction and session control *)

InControl(c, kind) ==
  call[c].pc = "control" /\ Parse[call[c].text].kind = kind

Begin(c) ==
  /\ InControl(c, "begin")
  /\ txn[c].active \/ lock = NoConn
  /\ txn' = IF txn[c].active THEN txn
            ELSE [txn EXCEPT ![c] =
                    [active |-> TRUE, base |-> catalog.version, cat |-> catalog,
                     wrote |-> FALSE, schemaChanged |-> FALSE]]
  /\ UNCHANGED <<conn, script, statements, nextId, userVars, named, shared>>
  /\ Reply(c, call[c].cmd, ~txn[c].active, Nothing)

\* COMMIT without a transaction succeeds; a conflict ends the transaction; a
\* log that cannot be written keeps it, with the versions it was to publish.
SchemaAfter(t) == catalog.schema + (IF t.schemaChanged THEN 1 ELSE 0)

CommitIdle(c) ==
  /\ InControl(c, "commit") /\ ~txn[c].active
  /\ UNCHANGED <<conn, script, session, shared>>
  /\ Reply(c, call[c].cmd, TRUE, Nothing)

CommitOrConflict(c) ==
  LET t == txn[c]
      conflict == catalog.version # t.base
      publish == ~conflict /\ t.wrote
  IN /\ InControl(c, "commit") /\ t.active /\ lock = NoConn
     /\ txn' = [txn EXCEPT ![c] = NoTxn]
     /\ catalog' = IF publish
                   THEN [version |-> catalog.version + 1, schema |-> SchemaAfter(t),
                         data |-> t.cat.data]
                   ELSE catalog
     /\ plans' = IF publish /\ t.schemaChanged THEN <<>> ELSE plans
     /\ UNCHANGED <<conn, script, statements, nextId, userVars, named, lock, subqueries>>
     /\ Reply(c, call[c].cmd, ~conflict, Nothing)

CommitLogErr(c) ==
  LET t == txn[c]
  IN /\ InControl(c, "commit") /\ t.active /\ lock = NoConn
     /\ catalog.version = t.base /\ t.wrote
     /\ txn' = [txn EXCEPT ![c].cat =
                  [@ EXCEPT !.version = catalog.version + 1, !.schema = SchemaAfter(t)]]
     /\ UNCHANGED <<conn, script, statements, nextId, userVars, named, shared>>
     /\ Reply(c, call[c].cmd, FALSE, Nothing)

Rollback(c) ==
  /\ InControl(c, "rollback")
  /\ txn' = [txn EXCEPT ![c] = NoTxn]
  /\ UNCHANGED <<conn, script, statements, nextId, userVars, named, shared>>
  /\ Reply(c, call[c].cmd, TRUE, Nothing)

SetVariable(c) ==
  LET st == Parse[call[c].text]
  IN /\ InControl(c, "set")
     /\ userVars' = [userVars EXCEPT ![c] =
                       [v \in DOMAIN @ \cup {st.name} |->
                          IF v = st.name THEN st.value ELSE @[v]]]
     /\ UNCHANGED <<conn, script, txn, statements, nextId, named, shared>>
     /\ Reply(c, call[c].cmd, TRUE, Nothing)

\* PREPARE name FROM a text or a user variable that holds one.
SqlPrepare(c) ==
  LET st == Parse[call[c].text]
      text == IF st.source \in Texts THEN st.source
              ELSE IF st.source \in DOMAIN userVars[c] THEN userVars[c][st.source]
              ELSE "unset"
  IN /\ InControl(c, "prepare")
     /\ UNCHANGED <<conn, script, session, shared>>
     /\ IF text \in Texts
        THEN Plan(c, call[c].cmd, text, "prepare", <<>>) /\ UNCHANGED log
        ELSE Reply(c, call[c].cmd, FALSE, Nothing)

SqlExecute(c) ==
  LET st == Parse[call[c].text]
      known == st.name \in DOMAIN named[c] /\ Range(st.using) \subseteq DOMAIN userVars[c]
  IN /\ InControl(c, "execute")
     /\ UNCHANGED <<conn, script, session, shared>>
     /\ IF known
        THEN /\ call' = [call EXCEPT ![c] =
                  [pc |-> "bind", cmd |-> call[c].cmd, prepared |-> named[c][st.name],
                   parameters |-> [i \in DOMAIN st.using |-> userVars[c][st.using[i]]]]]
             /\ UNCHANGED log
        ELSE Reply(c, call[c].cmd, FALSE, Nothing)

Deallocate(c) ==
  LET name == Parse[call[c].text].name
  IN /\ InControl(c, "deallocate")
     /\ named' = [named EXCEPT ![c] = RestrictDomain(@, LAMBDA n : n # name)]
     /\ UNCHANGED <<conn, script, txn, statements, nextId, userVars, shared>>
     /\ Reply(c, call[c].cmd, name \in DOMAIN named[c], Nothing)

---------------------------------------------------------------------------
(* Running a statement *)

Running(c) == call[c].pc = "eval"
Live == UNION {Range(call[c].at) : c \in {d \in Conns : Running(d)}}
BusyThreads == {call[c].thread : c \in {d \in Conns : Running(d)}}

Sites(c) == Parse[call[c].text].sites
Kept(c) == {i \in DOMAIN Sites(c) : ~Sites(c)[i].temporary}

\* bind_parameters refuses the wrong number of values.  COM_QUERY does not
\* bind: a placeholder in its text is an error when it is evaluated.
Unbound(c) == Len(call[c].parameters) # Parse[call[c].text].parameters

BindErr(c) ==
  /\ call[c].pc = "start" /\ call[c].for # "run"
  /\ Unbound(c)
  /\ UNCHANGED <<conn, script, session, shared>>
  /\ Reply(c, call[c].cmd, FALSE, Nothing)

Clear_Keep == UNCHANGED subqueries
Clear == subqueries' = Empty

\* execute_statement starts on the transaction's catalog, a snapshot, or the
\* catalog itself under the write lock, and clears the shared cache.  The
\* statement's tree has been allocated where nobody else's is.
Start(c, thread, at) ==
  LET st == Parse[call[c].text]
      auto == ~txn[c].active
  IN /\ call[c].pc = "start"
     /\ Unbound(c) => call[c].for = "run"
     /\ auto => lock = NoConn
     /\ lock' = IF auto /\ st.kind \in Writes THEN c ELSE lock
     /\ Clear
     /\ call' = [call EXCEPT ![c] =
          [pc |-> "eval", cmd |-> @.cmd, text |-> @.text, parameters |-> @.parameters,
           for |-> @.for, seen |-> @.seen, got |-> <<>>,
           work |-> IF auto THEN catalog ELSE txn[c].cat, thread |-> thread, at |-> at]]
     /\ UNCHANGED <<conn, script, log, session, catalog, plans>>

StartSomewhere(c) ==
  /\ call[c].pc = "start"
  /\ \E thread \in Threads \ BusyThreads :
       \E at \in Injection(Kept(c), Addresses \ Live) : Start(c, thread, at)

\* execute_subquery_cached: the key is the catalog's version, the address of
\* the query and the address of the CTE map, a local of the thread.  The tree
\* an ON DUPLICATE KEY assignment is evaluated from is a copy that is freed
\* right after.
EvalSubquery(c, address) ==
  LET k == call[c]
      site == Sites(c)[Len(k.got) + 1]
      key == <<k.work.version, address, k.thread>>
      result == IF key \in DOMAIN subqueries THEN subqueries[key]
                ELSE [query |-> site.query, data |-> k.work.data]
  IN /\ call' = [call EXCEPT ![c].got = Append(@, result)]
     /\ subqueries' = [x \in DOMAIN subqueries \cup {key} |->
                         IF x = key THEN result ELSE subqueries[x]]
     /\ UNCHANGED <<conn, script, log, session, catalog, lock, plans>>

Eval(c) ==
  LET i == Len(call[c].got) + 1
  IN /\ Running(c)
     /\ i <= Len(Sites(c))
     /\ IF i \in Kept(c) THEN EvalSubquery(c, call[c].at[i])
        ELSE \E address \in Addresses \ Live : EvalSubquery(c, address)

\* The guard of the write lock is dropped on every way out.
Released_OnSuccess(c, ok) == IF lock = c /\ ok THEN NoConn ELSE lock
Released(c, ok) == IF lock = c THEN NoConn ELSE lock

\* The statement ends.  A write may fail (a constraint, the log) and then
\* changes nothing; in a transaction it stays in the transaction's catalog.
\* A schema statement is published and told to have failed when the save that
\* follows it does.
Finish(c) ==
  LET k == call[c]
      kind == Parse[k.text].kind
      write == kind \in Writes
      written == [k.work EXCEPT !.data = Append(@, k.text)]
      schema == catalog.schema + (IF kind = "schema" THEN 1 ELSE 0)
  IN /\ Running(c) /\ Len(k.got) = Len(Sites(c))
     /\ \E ok \in {TRUE, ~write /\ ~Unbound(c)} :
          /\ txn' = IF ok /\ write /\ txn[c].active
                    THEN [txn EXCEPT ![c].cat = written, ![c].wrote = TRUE,
                                     ![c].schemaChanged = @ \/ kind = "schema"]
                    ELSE txn
          /\ catalog' = IF ok /\ write /\ ~txn[c].active
                        THEN [written EXCEPT !.version = @ + 1, !.schema = schema]
                        ELSE catalog
          /\ lock' = Released(c, ok)
          /\ UNCHANGED <<conn, script, statements, nextId, userVars, named,
                         plans, subqueries>>
          /\ \E told \in {ok, ok /\ (kind # "schema" \/ txn[c].active)} :
               Reply(c, k.cmd, told, Ran(k.parameters))

---------------------------------------------------------------------------

Command(c, cmd) ==
  \/ Ping(c, cmd) \/ SystemQuery(c, cmd) \/ Query(c, cmd)
  \/ StmtPrepare(c, cmd) \/ StmtReset(c, cmd) \/ StmtClose(c, cmd)
  \/ SendLongData(c, cmd) \/ StmtExecute(c, cmd)

Session(c) ==
  \/ Lookup(c) \/ ParseAndInsert(c) \/ StmtPrepared(c) \/ SqlPrepared(c) \/ Bind(c)
  \/ Begin(c) \/ CommitIdle(c) \/ CommitOrConflict(c) \/ CommitLogErr(c) \/ Rollback(c)
  \/ SetVariable(c) \/ SqlPrepare(c) \/ SqlExecute(c) \/ Deallocate(c)
  \/ BindErr(c) \/ StartSomewhere(c) \/ Eval(c) \/ Finish(c)

Next ==
  \E c \in Conns :
    \/ Handshake(c) \/ Disconnect(c) \/ Session(c)
    \/ script[c] # <<>> /\ \E cmd \in Head(script[c]) : Command(c, cmd)

\* A connection's task goes on with the command it has read.
Spec == Init /\ [][Next]_vars /\ \A c \in Conns : WF_vars(Session(c))

---------------------------------------------------------------------------
(* Properties *)

\* The type invariant: the plan cache stays within its capacity, with one
\* entry for a text, and nobody but a running writer holds the catalog.
TypeOK ==
  /\ conn \in [Conns -> {"greeted", "open", "closed"}]
  /\ Len(plans) <= PlanCapacity
  /\ \A i, j \in DOMAIN plans : plans[i].text = plans[j].text => i = j
  /\ \A c \in Conns : nextId[c] \in 1..(IdLimit - 1)
  /\ lock # NoConn => Running(lock) /\ ~txn[lock].active

\* Replies whose flags were read from the session.
Tells(entry) == entry.flag # "none" /\ entry.cmd.kind \in {"query", "stmtExecute"}
Flagged(c) == {i \in DOMAIN log[c] : Tells(log[c][i])}

FailedCommit(entry) ==
  ~entry.ok /\ entry.cmd.kind = "query" /\ Parse[entry.cmd.text].kind = "commit"

\* What COM_QUERY and COM_STMT_EXECUTE told the client about its transaction
\* (SERVER_STATUS_IN_TRANS) stays true until its next command: a session
\* without the flag has no transaction, one with it has, unless a COMMIT has
\* failed since, whose error packet has no flags.  The replies to the other
\* commands are not counted: inside a transaction theirs is wrong (Unasked).
TransactionFlagIsTrue ==
  \A c \in Conns : (conn[c] = "open" /\ call[c] = Idle) =>
    LET last == Max(Flagged(c) \cup {0})
    IN IF last = 0 \/ log[c][last].flag = "out" THEN ~txn[c].active
       ELSE \/ txn[c].active
            \/ \E i \in DOMAIN log[c] : i > last /\ FailedCommit(log[c][i])

PreparedAt(c) == {i \in DOMAIN log[c] : log[c][i].cmd.kind = "stmtPrepare" /\ log[c][i].ok}

\* A statement id the client was given (COM_STMT_PREPARE) and has not closed
\* names the statement it was given for, however prepares and closes
\* alternate, until ids have gone round once.
StatementIdsResolve ==
  \A c \in Conns : conn[c] = "open" =>
    \A i \in PreparedAt(c) :
      LET id == log[c][i].value.id
          closed == \E j \in DOMAIN log[c] :
                      j > i /\ log[c][j].cmd.kind = "stmtClose" /\ log[c][j].cmd.id = id
          around == Cardinality({j \in PreparedAt(c) : j > i}) >= IdLimit - 1
      IN \/ closed \/ around
         \/ id \in DOMAIN statements[c] /\ statements[c][id].text = log[c][i].cmd.text

\* The chunks sent for a parameter in the entries from i to j of a log.
Chunks(c, id, p, i, j) ==
  LET sent == At(log[c], {n \in i..j : /\ log[c][n].cmd.kind = "longData"
                                       /\ log[c][n].cmd.id = id
                                       /\ log[c][n].cmd.param = p})
  IN [n \in DOMAIN sent |-> sent[n].cmd.chunk]

\* Entries that leave no long data of parameter p behind.
Discards(c, id, p, i) ==
  LET e == log[c][i]
  IN \/ e.cmd.kind = "stmtPrepare" /\ e.ok /\ e.value.id = id
     \/ e.cmd.kind \in {"stmtReset", "stmtClose"} /\ e.cmd.id = id
     \/ e.cmd.kind = "stmtExecute" /\ e.cmd.id = id /\ e.value.ran /\ p \notin e.cmd.nulls

\* A parameter is bound to the long data the client sent for it since the
\* statement was prepared, reset or last executed with it: no chunk is used
\* twice or by another statement that got the same id, and none is missing
\* unless an execution in between could not be decoded.
LongDataIsFresh ==
  \A c \in Conns : \A i \in DOMAIN log[c] :
    (log[c][i].cmd.kind = "stmtExecute" /\ log[c][i].value.ran) =>
      LET id == log[c][i].cmd.id
          value == log[c][i].value.bound
      IN \A p \in DOMAIN value : p \notin log[c][i].cmd.nulls =>
           LET from == Max({j \in 1..(i - 1) : Discards(c, id, p, j)} \cup {0}) + 1
               all == Chunks(c, id, p, from, i)
               bound == IF value[p] = <<"inline">> THEN <<>> ELSE value[p]
               failed == \E j \in from..i : log[c][j].cmd.kind = "stmtExecute"
                                            /\ log[c][j].cmd.id = id
                                            /\ ~log[c][j].value.ran
           IN bound = all \/ (failed /\ IsSuffix(bound, all))

\* What execute_subquery_cached returns is the result of that subquery on the
\* catalog the statement runs on: not that of another subquery, of another
\* session's private catalog or of an earlier statement.
SubqueryIsOwn ==
  \A c \in Conns : Running(c) =>
    \A i \in DOMAIN call[c].got :
      call[c].got[i] = [query |-> Sites(c)[i].query, data |-> call[c].work.data]

\* A command that was read is answered: no error path of a statement, a commit
\* or a prepare leaves the catalog's lock behind for the other connections.
CommandsEnd == \A c \in Conns : call[c] # Idle ~> call[c] = Idle
=============================================================================
