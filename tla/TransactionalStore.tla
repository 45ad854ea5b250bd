------------------------- MODULE TransactionalStore -------------------------
(***************************************************************************)
(* What the SQL database promises its sessions, with no versions, locks,   *)
(* log, snapshot or files: one store that every commit replaces atomically *)
(* and no crash can change.  A transaction works on the store it began     *)
(* with and commits only if nothing was committed since.  A commit whose   *)
(* client never got an answer may still surface, but only before anything  *)
(* else is committed.                                                      *)
(***************************************************************************)
CONSTANTS Session, Stmt, Content, Exec(_, _), ExecError, InitContent

VARIABLES
    store,      \* the committed contents
    view,       \* view[s] = <<c>>: private contents of an open transaction; <<>>: none
    stale,      \* sessions whose transaction some commit has overtaken
    inDoubt     \* outcomes of unanswered commits

vars == <<store, view, stale, inDoubt>>

Init ==
    /\ store = InitContent
    /\ view = [s \in Session |-> <<>>]
    /\ stale = {}
    /\ inDoubt = {}

Begin(s) ==
    /\ view[s] = <<>>
    /\ view' = [view EXCEPT ![s] = <<store>>]
    /\ UNCHANGED <<store, stale, inDoubt>>

Execute(s, st) ==
    /\ view[s] # <<>>
    /\ Exec(view[s][1], st) # ExecError
    /\ view' = [view EXCEPT ![s] = <<Exec(view[s][1], st)>>]
    /\ UNCHANGED <<store, stale, inDoubt>>

(* ROLLBACK, a serialization conflict, or the commit of an empty transaction *)
End(s) ==
    /\ view[s] # <<>>
    /\ view' = [view EXCEPT ![s] = <<>>]
    /\ stale' = stale \ {s}
    /\ UNCHANGED <<store, inDoubt>>

Overtaken(s) == {t \in Session \ {s} : view[t] # <<>>}

Commit(s) ==
    /\ view[s] # <<>> /\ s \notin stale
    /\ store' = view[s][1]
    /\ view' = [view EXCEPT ![s] = <<>>]
    /\ stale' = Overtaken(s)
    /\ inDoubt' = {}

Autocommit(s, st) ==
    /\ view[s] = <<>>
    /\ Exec(store, st) # ExecError
    /\ store' = Exec(store, st)
    /\ stale' = Overtaken(s)
    /\ inDoubt' = {}
    /\ UNCHANGED view

(* What some session may be committing right now.                           *)
InFlight == {view[s][1] : s \in {t \in Session \ stale : view[t] # <<>>}}
                \cup ({Exec(store, st) : st \in Stmt} \ {ExecError})

Crash ==
    /\ view' = [s \in Session |-> <<>>]
    /\ stale' = {}
    /\ \/ UNCHANGED inDoubt
       \/ \E c \in InFlight : inDoubt' = {c}
    /\ UNCHANGED store

(* Recovery decides a commit that was in doubt.                             *)
Recover ==
    /\ store' \in inDoubt
    /\ inDoubt' = {}
    /\ \A s \in Session : view[s] = <<>>
    /\ UNCHANGED <<view, stale>>

Next ==
    \/ \E s \in Session :
         \/ Begin(s) \/ End(s) \/ Commit(s)
         \/ \E st \in Stmt : Execute(s, st) \/ Autocommit(s, st)
    \/ Crash \/ Recover

Spec == Init /\ [][Next]_vars
=============================================================================
