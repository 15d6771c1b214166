------------------------- MODULE SqliteTransactions -------------------------
(***************************************************************************)
(* backend/src/config/db.ts on SQLite.  Every request of the process uses  *)
(* ONE connection, so the statements of other requests run inside whatever *)
(* transaction is open, see its uncommitted rows, and are committed or     *)
(* rolled back with it.  The handlers modelled are recordToken,            *)
(* recordTokenTransfer, removeUser and removeNotification, one step per    *)
(* awaited statement.                                                      *)
(***************************************************************************)
EXTENDS RecordTables

CONSTANTS
    DeleteReqs,  \* calls of removeUser
    DismissReqs  \* calls of removeNotification

Requests == RecordReqs \cup DeleteReqs \cup DismissReqs

ASSUME RequestsDisjoint ==
    /\ RecordReqs \cap (DeleteReqs \cup DismissReqs) = {}
    /\ DeleteReqs \cap DismissReqs = {}

ASSUME NoneIsNoCall == None \notin Requests

VARIABLES
    disk,      \* the committed database
    view,      \* what the connection sees: disk plus the open transaction
    tx,        \* the request whose BEGIN opened the transaction, or None
    pc,        \* where each request stands
    target,    \* the account each request is about
    committed  \* history: requests whose COMMIT succeeded

vars == <<disk, view, tx, pc, target, committed>>

\* The stages of withTransaction between BEGIN and COMMIT or ROLLBACK.
Inserting == Tables
InTransaction == Inserting \cup {"commit", "rollback"}
InFlight == {"found", "done"} \cup InTransaction
\* "busy": answered with an error because BEGIN found a transaction open;
\* "failed": any other error; "lost": the process died first.
Answered == {"acked", "busy", "failed"}
Stages == {"new", "lost"} \cup InFlight \cup Answered

NextStage == [tokens |-> "transactions",
              transactions |-> "notifications",
              notifications |-> "commit"]

FirstTable(r) == IF r \in TokenReqs THEN "tokens" ELSE "transactions"

TypeOK ==
    /\ disk \in Database
    /\ view \in Database
    /\ tx \in RecordReqs \cup {None}
    /\ pc \in [Requests -> Stages]
    /\ target \in [Requests -> Users]
    /\ committed \in SUBSET RecordReqs

Init ==
    /\ disk = EmptyLedger
    /\ view = EmptyLedger
    /\ tx = None
    /\ pc = [r \in Requests |-> "new"]
    /\ target \in [Requests -> Users]
    /\ committed = {}

-----------------------------------------------------------------------------
Goto(r, stage) == pc' = [pc EXCEPT ![r] = stage]

\* A successful statement: durable at once only if no transaction is open.
Execute(newView) ==
    /\ view' = newView
    /\ disk' = IF tx = None THEN newView ELSE disk

\* getUserById, the first await of every handler but removeNotification.
FindUser(r) ==
    /\ r \in RecordReqs \cup DeleteReqs
    /\ pc[r] = "new"
    /\ Goto(r, IF target[r] \in view.users THEN "found" ELSE "failed")
    /\ UNCHANGED <<disk, view, tx, target, committed>>

\* The request is answered with an error and has written nothing: no wallet is
\* linked, chainVerifier rejects the claim, or the first statement of its own
\* fails, the DELETE of a handler that has only one included.
Refuse(r) ==
    /\ pc[r] \in {"new", "found"}
    /\ Goto(r, "failed")
    /\ UNCHANGED <<disk, view, tx, target, committed>>

\* BEGIN stands before the try block: when it fails nothing is rolled back.
Begin(r) ==
    /\ r \in RecordReqs
    /\ pc[r] = "found"
    /\ IF tx = None THEN tx' = r /\ Goto(r, FirstTable(r))
                    ELSE UNCHANGED tx /\ Goto(r, "busy")
    /\ UNCHANGED <<disk, view, target, committed>>

\* createToken, createTransaction, createNotification in the handler's order.
\* The foreign key is checked against the connection's view.
Insert(r) ==
    /\ r \in RecordReqs
    /\ pc[r] \in Inserting
    /\ IF target[r] \in view.users
       THEN /\ Execute(InsertRow(view, [table |-> pc[r], req |-> r, user |-> target[r]]))
            /\ Goto(r, NextStage[pc[r]])
       ELSE /\ UNCHANGED <<disk, view>>
            /\ Goto(r, "rollback")
    /\ UNCHANGED <<tx, target, committed>>

\* A catch that answers without ROLLBACK; one that carries on after a failed
\* INSERT; one that takes a failed COMMIT for success.
StatementFailsNoRollback(r) ==
    /\ r \in RecordReqs
    /\ pc[r] \in Inserting \cup {"commit"}
    /\ Goto(r, "failed")
    /\ UNCHANGED <<disk, view, tx, target, committed>>

StatementFailsCarryOn(r) ==
    /\ r \in RecordReqs
    /\ pc[r] \in Inserting
    /\ Goto(r, NextStage[pc[r]])
    /\ UNCHANGED <<disk, view, tx, target, committed>>

StatementFailsUnnoticed(r) ==
    /\ r \in RecordReqs
    /\ pc[r] = "commit"
    /\ Goto(r, "done")
    /\ UNCHANGED <<disk, view, tx, target, committed>>

\* Any statement of the transaction may fail for a reason of its own.
StatementFails(r) ==
    /\ r \in RecordReqs
    /\ pc[r] \in Inserting \cup {"commit"}
    /\ Goto(r, "rollback")
    /\ UNCHANGED <<disk, view, tx, target, committed>>

Commit(r) ==
    /\ r \in RecordReqs
    /\ pc[r] = "commit"
    /\ IF tx = None
       THEN UNCHANGED <<disk, tx, committed>> /\ Goto(r, "rollback")
       ELSE /\ disk' = view
            /\ tx' = None
            /\ committed' = committed \cup {r}
            /\ Goto(r, "done")
    /\ UNCHANGED <<view, target>>

\* ROLLBACK, then the error is rethrown.  It undoes everything the connection
\* did since BEGIN, whoever asked for it.
Rollback(r) ==
    /\ r \in RecordReqs
    /\ pc[r] = "rollback"
    /\ view' = disk
    /\ tx' = None
    /\ Goto(r, "failed")
    /\ UNCHANGED <<disk, target, committed>>

\* deleteUserById.
DeleteUser(r) ==
    /\ r \in DeleteReqs
    /\ pc[r] = "found"
    /\ Execute(CascadeDelete(view, target[r]))
    /\ Goto(r, "done")
    /\ UNCHANGED <<tx, target, committed>>

\* deleteNotification: the caller names a notification it has been shown.
DismissNotification(r) ==
    /\ r \in DismissReqs
    /\ pc[r] = "new"
    /\ \E x \in view.rows :
           /\ x.table = "notifications"
           /\ x.user = target[r]
           /\ Execute(DeleteRow(view, x))
    /\ Goto(r, "done")
    /\ UNCHANGED <<tx, target, committed>>

Respond(r) ==
    /\ pc[r] = "done"
    /\ Goto(r, "acked")
    /\ UNCHANGED <<disk, view, tx, target, committed>>

\* The process dies and starts again on the same file.
Crash ==
    /\ view' = disk
    /\ tx' = None
    /\ pc' = [r \in Requests |-> IF pc[r] \in InFlight THEN "lost" ELSE pc[r]]
    /\ UNCHANGED <<disk, target, committed>>

Step(r) ==
    \/ FindUser(r) \/ Refuse(r) \/ Begin(r) \/ Insert(r) \/ StatementFails(r)
    \/ Commit(r) \/ Rollback(r) \/ DeleteUser(r) \/ DismissNotification(r)
    \/ Respond(r)

Next == Crash \/ \E r \in Requests : Step(r)

Spec == Init /\ [][Next]_vars
-----------------------------------------------------------------------------
\* The rows request r has asked for by the time it reaches its stage.
WrittenTables(r) ==
    CASE pc[r] \in {"found", "tokens"} -> {}
      [] pc[r] = "transactions" -> TablesOf(r) \cap {"tokens"}
      [] pc[r] = "notifications" -> TablesOf(r) \ {"notifications"}
      [] OTHER -> TablesOf(r)

Written(r) == {x \in Group(r, target[r]) : x.table \in WrittenTables(r)}

\* The connection's view is the disk plus the open transaction's own rows,
\* less what any request deleted meanwhile; with no transaction open the two
\* agree.  A transaction that outlives its request, or one ended by another
\* request, breaks it (db.ts withTransaction).
ViewIsDiskPlusOpenTransaction ==
    IF tx = None
    THEN view = disk
    ELSE pc[tx] # "rollback" =>
             Shrinks([disk EXCEPT !.rows = @ \cup Written(tx)], view)

\* A transaction is open exactly while the request that opened it is between
\* BEGIN and COMMIT/ROLLBACK: none is left open behind an answered request,
\* which would make every later BEGIN fail.
TransactionHasOneLiveOwner ==
    \A r \in RecordReqs : pc[r] \in InTransaction <=> tx = r

\* A request that was answered with an error, or lost before its COMMIT, has
\* left no row behind on disk.
UncommittedLeavesNothing ==
    \A r \in RecordReqs : r \notin committed => RowsOf(disk, r) = {}

\* A request answered with success stays recorded: its token and transaction
\* rows are on disk for as long as the account is.
AckedRecordsDurable ==
    \A r \in RecordReqs :
        pc[r] \in {"done", "acked"} =>
            \/ target[r] \notin disk.users
            \/ LedgerRows(r, target[r]) \subseteq disk.rows

\* No row on disk belongs to an account that is not (initDb.ts, ON DELETE
\* CASCADE and PRAGMA foreign_keys).
ForeignKeysOnDisk == ForeignKeysHold(disk)

\* No step puts part of a request's rows on disk: all of them arrive in one
\* step, or the account went with them.
ArriveWhole ==
    \A r \in RecordReqs :
        LET arrived == RowsOf(disk', r) \ disk.rows
        IN  arrived # {} => LedgerRows(r, target[r]) \subseteq arrived
GroupsArriveWhole == [][ArriveWhole]_vars

\* withTransaction on SQLite implements the atomic recording of whole groups.
Atomic == INSTANCE AtomicRecords WITH db <- disk, done <- committed
ImplementsAtomicRecords == Atomic!Spec

-----------------------------------------------------------------------------
\* removeUser answers "User deleted successfully" (admin.controller.ts:146):
\* once it has, no request sees the account again.  Violated: the ROLLBACK of
\* another request's transaction brings the account back.
AckedDeletesStay ==
    \A r \in DeleteReqs : pc[r] = "acked" => target[r] \notin view.users
=============================================================================
