------------------------ MODULE PostgresTransactions ------------------------
(***************************************************************************)
(* backend/src/config/db.ts on Postgres.  A transaction has a client of    *)
(* its own from a pool of at most PoolSize, carried to every statement of  *)
(* the handler by async local storage, so its rows stay private until      *)
(* COMMIT.  A client is held for one statement, or from BEGIN to COMMIT or *)
(* ROLLBACK; a request that finds the pool empty waits.  An INSERT locks   *)
(* the account row its foreign key names (Postgres FOR KEY SHARE), and     *)
(* DELETE FROM users waits for those locks, holding a client meanwhile.    *)
(***************************************************************************)
EXTENDS RecordTables, Naturals

CONSTANTS
    DeleteReqs,  \* calls of removeUser
    DismissReqs, \* calls of removeNotification
    PoolSize     \* max: 5 in the code

Requests == RecordReqs \cup DeleteReqs \cup DismissReqs

ASSUME RequestsDisjoint ==
    /\ RecordReqs \cap (DeleteReqs \cup DismissReqs) = {}
    /\ DeleteReqs \cap DismissReqs = {}

ASSUME PoolSizePositive == PoolSize \in Nat \ {0}

VARIABLES
    db,        \* the committed database
    private,   \* the uncommitted rows of each transaction
    clients,   \* requests that hold a client of the pool
    pc,        \* where each request stands
    target,    \* the account each request is about
    committed  \* history: requests whose COMMIT succeeded

vars == <<db, private, clients, pc, target, committed>>

Inserting == Tables
InTransaction == {"begin"} \cup Inserting \cup {"commit", "rollback"}
InFlight == {"found", "deleting", "done"} \cup InTransaction
Answered == {"acked", "failed"}
Stages == {"new", "lost"} \cup InFlight \cup Answered

NextStage == [tokens |-> "transactions",
              transactions |-> "notifications",
              notifications |-> "commit"]

FirstTable(r) == IF r \in TokenReqs THEN "tokens" ELSE "transactions"

TypeOK ==
    /\ db \in Database
    /\ private \in [RecordReqs -> SUBSET Row]
    /\ clients \in SUBSET Requests
    /\ pc \in [Requests -> Stages]
    /\ target \in [Requests -> Users]
    /\ committed \in SUBSET RecordReqs

Init ==
    /\ db = EmptyLedger
    /\ private = [r \in RecordReqs |-> {}]
    /\ clients = {}
    /\ pc = [r \in Requests |-> "new"]
    /\ target \in [Requests -> Users]
    /\ committed = {}

-----------------------------------------------------------------------------
Goto(r, stage) == pc' = [pc EXCEPT ![r] = stage]

ClientFree == Cardinality(clients) < PoolSize

\* A foreign-key lock on u's row, held by an open transaction.
Locked(u) == \E q \in RecordReqs : private[q] # {} /\ target[q] = u

FindUser(r) ==
    /\ r \in RecordReqs \cup DeleteReqs
    /\ pc[r] = "new"
    /\ ClientFree
    /\ Goto(r, IF target[r] \in db.users THEN "found" ELSE "failed")
    /\ UNCHANGED <<db, private, clients, target, committed>>

\* Answered with an error, having written nothing and taken no client for good:
\* no linked wallet, a rejected claim, or a first statement that fails.
Refuse(r) ==
    /\ pc[r] \in {"new", "found"}
    /\ Goto(r, "failed")
    /\ UNCHANGED <<db, private, clients, target, committed>>

\* getPgPool().connect()
Connect(r) ==
    /\ r \in RecordReqs
    /\ pc[r] = "found"
    /\ ClientFree
    /\ clients' = clients \cup {r}
    /\ Goto(r, "begin")
    /\ UNCHANGED <<db, private, target, committed>>

Begin(r) ==
    /\ r \in RecordReqs
    /\ pc[r] = "begin"
    /\ Goto(r, FirstTable(r))
    /\ UNCHANGED <<db, private, clients, target, committed>>

\* Without the store every model call would take a second client.
InsertOnSecondClient(r) ==
    /\ r \in RecordReqs
    /\ pc[r] \in Inserting
    /\ ClientFree
    /\ private' = [private EXCEPT
           ![r] = @ \cup {[table |-> pc[r], req |-> r, user |-> target[r]]}]
    /\ Goto(r, NextStage[pc[r]])
    /\ UNCHANGED <<db, clients, target, committed>>

\* ... and each INSERT would commit by itself.
InsertAutocommit(r) ==
    /\ r \in RecordReqs
    /\ pc[r] \in Inserting
    /\ IF target[r] \in db.users
       THEN /\ db' = InsertRow(db, [table |-> pc[r], req |-> r, user |-> target[r]])
            /\ Goto(r, NextStage[pc[r]])
       ELSE /\ UNCHANGED db
            /\ Goto(r, "rollback")
    /\ UNCHANGED <<private, clients, target, committed>>

\* transactionStore.getStore() finds the transaction's client.
Insert(r) ==
    /\ r \in RecordReqs
    /\ pc[r] \in Inserting
    /\ IF target[r] \in db.users
       THEN /\ private' = [private EXCEPT
                   ![r] = @ \cup {[table |-> pc[r], req |-> r, user |-> target[r]]}]
            /\ Goto(r, NextStage[pc[r]])
       ELSE /\ UNCHANGED private
            /\ Goto(r, "rollback")
    /\ UNCHANGED <<db, clients, target, committed>>

StatementFails(r) ==
    /\ r \in RecordReqs
    /\ pc[r] \in {"begin", "commit"} \cup Inserting
    /\ Goto(r, "rollback")
    /\ UNCHANGED <<db, private, clients, target, committed>>

\* Without the release in the finally block.
CommitKeepsClient(r) ==
    /\ r \in RecordReqs
    /\ pc[r] = "commit"
    /\ db' = [db EXCEPT !.rows = @ \cup private[r]]
    /\ private' = [private EXCEPT ![r] = {}]
    /\ committed' = committed \cup {r}
    /\ Goto(r, "done")
    /\ UNCHANGED <<clients, target>>

\* COMMIT, then client.release() in the finally block.
Commit(r) ==
    /\ r \in RecordReqs
    /\ pc[r] = "commit"
    /\ db' = [db EXCEPT !.rows = @ \cup private[r]]
    /\ private' = [private EXCEPT ![r] = {}]
    /\ clients' = clients \ {r}
    /\ committed' = committed \cup {r}
    /\ Goto(r, "done")
    /\ UNCHANGED target

\* ROLLBACK, rethrow, client.release().  A ROLLBACK that itself fails ends in
\* the same state: the server drops the transaction, finally still releases.
Rollback(r) ==
    /\ r \in RecordReqs
    /\ pc[r] = "rollback"
    /\ private' = [private EXCEPT ![r] = {}]
    /\ clients' = clients \ {r}
    /\ Goto(r, "failed")
    /\ UNCHANGED <<db, target, committed>>

\* A handler that forgot to await deleteUserById.
SendDeleteUnawaited(r) ==
    /\ r \in DeleteReqs
    /\ pc[r] = "found"
    /\ ClientFree
    /\ Goto(r, "done")
    /\ UNCHANGED <<db, private, clients, target, committed>>

\* deleteUserById is sent to the server on a client of the pool ...
SendDelete(r) ==
    /\ r \in DeleteReqs
    /\ pc[r] = "found"
    /\ ClientFree
    /\ clients' = clients \cup {r}
    /\ Goto(r, "deleting")
    /\ UNCHANGED <<db, private, target, committed>>

\* Without foreign-key locks.
DeleteIgnoresLocks(r) ==
    /\ r \in DeleteReqs
    /\ pc[r] = "deleting"
    /\ db' = CascadeDelete(db, target[r])
    /\ clients' = clients \ {r}
    /\ Goto(r, "done")
    /\ UNCHANGED <<private, target, committed>>

\* ... and executed there once no open transaction locks the account.
DeleteUser(r) ==
    /\ r \in DeleteReqs
    /\ pc[r] = "deleting"
    /\ ~Locked(target[r])
    /\ db' = CascadeDelete(db, target[r])
    /\ clients' = clients \ {r}
    /\ Goto(r, "done")
    /\ UNCHANGED <<private, target, committed>>

\* ... or ended by an error there, which gives the client back.
DeleteFails(r) ==
    /\ r \in DeleteReqs
    /\ pc[r] = "deleting"
    /\ clients' = clients \ {r}
    /\ Goto(r, "failed")
    /\ UNCHANGED <<db, private, target, committed>>

DismissNotification(r) ==
    /\ r \in DismissReqs
    /\ pc[r] = "new"
    /\ ClientFree
    /\ \E x \in db.rows :
           /\ x.table = "notifications"
           /\ x.user = target[r]
           /\ db' = DeleteRow(db, x)
    /\ Goto(r, "done")
    /\ UNCHANGED <<private, clients, target, committed>>

Respond(r) ==
    /\ pc[r] = "done"
    /\ Goto(r, "acked")
    /\ UNCHANGED <<db, private, clients, target, committed>>

\* The process dies; the server rolls its transactions back.
Crash ==
    /\ private' = [r \in RecordReqs |-> {}]
    /\ clients' = {}
    /\ pc' = [r \in Requests |-> IF pc[r] \in InFlight THEN "lost" ELSE pc[r]]
    /\ UNCHANGED <<db, target, committed>>

\* What a request does while nothing goes wrong.
Proceed(r) ==
    \/ FindUser(r) \/ Connect(r) \/ Begin(r) \/ Insert(r) \/ Commit(r)
    \/ Rollback(r) \/ SendDelete(r) \/ DeleteUser(r) \/ DismissNotification(r)
    \/ Respond(r)

Next == Crash \/ \E r \in Requests :
                     Proceed(r) \/ Refuse(r) \/ StatementFails(r) \/ DeleteFails(r)

\* The event loop runs every continuation, and the pool hands freed clients
\* to its waiters: a request that can go on eventually does.  Failures and
\* crashes are never owed.
Fairness == \A r \in Requests : WF_vars(Proceed(r))

Spec == Init /\ [][Next]_vars /\ Fairness
-----------------------------------------------------------------------------
\* The pool is never overdrawn, and no client is lost to it: those taken are
\* exactly those of open transactions and of deletes at the server.
ClientsAccountedFor ==
    /\ Cardinality(clients) <= PoolSize
    /\ clients = {r \in Requests : pc[r] \in InTransaction \cup {"deleting"}}

\* Only an open transaction has private rows, all of them its own, and the
\* account they belong to cannot be deleted under it.
PrivateRowsProtected ==
    \A r \in RecordReqs :
        /\ pc[r] \notin InTransaction => private[r] = {}
        /\ private[r] \subseteq Group(r, target[r])
        /\ private[r] # {} => target[r] \in db.users

\* Every write answered with success is durable, deletions included: this is
\* what the shared connection of SqliteTransactions does not give.
AckedWritesDurable ==
    /\ \A r \in RecordReqs : pc[r] \in {"done", "acked"} =>
           \/ target[r] \notin db.users
           \/ LedgerRows(r, target[r]) \subseteq db.rows
    /\ \A r \in DeleteReqs : pc[r] \in {"done", "acked"} =>
           target[r] \notin db.users

\* withTransaction on Postgres implements the atomic recording of whole groups.
Atomic == INSTANCE AtomicRecords WITH done <- committed
ImplementsAtomicRecords == Atomic!Spec

\* No set of requests holds all clients while waiting for one: every request
\* that has started is eventually answered, unless the process dies.
EveryRequestAnswered ==
    \A r \in Requests :
        pc[r] \in InFlight ~> pc[r] \in Answered \cup {"lost"}
=============================================================================
