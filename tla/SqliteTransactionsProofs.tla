---------------------- MODULE SqliteTransactionsProofs ----------------------
(***************************************************************************)
(* Proofs about SqliteTransactions, for any number of accounts and         *)
(* requests: its safety properties first, then that it implements          *)
(* AtomicRecords, each COMMIT being a Record step and everything else an   *)
(* Erase step or a stutter.                                                *)
(***************************************************************************)
EXTENDS SqliteTransactions, TLAPS

\* The operators that change the database keep its type, and the stages of a
\* transaction lead only to stages of it.
LEMMA DatabaseOperators ==
    ASSUME NEW db \in Database
    PROVE  /\ \A x \in Row : InsertRow(db, x) \in Database
           /\ \A u : CascadeDelete(db, u) \in Database
           /\ \A x : DeleteRow(db, x) \in Database
  BY DEF Database, InsertRow, CascadeDelete, DeleteRow

LEMMA StagesOfTransaction ==
    /\ \A r : FirstTable(r) \in Inserting
    /\ \A t \in Inserting : NextStage[t] \in Inserting \cup {"commit"}
    /\ Inserting \subseteq InTransaction
    /\ InTransaction \subseteq InFlight
    /\ InFlight \subseteq Stages
    /\ InTransaction \cap {"new", "lost", "found", "done", "acked", "busy",
                           "failed"} = {}
  BY DEF FirstTable, NextStage, Inserting, Tables, InTransaction, InFlight, Stages

\* Every variable keeps its type.
LEMMA TypeInv ==
    ASSUME TypeOK, [Next]_vars
    PROVE  TypeOK'
<1> USE DEF TypeOK
<1>1. ASSUME NEW r \in Requests, NEW s \in Stages, Goto(r, s)
      PROVE  pc' \in [Requests -> Stages]
  BY <1>1 DEF Goto
<1>2. ASSUME NEW v \in Database, Execute(v)
      PROVE  view' \in Database /\ disk' \in Database
  BY <1>2 DEF Execute
<1>3. RecordReqs \subseteq Requests
  BY DEF Requests
<1>4. {"new", "lost", "found", "done", "acked", "busy", "failed", "commit",
       "rollback"} \subseteq Stages
  BY DEF Stages, InFlight, InTransaction, Answered
<1>5. Inserting \cup {"commit", "rollback"} \subseteq Stages
  BY StagesOfTransaction DEF InTransaction
<1>6. CASE UNCHANGED vars
  BY <1>6 DEF vars
<1>7. CASE Crash
  BY <1>4, <1>7 DEF Crash
<1>8. ASSUME NEW r \in Requests, Step(r)
      PROVE  TypeOK'
  <2>1. CASE FindUser(r)
    BY <1>1, <1>4, <2>1 DEF FindUser
  <2>2. CASE Refuse(r)
    BY <1>1, <1>4, <2>2 DEF Refuse
  <2>3. CASE Begin(r)
    BY <1>1, <1>4, <1>5, <2>3, StagesOfTransaction DEF Begin
  <2>4. CASE Insert(r)
    <3>1. [table |-> pc[r], req |-> r, user |-> target[r]] \in Row
      BY <2>4, <1>3 DEF Insert, Inserting, Row
    <3>2. NextStage[pc[r]] \in Stages
      BY <1>5, <2>4, StagesOfTransaction DEF Insert
    <3> QED
      BY <1>1, <1>2, <1>4, <2>4, <3>1, <3>2, DatabaseOperators DEF Insert
  <2>5. CASE StatementFails(r)
    BY <1>1, <1>4, <2>5 DEF StatementFails
  <2>6. CASE Commit(r)
    BY <1>1, <1>4, <2>6 DEF Commit
  <2>7. CASE Rollback(r)
    BY <1>1, <1>4, <2>7 DEF Rollback
  <2>8. CASE DeleteUser(r)
    BY <1>1, <1>2, <1>4, <2>8, DatabaseOperators DEF DeleteUser
  <2>9. CASE DismissNotification(r)
    <3>1. PICK x \in view.rows : Execute(DeleteRow(view, x))
      BY <2>9 DEF DismissNotification
    <3> QED
      BY <1>1, <1>2, <1>4, <2>9, <3>1, DatabaseOperators DEF DismissNotification
  <2>10. CASE Respond(r)
    BY <1>1, <1>4, <2>10 DEF Respond
  <2> QED
    BY <1>8, <2>1, <2>2, <2>3, <2>4, <2>5, <2>6, <2>7, <2>8, <2>9, <2>10 DEF Step
<1> QED
  BY <1>6, <1>7, <1>8 DEF Next

LEMMA TypeInit == Init => TypeOK
<1>1. EmptyLedger \in Database
  BY DEF Database, EmptyLedger
<1>2. "new" \in Stages
  BY DEF Stages
<1> QED
  BY <1>1, <1>2 DEF Init, TypeOK

-----------------------------------------------------------------------------
\* The inductive invariant.  Which rows may be where: a row on disk was
\* committed, a row in the view was committed or is the open transaction's.
RowsHaveCause ==
    /\ \A x \in disk.rows : x.req \in committed
    /\ \A x \in view.rows : x.req \in committed \/ x.req = tx

\* With no transaction open, view and disk are one.
ViewSettled == tx = None => view = disk

ForeignKeys == ForeignKeysHold(disk) /\ ForeignKeysHold(view)

WrittenLedger(r) == {x \in Written(r) : x.table # "notifications"}

Keeps(db, r) == target[r] \notin db.users \/ WrittenLedger(r) \subseteq db.rows

\* What a request has written and not rolled back stays in the view as long as
\* the account does, and on disk once it is committed.
LedgerKept ==
    \A r \in RecordReqs :
        /\ pc[r] \in Inserting \cup {"commit", "done", "acked"} => Keeps(view, r)
        /\ pc[r] \in {"done", "acked"} => Keeps(disk, r)

IInv ==
    /\ TypeOK
    /\ TransactionHasOneLiveOwner
    /\ RowsHaveCause
    /\ ViewSettled
    /\ ForeignKeys
    /\ LedgerKept

-----------------------------------------------------------------------------
\* Only the owner of the open transaction is between BEGIN and its end.
LEMMA OneLiveOwnerInv ==
    ASSUME TypeOK, TransactionHasOneLiveOwner, [Next]_vars
    PROVE  TransactionHasOneLiveOwner'
<1> USE StagesOfTransaction DEF TypeOK, TransactionHasOneLiveOwner
<1>1. {"commit", "rollback"} \subseteq InTransaction
  BY DEF InTransaction
<1>2. None \notin RecordReqs
  BY NoneIsNoRequest
<1>3. CASE UNCHANGED vars
  BY <1>3 DEF vars
<1>4. CASE Crash
  BY <1>2, <1>4 DEF Crash, Requests
<1>5. ASSUME NEW r \in Requests, Step(r)
      PROVE  TransactionHasOneLiveOwner'
  <2>1. CASE FindUser(r) \/ Refuse(r) \/ Respond(r)
    BY <2>1 DEF FindUser, Refuse, Respond, Goto, Requests
  <2>2. CASE Begin(r)
    BY <1>2, <2>2 DEF Begin, Goto, Requests
  <2>3. CASE Insert(r)
    BY <1>1, <2>3 DEF Insert, Goto, Requests
  <2>4. CASE StatementFails(r)
    BY <1>1, <2>4 DEF StatementFails, Goto, Requests
  <2>5. CASE Commit(r)
    BY <1>1, <1>2, <2>5 DEF Commit, Goto, Requests
  <2>6. CASE Rollback(r)
    BY <1>1, <1>2, <2>6 DEF Rollback, Goto, Requests
  <2>7. CASE DeleteUser(r) \/ DismissNotification(r)
    BY <2>7, RequestsDisjoint DEF DeleteUser, DismissNotification, Goto, Requests
  <2> QED
    BY <1>5, <2>1, <2>2, <2>3, <2>4, <2>5, <2>6, <2>7 DEF Step
<1> QED
  BY <1>3, <1>4, <1>5 DEF Next

\* What each operator does to the two parts of a database.
LEMMA DatabaseParts ==
    ASSUME NEW db \in Database
    PROVE  /\ \A x : /\ InsertRow(db, x).users = db.users
                     /\ InsertRow(db, x).rows = db.rows \cup {x}
           /\ \A u : /\ CascadeDelete(db, u).users = db.users \ {u}
                     /\ CascadeDelete(db, u).rows = {x \in db.rows : x.user # u}
           /\ \A x : /\ DeleteRow(db, x).users = db.users
                     /\ DeleteRow(db, x).rows = db.rows \ {x}
  BY DEF Database, InsertRow, CascadeDelete, DeleteRow

\* Every row has its cause, and view and disk agree between transactions.
LEMMA CausesInv ==
    ASSUME IInv, [Next]_vars
    PROVE  RowsHaveCause' /\ ViewSettled'
<1> USE DEF IInv, TypeOK, RowsHaveCause, ViewSettled
<1>1. {"commit", "rollback"} \cup Inserting \subseteq InTransaction
  BY DEF InTransaction
<1>2. CASE UNCHANGED vars
  BY <1>2 DEF vars
<1>3. CASE Crash
  BY <1>3 DEF Crash
<1>4. ASSUME NEW r \in Requests, Step(r)
      PROVE  RowsHaveCause' /\ ViewSettled'
  <2>1. CASE FindUser(r) \/ Refuse(r) \/ Respond(r)
    BY <2>1 DEF FindUser, Refuse, Respond
  <2>2. CASE Begin(r)
    BY <2>2, NoneIsNoRequest DEF Begin
  <2>3. CASE Insert(r)
    <3>1. tx = r /\ tx # None
      BY <1>1, <2>3, NoneIsNoRequest DEF Insert, TransactionHasOneLiveOwner
    <3> QED
      BY <2>3, <3>1, DatabaseParts DEF Insert, Execute
  <2>4. CASE StatementFails(r)
    BY <2>4 DEF StatementFails
  <2>5. CASE Commit(r)
    BY <1>1, <2>5, NoneIsNoRequest DEF Commit, TransactionHasOneLiveOwner
  <2>6. CASE Rollback(r)
    BY <2>6 DEF Rollback
  <2>7. CASE DeleteUser(r)
    BY <2>7, DatabaseParts DEF DeleteUser, Execute
  <2>8. CASE DismissNotification(r)
    <3>1. PICK x \in view.rows : Execute(DeleteRow(view, x))
      BY <2>8 DEF DismissNotification
    <3> QED
      BY <2>8, <3>1, DatabaseParts DEF DismissNotification, Execute
  <2> QED
    BY <1>4, <2>1, <2>2, <2>3, <2>4, <2>5, <2>6, <2>7, <2>8 DEF Step
<1> QED
  BY <1>2, <1>3, <1>4 DEF Next

\* No row without its account, in the view or on disk.
LEMMA ForeignKeysInv ==
    ASSUME IInv, [Next]_vars
    PROVE  ForeignKeys'
<1> USE DEF IInv, TypeOK, ForeignKeys, ForeignKeysHold
<1>1. ASSUME NEW v \in Database, Execute(v), ForeignKeysHold(v)
      PROVE  ForeignKeys'
  BY <1>1 DEF Execute
<1>2. CASE UNCHANGED vars
  BY <1>2 DEF vars
<1>3. CASE Crash
  BY <1>3 DEF Crash
<1>4. ASSUME NEW r \in Requests, Step(r)
      PROVE  ForeignKeys'
  <2>1. CASE \/ FindUser(r) \/ Refuse(r) \/ Begin(r) \/ StatementFails(r)
             \/ Respond(r)
    BY <2>1 DEF FindUser, Refuse, Begin, StatementFails, Respond
  <2>2. CASE Insert(r)
    BY <2>2, DatabaseParts DEF Insert, Execute
  <2>3. CASE Commit(r) \/ Rollback(r)
    BY <2>3 DEF Commit, Rollback
  <2>4. CASE DeleteUser(r)
    BY <2>4, DatabaseParts DEF DeleteUser, Execute
  <2>5. CASE DismissNotification(r)
    <3>1. PICK x \in view.rows : Execute(DeleteRow(view, x))
      BY <2>5 DEF DismissNotification
    <3> QED
      BY <3>1, DatabaseParts DEF Execute
  <2> QED
    BY <1>4, <2>1, <2>2, <2>3, <2>4, <2>5 DEF Step
<1> QED
  BY <1>2, <1>3, <1>4 DEF Next

\* What WrittenTables says at each stage.
LEMMA WrittenAtStage ==
    ASSUME NEW r \in RecordReqs
    PROVE  /\ pc[r] \in {"found", "tokens"} => WrittenTables(r) = {}
           /\ pc[r] = "transactions" => WrittenTables(r) = TablesOf(r) \cap {"tokens"}
           /\ pc[r] = "notifications" => WrittenTables(r) = TablesOf(r) \ {"notifications"}
           /\ pc[r] \in {"commit", "rollback", "done", "acked"} =>
                  WrittenTables(r) = TablesOf(r)
  BY DEF WrittenTables

LEMMA WrittenTablesNext ==
    ASSUME NEW r \in RecordReqs
    PROVE  /\ pc'[r] \in {"found", "tokens"} => WrittenTables(r)' = {}
           /\ pc'[r] = "transactions" => WrittenTables(r)' = TablesOf(r) \cap {"tokens"}
           /\ pc'[r] = "notifications" => WrittenTables(r)' = TablesOf(r) \ {"notifications"}
           /\ pc'[r] \in {"commit", "rollback", "done", "acked"} =>
                  WrittenTables(r)' = TablesOf(r)
  BY DEF WrittenTables

\* The stages where LedgerKept speaks of a request.
Wrote(r) == pc[r] \in Inserting \cup {"commit", "done", "acked"}

\* Deletions take away from what a request has written only with the account.
LEMMA DeletionsKeep ==
    ASSUME NEW db \in Database, NEW r \in RecordReqs, Keeps(db, r)
    PROVE  /\ \A u : Keeps(CascadeDelete(db, u), r)
           /\ \A x : x.table = "notifications" => Keeps(DeleteRow(db, x), r)
<1>1. \A y \in WrittenLedger(r) : y.user = target[r] /\ y.table # "notifications"
  BY DEF WrittenLedger, Written, Group
<1> QED
  BY <1>1, DatabaseParts DEF Keeps

LEMMA LedgerKeptInv ==
    ASSUME IInv, [Next]_vars
    PROVE  LedgerKept'
<1> USE DEF IInv, TypeOK, ViewSettled
<1>1. ASSUME NEW q \in RecordReqs, pc'[q] = pc[q], target' = target
      PROVE  WrittenLedger(q)' = WrittenLedger(q) /\ Wrote(q)' = Wrote(q)
  BY <1>1 DEF WrittenLedger, Written, WrittenTables, Wrote
<1>2. CASE UNCHANGED vars
  BY <1>2 DEF vars, LedgerKept, Keeps, WrittenLedger, Written, WrittenTables
<1>3. CASE Crash
  <2>1. SUFFICES ASSUME NEW q \in RecordReqs, Wrote(q)'
                 PROVE  Keeps(view, q)' /\ Keeps(disk, q)'
    BY DEF LedgerKept, Wrote
  <2>2. pc[q] = "acked" /\ pc'[q] = "acked"
    BY <1>3, <2>1 DEF Crash, Wrote, Requests, InFlight, InTransaction, Inserting, Tables
  <2>3. Keeps(disk, q)
    BY <2>2 DEF LedgerKept
  <2> QED
    BY <1>1, <1>3, <2>2, <2>3 DEF Crash, Keeps
<1>4. ASSUME NEW r \in Requests, Step(r)
      PROVE  LedgerKept'
  <2>1. target' = target
    BY <1>4 DEF Step, FindUser, Refuse, Begin, Insert, StatementFails, Commit,
                Rollback, DeleteUser, DismissNotification, Respond
  <2>2. ASSUME NEW q \in RecordReqs, q # r
        PROVE  pc'[q] = pc[q]
    BY <1>4, <2>2 DEF Step, FindUser, Refuse, Begin, Insert, StatementFails,
                      Commit, Rollback, DeleteUser, DismissNotification, Respond, Goto,
                      Requests
  <2> DEFINE Kept(q) == /\ Wrote(q)' => Keeps(view, q)'
                        /\ pc'[q] \in {"done", "acked"} => Keeps(disk, q)'
  <2>3. SUFFICES ASSUME NEW q \in RecordReqs
                 PROVE  Kept(q)
    BY DEF LedgerKept, Wrote
  \* The requests the step is not about.
  <2>4. ASSUME q # r, NEW v \in Database, Execute(v), Keeps(view, q) => Keeps(v, q)
        PROVE  Kept(q)
    BY <1>1, <2>1, <2>2, <2>4 DEF Execute, LedgerKept, Keeps, Wrote
  <2>5. ASSUME q # r, UNCHANGED <<disk, view>>
        PROVE  Kept(q)
    BY <1>1, <2>1, <2>2, <2>5 DEF LedgerKept, Keeps, Wrote
  <2>6. CASE FindUser(r) \/ Refuse(r) \/ StatementFails(r)
    <3>1. CASE q = r
      <4>1. pc'[r] \in {"found", "failed", "rollback"}
        BY <2>6 DEF FindUser, Refuse, StatementFails, Goto
      <4> QED
        BY <3>1, <4>1 DEF Wrote, Inserting, Tables
    <3> QED
      BY <2>5, <2>6, <3>1 DEF FindUser, Refuse, StatementFails
  <2>7. CASE Begin(r)
    <3>1. CASE q = r
      <4>1. pc'[r] \in {FirstTable(r), "busy"}
        BY <2>7 DEF Begin, Goto
      <4>2. Wrote(r)' => WrittenTables(r)' = {}
        BY <3>1, <4>1, WrittenTablesNext DEF Wrote, FirstTable, TablesOf, Inserting, Tables
      <4>3. pc'[r] \notin {"done", "acked"}
        BY <4>1 DEF FirstTable
      <4> QED
        BY <3>1, <4>2, <4>3 DEF Keeps, WrittenLedger, Written
    <3> QED
      BY <2>5, <2>7, <3>1 DEF Begin
  <2>8. CASE Insert(r)
    <3> DEFINE row == [table |-> pc[r], req |-> r, user |-> target[r]]
    <3>1. CASE target[r] \in view.users
      <4>1. row \in Row
        BY <2>8, <3>1 DEF Insert, Inserting, Row
      <4>2. InsertRow(view, row) \in Database
        BY <4>1, DatabaseOperators
      <4>3. Execute(InsertRow(view, row)) /\ pc'[r] = NextStage[pc[r]]
        BY <2>8, <3>1 DEF Insert, Goto
      <4>4. CASE q = r
        <5>1. WrittenTables(r)' \subseteq WrittenTables(r) \cup {pc[r]}
          BY <2>8, <4>3, <4>4, WrittenAtStage, WrittenTablesNext
             DEF Insert, Inserting, Tables, NextStage, TablesOf
        <5>2. WrittenLedger(r)' \subseteq WrittenLedger(r) \cup {row}
          BY <2>1, <5>1 DEF WrittenLedger, Written, Group
        <5>3. Keeps(view, r)
          BY <2>8, <4>4 DEF LedgerKept, Insert
        <5>4. Keeps(view, r)'
          BY <2>1, <4>3, <5>2, <5>3, DatabaseParts DEF Execute, Keeps
        <5>5. pc'[r] \notin {"done", "acked"}
          BY <2>8, <4>3 DEF Insert, Inserting, Tables, NextStage
        <5> QED
          BY <4>4, <5>4, <5>5
      <4>5. Keeps(view, q) => Keeps(InsertRow(view, row), q)
        BY DatabaseParts DEF Keeps
      <4> QED
        BY <2>4, <4>2, <4>3, <4>4, <4>5
    <3>2. CASE target[r] \notin view.users
      <4>1. pc'[r] = "rollback" /\ UNCHANGED <<disk, view>>
        BY <2>8, <3>2 DEF Insert, Goto
      <4> QED
        BY <2>5, <4>1 DEF Wrote, Inserting, Tables
    <3> QED
      BY <3>1, <3>2
  <2>9. CASE Commit(r)
    <3>1. tx = r /\ tx # None
      BY <2>9, NoneIsNoRequest DEF Commit, TransactionHasOneLiveOwner, InTransaction
    <3>2. disk' = view /\ view' = view /\ pc'[r] = "done"
      BY <2>9, <3>1 DEF Commit, Goto
    <3>3. CASE q = r
      <4>1. WrittenTables(r)' = WrittenTables(r)
        BY <2>9, <3>2, <3>3, WrittenAtStage, WrittenTablesNext DEF Commit
      <4>2. WrittenLedger(r)' = WrittenLedger(r)
        BY <2>1, <4>1 DEF WrittenLedger, Written
      <4>3. Keeps(view, r)
        BY <2>9, <3>3 DEF LedgerKept, Commit
      <4> QED
        BY <2>1, <3>2, <3>3, <4>2, <4>3 DEF Keeps
    <3>4. CASE q # r
      BY <1>1, <2>1, <2>2, <3>2, <3>4 DEF LedgerKept, Keeps, Wrote
    <3> QED
      BY <3>3, <3>4
  <2>10. CASE Rollback(r)
    <3>1. tx = r /\ view' = disk /\ disk' = disk /\ pc'[r] = "failed"
      BY <2>10 DEF Rollback, TransactionHasOneLiveOwner, InTransaction, Goto
    <3>2. CASE q = r
      BY <3>1, <3>2 DEF Wrote, Inserting, Tables
    <3>3. CASE q # r
      <4>1. Wrote(q) => pc[q] \in {"done", "acked"}
        BY <3>1, <3>3 DEF TransactionHasOneLiveOwner, InTransaction, Wrote
      <4> QED
        BY <1>1, <2>1, <2>2, <3>1, <3>3, <4>1 DEF LedgerKept, Keeps, Wrote
    <3> QED
      BY <3>2, <3>3
  <2>11. CASE DeleteUser(r)
    <3>1. q # r
      BY <2>11, RequestsDisjoint DEF DeleteUser
    <3> QED
      BY <2>4, <2>11, <3>1, DatabaseOperators, DeletionsKeep DEF DeleteUser
  <2>12. CASE DismissNotification(r)
    <3>1. q # r
      BY <2>12, RequestsDisjoint DEF DismissNotification
    <3>2. PICK x \in view.rows : x.table = "notifications" /\ Execute(DeleteRow(view, x))
      BY <2>12 DEF DismissNotification
    <3> QED
      BY <2>4, <3>1, <3>2, DatabaseOperators, DeletionsKeep
  <2>13. CASE Respond(r)
    <3>1. pc[r] = "done" /\ pc'[r] = "acked" /\ UNCHANGED <<disk, view>>
      BY <2>13 DEF Respond, Goto
    <3>2. CASE q = r
      <4>1. WrittenTables(r)' = WrittenTables(r)
        BY <3>1, <3>2, WrittenAtStage, WrittenTablesNext
      <4>2. WrittenLedger(r)' = WrittenLedger(r)
        BY <2>1, <4>1 DEF WrittenLedger, Written
      <4> QED
        BY <2>1, <3>1, <3>2, <4>2 DEF LedgerKept, Keeps
    <3> QED
      BY <2>5, <3>1, <3>2
  <2> QED
    BY <1>4, <2>6, <2>7, <2>8, <2>9, <2>10, <2>11, <2>12, <2>13 DEF Step
<1> QED
  BY <1>2, <1>3, <1>4 DEF Next

-----------------------------------------------------------------------------
LEMMA InitEstablishesIInv == Init => IInv
<1> SUFFICES ASSUME Init PROVE IInv
  OBVIOUS
<1>1. \A r \in Requests : pc[r] = "new"
  BY DEF Init
<1>2. \A r \in RecordReqs : r \in Requests
  BY DEF Requests
<1>3. disk.rows = {} /\ view.rows = {}
  BY DEF Init, EmptyLedger
<1>4. TransactionHasOneLiveOwner
  BY <1>1, <1>2, NoneIsNoRequest
     DEF Init, TransactionHasOneLiveOwner, InTransaction, Inserting, Tables
<1>5. LedgerKept
  BY <1>1, <1>2 DEF LedgerKept, Inserting, Tables
<1> QED
  BY TypeInit, <1>3, <1>4, <1>5
     DEF Init, IInv, RowsHaveCause, ViewSettled, ForeignKeys, ForeignKeysHold

LEMMA IInvInductive == IInv /\ [Next]_vars => IInv'
  BY TypeInv, OneLiveOwnerInv, CausesInv, ForeignKeysInv, LedgerKeptInv DEF IInv

THEOREM Invariance == Spec => []IInv
  BY InitEstablishesIInv, IInvInductive, PTL DEF Spec

\* Every variable of withTransaction on SQLite keeps its type.
THEOREM TypeCorrect == Spec => []TypeOK
<1>1. IInv => TypeOK
  BY DEF IInv
<1> QED
  BY <1>1, Invariance, PTL

\* No transaction is left open behind a request that has been answered, so no
\* later BEGIN fails for good.
THEOREM NoTransactionLeaks == Spec => []TransactionHasOneLiveOwner
<1>1. IInv => TransactionHasOneLiveOwner
  BY DEF IInv
<1> QED
  BY <1>1, Invariance, PTL

\* A request answered with an error, or lost in a crash before its COMMIT, has
\* written nothing.
THEOREM FailureLeavesNothing == Spec => []UncommittedLeavesNothing
<1>1. IInv => UncommittedLeavesNothing
  BY DEF IInv, RowsHaveCause, UncommittedLeavesNothing, RowsOf
<1> QED
  BY <1>1, Invariance, PTL

\* What recordToken and recordTokenTransfer have answered for stays on disk,
\* whatever other requests roll back and whenever the process dies.
THEOREM SuccessIsDurable == Spec => []AckedRecordsDurable
<1>1. IInv => AckedRecordsDurable
  <2> SUFFICES ASSUME IInv, NEW r \in RecordReqs, pc[r] \in {"done", "acked"},
                      target[r] \in disk.users
               PROVE  LedgerRows(r, target[r]) \subseteq disk.rows
    BY DEF AckedRecordsDurable
  <2>1. WrittenTables(r) = TablesOf(r)
    BY WrittenAtStage
  <2>2. LedgerRows(r, target[r]) = WrittenLedger(r)
    BY <2>1 DEF LedgerRows, WrittenLedger, Written, Group
  <2>3. WrittenLedger(r) \subseteq disk.rows
    BY DEF IInv, LedgerKept, Keeps
  <2> QED
    BY <2>2, <2>3
<1> QED
  BY <1>1, Invariance, PTL

\* No row on disk outlives its account.
THEOREM ForeignKeysAlwaysHold == Spec => []ForeignKeysOnDisk
<1>1. IInv => ForeignKeysOnDisk
  BY DEF IInv, ForeignKeys, ForeignKeysOnDisk
<1> QED
  BY <1>1, Invariance, PTL

-----------------------------------------------------------------------------
(* The refinement of AtomicRecords. *)

\* The difference between view and disk while a transaction is good.
ViewShrinks ==
    tx # None /\ pc[tx] # "rollback" =>
        Shrinks([disk EXCEPT !.rows = @ \cup Written(tx)], view)

\* The account a transaction has written for cannot leave the disk under it.
OwnerOnDisk ==
    \A r \in RecordReqs :
        pc[r] \in Inserting \cup {"commit"} /\ WrittenTables(r) # {} =>
            target[r] \in disk.users

\* A row is about the account its request is about.
RowsNamed == \A x \in disk.rows \cup view.rows : x.user = target[x.req]

\* Nothing is committed twice.
CommittedOnce == \A r \in committed : pc[r] \in {"done", "acked", "lost"}

\* Only a recordToken request writes to the tokens table.
TokensByToken == \A r \in RecordReqs : pc[r] = "tokens" => r \in TokenReqs

RInv ==
    /\ IInv
    /\ ViewShrinks
    /\ OwnerOnDisk
    /\ RowsNamed
    /\ CommittedOnce
    /\ TokensByToken

-----------------------------------------------------------------------------
\* No step forgets which account a request is about, and a step of one request
\* moves no other.
LEMMA StepFrame ==
    ASSUME TypeOK, NEW r \in Requests, Step(r)
    PROVE  /\ target' = target
           /\ \A q \in Requests : q # r => pc'[q] = pc[q]
  BY DEF TypeOK, Step, FindUser, Refuse, Begin, Insert, StatementFails,
         Commit, Rollback, DeleteUser, DismissNotification, Respond, Goto

\* What a step does to the database is one of a few things.
LEMMA StepKinds ==
    ASSUME RInv, NEW r \in Requests, Step(r)
    PROVE  \/ UNCHANGED <<disk, view>>
           \/ /\ r \in RecordReqs /\ Insert(r)
              /\ pc[r] \in Inserting /\ tx = r /\ target[r] \in view.users
              /\ disk' = disk /\ pc'[r] = NextStage[pc[r]]
              /\ view' = InsertRow(view, [table |-> pc[r], req |-> r, user |-> target[r]])
           \/ /\ r \in RecordReqs
              /\ Commit(r) /\ pc[r] = "commit" /\ tx = r /\ tx' = None /\ pc'[r] = "done"
              /\ disk' = view /\ view' = view /\ committed' = committed \cup {r}
           \/ /\ r \in RecordReqs
              /\ pc[r] = "rollback" /\ tx = r /\ tx' = None /\ pc'[r] = "failed"
              /\ disk' = disk /\ view' = disk
           \/ /\ r \notin RecordReqs /\ tx' = tx
              /\ Execute(CascadeDelete(view, target[r]))
           \/ /\ r \notin RecordReqs /\ tx' = tx
              /\ \E x \in view.rows : x.table = "notifications" /\ Execute(DeleteRow(view, x))
<1> USE DEF RInv, IInv, TransactionHasOneLiveOwner, InTransaction
<1>1. CASE FindUser(r) \/ Refuse(r) \/ Begin(r) \/ StatementFails(r) \/ Respond(r)
  BY <1>1 DEF FindUser, Refuse, Begin, StatementFails, Respond
<1>2. CASE Insert(r)
  <2>1. tx = r /\ tx # None
    BY <1>2, NoneIsNoRequest DEF Insert
  <2> QED
    <3>1. CASE target[r] \in view.users
      BY <1>2, <2>1, <3>1 DEF Insert, Execute, Goto, TypeOK
    <3>2. CASE target[r] \notin view.users
      BY <1>2, <3>2 DEF Insert
    <3> QED
      BY <3>1, <3>2
<1>3. CASE Commit(r)
  <2>1. tx = r /\ tx # None
    BY <1>3, NoneIsNoRequest DEF Commit
  <2> QED
    BY <1>3, <2>1 DEF Commit, Goto, TypeOK
<1>4. CASE Rollback(r)
  BY <1>4 DEF Rollback, Goto, TypeOK
<1>5. CASE DeleteUser(r) \/ DismissNotification(r)
  BY <1>5, RequestsDisjoint DEF DeleteUser, DismissNotification
<1> QED
  BY <1>1, <1>2, <1>3, <1>4, <1>5 DEF Step

LEMMA RowsNamedInv ==
    ASSUME RInv, [Next]_vars
    PROVE  RowsNamed'
<1> USE DEF RInv, IInv, TypeOK, RowsNamed
<1>1. CASE UNCHANGED vars
  BY <1>1 DEF vars
<1>2. CASE Crash
  BY <1>2 DEF Crash
<1>3. ASSUME NEW r \in Requests, Step(r)
      PROVE  RowsNamed'
  <2>1. target' = target
    BY <1>3, StepFrame
  <2>2. ASSUME disk'.rows \subseteq disk.rows \cup view.rows,
               view'.rows \subseteq disk.rows \cup view.rows
        PROVE  RowsNamed'
    BY <2>1, <2>2
  <2>3. CASE UNCHANGED <<disk, view>>
    BY <2>1, <2>3
  <2>4. CASE /\ disk' = disk
             /\ view' = InsertRow(view, [table |-> pc[r], req |-> r, user |-> target[r]])
    BY <2>1, <2>4, DatabaseParts
  <2>5. CASE disk' \in {disk, view} /\ view' \in {disk, view}
    BY <2>2, <2>5
  <2>6. CASE Execute(CascadeDelete(view, target[r]))
    BY <2>2, <2>6, DatabaseParts DEF Execute
  <2>7. CASE \E x \in view.rows : x.table = "notifications" /\ Execute(DeleteRow(view, x))
    <3>1. PICK x \in view.rows : Execute(DeleteRow(view, x))
      BY <2>7
    <3> QED
      BY <2>2, <3>1, DatabaseParts DEF Execute
  <2> QED
    BY <1>3, <2>3, <2>4, <2>5, <2>6, <2>7, StepKinds
<1> QED
  BY <1>1, <1>2, <1>3 DEF Next

LEMMA CommittedOnceInv ==
    ASSUME RInv, [Next]_vars
    PROVE  CommittedOnce'
<1> USE DEF RInv, IInv, TypeOK, CommittedOnce, Requests
<1>1. CASE UNCHANGED vars
  BY <1>1 DEF vars
<1>2. CASE Crash
  BY <1>2 DEF Crash, InFlight
<1>3. ASSUME NEW r \in Requests, Step(r)
      PROVE  CommittedOnce'
  <2>1. CASE Commit(r)
    BY <2>1 DEF Commit, Goto
  <2>2. CASE Respond(r)
    BY <2>2 DEF Respond, Goto
  <2>3. CASE ~Commit(r) /\ ~Respond(r)
    <3>1. committed' = committed
      BY <1>3, <2>3 DEF Step, FindUser, Refuse, Begin, Insert, StatementFails,
                        Rollback, DeleteUser, DismissNotification
    <3>2. r \in RecordReqs => pc[r] \notin {"done", "acked", "lost"}
      BY <1>3, <2>3, RequestsDisjoint
         DEF Step, FindUser, Refuse, Begin, Insert, StatementFails, Rollback,
             DeleteUser, DismissNotification, Inserting, Tables
    <3> QED
      BY <1>3, <3>1, <3>2, StepFrame
  <2> QED
    BY <2>1, <2>2, <2>3
<1> QED
  BY <1>1, <1>2, <1>3 DEF Next

LEMMA TokensByTokenInv ==
    ASSUME RInv, [Next]_vars
    PROVE  TokensByToken'
<1> USE DEF RInv, IInv, TypeOK, TokensByToken, Requests
<1>1. CASE UNCHANGED vars
  BY <1>1 DEF vars
<1>2. CASE Crash
  BY <1>2 DEF Crash
<1>3. ASSUME NEW r \in Requests, Step(r)
      PROVE  TokensByToken'
  <2>1. r \in RecordReqs /\ pc'[r] = "tokens" => pc[r] = "tokens" \/ r \in TokenReqs
    BY <1>3 DEF Step, FindUser, Refuse, Begin, Insert, StatementFails, Commit,
                Rollback, DeleteUser, DismissNotification, Respond, Goto, FirstTable,
                NextStage, Inserting, Tables
  <2> QED
    BY <1>3, <2>1, StepFrame
<1> QED
  BY <1>1, <1>2, <1>3 DEF Next

LEMMA OwnerOnDiskInv ==
    ASSUME RInv, [Next]_vars
    PROVE  OwnerOnDisk'
<1> USE DEF RInv, IInv, TypeOK
<1>1. CASE UNCHANGED vars
  BY <1>1 DEF vars, OwnerOnDisk, WrittenTables
<1>2. CASE Crash
  <2>1. \A q \in Requests : pc'[q] \notin Inserting \cup {"commit"}
    BY <1>2 DEF Crash, InFlight, InTransaction, Inserting, Tables
  <2> QED
    BY <2>1 DEF OwnerOnDisk, Requests
<1>3. ASSUME NEW r \in Requests, Step(r)
      PROVE  OwnerOnDisk'
  <2>1. SUFFICES ASSUME NEW q \in RecordReqs, pc'[q] \in Inserting \cup {"commit"},
                        WrittenTables(q)' # {}
                 PROVE  target[q] \in disk'.users
    BY <1>3, StepFrame DEF OwnerOnDisk
  <2>2. tx' = q /\ tx' # None
    BY <1>3, <2>1, NoneIsNoRequest, OneLiveOwnerInv
       DEF TransactionHasOneLiveOwner, InTransaction, Next
  <2>3. CASE q # r
    <3>1. pc[q] = pc'[q] /\ WrittenTables(q) # {}
      BY <1>3, <2>1, <2>3, StepFrame DEF WrittenTables, Requests
    <3>2. tx = q /\ tx # None
      BY <2>1, <3>1, NoneIsNoRequest DEF TransactionHasOneLiveOwner, InTransaction
    <3>3. disk' = disk
      BY <1>3, <2>2, <2>3, <3>2, StepKinds DEF Execute
    <3> QED
      BY <2>1, <3>1, <3>3 DEF OwnerOnDisk
  <2>4. CASE q = r
    <3>1. CASE Begin(r)
      <4>1. pc'[r] = FirstTable(r)
        BY <2>1, <2>4, <3>1 DEF Begin, Goto, Inserting, Tables
      <4>2. WrittenTables(r)' = {}
        BY <2>4, <4>1, WrittenTablesNext DEF FirstTable, TablesOf
      <4> QED
        BY <2>1, <2>4, <4>2
    <3>2. CASE Insert(r)
      <4>1. target[r] \in view.users
        BY <2>1, <2>4, <3>2 DEF Insert, Goto, Inserting, Tables
      <4>2. tx = r /\ tx # None /\ pc[tx] # "rollback"
        BY <3>2, NoneIsNoRequest
           DEF Insert, TransactionHasOneLiveOwner, InTransaction, Inserting, Tables
      <4>3. view.users \subseteq disk.users
        BY <4>2 DEF ViewShrinks, Shrinks, Database
      <4>4. disk' = disk
        BY <3>2, <4>2 DEF Insert, Execute
      <4> QED
        BY <2>4, <4>1, <4>3, <4>4
    <3>3. CASE ~Begin(r) /\ ~Insert(r)
      BY <1>3, <2>1, <2>4, <3>3, RequestsDisjoint
         DEF Step, FindUser, Refuse, StatementFails, Commit, Rollback, DeleteUser,
             DismissNotification, Respond, Goto, Inserting, Tables
    <3> QED
      BY <3>1, <3>2, <3>3
  <2> QED
    BY <2>3, <2>4
<1> QED
  BY <1>1, <1>2, <1>3 DEF Next

\* The disk with more rows, and what it means for the view to be less than that.
Less(db, S, after) ==
    /\ after.users \subseteq db.users
    /\ after.rows \subseteq db.rows \cup S
    /\ \A x \in (db.rows \cup S) \ after.rows :
           x.table = "notifications" \/ x.user \notin after.users
    /\ ForeignKeysHold(after)

LEMMA ShrinksFrom ==
    ASSUME NEW db \in Database, NEW S, NEW after
    PROVE  Shrinks([db EXCEPT !.rows = @ \cup S], after) <=> Less(db, S, after)
<1>1. /\ [db EXCEPT !.rows = @ \cup S].users = db.users
      /\ [db EXCEPT !.rows = @ \cup S].rows = db.rows \cup S
  BY DEF Database
<1> QED
  BY <1>1 DEF Shrinks, Less

LEMMA ViewShrinksInv ==
    ASSUME RInv, [Next]_vars
    PROVE  ViewShrinks'
<1> USE DEF RInv, IInv, TypeOK
<1>1. CASE UNCHANGED vars
  BY <1>1 DEF vars, ViewShrinks, Written, WrittenTables
<1>2. CASE Crash
  BY <1>2 DEF Crash, ViewShrinks
<1>3. ASSUME NEW r \in Requests, Step(r)
      PROVE  ViewShrinks'
  <2>1. SUFFICES ASSUME tx' # None, pc'[tx'] # "rollback"
                 PROVE  Less(disk', Written(tx)', view')
    <3>1. disk' \in Database
      BY <1>3, TypeInv DEF Next
    <3> QED
      BY <3>1, ShrinksFrom DEF ViewShrinks
  <2>2. tx' \in RecordReqs /\ ForeignKeysHold(disk') /\ ForeignKeysHold(view')
    BY <1>3, <2>1, TypeInv, ForeignKeysInv DEF Next, ForeignKeys
  <2>3. disk' \in Database /\ view' \in Database
    BY <1>3, TypeInv DEF Next
  <2>4. target' = target
    BY <1>3, StepFrame
  <2>5. CASE Begin(r) /\ tx = None
    <3>1. tx' = r /\ pc'[r] = FirstTable(r) /\ view' = view /\ disk' = disk /\ view = disk
      BY <2>5 DEF Begin, Goto, ViewSettled
    <3>2. Written(r)' = {}
      BY <2>2, <3>1, WrittenTablesNext DEF Written, FirstTable, TablesOf
    <3> QED
      BY <2>2, <2>3, <3>1, <3>2 DEF Less
  <2>6. CASE ~(Begin(r) /\ tx = None)
    <3>1. tx' = tx
      BY <1>3, <2>1, <2>6 DEF Step, FindUser, Refuse, Begin, Insert, StatementFails,
                              Commit, Rollback, DeleteUser, DismissNotification, Respond
    <3>2. tx # None /\ pc[tx] \in InTransaction
      BY <2>1, <2>2, <3>1 DEF TransactionHasOneLiveOwner
    <3>3. disk' = disk
      BY <1>3, <2>1, <3>1, <3>2, StepKinds DEF Execute
    <3>4. CASE Insert(r) /\ target[r] \in view.users
      <4> DEFINE row == [table |-> pc[r], req |-> r, user |-> target[r]]
      <4>1. /\ tx = r /\ pc'[r] = NextStage[pc[r]] /\ pc[r] \in Inserting
            /\ view' = InsertRow(view, row) /\ r \in RecordReqs
        BY <3>2, <3>4 DEF Insert, Execute, Goto, TransactionHasOneLiveOwner, InTransaction
      <4>2. WrittenTables(r)' = (WrittenTables(r) \cup {pc[r]}) \cap TablesOf(r)
        BY <4>1, WrittenAtStage, WrittenTablesNext
           DEF Inserting, Tables, NextStage, TablesOf
      <4>3. Written(r)' \subseteq Written(r) \cup {row}
        BY <2>4, <4>2 DEF Written, Group
      <4>4. pc[r] # "rollback"
        BY <4>1 DEF Inserting, Tables
      <4>5. pc[r] \in TablesOf(r)
        BY <4>1 DEF TokensByToken, TablesOf, Inserting, Tables
      <4>6. row \in Written(r)' /\ Written(r) \subseteq Written(r)'
        BY <2>4, <4>2, <4>5 DEF Written, Group
      <4>7. Less(disk, Written(r), view)
        BY <3>2, <4>1, <4>4, ShrinksFrom DEF ViewShrinks
      <4>8. view'.users = view.users /\ view'.rows = view.rows \cup {row}
        BY <4>1, DatabaseParts
      <4> QED
        BY <2>2, <3>1, <3>3, <4>1, <4>3, <4>6, <4>7, <4>8 DEF Less
    <3>5. CASE ~(Insert(r) /\ target[r] \in view.users)
      <4>1. pc'[tx] = pc[tx]
        <5>1. CASE tx = r
          <6>1. /\ pc[r] \notin {"new", "found", "done"}
                /\ tx' # None /\ pc'[r] # "rollback"
            BY <2>1, <3>1, <3>2, <5>1 DEF InTransaction, Inserting, Tables
          <6> QED
            BY <1>3, <3>2, <3>5, <6>1
               DEF Step, FindUser, Refuse, Begin, Insert, StatementFails, Commit,
                   Rollback, DeleteUser, DismissNotification, Respond, Goto
        <5>2. CASE tx # r
          BY <1>3, <2>2, <3>1, <5>2, StepFrame DEF Requests
        <5> QED
          BY <5>1, <5>2
      <4>2. Written(tx)' = Written(tx)
        BY <2>4, <3>1, <4>1 DEF Written, WrittenTables
      <4>3. Less(disk, Written(tx), view)
        BY <2>1, <3>1, <3>2, <4>1, ShrinksFrom DEF ViewShrinks
      <4>4. CASE view' = view
        BY <3>1, <3>3, <4>2, <4>3, <4>4
      <4>5. CASE view' = CascadeDelete(view, target[r])
        BY <2>2, <2>3, <3>1, <3>3, <4>2, <4>3, <4>5, DatabaseParts DEF Less
      <4>6. CASE \E x \in view.rows : x.table = "notifications" /\ view' = DeleteRow(view, x)
        <5>1. PICK x \in view.rows : x.table = "notifications" /\ view' = DeleteRow(view, x)
          BY <4>6
        <5>2. view'.users = view.users /\ view'.rows = view.rows \ {x}
          BY <5>1, DatabaseParts
        <5> QED
          BY <2>2, <3>1, <3>3, <4>2, <4>3, <5>1, <5>2 DEF Less
      <4> QED
        BY <1>3, <2>1, <3>1, <3>5, <4>4, <4>5, <4>6, StepKinds
           DEF Execute
    <3> QED
      BY <3>4, <3>5
  <2> QED
    BY <2>5, <2>6
<1> QED
  BY <1>1, <1>2, <1>3 DEF Next

-----------------------------------------------------------------------------
LEMMA InitEstablishesRInv == Init => RInv
<1> SUFFICES ASSUME Init PROVE RInv
  OBVIOUS
<1>1. \A r \in RecordReqs : pc[r] = "new"
  BY DEF Init, Requests
<1>2. disk.rows = {} /\ view.rows = {} /\ committed = {} /\ tx = None
  BY DEF Init, EmptyLedger
<1>3. OwnerOnDisk /\ TokensByToken
  BY <1>1 DEF OwnerOnDisk, TokensByToken, Inserting, Tables
<1> QED
  BY InitEstablishesIInv, <1>2, <1>3 DEF RInv, ViewShrinks, RowsNamed, CommittedOnce

LEMMA RInvInductive == RInv /\ [Next]_vars => RInv'
<1>1. RInv /\ [Next]_vars => IInv'
  BY IInvInductive DEF RInv
<1> QED
  BY <1>1, ViewShrinksInv, OwnerOnDiskInv, RowsNamedInv, CommittedOnceInv,
     TokensByTokenInv DEF RInv

LEMMA RefinementInvariance == Spec => []RInv
  BY InitEstablishesRInv, RInvInductive, PTL DEF Spec

\* While a transaction is open the connection sees the disk, the rows that
\* transaction has written, and nothing else.
THEOREM ViewIsExplained == Spec => []ViewIsDiskPlusOpenTransaction
<1>1. RInv => ViewIsDiskPlusOpenTransaction
  BY DEF RInv, IInv, ViewSettled, ViewShrinks, ViewIsDiskPlusOpenTransaction
<1> QED
  BY <1>1, RefinementInvariance, PTL

\* What a COMMIT finds: all of its request's rows written, none of them on
\* disk yet, and the account still there.
LEMMA AtCommit ==
    ASSUME RInv, NEW r \in RecordReqs, pc[r] = "commit", tx = r
    PROVE  /\ r \notin committed
           /\ target[r] \in disk.users
           /\ Less(disk, Group(r, target[r]), view)
<1>1. WrittenTables(r) = TablesOf(r)
  BY WrittenAtStage
<1>2. Written(r) = Group(r, target[r])
  BY <1>1 DEF Written, Group
<1>3. tx # None /\ pc[tx] # "rollback"
  BY NoneIsNoRequest
<1>4. Less(disk, Written(r), view)
  BY <1>3, ShrinksFrom DEF RInv, IInv, TypeOK, ViewShrinks
<1>5. TablesOf(r) # {}
  BY DEF TablesOf, Tables
<1> QED
  BY <1>1, <1>2, <1>4, <1>5 DEF RInv, CommittedOnce, OwnerOnDisk

\* Only a COMMIT brings rows to the disk, and it brings a whole group.
THEOREM NoPartOfAGroup == Spec => GroupsArriveWhole
<1>1. ASSUME RInv, Next
      PROVE  ArriveWhole
  <2> USE <1>1 DEF RInv, IInv, TypeOK
  <2>1. SUFFICES ASSUME NEW q \in RecordReqs, NEW x \in disk'.rows,
                        x.req = q, x \notin disk.rows
                 PROVE  LedgerRows(q, target[q]) \subseteq RowsOf(disk', q) \ disk.rows
    BY DEF ArriveWhole, RowsOf
  <2>2. PICK r \in Requests : Step(r)
    BY <1>1, <2>1 DEF Next, Crash
  <2>3. r \in RecordReqs /\ pc[r] = "commit" /\ tx = r /\ disk' = view
    <3>1. ~Execute(CascadeDelete(view, target[r]))
      BY <2>1, DatabaseParts DEF Execute, ViewSettled
    <3>2. ~ \E y \in view.rows : y.table = "notifications" /\ Execute(DeleteRow(view, y))
      BY <2>1, DatabaseParts DEF Execute, ViewSettled
    <3> QED
      BY <2>1, <2>2, <3>1, <3>2, StepKinds
  <2>4. /\ r \notin committed
        /\ Less(disk, Group(r, target[r]), view)
    BY <2>3, AtCommit
  <2>5. q = r /\ x.user = target[q]
    BY <2>1, <2>3, <2>4 DEF Less, Group
  <2>6. target[q] \in view.users
    BY <2>1, <2>3, <2>5 DEF ForeignKeys, ForeignKeysHold
  <2>7. ASSUME NEW y \in LedgerRows(q, target[q])
        PROVE  y \in view.rows /\ y.req = q /\ y \notin disk.rows
    <3>1. /\ y \in Group(q, target[q]) /\ y.table # "notifications"
          /\ y.req = q /\ y.user = target[q]
      BY <2>7 DEF LedgerRows, Group
    <3>2. y \in view.rows
      BY <2>4, <2>5, <2>6, <3>1 DEF Less
    <3>3. y \notin disk.rows
      BY <2>4, <2>5, <3>1 DEF RowsHaveCause
    <3> QED
      BY <3>1, <3>2, <3>3
  <2> QED
    BY <2>3, <2>7 DEF RowsOf
<1>2. RInv /\ [Next]_vars => [ArriveWhole]_vars
  BY <1>1
<1> QED
  BY <1>2, RefinementInvariance, PTL DEF Spec, GroupsArriveWhole

\* withTransaction on SQLite is an atomic recording of whole groups, whoever
\* else is using the connection.
THEOREM Implements == Spec => ImplementsAtomicRecords
<1>1. \A a, b : Atomic!Shrinks(a, b) <=> Shrinks(a, b)
  BY DEF Atomic!Shrinks, Shrinks, Atomic!ForeignKeysHold, ForeignKeysHold
<1>2. \A r, u : Atomic!Group(r, u) = Group(r, u)
  BY DEF Atomic!Group, Group, Atomic!TablesOf, TablesOf, Atomic!Tables, Tables
<1>3. Atomic!RecordReqs = RecordReqs
  BY DEF Atomic!RecordReqs, RecordReqs
<1>4. Init => Atomic!Init
  BY DEF Init, Atomic!Init, Atomic!EmptyLedger, EmptyLedger
<1>5. ASSUME RInv, Next
      PROVE  [Atomic!Next]_(Atomic!vars)
  <2> USE <1>5 DEF RInv, IInv, TypeOK
  <2>1. CASE Crash
    BY <2>1 DEF Crash, Atomic!vars
  <2>2. ASSUME NEW r \in Requests, Step(r)
        PROVE  [Atomic!Next]_(Atomic!vars)
    <3>1. CASE r \in RecordReqs /\ pc[r] = "commit" /\ tx = r /\ disk' = view
               /\ committed' = committed \cup {r}
      <4>1. /\ r \notin committed
            /\ target[r] \in disk.users
            /\ Less(disk, Group(r, target[r]), view)
        BY <3>1, AtCommit
      <4>2. Shrinks([disk EXCEPT !.rows = @ \cup Group(r, target[r])], disk')
        BY <3>1, <4>1, ShrinksFrom
      <4>3. Atomic!Record(r, target[r])
        BY <1>1, <1>2, <3>1, <4>1, <4>2 DEF Atomic!Record
      <4> QED
        BY <1>3, <3>1, <4>3 DEF Atomic!Next
    <3>2. CASE ~Commit(r)
      <4>1. committed' = committed
        BY <2>2, <3>2 DEF Step, FindUser, Refuse, Begin, Insert, StatementFails,
                          Rollback, DeleteUser, DismissNotification, Respond
      <4>2. Shrinks(disk, disk') => Atomic!Erase
        BY <1>1, <4>1 DEF Atomic!Erase
      <4>3. ForeignKeysHold(disk')
        BY ForeignKeysInv DEF ForeignKeys
      <4>4. CASE Execute(CascadeDelete(view, target[r])) /\ tx = None
        BY <4>2, <4>3, <4>4, DatabaseParts
           DEF Execute, ViewSettled, Shrinks, Atomic!Next
      <4>5. CASE tx = None /\ \E x \in view.rows :
                     x.table = "notifications" /\ Execute(DeleteRow(view, x))
        <5>1. PICK x \in view.rows : x.table = "notifications" /\ Execute(DeleteRow(view, x))
          BY <4>5
        <5>2. disk'.users = disk.users /\ disk'.rows = disk.rows \ {x}
          BY <4>5, <5>1, DatabaseParts DEF Execute, ViewSettled
        <5> QED
          BY <4>2, <4>3, <5>1, <5>2 DEF Shrinks, Atomic!Next
      <4>6. CASE disk' = disk
        BY <4>1, <4>6 DEF Atomic!vars
      <4> QED
        BY <2>2, <3>2, <4>4, <4>5, <4>6, StepKinds DEF Execute
    <3>3. CASE Commit(r)
      BY <3>1, <3>3, NoneIsNoRequest
         DEF Commit, TransactionHasOneLiveOwner, InTransaction
    <3> QED
      BY <3>2, <3>3
  <2> QED
    BY <1>5, <2>1, <2>2 DEF Next
<1>6. ASSUME RInv, UNCHANGED vars
      PROVE  [Atomic!Next]_(Atomic!vars)
  BY <1>6 DEF vars, Atomic!vars
<1>7. RInv /\ [Next]_vars => [Atomic!Next]_(Atomic!vars)
  BY <1>5, <1>6
<1> QED
  BY <1>4, <1>7, RefinementInvariance, PTL DEF Spec, ImplementsAtomicRecords, Atomic!Spec
=============================================================================
