--------------------- MODULE PostgresTransactionsProofs ---------------------
(***************************************************************************)
(* Proofs about PostgresTransactions, for any number of accounts, requests *)
(* and clients: every safety property of the module, and that it           *)
(* implements AtomicRecords.                                               *)
(***************************************************************************)
EXTENDS PostgresTransactions, FiniteSetTheorems, TLAPS

Step(r) == Proceed(r) \/ Refuse(r) \/ StatementFails(r) \/ DeleteFails(r)

\* The steps after which the request stands elsewhere and nothing else differs.
OnlyMoves(r) == FindUser(r) \/ Refuse(r) \/ Begin(r) \/ StatementFails(r) \/ Respond(r)

LEMMA StagesOfTransaction ==
    /\ \A r : FirstTable(r) \in Inserting
    /\ \A t \in Inserting : NextStage[t] \in Inserting \cup {"commit"}
    /\ Inserting \cup {"begin", "commit", "rollback"} = InTransaction
    /\ InTransaction \subseteq InFlight
    /\ InFlight \subseteq Stages
    /\ {"new", "lost", "found", "deleting", "done", "acked", "failed"} \subseteq Stages
    /\ InTransaction \cap {"new", "lost", "found", "deleting", "done", "acked",
                           "failed"} = {}
  BY DEF FirstTable, NextStage, Inserting, Tables, InTransaction, InFlight,
         Stages, Answered

\* A request that moves moves alone, and no step changes what requests are about.
LEMMA Moves ==
    ASSUME TypeOK, NEW r \in Requests, Step(r)
    PROVE  /\ target' = target
           /\ \A q \in Requests \ {r} : pc'[q] = pc[q]
           /\ pc'[r] # pc[r]
  BY StagesOfTransaction
     DEF Step, Proceed, FindUser, Refuse, Connect, Begin, Insert, StatementFails, DeleteFails,
         Commit, Rollback, SendDelete, DeleteUser, DismissNotification, Respond, Goto,
         TypeOK, FirstTable, NextStage, Inserting, Tables

\* What each operator does to the two parts of a database.
LEMMA DatabaseParts ==
    ASSUME NEW d \in Database
    PROVE  /\ \A u : /\ CascadeDelete(d, u) \in Database
                     /\ CascadeDelete(d, u).users = d.users \ {u}
                     /\ CascadeDelete(d, u).rows = {x \in d.rows : x.user # u}
           /\ \A x : /\ DeleteRow(d, x) \in Database
                     /\ DeleteRow(d, x).users = d.users
                     /\ DeleteRow(d, x).rows = d.rows \ {x}
           /\ \A s \in SUBSET Row :
                  /\ [d EXCEPT !.rows = @ \cup s] \in Database
                  /\ [d EXCEPT !.rows = @ \cup s].users = d.users
                  /\ [d EXCEPT !.rows = @ \cup s].rows = d.rows \cup s
  BY DEF Database, CascadeDelete, DeleteRow

-----------------------------------------------------------------------------
LEMMA TypeInv ==
    ASSUME TypeOK, [Next]_vars
    PROVE  TypeOK'
<1> USE DEF TypeOK
<1>1. ASSUME NEW r \in Requests, NEW s \in Stages, Goto(r, s)
      PROVE  pc' \in [Requests -> Stages]
  BY <1>1 DEF Goto
<1>2. RecordReqs \subseteq Requests /\ DeleteReqs \subseteq Requests
  BY DEF Requests
<1>3. {"begin", "commit", "rollback"} \cup Inserting \subseteq Stages
  BY StagesOfTransaction
<1>4. CASE UNCHANGED vars
  BY <1>4 DEF vars
<1>5. CASE Crash
  BY <1>5, StagesOfTransaction DEF Crash
<1>6. ASSUME NEW r \in Requests, Step(r)
      PROVE  TypeOK'
  <2>1. CASE OnlyMoves(r)
    BY <1>1, <1>3, <2>1, StagesOfTransaction
       DEF OnlyMoves, FindUser, Refuse, Begin, StatementFails, Respond
  <2>2. CASE Connect(r) \/ SendDelete(r)
    BY <1>1, <1>2, <1>3, <2>2, StagesOfTransaction DEF Connect, SendDelete
  <2>3. CASE Insert(r)
    <3>1. [table |-> pc[r], req |-> r, user |-> target[r]] \in Row
      BY <2>3 DEF Insert, Inserting, Row
    <3>2. NextStage[pc[r]] \in Stages
      BY <1>3, <2>3, StagesOfTransaction DEF Insert
    <3>3. pc' \in [Requests -> Stages]
      BY <1>1, <1>3, <2>3, <3>2 DEF Insert
    <3> QED
      BY <2>3, <3>1, <3>3 DEF Insert
  <2>4. CASE Commit(r)
    BY <1>1, <2>4, StagesOfTransaction, DatabaseParts DEF Commit
  <2>5. CASE Rollback(r)
    BY <1>1, <2>5, StagesOfTransaction DEF Rollback
  <2>6. CASE DeleteUser(r) \/ DeleteFails(r)
    BY <1>1, <2>6, StagesOfTransaction, DatabaseParts DEF DeleteUser, DeleteFails
  <2>7. CASE DismissNotification(r)
    BY <1>1, <2>7, StagesOfTransaction, DatabaseParts DEF DismissNotification
  <2> QED
    BY <1>6, <2>1, <2>2, <2>3, <2>4, <2>5, <2>6, <2>7 DEF Step, Proceed, OnlyMoves
<1> QED
  BY <1>4, <1>5, <1>6 DEF Next, Step

-----------------------------------------------------------------------------
\* The pool: finitely many clients are out, so that their number can be counted.
PoolInv == IsFiniteSet(clients) /\ ClientsAccountedFor

LEMMA PoolInductive ==
    ASSUME TypeOK, PoolInv, [Next]_vars
    PROVE  PoolInv'
<1> USE DEF TypeOK, PoolInv
<1> DEFINE Holding == InTransaction \cup {"deleting"}
<1>1. clients = {q \in Requests : pc[q] \in Holding} /\ Cardinality(clients) \in Nat
  BY FS_CardinalityType DEF ClientsAccountedFor
<1>2. ASSUME clients' = clients, pc' \in [Requests -> Stages],
             \A q \in Requests : pc'[q] \in Holding <=> pc[q] \in Holding
      PROVE  PoolInv'
  BY <1>1, <1>2 DEF ClientsAccountedFor
<1>3. ASSUME NEW r \in Requests, ClientFree, clients' = clients \cup {r},
             r \notin clients,
             \A q \in Requests : pc'[q] \in Holding <=> (pc[q] \in Holding \/ q = r)
      PROVE  PoolInv'
  <2>1. IsFiniteSet(clients') /\ Cardinality(clients') = Cardinality(clients) + 1
    BY <1>3, FS_AddElement
  <2>2. Cardinality(clients') <= PoolSize
    BY <1>1, <1>3, <2>1, PoolSizePositive DEF ClientFree
  <2>3. clients' = {q \in Requests : pc'[q] \in Holding}
    BY <1>1, <1>3
  <2> QED
    BY <2>1, <2>2, <2>3 DEF ClientsAccountedFor
<1>4. ASSUME NEW r \in Requests, clients' = clients \ {r},
             \A q \in Requests : pc'[q] \in Holding <=> (pc[q] \in Holding /\ q # r)
      PROVE  PoolInv'
  <2>1. IsFiniteSet(clients') /\ Cardinality(clients') <= Cardinality(clients)
    BY <1>4, FS_Subset
  <2>2. Cardinality(clients') \in Nat
    BY <2>1, FS_CardinalityType
  <2>3. Cardinality(clients') <= PoolSize
    BY <1>1, <2>1, <2>2, PoolSizePositive DEF ClientsAccountedFor
  <2>4. clients' = {q \in Requests : pc'[q] \in Holding}
    BY <1>1, <1>4
  <2> QED
    BY <2>1, <2>3, <2>4 DEF ClientsAccountedFor
<1>5. CASE UNCHANGED vars
  BY <1>2, <1>5 DEF vars
<1>6. CASE Crash
  <2>1. clients' = {} /\ \A q \in Requests : pc'[q] \notin Holding
    BY <1>6, StagesOfTransaction DEF Crash, InFlight
  <2>2. IsFiniteSet({}) /\ Cardinality({}) = 0
    BY FS_EmptySet
  <2> QED
    BY <2>1, <2>2, PoolSizePositive DEF ClientsAccountedFor
<1>7. ASSUME NEW r \in Requests, Step(r)
      PROVE  PoolInv'
  <2>1. pc' \in [Requests -> Stages]
    BY TypeInv, <1>7 DEF Next, Step
  <2>2. \A q \in Requests \ {r} : pc'[q] = pc[q]
    BY <1>7, Moves
  <2>3. ASSUME clients' = clients, pc'[r] \in Holding <=> pc[r] \in Holding
        PROVE  PoolInv'
    BY <1>2, <2>1, <2>2, <2>3
  <2>4. CASE OnlyMoves(r)
    BY <2>3, <2>4, StagesOfTransaction
       DEF OnlyMoves, FindUser, Refuse, Begin, StatementFails, Respond, Goto
  <2>5. CASE Connect(r) \/ SendDelete(r)
    <3>1. pc[r] = "found" /\ pc'[r] \in {"begin", "deleting"}
      BY <2>5 DEF Connect, SendDelete, Goto
    <3> QED
      BY <1>1, <1>3, <2>2, <2>5, <3>1, StagesOfTransaction DEF Connect, SendDelete
  <2>6. CASE Insert(r)
    <3>1. pc[r] \in Inserting /\ pc'[r] \in {NextStage[pc[r]], "rollback"}
      BY <2>6 DEF Insert, Goto
    <3>2. pc[r] \in Holding /\ pc'[r] \in Holding
      BY <3>1, StagesOfTransaction
    <3> QED
      BY <2>3, <2>6, <3>2 DEF Insert
  <2>7. CASE Commit(r) \/ Rollback(r) \/ DeleteUser(r) \/ DeleteFails(r)
    <3>1. pc[r] \in Holding /\ pc'[r] \notin Holding /\ clients' = clients \ {r}
      BY <2>7, StagesOfTransaction DEF Commit, Rollback, DeleteUser, DeleteFails, Goto
    <3> QED
      BY <1>4, <2>2, <3>1
  <2>8. CASE DismissNotification(r)
    BY <2>3, <2>8, StagesOfTransaction DEF DismissNotification, Goto
  <2> QED
    BY <1>7, <2>4, <2>5, <2>6, <2>7, <2>8 DEF Step, Proceed, OnlyMoves
<1> QED
  BY <1>5, <1>6, <1>7 DEF Next, Step

-----------------------------------------------------------------------------
\* The tables a recording has written when it stands at a stage.
TablesBefore(r) ==
    [tokens |-> {},
     transactions |-> TablesOf(r) \cap {"tokens"},
     notifications |-> TablesOf(r) \ {"notifications"},
     commit |-> TablesOf(r)]

Rows(r, tables) == [table : tables, req : {r}, user : {target[r]}]

\* The rows of an open transaction are those of the tables before its stage,
\* and the account they lock is there.
PrivateRowsInv ==
    \A r \in RecordReqs :
        /\ pc[r] \notin Inserting \cup {"commit", "rollback"} => private[r] = {}
        /\ pc[r] \in Inserting \cup {"commit"} =>
               private[r] = Rows(r, TablesBefore(r)[pc[r]])
        /\ pc[r] = "tokens" => r \in TokenReqs
        /\ private[r] \subseteq Group(r, target[r])
        /\ private[r] # {} => target[r] \in db.users

\* Nothing is recorded twice, and what has been is there as its account is.
LedgerInv ==
    /\ \A r \in RecordReqs : pc[r] \in {"done", "acked"} => r \in committed
    /\ \A r \in committed :
           /\ pc[r] \in {"done", "acked", "lost"}
           /\ target[r] \in db.users => LedgerRows(r, target[r]) \subseteq db.rows

DeletedInv ==
    \A r \in DeleteReqs : pc[r] \in {"done", "acked"} => target[r] \notin db.users

IInv ==
    /\ TypeOK
    /\ PoolInv
    /\ PrivateRowsInv
    /\ LedgerInv
    /\ DeletedInv
    /\ ForeignKeysHold(db)

LEMMA TablesFollow ==
    ASSUME NEW r \in RecordReqs
    PROVE  /\ TablesBefore(r)[FirstTable(r)] = {}
           /\ FirstTable(r) = "tokens" => r \in TokenReqs
           /\ \A t \in Inserting :
                  (t = "tokens" => r \in TokenReqs) =>
                      /\ t \in TablesOf(r)
                      /\ TablesBefore(r)[NextStage[t]] = TablesBefore(r)[t] \cup {t}
           /\ \A t \in Inserting \cup {"commit"} : TablesBefore(r)[t] \subseteq TablesOf(r)
           /\ TablesBefore(r)["commit"] = TablesOf(r)
           /\ \A t \in Inserting : NextStage[t] # "tokens"
  BY DEF TablesBefore, FirstTable, NextStage, TablesOf, Inserting, Tables

LEMMA RowsGrow ==
    ASSUME NEW r, NEW tables, NEW t
    PROVE  Rows(r, tables \cup {t}) =
               Rows(r, tables) \cup {[table |-> t, req |-> r, user |-> target[r]]}
<1> DEFINE row == [table |-> t, req |-> r, user |-> target[r]]
<1>1. ASSUME NEW x \in Rows(r, tables \cup {t})
      PROVE  x \in Rows(r, tables) \cup {row}
  <2>1. /\ x = [table |-> x.table, req |-> x.req, user |-> x.user]
        /\ x.table \in tables \cup {t} /\ x.req = r /\ x.user = target[r]
    BY DEF Rows
  <2>2. CASE x.table = t
    BY <2>1, <2>2
  <2>3. CASE x.table \in tables
    BY <2>1, <2>3 DEF Rows
  <2> QED
    BY <2>1, <2>2, <2>3
<1>2. Rows(r, tables) \cup {row} \subseteq Rows(r, tables \cup {t})
  BY DEF Rows
<1> QED
  BY <1>1, <1>2

\* An account is deleted by a request that waits for no one's rows, and in one
\* step with them; no step brings an account.
LEMMA WhatDatabaseLoses ==
    ASSUME TypeOK, NEW r \in Requests, Step(r)
    PROVE  \/ db' = db
           \/ Commit(r) /\ db'.users = db.users /\ db'.rows = db.rows \cup private[r]
           \/ /\ DeleteUser(r)
              /\ db'.users = db.users \ {target[r]}
              /\ db'.rows = {x \in db.rows : x.user # target[r]}
           \/ /\ r \in DismissReqs
              /\ db'.users = db.users
              /\ db'.rows \subseteq db.rows
              /\ \A x \in db.rows \ db'.rows : x.table = "notifications"
<1> USE DEF TypeOK
<1>1. CASE Commit(r)
  BY <1>1, DatabaseParts DEF Commit
<1>2. CASE DeleteUser(r)
  BY <1>2, DatabaseParts DEF DeleteUser
<1>3. CASE DismissNotification(r)
  BY <1>3, DatabaseParts DEF DismissNotification
<1>4. CASE ~(Commit(r) \/ DeleteUser(r) \/ DismissNotification(r))
  BY <1>4 DEF Step, Proceed, FindUser, Refuse, Connect, Begin, Insert,
              StatementFails, DeleteFails, Rollback, SendDelete, Respond
<1> QED
  BY <1>1, <1>2, <1>3, <1>4

LEMMA PrivateRowsInductive ==
    ASSUME IInv, [Next]_vars
    PROVE  PrivateRowsInv'
<1> USE DEF IInv, TypeOK
<1> DEFINE Private(q) ==
        /\ pc[q] \notin Inserting \cup {"commit", "rollback"} => private[q] = {}
        /\ pc[q] \in Inserting \cup {"commit"} =>
               private[q] = Rows(q, TablesBefore(q)[pc[q]])
        /\ pc[q] = "tokens" => q \in TokenReqs
        /\ private[q] \subseteq Group(q, target[q])
        /\ private[q] # {} => target[q] \in db.users
<1>1. SUFFICES ASSUME NEW q \in RecordReqs
               PROVE  Private(q)'
  BY DEF PrivateRowsInv
<1>2. Private(q) /\ q \in Requests
  BY DEF PrivateRowsInv, Requests
<1>3. CASE UNCHANGED vars
  BY <1>2, <1>3 DEF vars, TablesBefore, Rows
<1>4. CASE Crash
  <2>1. private'[q] = {} /\ pc'[q] \notin Inserting \cup {"commit", "rollback"}
    BY <1>2, <1>4, StagesOfTransaction DEF Crash
  <2> QED
    BY <2>1 DEF Inserting, Tables
<1>5. ASSUME NEW r \in Requests, Step(r)
      PROVE  Private(q)'
  <2>1. /\ target' = target
        /\ q # r => pc'[q] = pc[q]
    BY <1>2, <1>5, Moves
  <2>2. ASSUME private'[q] # {}, private'[q] = private[q]
        PROVE  target[q] \in db'.users
    <3>1. ~(DeleteUser(r) /\ target[r] = target[q])
      BY <2>2 DEF DeleteUser, Locked
    <3>2. target[q] \in db.users
      BY <1>2, <2>2
    <3> QED
      BY <1>5, <3>1, <3>2, WhatDatabaseLoses
  <2>3. CASE q # r
    <3>1. private'[q] = private[q]
      BY <1>5, <2>3 DEF Step, Proceed, FindUser, Refuse, Connect, Begin, Insert,
                        StatementFails, DeleteFails, Commit, Rollback, SendDelete, DeleteUser,
                        DismissNotification, Respond
    <3> QED
      BY <1>2, <2>1, <2>2, <2>3, <3>1 DEF TablesBefore, Rows
  <2>4. CASE q = r
    <3>1. CASE FindUser(r) \/ Refuse(r) \/ Connect(r) \/ SendDelete(r)
               \/ DeleteUser(r) \/ DeleteFails(r) \/ DismissNotification(r)
               \/ Respond(r)
      <4>1. /\ private' = private
            /\ pc[r] \in {"new", "found", "deleting", "done"}
            /\ pc'[r] \in {"found", "failed", "begin", "deleting", "done", "acked"}
        BY <3>1 DEF FindUser, Refuse, Connect, SendDelete, DeleteUser, DeleteFails,
                    DismissNotification, Respond, Goto
      <4> QED
        BY <1>2, <2>1, <2>2, <2>4, <4>1 DEF Inserting, Tables
    <3>2. CASE Begin(r)
      <4>1. pc[r] = "begin" /\ pc'[r] = FirstTable(r) /\ private' = private
        BY <3>2 DEF Begin, Goto
      <4>2. private[r] = {}
        BY <1>2, <2>4, <4>1 DEF Inserting, Tables
      <4> QED
        BY <2>1, <2>4, <4>1, <4>2, TablesFollow, StagesOfTransaction DEF TablesBefore, Rows
    <3>3. CASE Insert(r) /\ target[r] \in db.users
      <4> DEFINE row == [table |-> pc[r], req |-> r, user |-> target[r]]
      <4>1. /\ pc[r] \in Inserting
            /\ pc'[r] = NextStage[pc[r]]
            /\ private'[r] = private[r] \cup {row}
            /\ db' = db
        BY <3>3 DEF Insert, Goto
      <4>2. /\ private[r] = Rows(r, TablesBefore(r)[pc[r]])
            /\ pc[r] \in TablesOf(r)
            /\ TablesBefore(r)[NextStage[pc[r]]] = TablesBefore(r)[pc[r]] \cup {pc[r]}
        BY <1>2, <2>4, <4>1, TablesFollow
      <4>3. private'[r] = Rows(r, TablesBefore(r)[NextStage[pc[r]]])
        <5>1. Rows(r, TablesBefore(r)[pc[r]] \cup {pc[r]}) =
                  Rows(r, TablesBefore(r)[pc[r]]) \cup {row}
          BY RowsGrow
        <5> HIDE DEF row, IInv, TypeOK
        <5> QED
          BY <4>1, <4>2, <5>1
      <4>4. private'[r] \subseteq Group(r, target[r])
        BY <1>2, <2>4, <4>1, <4>2 DEF Group
      <4>5. pc'[r] \in Inserting \cup {"commit"} /\ pc'[r] # "tokens"
        BY <2>4, <4>1, TablesFollow, StagesOfTransaction
      <4> QED
        BY <2>1, <2>4, <3>3, <4>1, <4>3, <4>4, <4>5 DEF TablesBefore, Rows
    <3>4. CASE StatementFails(r) \/ (Insert(r) /\ target[r] \notin db.users)
      <4>1. private' = private /\ pc'[r] = "rollback"
        BY <3>4 DEF StatementFails, Insert, Goto
      <4> QED
        BY <1>2, <2>1, <2>2, <2>4, <4>1 DEF Inserting, Tables
    <3>5. CASE Commit(r) \/ Rollback(r)
      <4>1. private'[r] = {} /\ pc'[r] \in {"done", "failed"}
        BY <3>5 DEF Commit, Rollback, Goto
      <4> QED
        BY <2>4, <4>1 DEF Inserting, Tables
    <3> QED
      BY <1>5, <3>1, <3>2, <3>3, <3>4, <3>5 DEF Step, Proceed
  <2> QED
    BY <2>3, <2>4
<1> QED
  BY <1>3, <1>4, <1>5 DEF Next, Step

\* What a COMMIT finds.
LEMMA AtCommit ==
    ASSUME IInv, NEW r \in RecordReqs, pc[r] = "commit"
    PROVE  /\ private[r] = Group(r, target[r])
           /\ r \notin committed
           /\ target[r] \in db.users
<1>1. private[r] = Group(r, target[r])
  BY TablesFollow DEF IInv, PrivateRowsInv, Rows, Group
<1>2. [table |-> "transactions", req |-> r, user |-> target[r]] \in Group(r, target[r])
  BY DEF Group, TablesOf, Tables
<1> QED
  BY <1>1, <1>2 DEF IInv, PrivateRowsInv, LedgerInv

LEMMA LedgerInductive ==
    ASSUME IInv, [Next]_vars
    PROVE  LedgerInv'
<1> USE DEF IInv, TypeOK, LedgerInv
<1>1. CASE UNCHANGED vars
  BY <1>1 DEF vars, LedgerRows, Group
<1>2. CASE Crash
  <2>1. \A q \in RecordReqs : /\ pc'[q] = "acked" <=> pc[q] = "acked"
                              /\ pc'[q] # "done"
                              /\ pc[q] = "done" => pc'[q] = "lost"
                              /\ pc[q] = "lost" => pc'[q] = "lost"
    BY <1>2, StagesOfTransaction DEF Crash, Requests, InFlight
  <2>2. db' = db /\ target' = target /\ committed' = committed
    BY <1>2 DEF Crash
  <2>3. \A q : LedgerRows(q, target[q])' = LedgerRows(q, target[q])
    BY <2>2 DEF LedgerRows, Group
  <2>4. ASSUME NEW q \in RecordReqs, pc'[q] \in {"done", "acked"}
        PROVE  q \in committed'
    BY <2>1, <2>2, <2>4
  <2>5. ASSUME NEW q \in committed'
        PROVE  /\ pc'[q] \in {"done", "acked", "lost"}
               /\ target'[q] \in db'.users =>
                      LedgerRows(q, target[q])' \subseteq db'.rows
    BY <2>1, <2>2, <2>3, <2>5
  <2> QED
    BY <2>4, <2>5
<1>3. ASSUME NEW r \in Requests, Step(r)
      PROVE  LedgerInv'
  <2>1. target' = target /\ \A q \in Requests \ {r} : pc'[q] = pc[q]
    BY <1>3, Moves
  <2>2. \A q : LedgerRows(q, target[q])' = LedgerRows(q, target[q])
    BY <2>1 DEF LedgerRows, Group
  <2>3. \A x \in db.rows \ db'.rows :
            \/ x.table = "notifications"
            \/ x.user \notin db'.users
    BY <1>3, WhatDatabaseLoses
  <2>4. db'.users \subseteq db.users
    BY <1>3, WhatDatabaseLoses
  <2>5. ASSUME NEW q \in committed, target'[q] \in db'.users
        PROVE  LedgerRows(q, target[q])' \subseteq db'.rows
    BY <2>1, <2>2, <2>3, <2>4, <2>5 DEF LedgerRows, Group
  <2>6. CASE ~Commit(r)
    <3>1. committed' = committed
      BY <1>3, <2>6 DEF Step, Proceed, FindUser, Refuse, Connect, Begin, Insert,
             StatementFails, DeleteFails, Rollback, SendDelete, DeleteUser, DismissNotification, Respond
    <3>2. r \in RecordReqs => /\ pc'[r] # "done"
                              /\ pc'[r] = "acked" => pc[r] = "done"
                              /\ pc[r] \in {"done", "acked", "lost"} => pc'[r] = "acked"
      BY <1>3, <2>6, RequestsDisjoint, StagesOfTransaction
         DEF Step, Proceed, FindUser, Refuse, Connect, Begin, Insert, StatementFails, DeleteFails,
             Rollback, SendDelete, DeleteUser, DismissNotification, Respond, Goto
    <3> QED
      BY <2>1, <2>5, <3>1, <3>2 DEF Requests
  <2>7. CASE Commit(r)
    <3>1. /\ r \in RecordReqs
          /\ pc'[r] = "done"
          /\ committed' = committed \cup {r}
          /\ db'.rows = db.rows \cup Group(r, target[r])
      BY <2>7, AtCommit, DatabaseParts DEF Commit, Goto
    <3>2. LedgerRows(r, target[r])' \subseteq db'.rows
      BY <2>2, <3>1 DEF LedgerRows
    <3> QED
      BY <2>1, <2>5, <3>1, <3>2 DEF Requests
  <2> QED
    BY <2>6, <2>7
<1> QED
  BY <1>1, <1>2, <1>3 DEF Next, Step

LEMMA DeletedInductive ==
    ASSUME IInv, [Next]_vars
    PROVE  DeletedInv'
<1> USE DEF IInv, TypeOK, DeletedInv
<1>1. CASE UNCHANGED vars
  BY <1>1 DEF vars
<1>2. CASE Crash
  <2>1. \A q \in DeleteReqs : pc'[q] \in {"done", "acked"} => pc[q] = "acked"
    BY <1>2 DEF Crash, Requests, InFlight
  <2> QED
    BY <1>2, <2>1 DEF Crash
<1>3. ASSUME NEW r \in Requests, Step(r)
      PROVE  DeletedInv'
  <2>1. target' = target /\ \A q \in Requests \ {r} : pc'[q] = pc[q]
    BY <1>3, Moves
  <2>2. db'.users \subseteq db.users
    BY <1>3, WhatDatabaseLoses
  <2>3. r \in DeleteReqs /\ pc'[r] \in {"done", "acked"} =>
            pc[r] = "done" \/ target[r] \notin db'.users
    BY <1>3, RequestsDisjoint, DatabaseParts
       DEF Step, Proceed, FindUser, Refuse, Connect, Begin, Insert, StatementFails, DeleteFails,
           Commit, Rollback, SendDelete, DeleteUser, DismissNotification, Respond, Goto
  <2> QED
    BY <2>1, <2>2, <2>3 DEF Requests
<1> QED
  BY <1>1, <1>2, <1>3 DEF Next, Step

\* A COMMIT brings rows of an account that is locked, a deletion takes them.
LEMMA ForeignKeysInductive ==
    ASSUME IInv, [Next]_vars
    PROVE  ForeignKeysHold(db')
<1> USE DEF ForeignKeysHold
<1>1. CASE UNCHANGED vars \/ Crash
  BY <1>1 DEF vars, Crash, IInv
<1>2. ASSUME NEW r \in Requests, Step(r)
      PROVE  ForeignKeysHold(db')
  <2>1. CASE Commit(r)
    <3>1. r \in RecordReqs /\ pc[r] = "commit"
      BY <2>1 DEF Commit
    <3>2. private[r] = Group(r, target[r]) /\ target[r] \in db.users
      BY <3>1, AtCommit
    <3>3. db'.users = db.users /\ db'.rows = db.rows \cup private[r]
      BY <2>1, <3>1, DatabaseParts DEF Commit, IInv, TypeOK
    <3> QED
      BY <3>2, <3>3 DEF Group, IInv
  <2>2. CASE ~Commit(r)
    BY <1>2, <2>2, WhatDatabaseLoses DEF IInv
  <2> QED
    BY <2>1, <2>2
<1> QED
  BY <1>1, <1>2 DEF Next, Step

-----------------------------------------------------------------------------
LEMMA InitEstablishesIInv == Init => IInv
<1> SUFFICES ASSUME Init PROVE IInv
  OBVIOUS
<1>1. \A r \in Requests : pc[r] = "new"
  BY DEF Init
<1>2. RecordReqs \subseteq Requests /\ DeleteReqs \subseteq Requests
  BY DEF Requests
<1>3. db = EmptyLedger /\ EmptyLedger \in Database /\ EmptyLedger.rows = {}
  BY DEF Init, EmptyLedger, Database
<1>4. TypeOK
  BY <1>3, StagesOfTransaction DEF Init, TypeOK
<1>5. PoolInv
  BY <1>1, FS_EmptySet, PoolSizePositive, StagesOfTransaction
     DEF Init, PoolInv, ClientsAccountedFor
<1>6. PrivateRowsInv
  BY <1>1, <1>2 DEF Init, PrivateRowsInv, Inserting, Tables
<1>7. LedgerInv /\ DeletedInv
  BY <1>1, <1>2 DEF Init, LedgerInv, DeletedInv
<1> QED
  BY <1>3, <1>4, <1>5, <1>6, <1>7 DEF IInv, ForeignKeysHold

LEMMA IInvInductive == IInv /\ [Next]_vars => IInv'
<1> SUFFICES ASSUME IInv, [Next]_vars PROVE IInv'
  OBVIOUS
<1>1. TypeOK' /\ PoolInv'
  BY TypeInv, PoolInductive DEF IInv
<1>2. PrivateRowsInv' /\ LedgerInv' /\ DeletedInv'
  BY PrivateRowsInductive, LedgerInductive, DeletedInductive
<1>3. ForeignKeysHold(db)'
  BY ForeignKeysInductive
<1> QED
  BY <1>1, <1>2, <1>3 DEF IInv

LEMMA Invariance == Spec => []IInv
  BY InitEstablishesIInv, IInvInductive, PTL DEF Spec

\* Every variable of withTransaction on Postgres keeps its type.
THEOREM TypeCorrect == Spec => []TypeOK
<1>1. IInv => TypeOK
  BY DEF IInv
<1> QED
  BY <1>1, Invariance, PTL

\* The pool is never overdrawn and never shrinks: every path of withTransaction
\* gives its client back.
THEOREM NoClientIsLost == Spec => []ClientsAccountedFor
<1>1. IInv => ClientsAccountedFor
  BY DEF IInv, PoolInv
<1> QED
  BY <1>1, Invariance, PTL

\* Rows stay private to the transaction that wrote them, and no deletion takes
\* their account away before it ends.
THEOREM TransactionsIsolated == Spec => []PrivateRowsProtected
<1>1. IInv => PrivateRowsProtected
  BY StagesOfTransaction DEF IInv, PrivateRowsInv, PrivateRowsProtected
<1> QED
  BY <1>1, Invariance, PTL

\* Whatever was answered with success, recording or deletion, stays.
THEOREM SuccessIsDurable == Spec => []AckedWritesDurable
<1>1. IInv => AckedWritesDurable
  BY DEF IInv, LedgerInv, DeletedInv, AckedWritesDurable
<1> QED
  BY <1>1, Invariance, PTL

\* withTransaction on Postgres is an atomic recording of whole groups.
THEOREM Implements == Spec => ImplementsAtomicRecords
<1>1. \A a, b : Atomic!Shrinks(a, b) <=> Shrinks(a, b)
  BY DEF Atomic!Shrinks, Shrinks, Atomic!ForeignKeysHold, ForeignKeysHold
<1>2. \A r, u : Atomic!Group(r, u) = Group(r, u)
  BY DEF Atomic!Group, Group, Atomic!TablesOf, TablesOf, Atomic!Tables, Tables
<1>3. Atomic!RecordReqs = RecordReqs
  BY DEF Atomic!RecordReqs, RecordReqs
<1>4. Init => Atomic!Init
  BY DEF Init, Atomic!Init, Atomic!EmptyLedger, EmptyLedger
<1>5. ASSUME IInv, Next
      PROVE  [Atomic!Next]_(Atomic!vars)
  <2>1. ForeignKeysHold(db')
    BY <1>5, ForeignKeysInductive
  <2>2. CASE Crash
    BY <2>2 DEF Crash, Atomic!vars
  <2>3. ASSUME NEW r \in Requests, Step(r)
        PROVE  [Atomic!Next]_(Atomic!vars)
    <3>1. CASE Commit(r)
      <4>1. /\ r \in RecordReqs
            /\ pc[r] = "commit"
            /\ committed' = committed \cup {r}
            /\ db' = [db EXCEPT !.rows = @ \cup private[r]]
        BY <3>1 DEF Commit
      <4>2. /\ private[r] = Group(r, target[r])
            /\ r \notin committed
            /\ target[r] \in db.users
        BY <1>5, <4>1, AtCommit
      <4>3. Shrinks([db EXCEPT !.rows = @ \cup Group(r, target[r])], db')
        BY <2>1, <4>1, <4>2 DEF Shrinks
      <4>4. Atomic!Record(r, target[r])
        BY <1>1, <1>2, <4>1, <4>2, <4>3 DEF Atomic!Record
      <4>5. target[r] \in Users
        BY <1>5, <2>3 DEF IInv, TypeOK
      <4> QED
        BY <1>3, <4>1, <4>4, <4>5 DEF Atomic!Next
    <3>2. CASE ~Commit(r)
      <4>1. committed' = committed
        BY <2>3, <3>2 DEF Step, Proceed, FindUser, Refuse, Connect, Begin, Insert,
             StatementFails, DeleteFails, Rollback, SendDelete, DeleteUser, DismissNotification, Respond
      <4>2. TypeOK
        BY <1>5 DEF IInv
      <4>3. Shrinks(db, db') \/ db' = db
        BY <2>1, <2>3, <3>2, <4>2, WhatDatabaseLoses DEF Shrinks
      <4> QED
        BY <1>1, <4>1, <4>3 DEF Atomic!Erase, Atomic!Next, Atomic!vars
    <3> QED
      BY <3>1, <3>2
  <2> QED
    BY <1>5, <2>2, <2>3 DEF Next, Step
<1>6. ASSUME UNCHANGED vars
      PROVE  UNCHANGED Atomic!vars
  BY <1>6 DEF vars, Atomic!vars
<1>7. IInv /\ [Next]_vars => [Atomic!Next]_(Atomic!vars)
  BY <1>5, <1>6
<1> QED
  BY <1>4, <1>7, Invariance, PTL DEF Spec, ImplementsAtomicRecords, Atomic!Spec
=============================================================================
