---------------------------- MODULE RecordTables ----------------------------
(***************************************************************************)
(* The rows that recording on-chain activity writes, and what the schema   *)
(* of backend/src/config/initDb.ts says about them.  A row is identified   *)
(* by the request that inserts it: every INSERT draws a fresh UUID, so no  *)
(* two requests ever write the same row.  Column values nobody compares    *)
(* (names, amounts, texts) are left out.                                   *)
(***************************************************************************)
EXTENDS FiniteSets

CONSTANTS
    Users,        \* accounts that exist when the run starts
    TokenReqs,    \* calls of recordToken
    TransferReqs, \* calls of recordTokenTransfer
    None          \* no request

ASSUME RecordReqsDisjoint == TokenReqs \cap TransferReqs = {}

RecordReqs == TokenReqs \cup TransferReqs

ASSUME NoneIsNoRequest == None \notin RecordReqs

Tables == {"tokens", "transactions", "notifications"}

Row == [table : Tables, req : RecordReqs, user : Users]

Database == [users : SUBSET Users, rows : SUBSET Row]

EmptyLedger == [users |-> Users, rows |-> {}]

TablesOf(r) == IF r \in TokenReqs THEN Tables
                                  ELSE {"transactions", "notifications"}

\* Everything request r writes for user u.
Group(r, u) == [table : TablesOf(r), req : {r}, user : {u}]

\* The part of a group that no endpoint deletes on its own.
LedgerRows(r, u) == {x \in Group(r, u) : x.table # "notifications"}

RowsOf(db, r) == {x \in db.rows : x.req = r}

\* INSERT, once the foreign key on user_id has been found satisfied.
InsertRow(db, x) == [db EXCEPT !.rows = @ \cup {x}]

\* DELETE FROM users, with ON DELETE CASCADE on the three tables.
CascadeDelete(db, u) ==
    [users |-> db.users \ {u}, rows |-> {x \in db.rows : x.user # u}]

DeleteRow(db, x) == [db EXCEPT !.rows = @ \ {x}]

ForeignKeysHold(db) == \A x \in db.rows : x.user \in db.users

\* after is before with some accounts deleted, all their rows gone with
\* them, and some notifications dismissed; nothing else differs.
Shrinks(before, after) ==
    /\ after.users \subseteq before.users
    /\ after.rows \subseteq before.rows
    /\ \A x \in before.rows \ after.rows :
           x.table = "notifications" \/ x.user \notin after.users
    /\ ForeignKeysHold(after)
=============================================================================
