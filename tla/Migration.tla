----------------------------- MODULE Migration ------------------------------
(***************************************************************************)
(* backend/scripts/migrate-sqlite-to-postgres.ts: one Postgres transaction *)
(* that copies table after table from SQLite, row by row, while the API    *)
(* may be running on either database.  A user is identified by id, and no  *)
(* two users of a database share an e-mail or a linked wallet; tokens,     *)
(* transactions and notifications are rows of a user.                      *)
(***************************************************************************)
EXTENDS FiniteSets

CONSTANTS
    Users,           \* ids of users, on either side
    Emails,
    WalletAddresses,
    NoWallet,        \* NULL
    Rows             \* ids of the rows users own

VARIABLES
    email,   \* of each user id; no request changes it
    userOf,  \* of each row id
    source,  \* the SQLite database: users and rows
    target,  \* the Postgres database, as committed
    pc,      \* where the script stands
    force,   \* --force
    todo,    \* rows of the present table still to be inserted
    written, \* what the open transaction has inserted or updated
    touched  \* history: the API changed a database since the last start

migration == <<email, userOf, source, target, pc, force, todo, written, touched>>

\* The columns of users that constraints are about and that can differ.
UserRow == [id : Users, wallet : WalletAddresses \cup {NoWallet}]

Contents == [users : SUBSET UserRow, rows : SUBSET Rows]

Nothing == [users |-> {}, rows |-> {}]

IdsOf(d) == {u.id : u \in d.users}

MigrationTypeOK ==
    /\ email \in [Users -> Emails]
    /\ userOf \in [Rows -> Users]
    /\ {source, target, written} \subseteq Contents
    /\ pc \in {"idle", "users", "rows", "commit", "failed", "done"}
    /\ {force, touched} \subseteq BOOLEAN
    /\ todo \subseteq UserRow \cup Rows

\* The primary key and the UNIQUE constraints of users.
Clash(u, v) ==
    \/ u.id = v.id
    \/ email[u.id] = email[v.id]
    \/ u.wallet = v.wallet /\ u.wallet # NoWallet

Consistent(d) ==
    /\ \A u, v \in d.users : Clash(u, v) => u = v
    /\ \A x \in d.rows : userOf[x] \in IdsOf(d)

MigrationInit ==
    /\ email \in [Users -> Emails]
    /\ userOf \in [Rows -> Users]
    /\ source \in Contents /\ Consistent(source)
    /\ target \in Contents /\ Consistent(target)
    /\ pc = "idle"
    /\ force = FALSE
    /\ todo = {}
    /\ written = Nothing
    /\ touched = FALSE

-----------------------------------------------------------------------------
\* Database d with the rows of w inserted, or updated where d has the id.
Over(d, w) ==
    [users |-> {v \in d.users : v.id \notin IdsOf(w)} \cup w.users,
     rows |-> d.rows \cup w.rows]

\* The row of one user inserted or updated.
PutUser(d, u) == [d EXCEPT !.users = {v \in @ : v.id # u.id} \cup {u}]

\* What the open transaction sees.
Visible == Over(target, written)

\* BEGIN, and SELECT * FROM users.
Begin ==
    /\ pc \in {"idle", "failed", "done"}
    /\ force' \in BOOLEAN
    /\ pc' = "users"
    /\ todo' = source.users
    /\ written' = Nothing
    /\ touched' = FALSE
    /\ UNCHANGED <<email, userOf, source, target>>

\* INSERT ... ON CONFLICT DO NOTHING passes over a user whose id, e-mail or
\* wallet is there.
InsertOrSkip(u) ==
    /\ ~force
    /\ written' = IF \E v \in Visible.users : Clash(u, v) THEN written
                  ELSE PutUser(written, u)

\* ON CONFLICT (id) DO UPDATE: the row of that id is overwritten, its wallet
\* included; the e-mail or the wallet of another user fails the statement.
InsertOrUpdate(u) ==
    /\ force
    /\ \A v \in Visible.users : v.id # u.id => ~Clash(u, v)
    /\ written' = PutUser(written, u)

CopyUser(u) ==
    /\ pc = "users"
    /\ u \in todo
    /\ InsertOrSkip(u) \/ InsertOrUpdate(u)
    /\ todo' = todo \ {u}
    /\ UNCHANGED <<email, userOf, source, target, pc, force, touched>>

\* A row whose user is missing is passed over.
CopyRowOrSkip(x) ==
    /\ pc = "rows"
    /\ x \in todo
    /\ todo' = todo \ {x}
    /\ written' = IF userOf[x] \in IdsOf(Visible)
                  THEN [written EXCEPT !.rows = @ \cup {x}] ELSE written
    /\ UNCHANGED <<email, userOf, source, target, pc, force, touched>>

CopyRow(x) ==
    /\ pc = "rows"
    /\ x \in todo
    /\ todo' = todo \ {x}
    /\ IF ~force /\ x \in target.rows
       THEN UNCHANGED written
       ELSE /\ userOf[x] \in IdsOf(Visible)
            /\ written' = [written EXCEPT !.rows = @ \cup {x}]
    /\ UNCHANGED <<email, userOf, source, target, pc, force, touched>>

\* SELECT * FROM the next tables, which sees what the API has done since.
NextTable ==
    /\ pc \in {"users", "rows"}
    /\ todo = {}
    /\ pc' = IF pc = "users" THEN "rows" ELSE "commit"
    /\ todo' = IF pc = "users" THEN source.rows ELSE {}
    /\ UNCHANGED <<email, userOf, source, target, force, written, touched>>

Commit ==
    /\ pc = "commit"
    /\ target' = Visible
    /\ written' = Nothing
    /\ pc' = "done"
    /\ UNCHANGED <<email, userOf, source, force, todo, touched>>

\* The connection commits each statement by itself.
RollBackNothing ==
    /\ pc \in {"users", "rows", "commit"}
    /\ pc' = "failed"
    /\ todo' = {}
    /\ target' = Visible
    /\ written' = Nothing
    /\ UNCHANGED <<email, userOf, source, force, touched>>

\* Any statement fails: a taken e-mail or wallet with --force, a foreign key,
\* the connection.  ROLLBACK.
RollBack ==
    /\ pc \in {"users", "rows", "commit"}
    /\ pc' = "failed"
    /\ todo' = {}
    /\ written' = Nothing
    /\ UNCHANGED <<email, userOf, source, target, force, touched>>

\* The API on one of the databases: an account or a row with an id nobody has
\* had, a wallet linked or unlinked, a removal.
IdsSeen == IdsOf(source) \cup IdsOf(Visible)
RowsSeen == source.rows \cup Visible.rows

Changed(d) ==
         {PutUser(d, u) : u \in {v \in UserRow :
              IF v.id \in IdsSeen THEN v.id \in IdsOf(d) ELSE v.wallet = NoWallet}}
    \cup {[d EXCEPT !.rows = @ \cup {x}] : x \in Rows \ RowsSeen}
    \cup {[users |-> d.users \ {u}, rows |-> {x \in d.rows : userOf[x] # u.id}] : u \in d.users}

ChangeSource ==
    /\ source' \in {d \in Changed(source) : Consistent(d)}
    /\ touched' = TRUE
    /\ UNCHANGED <<email, userOf, target, pc, force, todo, written>>

\* Users the open transaction has updated, or refers to, are locked, and a
\* unique value it has written is waited for.
Locked ==
    {u \in target.users : u.id \in IdsOf(written) \cup {userOf[x] : x \in written.rows}}

ChangeTarget ==
    /\ target' \in {d \in Changed(target) :
           Consistent(d) /\ Consistent(Over(d, written)) /\ Locked \subseteq d.users}
    /\ touched' = TRUE
    /\ UNCHANGED <<email, userOf, source, pc, force, todo, written>>

MigrationNext ==
    \/ Begin \/ NextTable \/ Commit \/ RollBack
    \/ \E u \in UserRow : CopyUser(u)
    \/ \E x \in Rows : CopyRow(x)
    \/ ChangeSource \/ ChangeTarget

-----------------------------------------------------------------------------
\* A migration that reports success, with no request served meanwhile, has
\* copied every row, and with --force every user as the source has it.  Without,
\* a user is passed over only for a user of the target with the same id, e-mail
\* or wallet, and one whose id is then missing had no rows.
SuccessCopiesEverything ==
    pc = "done" /\ ~touched =>
        /\ source.rows \subseteq target.rows
        /\ \A u \in source.users \ target.users :
               /\ ~force
               /\ \E v \in target.users : Clash(u, v)
               /\ u.id \notin IdsOf(target) => \A x \in source.rows : userOf[x] # u.id

\* "Nothing was written" by a run that fails.  A run that succeeds "never
\* deletes anything", changes no user of the target without --force, and leaves
\* keys, e-mails and wallets as the schema wants them.
MigrationOnlyAdds ==
    [][pc' # pc /\ target' # target =>
           /\ pc' = "done"
           /\ IdsOf(target) \subseteq IdsOf(target')
           /\ target.rows \subseteq target'.rows
           /\ ~force => target.users \subseteq target'.users
           /\ Consistent(target')]_migration
=============================================================================
