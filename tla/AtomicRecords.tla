--------------------------- MODULE AtomicRecords ----------------------------
(***************************************************************************)
(* What withTransaction promises (backend/src/config/db.ts): the token,    *)
(* transaction and notification rows of one request become durable         *)
(* together or not at all, and each request is recorded at most once.      *)
(* Accounts and notifications may be deleted at any time, also in the same *)
(* step.  Both database engines are shown to implement this module.        *)
(***************************************************************************)
EXTENDS RecordTables

VARIABLES
    db,   \* the durable database
    done  \* requests whose group has been recorded

vars == <<db, done>>

Init == db = EmptyLedger /\ done = {}

\* The whole group of r, for account u, in one step.
Record(r, u) ==
    /\ r \notin done
    /\ u \in db.users
    /\ Shrinks([db EXCEPT !.rows = @ \cup Group(r, u)], db')
    /\ done' = done \cup {r}

Erase ==
    /\ Shrinks(db, db')
    /\ UNCHANGED done

Next == Erase \/ \E r \in RecordReqs, u \in Users : Record(r, u)

Spec == Init /\ [][Next]_vars
=============================================================================
