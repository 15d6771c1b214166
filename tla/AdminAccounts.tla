---------------------------- MODULE AdminAccounts ---------------------------
(***************************************************************************)
(* Who is an administrator: register and the seeding in initDb create      *)
(* accounts, patchUserRole and removeUser change and delete them, and the  *)
(* right to do so is the role in an access token, which authorize trusts   *)
(* without reading the row.  How tokens are issued is module Sessions;     *)
(* here an account that can log in may get one for its current role at any *)
(* time, and a token expires at any time.                                  *)
(***************************************************************************)
EXTENDS Naturals, FiniteSets

CONSTANTS
    Names,       \* e-mail addresses, up to letter case
    AdminEmail,  \* env.adminEmail, as written in the environment
    RegisterReqs, RoleReqs, RemoveReqs,
    Instances,   \* server processes on one database
    MaxAccounts  \* bound on the accounts ever created

Email == [name : Names, case : {"mixed", "lower"}]
ToLowerCase(e) == [e EXCEPT !.case = "lower"]

ASSUME AdminEmailIsEmail == AdminEmail \in Email
ASSUME BoundIsNat == MaxAccounts \in Nat
ASSUME RequestsDisjoint ==
    RegisterReqs \cap (RoleReqs \cup RemoveReqs) = {} /\ RoleReqs \cap RemoveReqs = {}

Requests == RegisterReqs \cup RoleReqs \cup RemoveReqs
Roles == {"user", "moderator", "admin"}
Ids == 1 .. MaxAccounts
User == [id : Ids, email : Email, role : Roles]
AccessToken == [id : Ids, role : Roles]

VARIABLES
    users,   \* table users
    drawn,   \* how many ids have been drawn
    tokens,  \* access tokens that have not expired
    server,  \* where each process stands
    pc,      \* where each request stands
    body     \* what each request asks for, and as whom

vars == <<users, drawn, tokens, server, pc, body>>

ServerStages == {"down", "listening", "seeding", "ready"}
Stages == {"new", "writing", "acked", "rejected", "failed"}
Bodies == [email : Email] \cup [actor : Ids, target : Ids]
              \cup [actor : Ids, target : Ids, role : Roles]
NoBody == [empty |-> TRUE]

TypeOK ==
    /\ users \in SUBSET User
    /\ drawn \in 0 .. MaxAccounts
    /\ tokens \in SUBSET AccessToken
    /\ server \in [Instances -> ServerStages]
    /\ pc \in [Requests -> Stages]
    /\ body \in [Requests -> Bodies \cup {NoBody}]

Init ==
    /\ users = {}
    /\ drawn = 0
    /\ tokens = {}
    /\ server = [i \in Instances |-> "down"]
    /\ pc = [r \in Requests |-> "new"]
    /\ body = [r \in Requests |-> NoBody]

-----------------------------------------------------------------------------
Goto(r, stage) == pc' = [pc EXCEPT ![r] = stage]

Admins == {u \in users : u.role = "admin"}
ById(id) == {u \in users : u.id = id}
Serving == \E i \in Instances : server[i] # "down"

\* The rows after an INSERT that the UNIQUE email accepts or ignores.
InsertOrIgnore(u) ==
    IF \E v \in users : v.email = u.email THEN users ELSE users \cup {u}

-----------------------------------------------------------------------------
(* index.ts and initDb.ts *)

\* app.listen, then CREATE TABLE users: requests are served from here on, before
\* initDb has looked for an administrator.  Those that come before the tables
\* exist fail without effect.
Listen(i) ==
    /\ server[i] = "down"
    /\ server' = [server EXCEPT ![i] = "listening"]
    /\ UNCHANGED <<users, drawn, tokens, pc, body>>

\* SELECT id FROM users WHERE role = 'admin' LIMIT 1
LookForAdmin(i) ==
    /\ server[i] = "listening"
    /\ server' = [server EXCEPT ![i] = IF Admins = {} THEN "seeding" ELSE "ready"]
    /\ UNCHANGED <<users, drawn, tokens, pc, body>>

\* An INSERT without the conflict clause or UNIQUE.
SeedAdminUnchecked(i) ==
    /\ server[i] = "seeding"
    /\ drawn < MaxAccounts
    /\ drawn' = drawn + 1
    /\ users' = users \cup {[id |-> drawn', email |-> AdminEmail, role |-> "admin"]}
    /\ server' = [server EXCEPT ![i] = "ready"]
    /\ UNCHANGED <<tokens, pc, body>>

\* INSERT OR IGNORE (ON CONFLICT DO NOTHING), then the log line either way.
SeedAdmin(i) ==
    /\ server[i] = "seeding"
    /\ drawn < MaxAccounts
    /\ drawn' = drawn + 1
    /\ users' = InsertOrIgnore([id |-> drawn', email |-> AdminEmail, role |-> "admin"])
    /\ server' = [server EXCEPT ![i] = "ready"]
    /\ UNCHANGED <<tokens, pc, body>>

Stop(i) ==
    /\ server[i] # "down"
    /\ server' = [server EXCEPT ![i] = "down"]
    /\ UNCHANGED <<users, drawn, tokens, pc, body>>

-----------------------------------------------------------------------------
(* Access tokens *)

\* login looks the account up by the lower-case e-mail.
IssueToken(u) ==
    /\ Serving
    /\ u.email = ToLowerCase(u.email)
    /\ tokens' = tokens \cup {[id |-> u.id, role |-> u.role]}
    /\ UNCHANGED <<users, drawn, server, pc, body>>

ExpireToken(t) ==
    /\ tokens' = tokens \ {t}
    /\ UNCHANGED <<users, drawn, server, pc, body>>

-----------------------------------------------------------------------------
(* register *)

\* getUserByEmail; bcrypt.hash runs before the INSERT.
CheckEmail(r, e) ==
    /\ r \in RegisterReqs
    /\ pc[r] = "new"
    /\ Serving
    /\ body' = [body EXCEPT ![r] = [email |-> e]]
    /\ Goto(r, IF \E u \in users : u.email = ToLowerCase(e)
               THEN "rejected" ELSE "writing")
    /\ UNCHANGED <<users, drawn, tokens, server>>

\* createUserByEmail: the UNIQUE constraint fails the loser of a race.
CreateUser(r) ==
    LET e == ToLowerCase(body[r].email)
    IN  /\ r \in RegisterReqs
        /\ pc[r] = "writing"
        /\ drawn < MaxAccounts
        /\ drawn' = drawn + 1
        /\ users' = InsertOrIgnore([id |-> drawn', email |-> e, role |-> "user"])
        /\ Goto(r, IF users' = users THEN "failed" ELSE "acked")
        /\ UNCHANGED <<tokens, server, body>>

-----------------------------------------------------------------------------
(* patchUserRole and removeUser *)

\* authorize('admin') on a valid access token.
Authorized(t) == t \in tokens /\ t.role = "admin"

\* Without the guard against self-demotion.
CheckRoleChangeNoSelfGuard(r, t, id, q) ==
    /\ r \in RoleReqs
    /\ pc[r] = "new"
    /\ Serving
    /\ Authorized(t)
    /\ body' = [body EXCEPT ![r] = [actor |-> t.id, target |-> id, role |-> q]]
    /\ Goto(r, IF ById(id) = {} THEN "rejected" ELSE "writing")
    /\ UNCHANGED <<users, drawn, tokens, server>>

\* No self-demotion; getUserById of the target.
CheckRoleChange(r, t, id, q) ==
    /\ r \in RoleReqs
    /\ pc[r] = "new"
    /\ Serving
    /\ Authorized(t)
    /\ body' = [body EXCEPT ![r] = [actor |-> t.id, target |-> id, role |-> q]]
    /\ Goto(r, IF (t.id = id /\ q # "admin") \/ ById(id) = {}
               THEN "rejected" ELSE "writing")
    /\ UNCHANGED <<users, drawn, tokens, server>>

\* updateUserRole; sanitizeUser throws if the target is gone by now.
ChangeRole(r) ==
    LET id == body[r].target
    IN  /\ r \in RoleReqs
        /\ pc[r] = "writing"
        /\ users' = {IF u.id = id THEN [u EXCEPT !.role = body[r].role] ELSE u :
                        u \in users}
        /\ Goto(r, IF ById(id) = {} THEN "failed" ELSE "acked")
        /\ UNCHANGED <<drawn, tokens, server, body>>

\* No self-deletion; getUserById of the target.
CheckRemoval(r, t, id) ==
    /\ r \in RemoveReqs
    /\ pc[r] = "new"
    /\ Serving
    /\ Authorized(t)
    /\ body' = [body EXCEPT ![r] = [actor |-> t.id, target |-> id]]
    /\ Goto(r, IF t.id = id \/ ById(id) = {} THEN "rejected" ELSE "writing")
    /\ UNCHANGED <<users, drawn, tokens, server>>

\* deleteUserById
RemoveUser(r) ==
    /\ r \in RemoveReqs
    /\ pc[r] = "writing"
    /\ users' = users \ ById(body[r].target)
    /\ Goto(r, "acked")
    /\ UNCHANGED <<drawn, tokens, server, body>>

Next ==
    \/ \E i \in Instances : Listen(i) \/ LookForAdmin(i) \/ SeedAdmin(i) \/ Stop(i)
    \/ \E u \in users : IssueToken(u)
    \/ \E t \in tokens : ExpireToken(t)
    \/ \E r \in Requests :
         \/ \E e \in Email : CheckEmail(r, e)
         \/ CreateUser(r) \/ ChangeRole(r) \/ RemoveUser(r)
         \/ \E t \in tokens, id \in 1 .. drawn :
              \/ CheckRemoval(r, t, id)
              \/ \E q \in Roles : CheckRoleChange(r, t, id, q)

Spec == Init /\ [][Next]_vars
-----------------------------------------------------------------------------
\* Requests and processes that race to create an account never create two
\* with one e-mail or one id (UNIQUE and PRIMARY KEY of users).
NoTwoAccountsShareAnEmail ==
    \A u, v \in users : u # v => u.email # v.email /\ u.id # v.id

\* The platform is left without any administrator only through authority
\* already taken away: the request that takes the last one acts for an account
\* that is not an administrator any more when it writes.
LostAdminNeedsStaleToken ==
    [][Admins # {} /\ Admins' = {} =>
          \E r \in RoleReqs \cup RemoveReqs :
              /\ pc[r] = "writing"
              /\ \A u \in Admins : u.id # body[r].actor]_vars

=============================================================================
