------------------------------ MODULE Sessions ------------------------------
(***************************************************************************)
(* Sessions of backend/src/controllers/auth.controller.ts: login,          *)
(* refreshToken and logout over users.refresh_token, one step per await,   *)
(* and the cookies of the browsers they answer.                            *)
(*                                                                         *)
(* issueSession signs an access and a refresh token with the same payload  *)
(* in the same turn and sets both cookies together, so one record stands   *)
(* for the pair.  A JWT is its payload and its iat in whole seconds: two   *)
(* signed for the same payload within one second are the same string.  A   *)
(* second is a Tick; iat is kept as the token's age, which stops counting  *)
(* at RefreshLife, when both tokens have expired.                          *)
(***************************************************************************)
EXTENDS Naturals

CONSTANTS
    Users, Browsers,
    LoginReqs, RefreshReqs, LogoutReqs, \* how many of each run at once
    AccessLife, RefreshLife,            \* 15 minutes and 7 days in the code
    None

Requests == LoginReqs \cup RefreshReqs \cup LogoutReqs
Issuers == LoginReqs \cup RefreshReqs

ASSUME LivesOrdered ==
    /\ AccessLife \in Nat
    /\ RefreshLife \in Nat
    /\ AccessLife <= RefreshLife
ASSUME SomeBrowser == Browsers # {}

Roles == {"user", "admin"}
Ages == 0 .. RefreshLife
Token == [user : Users, role : Roles, age : Ages]

VARIABLES
    accounts,  \* accounts with a row in users
    role,      \* column role
    refresh,   \* column refresh_token
    jar,       \* the session cookies of each browser
    owner,     \* the account whose credentials each browser's user knows
    pc,        \* where each request stands
    browser,   \* the browser each request came from
    presented, \* the refresh cookie it carried
    found,     \* the role in the row it read
    minted     \* the session it has signed

tables == <<accounts, role, refresh>>
vars == <<accounts, role, refresh, jar, owner, pc, browser, presented, found, minted>>

Stages == {"idle", "sent", "found", "writing", "revoking", "done"}

TypeOK ==
    /\ accounts \in SUBSET Users
    /\ role \in [Users -> Roles]
    /\ refresh \in [Users -> Token \cup {None}]
    /\ jar \in [Browsers -> Token \cup {None}]
    /\ owner \in [Browsers -> Users]
    /\ pc \in [Requests -> Stages]
    /\ browser \in [Requests -> Browsers]
    /\ presented \in [Requests -> Token \cup {None}]
    /\ found \in [Requests -> Roles]
    /\ minted \in [Requests -> Token \cup {None}]

AnyBrowser == CHOOSE b \in Browsers : TRUE

Init ==
    /\ accounts = Users
    /\ role \in [Users -> Roles]
    /\ refresh = [u \in Users |-> None]
    /\ jar = [b \in Browsers |-> None]
    /\ owner \in [Browsers -> Users]
    /\ pc = [r \in Requests |-> "idle"]
    /\ browser = [r \in Requests |-> AnyBrowser]
    /\ presented = [r \in Requests |-> None]
    /\ found = [r \in Requests |-> "user"]
    /\ minted = [r \in Requests |-> None]

-----------------------------------------------------------------------------
Goto(r, stage) == pc' = [pc EXCEPT ![r] = stage]

AccessValid(t) == t # None /\ t.age < AccessLife
RefreshValid(t) == t # None /\ t.age < RefreshLife

\* A finished request frees its slot for another one and forgets its locals.
Finish(r) ==
    /\ Goto(r, "idle")
    /\ browser' = [browser EXCEPT ![r] = AnyBrowser]
    /\ presented' = [presented EXCEPT ![r] = None]
    /\ found' = [found EXCEPT ![r] = "user"]
    /\ minted' = [minted EXCEPT ![r] = None]

\* A browser sends a request with the refresh cookie it holds, if any; login
\* has no use for it.
Send(r, b) ==
    /\ pc[r] = "idle"
    /\ Goto(r, "sent")
    /\ browser' = [browser EXCEPT ![r] = b]
    /\ presented' = [presented EXCEPT ![r] =
                        IF r \in LoginReqs THEN None ELSE jar[b]]
    /\ UNCHANGED <<tables, jar, owner, found, minted>>

\* The account of a request: by email at login, else by the token.
Account(r) == IF r \in LoginReqs THEN owner[browser[r]] ELSE presented[r].user

\* getUserByRefreshToken finds the row this token is on record for.
OnRecord(t) == t # None /\ t.user \in accounts /\ refresh[t.user] = t

-----------------------------------------------------------------------------
(* login and refreshToken *)

\* A refresh that trusts the payload of the old token for the role.
ReadRowTrustingToken(r) ==
    /\ pc[r] = "sent"
    /\ r \in Issuers
    /\ IF IF r \in LoginReqs THEN Account(r) \in accounts
                             ELSE RefreshValid(presented[r]) /\ OnRecord(presented[r])
       THEN /\ Goto(r, "found")
            /\ found' = [found EXCEPT ![r] = IF r \in LoginReqs
                                             THEN role[Account(r)] ELSE presented[r].role]
            /\ UNCHANGED <<browser, presented, minted>>
       ELSE Finish(r)
    /\ UNCHANGED <<tables, jar, owner>>

\* A refresh that checks the signature only, not that the token is on record.
ReadRowUnrecorded(r) ==
    /\ pc[r] = "sent"
    /\ r \in Issuers
    /\ IF IF r \in LoginReqs THEN Account(r) \in accounts ELSE RefreshValid(presented[r])
       THEN /\ Goto(r, "found")
            /\ found' = [found EXCEPT ![r] = role[Account(r)]]
            /\ UNCHANGED <<browser, presented, minted>>
       ELSE Finish(r)
    /\ UNCHANGED <<tables, jar, owner>>

\* getUserByEmail, or jwt.verify and getUserByRefreshToken.  The role that
\* will be signed is the one in this row.  Unknown or superseded: 401 or 403.
ReadRow(r) ==
    /\ pc[r] = "sent"
    /\ r \in Issuers
    /\ IF IF r \in LoginReqs
          THEN Account(r) \in accounts
          ELSE RefreshValid(presented[r]) /\ OnRecord(presented[r])
       THEN /\ Goto(r, "found")
            /\ found' = [found EXCEPT ![r] = role[Account(r)]]
            /\ UNCHANGED <<browser, presented, minted>>
       ELSE Finish(r)
    /\ UNCHANGED <<tables, jar, owner>>

\* After bcrypt.compare (login): both tokens are signed, and the UPDATE sent.
\* What the request read before has served its purpose.
SignTokens(r) ==
    /\ pc[r] = "found"
    /\ minted' = [minted EXCEPT ![r] =
                    [user |-> Account(r), role |-> found[r], age |-> 0]]
    /\ presented' = [presented EXCEPT ![r] = None]
    /\ found' = [found EXCEPT ![r] = "user"]
    /\ Goto(r, "writing")
    /\ UNCHANGED <<tables, jar, owner, browser>>

\* updateRefreshToken: the last writer wins; a deleted account has no row.
StoreRefreshToken(r) ==
    /\ pc[r] = "writing"
    /\ refresh' = IF minted[r].user \in accounts
                  THEN [refresh EXCEPT ![minted[r].user] = minted[r]]
                  ELSE refresh
    /\ Goto(r, "done")
    /\ UNCHANGED <<accounts, role, jar, owner, browser, presented, found, minted>>

\* The response sets both cookies.
DeliverSession(r) ==
    /\ r \in Issuers
    /\ pc[r] = "done"
    /\ jar' = [jar EXCEPT ![browser[r]] = minted[r]]
    /\ Finish(r)
    /\ UNCHANGED <<tables, owner>>

-----------------------------------------------------------------------------
(* logout *)

FindSession(r) ==
    /\ r \in LogoutReqs
    /\ pc[r] = "sent"
    /\ Goto(r, IF OnRecord(presented[r]) THEN "revoking" ELSE "done")
    /\ UNCHANGED <<tables, jar, owner, browser, presented, found, minted>>

\* updateRefreshToken(user.id, null): whatever is on record by now.
Revoke(r) ==
    /\ pc[r] = "revoking"
    /\ refresh' = [refresh EXCEPT ![presented[r].user] = None]
    /\ Goto(r, "done")
    /\ UNCHANGED <<accounts, role, jar, owner, browser, presented, found, minted>>

\* The response clears both cookies.
DeliverLogout(r) ==
    /\ r \in LogoutReqs
    /\ pc[r] = "done"
    /\ jar' = [jar EXCEPT ![browser[r]] = None]
    /\ Finish(r)
    /\ UNCHANGED <<tables, owner>>

-----------------------------------------------------------------------------
(* The environment *)

\* The response never reaches the browser.
LoseResponse(r) ==
    /\ pc[r] = "done"
    /\ Finish(r)
    /\ UNCHANGED <<tables, jar, owner>>

\* Administrators change roles and delete accounts (admin.controller.ts).
ChangeRole(u, q) ==
    /\ u \in accounts
    /\ role' = [role EXCEPT ![u] = q]
    /\ UNCHANGED <<accounts, refresh, jar, owner, pc, browser, presented, found,
                   minted>>

DeleteAccount(u) ==
    /\ u \in accounts
    /\ accounts' = accounts \ {u}
    /\ refresh' = [refresh EXCEPT ![u] = None]
    /\ UNCHANGED <<role, jar, owner, pc, browser, presented, found, minted>>

Older(age) == IF age = RefreshLife THEN age ELSE age + 1
Aged(t) == IF t = None THEN None ELSE [t EXCEPT !.age = Older(@)]
\* The browser drops a cookie at its maxAge, the lifetime of its token.
Kept(t) == IF RefreshValid(t) THEN t ELSE None

Holds(u, q) == u \in accounts /\ role[u] = q

\* A second passes.
Tick ==
    /\ refresh' = [u \in Users |-> Aged(refresh[u])]
    /\ jar' = [b \in Browsers |-> Kept(Aged(jar[b]))]
    /\ presented' = [r \in Requests |-> Aged(presented[r])]
    /\ minted' = [r \in Requests |-> Aged(minted[r])]
    /\ UNCHANGED <<accounts, role, owner, pc, browser, found>>

Proceed(r) ==
    \/ ReadRow(r) \/ SignTokens(r) \/ StoreRefreshToken(r) \/ DeliverSession(r)
    \/ FindSession(r) \/ Revoke(r) \/ DeliverLogout(r)
    \/ LoseResponse(r)

Next ==
    \/ \E r \in Requests : Proceed(r) \/ \E b \in Browsers : Send(r, b)
    \/ \E u \in Users : DeleteAccount(u) \/ \E q \in Roles : ChangeRole(u, q)
    \/ Tick

\* Time passes, and the event loop finishes what it has started.
Fairness == WF_vars(Tick) /\ \A r \in Requests : WF_vars(Proceed(r))

Spec == Init /\ [][Next]_vars /\ Fairness
-----------------------------------------------------------------------------
\* No session of u is on record, and no request is about to store one.
Ended(u) ==
    /\ refresh[u] = None
    /\ \A r \in Issuers :
           /\ pc[r] = "found" => Account(r) # u
           /\ pc[r] = "writing" => minted[r].user # u

\* What logout does guarantee: once a session has ended with nothing under
\* way, only a login starts another, whatever cookies survive.
EndedUntilLogin ==
    [][\A u \in Users :
          Ended(u) /\ ~Ended(u)' =>
              \E r \in LoginReqs : pc[r] = "sent" /\ Account(r) = u]_vars

\* authenticateJWT trusts the role in the access token and never reads the
\* row, yet authority taken from an account ends: however often its browsers
\* refresh, from some point on none of them holds a valid access token with a
\* role the account no longer has.
StaleAuthorityEnds ==
    \A u \in Users, q \in Roles :
        <>[](~Holds(u, q)) =>
            <>[](\A b \in Browsers :
                    AccessValid(jar[b]) => jar[b].user # u \/ jar[b].role # q)

-----------------------------------------------------------------------------
\* auth.controller.ts:151-153, logout "revokes the refresh token server-side
\* ... so it can no longer be used": where no session is on record only a
\* login puts one.  Violated: a refresh that read the row before logout nulled
\* it stores, and delivers, the session it has signed meanwhile.
LogoutRevokes ==
    [][\A u \in Users :
          refresh[u] = None /\ refresh'[u] # None =>
              \E r \in LoginReqs : pc[r] = "writing" /\ Account(r) = u]_vars
=============================================================================
