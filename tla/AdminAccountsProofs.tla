------------------------- MODULE AdminAccountsProofs -------------------------
(***************************************************************************)
(* Proofs about AdminAccounts, for any requests and server processes: no   *)
(* two accounts share an e-mail or an id, and only an authority already    *)
(* taken away can take the last administrator.                             *)
(***************************************************************************)
EXTENDS AdminAccounts, TLAPS

\* Ids come from drawn, which only grows.
IdsDrawn == \A u \in users : u.id <= drawn

\* A request that is about to write knows what, and has passed the check that
\* nobody demotes or deletes themselves.
WritersChecked ==
    \A r \in Requests : pc[r] = "writing" =>
        /\ r \in RegisterReqs => body[r] \in [email : Email]
        /\ r \in RoleReqs =>
               /\ body[r] \in [actor : Ids, target : Ids, role : Roles]
               /\ body[r].actor = body[r].target => body[r].role = "admin"
        /\ r \in RemoveReqs =>
               /\ body[r] \in [actor : Ids, target : Ids]
               /\ body[r].actor # body[r].target

IInv ==
    /\ TypeOK
    /\ IdsDrawn
    /\ NoTwoAccountsShareAnEmail
    /\ WritersChecked

-----------------------------------------------------------------------------
LEMMA LowerIsEmail == \A e \in Email : ToLowerCase(e) \in Email
  BY DEF Email, ToLowerCase

\* A row with the next id goes in unless its e-mail is taken.
LEMMA Insertion ==
    ASSUME TypeOK, IdsDrawn, NoTwoAccountsShareAnEmail, drawn < MaxAccounts,
           NEW e \in Email, NEW q \in Roles, drawn' = drawn + 1,
           users' = InsertOrIgnore([id |-> drawn', email |-> e, role |-> q])
    PROVE  /\ users' \in SUBSET User /\ drawn' \in 0 .. MaxAccounts
           /\ IdsDrawn' /\ NoTwoAccountsShareAnEmail'
<1> DEFINE new == [id |-> drawn', email |-> e, role |-> q]
<1>1. /\ drawn \in Nat /\ drawn' \in Ids /\ drawn' \in 0 .. MaxAccounts
      /\ \A u \in users : u \in User /\ u.id \in Nat /\ u.id < drawn'
  BY BoundIsNat DEF TypeOK, IdsDrawn, Ids, User
<1>2. new \in User /\ new.id = drawn' /\ new.email = e
  BY <1>1 DEF User
<1>3. users' = users \/ (users' = users \cup {new} /\ \A v \in users : v.email # e)
  BY DEF InsertOrIgnore
<1> HIDE DEF new
<1>4. users' \in SUBSET User
  BY <1>1, <1>2, <1>3
<1>5. IdsDrawn'
  BY <1>1, <1>2, <1>3 DEF IdsDrawn
<1>6. \A u \in users : u.id # new.id
  BY <1>1, <1>2
<1>7. NoTwoAccountsShareAnEmail'
  BY <1>2, <1>3, <1>6 DEF NoTwoAccountsShareAnEmail
<1> QED
  BY <1>1, <1>4, <1>5, <1>7

\* Rows that lose their role or go away leave the others as they are.
LEMMA FewerOrSame ==
    ASSUME TypeOK, IdsDrawn, NoTwoAccountsShareAnEmail, NEW id, NEW q \in Roles, drawn' = drawn,
           \/ users' \subseteq users
           \/ users' = {IF u.id = id THEN [u EXCEPT !.role = q] ELSE u : u \in users}
    PROVE  users' \in SUBSET User /\ IdsDrawn' /\ NoTwoAccountsShareAnEmail'
<1>1. CASE users' \subseteq users
  BY <1>1 DEF TypeOK, IdsDrawn, NoTwoAccountsShareAnEmail
<1>2. CASE users' = {IF u.id = id THEN [u EXCEPT !.role = q] ELSE u : u \in users}
  <2> DEFINE After(u) == IF u.id = id THEN [u EXCEPT !.role = q] ELSE u
  <2>1. ASSUME NEW u \in users
        PROVE  After(u) \in User /\ After(u).id = u.id /\ After(u).email = u.email
    <3>1. u \in User
      BY DEF TypeOK
    <3>2. CASE u.id = id
      <4>1. After(u) = [u EXCEPT !.role = q]
        BY <3>2
      <4> HIDE DEF After
      <4> QED
        BY <3>1, <4>1 DEF User
    <3>3. CASE u.id # id
      BY <3>1, <3>3
    <3> QED
      BY <3>2, <3>3
  <2>2. users' = {After(u) : u \in users}
    BY <1>2
  <2> HIDE DEF After
  <2>3. users' \in SUBSET User /\ IdsDrawn'
    BY <2>1, <2>2 DEF IdsDrawn
  <2>4. ASSUME NEW u \in users, NEW v \in users, After(u) # After(v)
        PROVE  After(u).email # After(v).email /\ After(u).id # After(v).id
    <3>1. u # v
      BY <2>4
    <3> QED
      BY <2>1, <3>1 DEF NoTwoAccountsShareAnEmail
  <2> QED
    BY <2>2, <2>3, <2>4 DEF NoTwoAccountsShareAnEmail
<1> QED
  BY <1>1, <1>2

-----------------------------------------------------------------------------
LEMMA Inductive ==
    ASSUME IInv, [Next]_vars
    PROVE  IInv'
<1> USE DEF IInv
\* Nothing of a request changes.
<1>1. ASSUME pc' = pc, body' = body
      PROVE  /\ pc' \in [Requests -> Stages] /\ body' \in [Requests -> Bodies \cup {NoBody}]
             /\ WritersChecked'
  BY <1>1 DEF TypeOK, WritersChecked
\* The table does not change.
<1>2. ASSUME users' = users, drawn' = drawn
      PROVE  /\ users' \in SUBSET User /\ drawn' \in 0 .. MaxAccounts
             /\ IdsDrawn' /\ NoTwoAccountsShareAnEmail'
  BY <1>2 DEF TypeOK, IdsDrawn, NoTwoAccountsShareAnEmail
\* Request r moves.
<1>3. ASSUME NEW r \in Requests, NEW s \in Stages, Goto(r, s),
             \A q \in Requests \ {r} : body'[q] = body[q],
             body' \in [Requests -> Bodies \cup {NoBody}],
             s = "writing" =>
                 /\ r \in RegisterReqs => body'[r] \in [email : Email]
                 /\ r \in RoleReqs =>
                        /\ body'[r] \in [actor : Ids, target : Ids, role : Roles]
                        /\ body'[r].actor = body'[r].target => body'[r].role = "admin"
                 /\ r \in RemoveReqs =>
                        /\ body'[r] \in [actor : Ids, target : Ids]
                        /\ body'[r].actor # body'[r].target
      PROVE  pc' \in [Requests -> Stages] /\ WritersChecked'
  <2>1. /\ pc' = [pc EXCEPT ![r] = s] /\ pc \in [Requests -> Stages]
        /\ \A q \in Requests \ {r} : pc'[q] = pc[q]
    BY <1>3 DEF Goto, TypeOK
  <2>2. pc' \in [Requests -> Stages] /\ pc'[r] = s
    BY <2>1
  <2>3. ASSUME NEW q \in Requests \ {r}
        PROVE  pc'[q] = pc[q] /\ body'[q] = body[q]
    BY <1>3, <2>1
  <2> QED
    BY <1>3, <2>2, <2>3 DEF WritersChecked
<1>4. CASE UNCHANGED vars
  BY <1>1, <1>2, <1>4 DEF vars, TypeOK
<1>5. ASSUME NEW i \in Instances, Listen(i) \/ LookForAdmin(i) \/ Stop(i)
      PROVE  IInv'
  <2>1. /\ UNCHANGED <<users, drawn, tokens, pc, body>>
        /\ server' \in [Instances -> ServerStages]
    BY <1>5 DEF Listen, LookForAdmin, Stop, TypeOK, ServerStages
  <2> QED
    BY <1>1, <1>2, <2>1 DEF TypeOK
<1>6. ASSUME NEW i \in Instances, SeedAdmin(i)
      PROVE  IInv'
  <2>1. /\ UNCHANGED <<tokens, pc, body>>
        /\ server' \in [Instances -> ServerStages]
    BY <1>6 DEF SeedAdmin, TypeOK, ServerStages
  <2>2. /\ users' \in SUBSET User /\ drawn' \in 0 .. MaxAccounts
        /\ IdsDrawn' /\ NoTwoAccountsShareAnEmail'
    BY <1>6, Insertion, AdminEmailIsEmail DEF SeedAdmin, Roles
  <2> QED
    BY <1>1, <2>1, <2>2 DEF TypeOK
<1>7. ASSUME \/ \E u \in users : IssueToken(u)
             \/ \E t \in tokens : ExpireToken(t)
      PROVE  IInv'
  <2>1. /\ UNCHANGED <<users, drawn, server, pc, body>>
        /\ tokens' \in SUBSET AccessToken
    BY <1>7 DEF IssueToken, ExpireToken, TypeOK, User, AccessToken
  <2> QED
    BY <1>1, <1>2, <2>1 DEF TypeOK
<1>8. ASSUME NEW r \in Requests, NEW e \in Email, CheckEmail(r, e)
      PROVE  IInv'
  <2>1. PICK s \in {"rejected", "writing"} : Goto(r, s)
    BY <1>8 DEF CheckEmail
  <2>2. /\ UNCHANGED <<users, drawn, tokens, server>> /\ r \in RegisterReqs
        /\ body' = [body EXCEPT ![r] = [email |-> e]] /\ s \in Stages
    BY <1>8 DEF CheckEmail, Stages
  <2>3. /\ [email |-> e] \in Bodies \cup {NoBody} /\ [email |-> e] \in [email : Email]
        /\ r \notin RoleReqs /\ r \notin RemoveReqs
    BY <2>2, RequestsDisjoint DEF Bodies
  <2>4. /\ body' \in [Requests -> Bodies \cup {NoBody}] /\ body'[r] = [email |-> e]
        /\ \A q \in Requests \ {r} : body'[q] = body[q]
    BY <2>2, <2>3 DEF TypeOK
  <2> QED
    BY <1>2, <1>3, <2>1, <2>2, <2>3, <2>4 DEF TypeOK
<1>9. ASSUME NEW r \in Requests, CreateUser(r)
      PROVE  IInv'
  <2>1. PICK s \in {"failed", "acked"} : Goto(r, s)
    BY <1>9 DEF CreateUser
  <2>2. UNCHANGED <<tokens, server, body>> /\ s \in Stages /\ s # "writing"
    BY <1>9, <2>1 DEF CreateUser, Stages
  <2>3. body[r].email \in Email
    BY <1>9 DEF CreateUser, WritersChecked
  <2>4. /\ users' \in SUBSET User /\ drawn' \in 0 .. MaxAccounts
        /\ IdsDrawn' /\ NoTwoAccountsShareAnEmail'
    BY <1>9, <2>3, LowerIsEmail, Insertion DEF CreateUser, Roles
  <2> QED
    BY <1>3, <2>1, <2>2, <2>4 DEF TypeOK
<1>10. ASSUME NEW r \in Requests, ChangeRole(r) \/ RemoveUser(r)
       PROVE  IInv'
  <2>1. PICK s \in {"failed", "acked"} : Goto(r, s)
    BY <1>10 DEF ChangeRole, RemoveUser
  <2>2. UNCHANGED <<drawn, tokens, server, body>> /\ s \in Stages /\ s # "writing"
    BY <1>10, <2>1 DEF ChangeRole, RemoveUser, Stages
  <2>3. users' \in SUBSET User /\ IdsDrawn' /\ NoTwoAccountsShareAnEmail'
    <3>1. CASE ChangeRole(r)
      <4>1. body[r].role \in Roles
        BY <3>1 DEF ChangeRole, WritersChecked
      <4> QED
        BY <2>2, <3>1, <4>1, FewerOrSame DEF ChangeRole
    <3>2. CASE RemoveUser(r)
      <4>1. users' \subseteq users /\ "user" \in Roles
        BY <3>2 DEF RemoveUser, Roles
      <4> QED
        BY <2>2, <4>1, FewerOrSame
    <3> QED
      BY <1>10, <3>1, <3>2
  <2> QED
    BY <1>3, <2>1, <2>2, <2>3 DEF TypeOK
<1>11. ASSUME NEW r \in Requests, NEW t \in tokens, NEW id \in 1 .. drawn,
              CheckRemoval(r, t, id)
       PROVE  IInv'
  <2>1. PICK s \in {"rejected", "writing"} : Goto(r, s) /\ (s = "writing" => t.id # id)
    BY <1>11 DEF CheckRemoval
  <2> DEFINE asked == [actor |-> t.id, target |-> id]
  <2>2. /\ UNCHANGED <<users, drawn, tokens, server>> /\ r \in RemoveReqs
        /\ body' = [body EXCEPT ![r] = asked] /\ s \in Stages
    BY <1>11 DEF CheckRemoval, Stages
  <2>3. t.id \in Ids /\ id \in Ids
    BY BoundIsNat DEF TypeOK, AccessToken, Ids
  <2>4. /\ asked \in Bodies \cup {NoBody} /\ asked \in [actor : Ids, target : Ids]
        /\ asked.actor = t.id /\ asked.target = id
        /\ r \notin RoleReqs /\ r \notin RegisterReqs
    BY <2>2, <2>3, RequestsDisjoint DEF Bodies
  <2> HIDE DEF asked
  <2>5. /\ body' \in [Requests -> Bodies \cup {NoBody}] /\ body'[r] = asked
        /\ \A q \in Requests \ {r} : body'[q] = body[q]
    BY <2>2, <2>4 DEF TypeOK
  <2> QED
    BY <1>2, <1>3, <2>1, <2>2, <2>4, <2>5 DEF TypeOK
<1>12. ASSUME NEW r \in Requests, NEW t \in tokens, NEW id \in 1 .. drawn, NEW q \in Roles,
              CheckRoleChange(r, t, id, q)
       PROVE  IInv'
  <2>1. PICK s \in {"rejected", "writing"} :
            Goto(r, s) /\ (s = "writing" /\ t.id = id => q = "admin")
    BY <1>12 DEF CheckRoleChange
  <2> DEFINE asked == [actor |-> t.id, target |-> id, role |-> q]
  <2>2. /\ UNCHANGED <<users, drawn, tokens, server>> /\ r \in RoleReqs
        /\ body' = [body EXCEPT ![r] = asked] /\ s \in Stages
    BY <1>12 DEF CheckRoleChange, Stages
  <2>3. t.id \in Ids /\ id \in Ids
    BY BoundIsNat DEF TypeOK, AccessToken, Ids
  <2>4. /\ asked \in Bodies \cup {NoBody}
        /\ asked \in [actor : Ids, target : Ids, role : Roles]
        /\ asked.actor = t.id /\ asked.target = id /\ asked.role = q
        /\ r \notin RemoveReqs /\ r \notin RegisterReqs
    BY <2>2, <2>3, RequestsDisjoint DEF Bodies
  <2> HIDE DEF asked
  <2>5. /\ body' \in [Requests -> Bodies \cup {NoBody}] /\ body'[r] = asked
        /\ \A p \in Requests \ {r} : body'[p] = body[p]
    BY <2>2, <2>4 DEF TypeOK
  <2> QED
    BY <1>2, <1>3, <2>1, <2>2, <2>4, <2>5 DEF TypeOK
<1> QED
  BY <1>4, <1>5, <1>6, <1>7, <1>8, <1>9, <1>10, <1>11, <1>12 DEF Next

LEMMA Initially ==
    ASSUME Init
    PROVE  IInv
<1>1. TypeOK
  BY BoundIsNat DEF Init, TypeOK, Stages, ServerStages
<1> QED
  BY <1>1 DEF Init, IInv, IdsDrawn, NoTwoAccountsShareAnEmail, WritersChecked

LEMMA Invariance == Spec => []IInv
  BY Inductive, Initially, PTL DEF Spec

-----------------------------------------------------------------------------
\* Every account has a role that authorize knows, and every request carries
\* what its handler has validated.
THEOREM TypeCorrect == Spec => []TypeOK
<1>1. IInv => TypeOK
  BY DEF IInv
<1> QED
  BY <1>1, Invariance, PTL

\* However many requests to register race, with each other or with the
\* seeding of any number of server processes, an e-mail has one account.
THEOREM EmailsAreUnique == Spec => []NoTwoAccountsShareAnEmail
<1>1. IInv => NoTwoAccountsShareAnEmail
  BY DEF IInv
<1> QED
  BY <1>1, Invariance, PTL

\* The guards against self-demotion and self-deletion leave one way to lose
\* the last administrator: a request whose own account is one no longer.
THEOREM LastAdminNeedsStaleToken == Spec => LostAdminNeedsStaleToken
<1> DEFINE Stale ==
        Admins # {} /\ Admins' = {} =>
            \E r \in RoleReqs \cup RemoveReqs :
                /\ pc[r] = "writing"
                /\ \A u \in Admins : u.id # body[r].actor
<1>1. ASSUME IInv, [Next]_vars, Admins # {}, Admins' = {}
      PROVE  \E r \in RoleReqs \cup RemoveReqs :
                 /\ pc[r] = "writing"
                 /\ \A u \in Admins : u.id # body[r].actor
  <2>1. ~(users \subseteq users')
    BY <1>1 DEF Admins
  <2>2. PICK r \in Requests : ChangeRole(r) \/ RemoveUser(r)
    BY <1>1, <2>1 DEF Next, vars, Listen, LookForAdmin, SeedAdmin, Stop, IssueToken,
       ExpireToken, CheckEmail, CreateUser, CheckRemoval, CheckRoleChange, InsertOrIgnore
  <2>3. CASE ChangeRole(r)
    <3>1. /\ r \in RoleReqs /\ pc[r] = "writing"
          /\ users' = {IF u.id = body[r].target THEN [u EXCEPT !.role = body[r].role] ELSE u :
                          u \in users}
      BY <2>3 DEF ChangeRole
    <3>2. ASSUME NEW u \in Admins
          PROVE  u.id = body[r].target /\ body[r].role # "admin"
      <4>1. u \in users /\ u.role = "admin" /\ u \in User
        BY <1>1 DEF Admins, IInv, TypeOK
      <4>2. CASE u.id # body[r].target
        <5>1. u \in users'
          BY <3>1, <4>1, <4>2
        <5> QED
          BY <1>1, <4>1, <5>1 DEF Admins
      <4>3. CASE u.id = body[r].target /\ body[r].role = "admin"
        <5>1. [u EXCEPT !.role = "admin"] \in users' /\ [u EXCEPT !.role = "admin"].role = "admin"
          BY <3>1, <4>1, <4>3 DEF User
        <5> QED
          BY <1>1, <5>1 DEF Admins
      <4> QED
        BY <4>2, <4>3
    <3>3. body[r].actor = body[r].target => body[r].role = "admin"
      BY <1>1, <3>1 DEF IInv, WritersChecked, Requests
    <3> QED
      BY <3>1, <3>2, <3>3
  <2>4. CASE RemoveUser(r)
    <3>1. /\ r \in RemoveReqs /\ pc[r] = "writing"
          /\ users' = users \ ById(body[r].target)
      BY <2>4 DEF RemoveUser
    <3>2. \A u \in Admins : u.id = body[r].target
      BY <1>1, <3>1 DEF Admins, ById
    <3>3. body[r].actor # body[r].target
      BY <1>1, <3>1 DEF IInv, WritersChecked, Requests
    <3> QED
      BY <3>1, <3>2, <3>3
  <2> QED
    BY <2>2, <2>3, <2>4
<1>2. IInv /\ [Next]_vars => [Stale]_vars
  BY <1>1
<1> QED
  BY <1>2, Invariance, PTL DEF Spec, LostAdminNeedsStaleToken
=============================================================================
