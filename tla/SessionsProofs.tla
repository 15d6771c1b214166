---------------------------- MODULE SessionsProofs ---------------------------
(***************************************************************************)
(* Proofs about Sessions, for any users, browsers, requests and lifetimes: *)
(* a session that has ended with nothing under way stays ended until a     *)
(* login.                                                                  *)
(***************************************************************************)
EXTENDS Sessions, TLAPS

\* A request that signs or stores a session knows whose.
IssuersKnowWhose ==
    \A r \in Requests :
        /\ pc[r] \in {"found", "writing"} => r \in Issuers
        /\ pc[r] = "found" /\ r \notin LoginReqs => presented[r] \in Token
        /\ pc[r] = "writing" => minted[r] \in Token

IInv == TypeOK /\ IssuersKnowWhose

-----------------------------------------------------------------------------
LEMMA StageNames == Stages = {"idle", "sent", "found", "writing", "revoking", "done"}
  BY DEF Stages

\* Time changes only the age of a token.
LEMMA Ageing ==
    /\ \A t \in Token : Aged(t) \in Token \cup {None}
    /\ \A t \in Token : t # None => Aged(t) \in Token /\ Aged(t).user = t.user
    /\ Aged(None) = None
    /\ \A t \in Token \cup {None} : Kept(t) \in Token \cup {None}
<1>1. ASSUME NEW t \in Token
      PROVE  [t EXCEPT !.age = Older(@)] \in Token /\ [t EXCEPT !.age = Older(@)].user = t.user
  <2>1. Older(t.age) \in Ages
    BY LivesOrdered DEF Older, Ages, Token
  <2>2. [t EXCEPT !.age = Older(@)] = [t EXCEPT !.age = Older(t.age)]
    OBVIOUS
  <2> QED
    BY <2>1, <2>2 DEF Token
<1> QED
  BY <1>1 DEF Aged, Kept

\* A request that ends forgets its locals.
LEMMA Ending ==
    ASSUME IInv, NEW r \in Requests, Finish(r)
    PROVE  /\ pc' \in [Requests -> Stages] /\ browser' \in [Requests -> Browsers]
           /\ presented' \in [Requests -> Token \cup {None}]
           /\ found' \in [Requests -> Roles]
           /\ minted' \in [Requests -> Token \cup {None}]
           /\ pc'[r] = "idle"
           /\ \A q \in Requests \ {r} :
                  pc'[q] = pc[q] /\ presented'[q] = presented[q] /\ minted'[q] = minted[q]
                  /\ browser'[q] = browser[q]
<1>1. AnyBrowser \in Browsers
  BY SomeBrowser DEF AnyBrowser
<1> QED
  BY <1>1 DEF Finish, Goto, IInv, TypeOK, Stages, Roles

\* How a request that does not end moves.
LEMMA ProceedSteps ==
    ASSUME IInv, NEW r \in Requests, Proceed(r), ~Finish(r)
    PROVE  /\ \A q \in Requests \ {r} :
                  pc'[q] = pc[q] /\ presented'[q] = presented[q] /\ minted'[q] = minted[q]
                  /\ browser'[q] = browser[q]
           /\ \/ ReadRow(r) /\ pc'[r] = "found" /\ UNCHANGED <<browser, presented, minted>>
              \/ SignTokens(r) /\ pc'[r] = "writing"
              \/ pc'[r] \in {"done", "revoking"}
  BY DEF Proceed, ReadRow, SignTokens, StoreRefreshToken, DeliverSession, FindSession, Revoke,
         DeliverLogout, LoseResponse, Goto, IInv, TypeOK

LEMMA AccountIsUser ==
    ASSUME IInv, NEW r \in Requests, pc[r] = "found"
    PROVE  Account(r) \in Users
  BY DEF IInv, TypeOK, IssuersKnowWhose, Account, Token

LEMMA TypeInv ==
    ASSUME IInv, [Next]_vars
    PROVE  TypeOK'
<1> USE DEF IInv
<1>1. CASE UNCHANGED vars
  BY <1>1 DEF vars, TypeOK
<1>2. ASSUME NEW r \in Requests, NEW b \in Browsers, Send(r, b)
      PROVE  TypeOK'
  BY <1>2, StageNames DEF Send, Goto, TypeOK, tables
<1>3. ASSUME NEW u \in Users, DeleteAccount(u)
      PROVE  TypeOK'
  BY <1>3 DEF DeleteAccount, TypeOK
<1>4. ASSUME NEW u \in Users, NEW q \in Roles, ChangeRole(u, q)
      PROVE  TypeOK'
  BY <1>4 DEF ChangeRole, TypeOK
<1>5. CASE Tick
  <2>1. /\ refresh' \in [Users -> Token \cup {None}]
        /\ presented' \in [Requests -> Token \cup {None}]
        /\ minted' \in [Requests -> Token \cup {None}]
    BY <1>5, Ageing DEF Tick, TypeOK
  <2>2. jar' \in [Browsers -> Token \cup {None}]
    BY <1>5, Ageing DEF Tick, TypeOK
  <2> QED
    BY <1>5, <2>1, <2>2 DEF Tick, TypeOK
<1>6. ASSUME NEW r \in Requests, Proceed(r)
      PROVE  TypeOK'
  <2>1. CASE ReadRow(r)
    <3>1. CASE Finish(r)
      BY <2>1, <3>1, Ending DEF ReadRow, TypeOK, tables
    <3>2. CASE ~Finish(r)
      <4>1. /\ Goto(r, "found") /\ UNCHANGED <<tables, jar, owner, browser, presented, minted>>
            /\ found' = [found EXCEPT ![r] = role[Account(r)]]
            /\ Account(r) \in accounts
        BY <2>1, <3>2 DEF ReadRow, OnRecord, Account
      <4> QED
        BY <4>1, StageNames DEF Goto, TypeOK, tables
    <3> QED
      BY <3>1, <3>2
  <2>2. CASE SignTokens(r)
    <3>1. [user |-> Account(r), role |-> found[r], age |-> 0] \in Token
      BY <2>2, AccountIsUser, LivesOrdered DEF SignTokens, TypeOK, Token, Ages
    <3> QED
      BY <2>2, <3>1, StageNames DEF SignTokens, Goto, TypeOK, tables, Roles
  <2>3. CASE StoreRefreshToken(r)
    BY <2>3, StageNames DEF StoreRefreshToken, Goto, TypeOK
  <2>4. CASE DeliverSession(r) \/ DeliverLogout(r)
    <3>1. Finish(r) /\ UNCHANGED <<tables, owner>> /\ jar' \in [Browsers -> Token \cup {None}]
      BY <2>4 DEF DeliverSession, DeliverLogout, TypeOK
    <3> QED
      BY <3>1, Ending DEF TypeOK, tables
  <2>5. CASE FindSession(r)
    BY <2>5, StageNames DEF FindSession, Goto, TypeOK, tables
  <2>6. CASE Revoke(r)
    BY <2>6, StageNames DEF Revoke, Goto, TypeOK
  <2>7. CASE LoseResponse(r)
    BY <2>7, Ending DEF LoseResponse, TypeOK, tables
  <2> QED
    BY <1>6, <2>1, <2>2, <2>3, <2>4, <2>5, <2>6, <2>7 DEF Proceed
<1> QED
  BY <1>1, <1>2, <1>3, <1>4, <1>5, <1>6 DEF Next

LEMMA IssuersInv ==
    ASSUME IInv, [Next]_vars
    PROVE  IssuersKnowWhose'
<1> USE DEF IInv
<1>1. CASE UNCHANGED vars
  BY <1>1 DEF vars, IssuersKnowWhose
<1>2. ASSUME NEW r \in Requests, NEW b \in Browsers, Send(r, b)
      PROVE  IssuersKnowWhose'
  BY <1>2 DEF Send, Goto, TypeOK, IssuersKnowWhose
<1>3. ASSUME NEW u \in Users, DeleteAccount(u) \/ \E q \in Roles : ChangeRole(u, q)
      PROVE  IssuersKnowWhose'
  BY <1>3 DEF DeleteAccount, ChangeRole, IssuersKnowWhose
<1>4. CASE Tick
  <2>1. /\ pc' = pc
        /\ \A r \in Requests : presented'[r] = Aged(presented[r]) /\ minted'[r] = Aged(minted[r])
    BY <1>4 DEF Tick
  <2>2. \A t \in Token : Aged(t) \in Token
    BY Ageing DEF Aged
  <2> QED
    BY <2>1, <2>2 DEF IssuersKnowWhose
<1>5. ASSUME NEW r \in Requests, Proceed(r)
      PROVE  IssuersKnowWhose'
  <2>1. CASE Finish(r)
    BY <2>1, Ending DEF IssuersKnowWhose
  <2>2. CASE ~Finish(r)
    <3>1. \A q \in Requests \ {r} :
              pc'[q] = pc[q] /\ presented'[q] = presented[q] /\ minted'[q] = minted[q]
      BY <1>5, <2>2, ProceedSteps
    <3>2. CASE ReadRow(r) /\ pc'[r] = "found" /\ UNCHANGED <<browser, presented, minted>>
      <4>1. r \in Issuers /\ (r \notin LoginReqs => presented[r] \in Token)
        BY <2>2, <3>2 DEF ReadRow, RefreshValid, TypeOK
      <4> QED
        BY <3>1, <3>2, <4>1 DEF IssuersKnowWhose
    <3>3. CASE SignTokens(r) /\ pc'[r] = "writing"
      <4>1. minted'[r] \in Token /\ r \in Issuers
        BY <3>3, AccountIsUser, LivesOrdered
           DEF SignTokens, TypeOK, Token, Ages, IssuersKnowWhose
      <4> QED
        BY <3>1, <3>3, <4>1 DEF IssuersKnowWhose
    <3>4. CASE pc'[r] \in {"done", "revoking"}
      BY <3>1, <3>4 DEF IssuersKnowWhose
    <3> QED
      BY <1>5, <2>2, <3>2, <3>3, <3>4, ProceedSteps
  <2> QED
    BY <2>1, <2>2
<1> QED
  BY <1>1, <1>2, <1>3, <1>4, <1>5 DEF Next

LEMMA Initially ==
    ASSUME Init
    PROVE  IInv
<1>1. AnyBrowser \in Browsers
  BY SomeBrowser DEF AnyBrowser
<1> QED
  BY <1>1 DEF Init, IInv, TypeOK, IssuersKnowWhose, Stages, Roles

LEMMA Invariance == Spec => []IInv
<1>1. IInv /\ [Next]_vars => IInv'
  BY TypeInv, IssuersInv DEF IInv
<1> QED
  BY <1>1, Initially, PTL DEF Spec

-----------------------------------------------------------------------------
\* The columns, the cookies and the locals of every request keep to their
\* types: in particular what a refresh signs names an account.
THEOREM TypeCorrect == Spec => []TypeOK
<1>1. IInv => TypeOK
  BY DEF IInv
<1> QED
  BY <1>1, Invariance, PTL

\* Nothing starts a session of an account that has none on record and none
\* being issued, except a login of that account: no cookie that survives a
\* logout, however it is presented and whatever else goes on, can be refreshed.
THEOREM OnlyLoginStarts == Spec => EndedUntilLogin
<1> DEFINE OnlyLogin ==
        \A u \in Users :
            Ended(u) /\ ~Ended(u)' => \E r \in LoginReqs : pc[r] = "sent" /\ Account(r) = u
<1>1. ASSUME IInv, [Next]_vars, NEW u \in Users, Ended(u),
             ~\E r \in LoginReqs : pc[r] = "sent" /\ Account(r) = u
      PROVE  Ended(u)'
  <2> USE DEF IInv
  <2>1. /\ refresh[u] = None
        /\ \A r \in Issuers : /\ pc[r] = "found" => Account(r) # u
                              /\ pc[r] = "writing" => minted[r].user # u
        /\ Issuers \subseteq Requests
    BY <1>1 DEF Ended, Issuers, Requests
  \* It is enough that nothing is put on record, and that no request comes to
  \* the point of signing or storing a session of u.
  <2>2. ASSUME refresh'[u] = None,
               \A r \in Issuers :
                   /\ pc'[r] = "found" => Account(r)' # u
                   /\ pc'[r] = "writing" => minted'[r].user # u
        PROVE  Ended(u)'
    BY <2>2 DEF Ended
  <2>3. ASSUME refresh'[u] = None, NEW r \in Requests,
               \A q \in Requests \ {r} :
                   /\ pc'[q] = pc[q] /\ presented'[q] = presented[q]
                   /\ minted'[q] = minted[q] /\ browser'[q] = browser[q],
               owner' = owner,
               pc'[r] = "found" => Account(r)' # u,
               pc'[r] = "writing" => minted'[r].user # u
        PROVE  Ended(u)'
    <3>1. \A q \in Requests \ {r} : Account(q)' = Account(q)
      BY <2>3 DEF Account
    <3> QED
      BY <2>1, <2>2, <2>3, <3>1
  <2>4. CASE UNCHANGED vars
    BY <2>1, <2>2, <2>4 DEF vars, Account
  <2>5. ASSUME NEW r \in Requests, NEW b \in Browsers, Send(r, b)
        PROVE  Ended(u)'
    <3>1. /\ refresh' = refresh /\ owner' = owner /\ pc'[r] = "sent"
          /\ \A q \in Requests \ {r} :
                 /\ pc'[q] = pc[q] /\ presented'[q] = presented[q]
                 /\ minted'[q] = minted[q] /\ browser'[q] = browser[q]
      BY <1>1, <2>5 DEF Send, Goto, TypeOK, tables
    <3> QED
      BY <2>1, <2>3, <3>1
  <2>6. ASSUME NEW v \in Users, DeleteAccount(v) \/ \E q \in Roles : ChangeRole(v, q)
        PROVE  Ended(u)'
    <3>1. refresh'[u] = None /\ UNCHANGED <<owner, pc, browser, presented, minted>>
      BY <1>1, <2>1, <2>6 DEF DeleteAccount, ChangeRole, TypeOK
    <3> QED
      BY <2>1, <2>2, <3>1 DEF Account
  <2>7. CASE Tick
    <3>1. /\ refresh'[u] = Aged(refresh[u]) /\ UNCHANGED <<owner, pc, browser>>
          /\ \A r \in Requests : /\ presented'[r] = Aged(presented[r])
                                 /\ minted'[r] = Aged(minted[r])
      BY <2>7 DEF Tick
    <3>2. refresh'[u] = None
      BY <2>1, <3>1, Ageing
    <3>3. \A t \in Token : Aged(t).user = t.user
      BY Ageing DEF Aged
    <3>4. \A r \in Issuers : pc'[r] = "writing" => minted'[r].user # u
      BY <1>1, <2>1, <3>1, <3>3 DEF IssuersKnowWhose
    <3>5. \A r \in Issuers : pc'[r] = "found" => Account(r)' # u
      BY <1>1, <2>1, <3>1, <3>3 DEF IssuersKnowWhose, Account
    <3> QED
      BY <2>2, <3>2, <3>4, <3>5
  <2>8. ASSUME NEW r \in Requests, Proceed(r)
        PROVE  Ended(u)'
    <3>1. owner' = owner
      BY <2>8 DEF Proceed, ReadRow, SignTokens, StoreRefreshToken, DeliverSession,
         FindSession, Revoke, DeliverLogout, LoseResponse
    <3>2. refresh'[u] = None
      <4>1. CASE StoreRefreshToken(r)
        <5>1. pc[r] = "writing" /\ minted[r].user # u
          BY <1>1, <2>1, <4>1 DEF StoreRefreshToken, IssuersKnowWhose
        <5> QED
          BY <1>1, <2>1, <4>1, <5>1 DEF StoreRefreshToken, TypeOK
      <4>2. CASE Revoke(r)
        BY <1>1, <2>1, <4>2 DEF Revoke, TypeOK
      <4>3. CASE ~(StoreRefreshToken(r) \/ Revoke(r))
        BY <2>1, <2>8, <4>3 DEF Proceed, ReadRow, SignTokens, DeliverSession, FindSession,
           DeliverLogout, LoseResponse, tables
      <4> QED
        BY <4>1, <4>2, <4>3
    <3>3. CASE Finish(r)
      BY <1>1, <2>3, <3>1, <3>2, <3>3, Ending
    <3>4. CASE ~Finish(r)
      <4>1. \A q \in Requests \ {r} :
                /\ pc'[q] = pc[q] /\ presented'[q] = presented[q]
                /\ minted'[q] = minted[q] /\ browser'[q] = browser[q]
        BY <1>1, <2>8, <3>4, ProceedSteps
      <4>2. CASE ReadRow(r) /\ pc'[r] = "found" /\ UNCHANGED <<browser, presented, minted>>
        <5>1. Account(r)' = Account(r)
          BY <3>1, <4>2 DEF Account
        <5>2. Account(r) # u
          <6>1. CASE r \in LoginReqs
            BY <1>1, <4>2, <6>1 DEF ReadRow
          <6>2. CASE r \notin LoginReqs
            <7>1. OnRecord(presented[r])
              BY <3>4, <4>2, <6>2 DEF ReadRow
            <7> QED
              BY <2>1, <6>2, <7>1 DEF OnRecord, Account
          <6> QED
            BY <6>1, <6>2
        <5> QED
          BY <2>3, <3>1, <3>2, <4>1, <4>2, <5>1, <5>2
      <4>3. CASE SignTokens(r) /\ pc'[r] = "writing"
        <5>1. minted'[r].user = Account(r) /\ pc[r] = "found" /\ r \in Issuers
          BY <1>1, <4>3 DEF SignTokens, TypeOK, IssuersKnowWhose
        <5> QED
          BY <2>1, <2>3, <3>1, <3>2, <4>1, <4>3, <5>1
      <4>4. CASE pc'[r] \in {"done", "revoking"}
        BY <2>3, <3>1, <3>2, <4>1, <4>4
      <4> QED
        BY <1>1, <2>8, <3>4, <4>2, <4>3, <4>4, ProceedSteps
    <3> QED
      BY <3>3, <3>4
  <2> QED
    BY <1>1, <2>4, <2>5, <2>6, <2>7, <2>8 DEF Next
<1>2. IInv /\ [Next]_vars => [OnlyLogin]_vars
  BY <1>1
<1> QED
  BY <1>2, Invariance, PTL DEF Spec, EndedUntilLogin
=============================================================================
