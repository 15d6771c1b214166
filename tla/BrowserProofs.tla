---------------------------- MODULE BrowserProofs ----------------------------
(***************************************************************************)
(* Proofs, for any constants, about the browser: BrowserSession (one tab's *)
(* calls, their shared refresh and the bell) and AdminDashboard (the       *)
(* administrator's panels and the answers that fill them).  They share no  *)
(* state; each has an inductive invariant of its own.                      *)
(***************************************************************************)
EXTENDS BrowserSession, AdminDashboard, FiniteSetTheorems, SequenceTheorems, TLAPS

(* BrowserSession.  The inductive invariant: calls are typed, refreshes are  *)
(* single, and as long as nothing has disturbed the session the token the    *)
(* next refresh will present is the one on record.                           *)

\* One refresh at a time: the one whose promise is shared.
SingleFlight ==
    /\ \A r \in RefreshCalls : call[r] # Idle <=> refreshPromise = r
    /\ \A r \in RefreshCalls : call[r] # Idle => call[r].kind = "refresh" /\ call[r].stage # "waiting"
    /\ \A c \in Calls : call[c].kind = "refresh" => c \in RefreshCalls

\* An answer with a new token is on its way.
Renewing(c) ==
    call[c].kind \in {"refresh", "login"} /\ call[c].stage = "served" /\ call[c].status = 200

\* The current refresh token is in the jar, or in the one answer that will put
\* it there.
TokenInHand ==
    /\ \A c \in Calls : Renewing(c) => call[c].token = record /\ record # None
    /\ (\A c \in Calls : ~Renewing(c)) => jar = record /\ record # None

\* The refresh under way presents the current token, or has been granted.
RefreshGoesWell ==
    \A r \in RefreshCalls : call[r] # Idle =>
        \/ call[r].stage = "sent" /\ call[r].status = 0 /\ call[r].token = record
        \/ call[r].stage = "served" /\ call[r].status = 200

\* What may be under way while the profile is loading, when logged out, and when
\* logged in: in particular a login never runs beside a refresh.
Phases ==
    /\ user = "loading" =>
           \E p \in Calls :
               /\ call[p].kind = "profile"
               /\ \A c \in Calls \ {p} :
                      call[c] # Idle => call[c].kind = "refresh" /\ call[p].stage = "waiting"
    /\ user = "out" =>
           /\ \A c \in Calls : call[c].kind \in {"idle", "login"}
           /\ \A c, d \in Calls : call[c] # Idle /\ call[d] # Idle => c = d
    /\ user = "in" => \A c \in Calls : call[c].kind \in BellKinds \cup {"refresh", "idle"}

Undisturbed == TokenInHand /\ RefreshGoesWell /\ Phases

BrowserInv ==
    /\ TypeOK
    /\ SingleFlight
    /\ undisturbed => Undisturbed

-----------------------------------------------------------------------------
CallTypeOK == call \in [Calls -> Call \cup {Idle}]

LEMMA Shapes ==
    /\ Idle \notin Call /\ Idle.kind = "idle"
    /\ \A q \in Call : q.kind \in Kinds /\ q.kind # "idle" /\ q # Idle
    /\ \A q \in Call \cup {Idle} : q # Idle => q \in Call
    /\ \A q \in Call \cup {Idle} : q.kind # "idle" => q \in Call
<1>1. Idle.kind = "idle"
  BY DEF Idle
<1>2. "idle" \notin Kinds
  BY DEF Kinds, BellKinds
<1>3. \A q \in Call : q.kind \in Kinds
  BY DEF Call
<1> QED
  BY <1>1, <1>2, <1>3

LEMMA Typing ==
    \A q \in Call :
        /\ q.kind \in Kinds /\ q.stage \in {"sent", "served", "waiting"}
        /\ q.retried \in BOOLEAN /\ q.on \in RefreshCalls \cup {None}
        /\ q.note \in Notes \cup {None} /\ q.access \in Access
        /\ q.token \in Tokens \cup {None} /\ q.status \in {0, 200, 401, 403}
        /\ q.unread \subseteq Notes
  BY DEF Call

LEMMA SentCall ==
    ASSUME TypeOK, NEW kind \in Kinds, NEW note \in Notes \cup {None}, NEW retried \in BOOLEAN
    PROVE  /\ Sent(kind, note, retried) \in Call
           /\ Sent(kind, note, retried).kind = kind
           /\ Sent(kind, note, retried).stage = "sent"
           /\ Sent(kind, note, retried).status = 0
           /\ Sent(kind, note, retried).token = jar
  BY DEF Sent, Call, TypeOK

\* Each field of a call can be set by itself.
LEMMA SetStage ==
    ASSUME NEW q \in Call, NEW v \in {"sent", "served", "waiting"}
    PROVE  /\ [q EXCEPT !.stage = v] \in Call
           /\ [q EXCEPT !.stage = v].stage = v
           /\ [q EXCEPT !.stage = v].kind = q.kind
           /\ [q EXCEPT !.stage = v].status = q.status
           /\ [q EXCEPT !.stage = v].token = q.token
  BY DEF Call

LEMMA SetRetried ==
    ASSUME NEW q \in Call, NEW v \in BOOLEAN
    PROVE  /\ [q EXCEPT !.retried = v] \in Call
           /\ [q EXCEPT !.retried = v].retried = v
           /\ [q EXCEPT !.retried = v].kind = q.kind
           /\ [q EXCEPT !.retried = v].stage = q.stage
           /\ [q EXCEPT !.retried = v].status = q.status
           /\ [q EXCEPT !.retried = v].token = q.token
  BY DEF Call

LEMMA SetOn ==
    ASSUME NEW q \in Call, NEW v \in RefreshCalls \cup {None}
    PROVE  /\ [q EXCEPT !.on = v] \in Call
           /\ [q EXCEPT !.on = v].on = v
           /\ [q EXCEPT !.on = v].kind = q.kind
           /\ [q EXCEPT !.on = v].stage = q.stage
           /\ [q EXCEPT !.on = v].status = q.status
           /\ [q EXCEPT !.on = v].token = q.token
  BY DEF Call

LEMMA SetNote ==
    ASSUME NEW q \in Call, NEW v \in Notes \cup {None}
    PROVE  /\ [q EXCEPT !.note = v] \in Call
           /\ [q EXCEPT !.note = v].note = v
           /\ [q EXCEPT !.note = v].kind = q.kind
           /\ [q EXCEPT !.note = v].stage = q.stage
           /\ [q EXCEPT !.note = v].status = q.status
           /\ [q EXCEPT !.note = v].token = q.token
  BY DEF Call

LEMMA SetAccess ==
    ASSUME NEW q \in Call, NEW v \in Access
    PROVE  /\ [q EXCEPT !.access = v] \in Call
           /\ [q EXCEPT !.access = v].access = v
           /\ [q EXCEPT !.access = v].kind = q.kind
           /\ [q EXCEPT !.access = v].stage = q.stage
           /\ [q EXCEPT !.access = v].status = q.status
           /\ [q EXCEPT !.access = v].token = q.token
  BY DEF Call

LEMMA SetToken ==
    ASSUME NEW q \in Call, NEW v \in Tokens \cup {None}
    PROVE  /\ [q EXCEPT !.token = v] \in Call
           /\ [q EXCEPT !.token = v].token = v
           /\ [q EXCEPT !.token = v].kind = q.kind
           /\ [q EXCEPT !.token = v].stage = q.stage
           /\ [q EXCEPT !.token = v].status = q.status
  BY DEF Call

LEMMA SetUnread ==
    ASSUME NEW q \in Call, NEW v \in SUBSET Notes
    PROVE  /\ [q EXCEPT !.unread = v] \in Call
           /\ [q EXCEPT !.unread = v].unread = v
           /\ [q EXCEPT !.unread = v].kind = q.kind
           /\ [q EXCEPT !.unread = v].stage = q.stage
           /\ [q EXCEPT !.unread = v].status = q.status
           /\ [q EXCEPT !.unread = v].token = q.token
  BY DEF Call

LEMMA SetKind ==
    ASSUME NEW q \in Call, NEW v \in Kinds
    PROVE  /\ [q EXCEPT !.kind = v] \in Call
           /\ [q EXCEPT !.kind = v].kind = v
           /\ [q EXCEPT !.kind = v].stage = q.stage
           /\ [q EXCEPT !.kind = v].status = q.status
           /\ [q EXCEPT !.kind = v].token = q.token
  BY DEF Call

\* What an answer makes of a call.
LEMMA ServedCall ==
    ASSUME NEW q \in Call, NEW v \in {0, 200, 401, 403}
    PROVE  /\ Served(q, v) \in Call /\ Served(q, v).kind = q.kind
           /\ Served(q, v).stage = "served" /\ Served(q, v).status = v
           /\ Served(q, v).token = q.token
<1> DEFINE b == [q EXCEPT !.stage = "served"]
<1>1. b \in Call /\ b.kind = q.kind /\ b.stage = "served" /\ b.token = q.token
  BY SetStage
<1> HIDE DEF b
<1>2. LET a == [b EXCEPT !.status = v]
      IN  a \in Call /\ a.kind = q.kind /\ a.stage = "served" /\ a.status = v /\ a.token = q.token
  BY <1>1 DEF Call
<1>3. Served(q, v) = [b EXCEPT !.status = v]
  BY DEF Served, b
<1> QED
  BY <1>2, <1>3

LEMMA WaitingCall ==
    ASSUME NEW c \in Calls, call[c] \in Call, NEW r \in RefreshCalls
    PROVE  /\ Waiting(c, r) \in Call
           /\ Waiting(c, r).kind = call[c].kind /\ Waiting(c, r).stage = "waiting"
<1> DEFINE a1 == [call[c] EXCEPT !.stage = "waiting"]
           a2 == [a1 EXCEPT !.retried = TRUE]
           a3 == [a2 EXCEPT !.on = r]
           a4 == [a3 EXCEPT !.access = "none"]
           a5 == [a4 EXCEPT !.token = None]
           a6 == [a5 EXCEPT !.status = 0]
<1> HIDE DEF a1, a2, a3, a4, a5, a6
<1>1. a1 \in Call /\ a1.kind = call[c].kind /\ a1.stage = "waiting"
  BY SetStage DEF a1
<1>2. a2 \in Call /\ a2.kind = call[c].kind /\ a2.stage = "waiting"
  BY <1>1, SetRetried DEF a2
<1>3. a3 \in Call /\ a3.kind = call[c].kind /\ a3.stage = "waiting"
  BY <1>2, SetOn DEF a3
<1>4. a4 \in Call /\ a4.kind = call[c].kind /\ a4.stage = "waiting"
  BY <1>3, SetAccess DEF a4, Access
<1>5. a5 \in Call /\ a5.kind = call[c].kind /\ a5.stage = "waiting"
  BY <1>4, SetToken DEF a5
<1>6. a6 \in Call /\ a6.kind = call[c].kind /\ a6.stage = "waiting"
  BY <1>5 DEF a6, Call
<1>7. Waiting(c, r) = a6
  BY DEF Waiting, a1, a2, a3, a4, a5, a6
<1> QED
  BY <1>6, <1>7

LEMMA ResentCall ==
    ASSUME NEW q \in Call, NEW t \in Tokens \cup {None}
    PROVE  LET a == [q EXCEPT !.stage = "sent", !.on = None, !.access = "valid", !.token = t]
           IN  a \in Call /\ a.kind = q.kind /\ a.stage = "sent"
<1> DEFINE a1 == [q EXCEPT !.stage = "sent"]
           a2 == [a1 EXCEPT !.on = None]
           a3 == [a2 EXCEPT !.access = "valid"]
           a4 == [a3 EXCEPT !.token = t]
<1> HIDE DEF a1, a2, a3, a4
<1>1. a1 \in Call /\ a1.kind = q.kind /\ a1.stage = "sent"
  BY SetStage DEF a1
<1>2. a2 \in Call /\ a2.kind = q.kind /\ a2.stage = "sent"
  BY <1>1, SetOn DEF a2
<1>3. a3 \in Call /\ a3.kind = q.kind /\ a3.stage = "sent"
  BY <1>2, SetAccess DEF a3, Access
<1>4. a4 \in Call /\ a4.kind = q.kind /\ a4.stage = "sent"
  BY <1>3, SetToken DEF a4
<1> QED
  BY <1>4 DEF a1, a2, a3, a4

LEMMA OrphanCall ==
    ASSUME NEW q \in Call
    PROVE  LET a == [q EXCEPT !.kind = "orphan", !.note = None, !.unread = {}]
           IN  a \in Call /\ a.kind = "orphan" /\ a.stage = q.stage
<1> DEFINE a1 == [q EXCEPT !.kind = "orphan"]
           a2 == [a1 EXCEPT !.note = None]
           a3 == [a2 EXCEPT !.unread = {}]
<1> HIDE DEF a1, a2, a3
<1>1. a1 \in Call /\ a1.kind = "orphan" /\ a1.stage = q.stage
  BY SetKind DEF a1, Kinds
<1>2. a2 \in Call /\ a2.kind = "orphan" /\ a2.stage = q.stage
  BY <1>1, SetNote DEF a2
<1>3. a3 \in Call /\ a3.kind = "orphan" /\ a3.stage = q.stage
  BY <1>2, SetUnread DEF a3
<1> QED
  BY <1>3 DEF a1, a2, a3

LEMMA Fresh ==
    ASSUME TypeOK
    PROVE  /\ FreshToken \in Tokens /\ FreshToken # None
           /\ FreshToken # jar /\ FreshToken # record
           /\ \A c \in Calls : call[c] # Idle => call[c].token # FreshToken
<1> DEFINE Held == {IF call[c] # Idle THEN call[c].token ELSE None : c \in Calls}
           Of == [c \in Calls |-> IF call[c] # Idle THEN call[c].token ELSE None]
           More == Held \cup {jar}
           Used == More \cup {record}
<1>1. Of \in Surjection(Calls, Held)
  BY DEF Surjection
<1>2. IsFiniteSet(Held) /\ Cardinality(Held) <= Cardinality(Calls) /\ Cardinality(Calls) \in Nat
  <2> HIDE DEF Of, Held
  <2> QED
    BY <1>1, BrowserFinite, FS_Surjection, FS_CardinalityType
<1>3. IsFiniteSet(Used) /\ Cardinality(Used) <= Cardinality(Calls) + 2 /\ Cardinality(Used) \in Nat
  <2> HIDE DEF Held
  <2>0. Cardinality(Held) \in Nat
    BY <1>2, FS_CardinalityType
  <2>1. /\ IsFiniteSet(More) /\ Cardinality(More) <= Cardinality(Held) + 1
        /\ Cardinality(More) \in Nat
    BY <1>2, <2>0, FS_AddElement, FS_CardinalityType
  <2> HIDE DEF More
  <2>2. /\ IsFiniteSet(More \cup {record})
        /\ Cardinality(More \cup {record})
               = IF record \in More THEN Cardinality(More) ELSE Cardinality(More) + 1
    BY <2>1, FS_AddElement
  <2> QED
    BY <1>2, <2>0, <2>1, <2>2
<1>4. \E t \in Tokens : t \notin Used
  <2> HIDE DEF Used
  <2>1. SUFFICES ASSUME Tokens \subseteq Used
                 PROVE  FALSE
    OBVIOUS
  <2>2. IsFiniteSet(Tokens) /\ Cardinality(Tokens) <= Cardinality(Used)
    BY <1>3, <2>1, FS_Subset
  <2>3. Cardinality(Tokens) \in Nat
    BY <2>2, FS_CardinalityType
  <2> QED
    BY <1>2, <1>3, <2>2, <2>3, EnoughTokens
<1>5. \E t \in Tokens :
          /\ t # jar /\ t # record
          /\ \A c \in Calls : call[c] # Idle => call[c].token # t
  BY <1>4
<1> QED
  BY <1>5, NoneIsNone DEF FreshToken

LEMMA BadgeFits ==
    ASSUME NEW U \in SUBSET Notes
    PROVE  Cardinality(U) \in 0 .. Cardinality(Notes)
<1>1. IsFiniteSet(U) /\ Cardinality(U) <= Cardinality(Notes)
  BY BrowserFinite, FS_Subset
<1> QED
  BY <1>1, BrowserFinite, FS_CardinalityType

-----------------------------------------------------------------------------
\* One call changes.
LEMMA OneCall ==
    ASSUME CallTypeOK, NEW c \in Calls, NEW q \in Call \cup {Idle}, call' = [call EXCEPT ![c] = q]
    PROVE  /\ CallTypeOK'
           /\ call'[c] = q
           /\ \A d \in Calls \ {c} : call'[d] = call[d]
  BY DEF CallTypeOK

LEMMA OneCallKeepsFlight ==
    ASSUME SingleFlight, CallTypeOK, UNCHANGED refreshPromise,
           NEW c \in Calls, NEW q \in Call \cup {Idle}, call' = [call EXCEPT ![c] = q],
           c \notin RefreshCalls => q.kind # "refresh",
           c \in RefreshCalls => call[c] # Idle /\ q # Idle /\ q.kind = "refresh"
                                     /\ q.stage # "waiting"
    PROVE  SingleFlight'
  BY OneCall DEF SingleFlight, Calls

LEMMA Unpacked ==
    ASSUME TypeOK
    PROVE  /\ CallTypeOK
           /\ \A c \in Calls : call[c] \in Call \cup {Idle}
           /\ \A c \in Calls : call[c] # Idle => call[c] \in Call
           /\ \A c \in Calls : call[c].kind # "idle" => call[c] \in Call
           /\ jar \in Tokens \cup {None} /\ record \in Tokens \cup {None}
  BY Shapes DEF TypeOK, CallTypeOK

LEMMA BellSends ==
    ASSUME BrowserInv, NEW c \in PollCalls \cup UserCalls, NEW kind \in BellKinds,
           NEW note \in Notes \cup {None}, user = "in", Send(c, kind, note), loading' \in BOOLEAN,
           UNCHANGED <<auth, badge, list, server, bounds>>
    PROVE  BrowserInv'
<1> DEFINE q == Sent(kind, note, FALSE)
<1>1. c \in Calls /\ c \notin RefreshCalls /\ call[c] = Idle /\ call' = [call EXCEPT ![c] = q]
  BY RefreshesApart DEF Send, Calls
<1>2. q \in Call /\ q.kind = kind /\ q.stage = "sent" /\ kind \in Kinds
         /\ kind \notin {"refresh", "login", "profile", "idle"}
  BY SentCall DEF BrowserInv, Kinds, BellKinds
<1> HIDE DEF q
<1>3. CallTypeOK' /\ call'[c] = q /\ \A d \in Calls \ {c} : call'[d] = call[d]
  BY <1>1, <1>2, OneCall, Unpacked DEF BrowserInv
<1>4. SingleFlight'
  BY <1>1, <1>2, OneCallKeepsFlight, Unpacked DEF BrowserInv, auth
<1>5. TypeOK'
  BY <1>3 DEF BrowserInv, TypeOK, CallTypeOK, auth, bell, server, bounds
<1>6. ASSUME undisturbed'
      PROVE  Undisturbed'
  <2>1. Undisturbed /\ UNCHANGED <<jar, record, user>>
    BY <1>6 DEF BrowserInv, bounds, auth, server
  <2>2. ~Renewing(c)' /\ ~Renewing(c)
    BY <1>1, <1>2, <1>3, Shapes DEF Renewing
  <2>3. \A d \in Calls \ {c} : Renewing(d)' <=> Renewing(d)
    BY <1>3 DEF Renewing
  <2>4. TokenInHand'
    BY <1>3, <2>1, <2>2, <2>3 DEF Undisturbed, TokenInHand
  <2>5. RefreshGoesWell'
    BY <2>1, <1>1, <1>3 DEF Undisturbed, RefreshGoesWell, Calls
  <2>6. Phases'
    BY <2>1, <1>2, <1>3 DEF Undisturbed, Phases
  <2> QED
    BY <2>4, <2>5, <2>6 DEF Undisturbed
<1> QED
  BY <1>4, <1>5, <1>6 DEF BrowserInv

LEMMA LogoutKeeps ==
    ASSUME BrowserInv, NEW c \in UserCalls, Logout(c)
    PROVE  BrowserInv'
<1> DEFINE q == Sent("logout", None, FALSE)
<1>1. c \in Calls /\ c \notin RefreshCalls /\ call' = [call EXCEPT ![c] = q]
  BY RefreshesApart DEF Logout, Send, Calls
<1>2. q \in Call /\ q.kind = "logout"
  BY SentCall DEF BrowserInv, Kinds
<1> HIDE DEF q
<1>3. CallTypeOK'
  BY <1>1, <1>2, OneCall, Unpacked DEF BrowserInv
<1>4. SingleFlight'
  BY <1>1, <1>2, OneCallKeepsFlight, Unpacked DEF BrowserInv, auth, Logout
<1>5. TypeOK'
  BY <1>3 DEF BrowserInv, TypeOK, CallTypeOK, auth, bell, server, Logout
<1> QED
  BY <1>4, <1>5 DEF BrowserInv, Logout

LEMMA LogInKeeps ==
    ASSUME BrowserInv, NEW c \in UserCalls, LogIn(c)
    PROVE  BrowserInv'
<1> DEFINE q == Sent("login", None, FALSE)
<1>1. /\ c \in Calls /\ c \notin RefreshCalls /\ call[c] = Idle /\ call' = [call EXCEPT ![c] = q]
      /\ user = "out" /\ \A d \in Calls : call[d].kind # "login"
      /\ UNCHANGED <<auth, bell, server, bounds>>
  BY RefreshesApart DEF LogIn, Send, Calls
<1>2. q \in Call /\ q.kind = "login" /\ q.stage = "sent"
  BY SentCall DEF BrowserInv, Kinds
<1> HIDE DEF q
<1>3. CallTypeOK' /\ call'[c] = q /\ \A d \in Calls \ {c} : call'[d] = call[d]
  BY <1>1, <1>2, OneCall, Unpacked DEF BrowserInv
<1>4. SingleFlight'
  BY <1>1, <1>2, OneCallKeepsFlight, Unpacked DEF BrowserInv, auth
<1>5. TypeOK'
  BY <1>1, <1>3 DEF BrowserInv, TypeOK, CallTypeOK, auth, bell, server, bounds
<1>6. ASSUME undisturbed'
      PROVE  Undisturbed'
  <2>1. Undisturbed /\ UNCHANGED <<jar, record, user>>
    BY <1>1, <1>6 DEF BrowserInv, bounds, auth, server
  <2>2. \A d \in Calls : call[d] = Idle
    <3>1. \A d \in Calls : call[d].kind = "idle"
      BY <1>1, <2>1 DEF Undisturbed, Phases
    <3> QED
      BY <3>1, Shapes, Unpacked DEF BrowserInv
  <2>3. \A d \in Calls : ~Renewing(d) /\ ~Renewing(d)'
    BY <1>1, <1>2, <1>3, <2>2, Shapes DEF Renewing
  <2>4. TokenInHand'
    BY <2>1, <2>3 DEF Undisturbed, TokenInHand
  <2>5. RefreshGoesWell'
    BY <2>1, <1>1, <1>3 DEF Undisturbed, RefreshGoesWell, Calls
  <2>6. Phases'
    BY <1>1, <1>2, <1>3, <2>1, <2>2, Shapes DEF Phases
  <2> QED
    BY <2>4, <2>5, <2>6 DEF Undisturbed
<1> QED
  BY <1>4, <1>5, <1>6 DEF BrowserInv

-----------------------------------------------------------------------------
\* The call that changes keeps its kind, and no answer with a token comes or
\* goes: what holds of an undisturbed tab goes on holding.
LEMMA QuietChange ==
    ASSUME Undisturbed, CallTypeOK, NEW c \in Calls, NEW q \in Call,
           call' = [call EXCEPT ![c] = q], call[c] \in Call, q.kind = call[c].kind,
           call[c].kind \notin {"refresh", "login"},
           call[c].stage # "waiting", UNCHANGED <<jar, record, user>>, SingleFlight
    PROVE  Undisturbed'
<1>1. CallTypeOK' /\ call'[c] = q /\ \A d \in Calls \ {c} : call'[d] = call[d]
  BY OneCall
<1>2. \A d \in Calls : Renewing(d)' <=> Renewing(d)
  BY <1>1 DEF Renewing
<1>3. \A d \in Calls : Renewing(d) => call'[d].token = call[d].token
  BY <1>1 DEF Renewing
<1>4. TokenInHand'
  BY <1>2, <1>3 DEF Undisturbed, TokenInHand
<1>5. \A r \in RefreshCalls : r \in Calls /\ (call[r] # Idle => call[r].kind = "refresh")
  BY DEF SingleFlight, Calls
<1>6. \A r \in RefreshCalls : call'[r] = call[r]
  BY <1>1, <1>5, Shapes
<1>7. RefreshGoesWell'
  BY <1>6 DEF Undisturbed, RefreshGoesWell
<1>8. \A d \in Calls : call'[d].kind = call[d].kind /\ (call'[d] = Idle <=> call[d] = Idle)
  BY <1>1, Shapes
<1>9. Phases'
  <2>1. CASE user = "loading"
    <3>1. PICK p \in Calls :
              /\ call[p].kind = "profile"
              /\ \A d \in Calls \ {p} :
                     call[d] # Idle => call[d].kind = "refresh" /\ call[p].stage = "waiting"
      BY <2>1 DEF Undisturbed, Phases
    <3>2. c = p
      BY <3>1, Shapes
    <3>3. \A d \in Calls \ {p} : call[d] = Idle
      BY <3>1, <3>2
    <3> QED
      BY <3>1, <3>3, <1>8, <2>1 DEF Phases
  <2>2. CASE user = "out"
    BY <2>2, <1>8 DEF Undisturbed, Phases
  <2>3. CASE user = "in"
    BY <2>3, <1>8 DEF Undisturbed, Phases
  <2> QED
    BY <2>1, <2>2, <2>3 DEF Phases
<1> QED
  BY <1>4, <1>7, <1>9 DEF Undisturbed

\* With a refresh in flight there is no login, and the other way round.
LEMMA NotBoth ==
    ASSUME BrowserInv, undisturbed, NEW c \in Calls, NEW d \in Calls, c # d,
           call[c].kind \in {"refresh", "login"}
    PROVE  call[d].kind \notin {"refresh", "login"}
<1>1. Undisturbed /\ SingleFlight /\ CallTypeOK
  BY Unpacked DEF BrowserInv
<1>2. call[c] # Idle
  BY Shapes
<1>3. CASE call[d].kind = "refresh"
  <2>1. call[d] # Idle /\ refreshPromise = d
    BY <1>1, <1>3, Shapes DEF SingleFlight
  <2>2. call[c].kind = "refresh" => refreshPromise = c
    BY <1>1, <1>2 DEF SingleFlight
  <2>3. user \in {"loading", "in", "out"}
    BY DEF BrowserInv, TypeOK
  <2>4. ASSUME call[c].kind = "login"
        PROVE  FALSE
    <3>1. CASE user = "loading"
      BY <1>1, <1>2, <2>4, <3>1 DEF Undisturbed, Phases
    <3>2. CASE user = "out"
      BY <1>1, <1>3, <3>2 DEF Undisturbed, Phases
    <3>3. CASE user = "in"
      BY <1>1, <2>4, <3>3 DEF Undisturbed, Phases, BellKinds
    <3> QED
      BY <2>3, <3>1, <3>2, <3>3
  <2> QED
    BY <2>1, <2>2, <2>4
<1>4. CASE call[d].kind = "login"
  <2>1. user = "out"
    BY <1>1, <1>4, Shapes DEF Undisturbed, Phases, BellKinds, BrowserInv, TypeOK
  <2>2. call[d] # Idle
    BY <1>4, Shapes
  <2> QED
    BY <1>1, <1>2, <2>1, <2>2 DEF Undisturbed, Phases
<1> QED
  BY <1>3, <1>4

LEMMA ServeAuthenticatedKeeps ==
    ASSUME BrowserInv, NEW c \in Calls, call[c] # Idle, call[c].stage = "sent",
           ServeAuthenticated(c), UNCHANGED <<auth, bell, bounds>>
    PROVE  BrowserInv'
<1>1. CallTypeOK /\ call[c] \in Call /\ TypeOK /\ SingleFlight
  BY Unpacked DEF BrowserInv
<1>2. PICK q \in Call : call' = [call EXCEPT ![c] = q] /\ q.kind = call[c].kind
  <2>1. CASE Answer(c, 401) \/ Answer(c, 403)
    BY <1>1, <2>1, ServedCall DEF Answer
  <2>2. CASE call' = [call EXCEPT ![c] = [Served(@, 200) EXCEPT
                 !.unread = IF call[c].kind \in {"count", "list"} THEN unread ELSE {}]]
    <3> DEFINE U == IF call[c].kind \in {"count", "list"} THEN unread ELSE {}
    <3>1. U \subseteq Notes
      BY <1>1 DEF TypeOK
    <3>2. Served(call[c], 200) \in Call /\ Served(call[c], 200).kind = call[c].kind
      BY <1>1, ServedCall
    <3>3. call' = [call EXCEPT ![c] = [Served(call[c], 200) EXCEPT !.unread = U]]
      BY <2>2
    <3> DEFINE q == [Served(call[c], 200) EXCEPT !.unread = U]
    <3> HIDE DEF U
    <3>4. q \in Call /\ q.kind = call[c].kind
      BY <3>1, <3>2, SetUnread
    <3> QED
      BY <3>3, <3>4
  <2> QED
    BY <2>1, <2>2 DEF ServeAuthenticated
<1>3. call[c].kind \notin {"refresh", "login"} /\ record' = record /\ made' = made
      /\ unread' \subseteq unread
  BY DEF ServeAuthenticated, BellKinds, Answer
<1>4. c \notin RefreshCalls
  BY <1>1, <1>3 DEF SingleFlight
<1>5. SingleFlight'
  BY <1>1, <1>2, <1>3, <1>4, OneCallKeepsFlight DEF auth
<1>6. CallTypeOK'
  BY <1>1, <1>2, OneCall
<1>7. TypeOK'
  BY <1>1, <1>3, <1>6 DEF TypeOK, CallTypeOK, auth, bell, bounds
<1>8. undisturbed' => Undisturbed'
  BY <1>1, <1>2, <1>3, QuietChange DEF BrowserInv, auth, bounds
<1> QED
  BY <1>5, <1>7, <1>8 DEF BrowserInv

LEMMA ServeRefreshKeeps ==
    ASSUME BrowserInv, NEW c \in Calls, call[c] # Idle, call[c].stage = "sent",
           ServeRefresh(c), UNCHANGED <<auth, bell, bounds>>
    PROVE  BrowserInv'
<1>1. CallTypeOK /\ call[c] \in Call /\ TypeOK /\ SingleFlight /\ c \in RefreshCalls
  BY Unpacked DEF BrowserInv, SingleFlight, ServeRefresh
<1>2. FreshToken \in Tokens /\ FreshToken # None
  BY <1>1, Fresh
<1>3. \/ /\ \E status \in {401, 403} : Answer(c, status)
         /\ UNCHANGED record
         /\ call[c].token = None \/ call[c].token # record
      \/ AnswerTokens(c) /\ call[c].token = record
  BY DEF ServeRefresh
<1>4. PICK q \in Call :
          /\ call' = [call EXCEPT ![c] = q]
          /\ q.kind = "refresh" /\ q.stage = "served"
          /\ \/ UNCHANGED record /\ (call[c].token = None \/ call[c].token # record)
             \/ /\ call[c].token = record /\ q.status = 200
                /\ q.token = FreshToken /\ record' = FreshToken
  <2>1. call[c].kind = "refresh"
    BY DEF ServeRefresh
  <2>2. CASE AnswerTokens(c) /\ call[c].token = record
    <3> DEFINE q == [Served(call[c], 200) EXCEPT !.token = FreshToken]
               a == Served(call[c], 200)
    <3>1. a \in Call /\ a.kind = "refresh" /\ a.stage = "served" /\ a.status = 200
      BY <1>1, <2>1, ServedCall
    <3>2. q \in Call /\ q.kind = "refresh" /\ q.stage = "served" /\ q.status = 200
             /\ q.token = FreshToken
      <4> HIDE DEF a
      <4> QED
        BY <1>2, <3>1, SetToken DEF a
    <3> QED
      BY <2>2, <3>2 DEF AnswerTokens
  <2> QED
    BY <1>1, <1>3, <2>1, <2>2, ServedCall DEF Answer
<1>5. record' \in Tokens \cup {None} /\ UNCHANGED <<made, unread>>
  BY <1>1, <1>2, <1>4 DEF ServeRefresh, TypeOK
<1>6. SingleFlight'
  BY <1>1, <1>4, OneCallKeepsFlight, Shapes DEF auth
<1>7. CallTypeOK' /\ call'[c] = q /\ \A d \in Calls \ {c} : call'[d] = call[d]
  BY <1>1, <1>4, OneCall
<1>8. TypeOK'
  BY <1>1, <1>5, <1>7 DEF TypeOK, CallTypeOK, auth, bell, bounds
<1>9. ASSUME undisturbed'
      PROVE  Undisturbed'
  <2>1. Undisturbed /\ undisturbed /\ UNCHANGED <<jar, user>>
    BY <1>9 DEF BrowserInv, bounds, auth
  <2>2. call[c].token = record /\ call[c].kind = "refresh"
    BY <1>1, <2>1 DEF Undisturbed, RefreshGoesWell, SingleFlight
  <2>3. \A d \in Calls \ {c} : call[d].kind \notin {"refresh", "login"}
    BY <2>1, <2>2, NotBoth
  <2>4. \A d \in Calls : ~Renewing(d)
    BY <2>3 DEF Renewing
  <2>5. record # None
    BY <2>1, <2>4 DEF Undisturbed, TokenInHand
  <2>6. q.status = 200 /\ q.token = record' /\ record' # None
    BY <1>2, <1>4, <2>2, <2>5
  <2>7. TokenInHand'
    BY <1>4, <1>7, <2>3, <2>6 DEF TokenInHand, Renewing
  <2>8. RefreshGoesWell'
    <3>1. \A r \in RefreshCalls \ {c} : call[r] = Idle /\ r \in Calls
      BY <1>1 DEF SingleFlight, Calls
    <3> QED
      BY <1>4, <1>7, <2>6, <3>1 DEF RefreshGoesWell
  <2>9. \A d \in Calls : call'[d].kind = call[d].kind /\ (call'[d] = Idle <=> call[d] = Idle)
    BY <1>1, <1>4, <1>7, <2>2, Shapes
  <2>10. Phases'
    <3>1. CASE user = "loading"
      <4>1. PICK p \in Calls :
                /\ call[p].kind = "profile"
                /\ \A d \in Calls \ {p} :
                       call[d] # Idle => call[d].kind = "refresh" /\ call[p].stage = "waiting"
        BY <2>1, <3>1 DEF Undisturbed, Phases
      <4>2. c # p
        BY <2>2, <4>1
      <4>3. call'[p] = call[p]
        BY <1>7, <4>2
      <4> QED
        BY <2>1, <2>9, <3>1, <4>1, <4>3 DEF Phases
    <3>2. CASE user = "out"
      BY <2>1, <2>9, <3>2 DEF Undisturbed, Phases
    <3>3. CASE user = "in"
      BY <2>1, <2>9, <3>3 DEF Undisturbed, Phases
    <3> QED
      BY <2>1, <3>1, <3>2, <3>3 DEF Phases
  <2> QED
    BY <2>7, <2>8, <2>10 DEF Undisturbed
<1> QED
  BY <1>6, <1>8, <1>9 DEF BrowserInv

LEMMA ServeLoginKeeps ==
    ASSUME BrowserInv, NEW c \in Calls, call[c] # Idle, call[c].stage = "sent",
           ServeLogin(c), UNCHANGED <<auth, bell, bounds>>
    PROVE  BrowserInv'
<1>1. CallTypeOK /\ call[c] \in Call /\ TypeOK /\ SingleFlight
  BY Unpacked DEF BrowserInv
<1>2. FreshToken \in Tokens /\ FreshToken # None
  BY <1>1, Fresh
<1>3. call[c].kind = "login" /\ UNCHANGED <<made, unread>>
  BY DEF ServeLogin
<1>4. PICK q \in Call :
          /\ call' = [call EXCEPT ![c] = q]
          /\ q.kind = "login" /\ q.stage = "served"
          /\ \/ (UNCHANGED record /\ q.status # 200)
             \/ q.status = 200 /\ q.token = FreshToken /\ record' = FreshToken
  <2>2. CASE AnswerTokens(c)
    <3> DEFINE q == [Served(call[c], 200) EXCEPT !.token = FreshToken]
               a == Served(call[c], 200)
    <3>1. a \in Call /\ a.kind = "login" /\ a.stage = "served" /\ a.status = 200
      BY <1>1, <1>3, ServedCall
    <3>2. q \in Call /\ q.kind = "login" /\ q.stage = "served" /\ q.status = 200
             /\ q.token = FreshToken
      <4> HIDE DEF a
      <4> QED
        BY <1>2, <3>1, SetToken DEF a
    <3> QED
      BY <2>2, <3>2 DEF AnswerTokens
  <2>3. CASE Answer(c, 401) /\ UNCHANGED record
    <3> DEFINE a == Served(call[c], 401)
    <3>1. a \in Call /\ a.kind = "login" /\ a.stage = "served" /\ a.status # 200
      BY <1>1, <1>3, ServedCall
    <3>2. call' = [call EXCEPT ![c] = a]
      BY <2>3 DEF Answer
    <3> HIDE DEF a
    <3> QED
      BY <2>3, <3>1, <3>2
  <2> QED
    BY <2>2, <2>3 DEF ServeLogin
<1>5. record' \in Tokens \cup {None}
  BY <1>1, <1>2, <1>4 DEF TypeOK
<1>6. SingleFlight'
  <2>1. c \notin RefreshCalls
    BY <1>1, <1>3 DEF SingleFlight
  <2> QED
    BY <1>1, <1>4, <2>1, OneCallKeepsFlight DEF auth
<1>7. CallTypeOK' /\ call'[c] = q /\ \A d \in Calls \ {c} : call'[d] = call[d]
  BY <1>1, <1>4, OneCall
<1>8. TypeOK'
  BY <1>1, <1>3, <1>5, <1>7 DEF TypeOK, CallTypeOK, auth, bell, bounds
<1>9. ASSUME undisturbed'
      PROVE  Undisturbed'
  <2>1. Undisturbed /\ undisturbed /\ UNCHANGED <<jar, user>>
    BY <1>9 DEF BrowserInv, bounds, auth
  <2>3. \A d \in Calls \ {c} : call[d].kind \notin {"refresh", "login"}
    BY <1>3, <2>1, NotBoth
  <2>4. \A d \in Calls : ~Renewing(d)
    BY <2>3 DEF Renewing
  <2>5. record # None /\ jar = record
    BY <2>1, <2>4 DEF Undisturbed, TokenInHand
  <2>6. \A d \in Calls \ {c} : ~Renewing(d)'
    BY <1>7, <2>4 DEF Renewing
  <2>7. TokenInHand'
    BY <1>2, <1>4, <1>7, <2>1, <2>5, <2>6 DEF TokenInHand, Renewing
  <2>8. RefreshGoesWell'
    <3>1. \A r \in RefreshCalls : r \in Calls \ {c} /\ call[r] = Idle
      BY <1>1, <1>3, <2>3 DEF SingleFlight, Calls
    <3> QED
      BY <1>7, <3>1 DEF RefreshGoesWell
  <2>9. user = "out"
    BY <1>1, <1>3, <2>1, Shapes DEF Undisturbed, Phases, BellKinds, TypeOK
  <2>10. \A d \in Calls \ {c} : call[d] = Idle
    BY <1>3, <2>1, <2>9 DEF Undisturbed, Phases
  <2>11. Phases'
    BY <1>4, <1>7, <2>1, <2>9, <2>10, Shapes DEF Phases
  <2> QED
    BY <2>7, <2>8, <2>11 DEF Undisturbed
<1> QED
  BY <1>6, <1>8, <1>9 DEF BrowserInv

\* A logout is sent by a click, which is no longer an undisturbed tab.
LEMMA NoLogout ==
    ASSUME BrowserInv, undisturbed, NEW c \in Calls
    PROVE  call[c].kind \notin {"logout", "orphan"}
  BY Shapes DEF BrowserInv, TypeOK, Undisturbed, Phases, BellKinds

LEMMA ServeLogoutKeeps ==
    ASSUME BrowserInv, NEW c \in Calls, call[c] # Idle, call[c].stage = "sent",
           ServeLogout(c), UNCHANGED <<auth, bell, bounds>>
    PROVE  BrowserInv'
<1>1. CallTypeOK /\ call[c] \in Call /\ TypeOK /\ SingleFlight
  BY Unpacked DEF BrowserInv
<1>2. call[c].kind = "logout" /\ UNCHANGED <<made, unread>> /\ record' \in {record, None}
         /\ call' = [call EXCEPT ![c] = Served(@, 200)]
  BY DEF ServeLogout, Answer
<1>3. Served(call[c], 200) \in Call /\ Served(call[c], 200).kind = "logout"
  BY <1>1, <1>2, ServedCall
<1>4. SingleFlight'
  <2>1. c \notin RefreshCalls
    BY <1>1, <1>2 DEF SingleFlight
  <2> QED
    BY <1>1, <1>2, <1>3, <2>1, OneCallKeepsFlight DEF auth
<1>5. CallTypeOK'
  BY <1>1, <1>2, <1>3, OneCall
<1>6. TypeOK'
  BY <1>1, <1>2, <1>5 DEF TypeOK, CallTypeOK, auth, bell, bounds
<1>7. ~undisturbed'
  BY <1>2, NoLogout DEF bounds
<1> QED
  BY <1>4, <1>6, <1>7 DEF BrowserInv

-----------------------------------------------------------------------------
\* The promise that is shared is that of the refresh in flight, if there is one.
LEMMA Shared ==
    ASSUME TypeOK, SingleFlight
    PROVE  /\ SharedRefresh \in RefreshCalls
           /\ refreshPromise # None => SharedRefresh = refreshPromise
           /\ \A r \in RefreshCalls \ {SharedRefresh} : call[r] = Idle
           /\ call[SharedRefresh] # Idle <=> refreshPromise # None
<1>1. refreshPromise \in RefreshCalls \cup {None} /\ None \notin RefreshCalls
  BY NoneIsNone DEF TypeOK, Calls
<1>2. CASE refreshPromise # None
  BY <1>1, <1>2 DEF SharedRefresh, SingleFlight
<1>3. CASE refreshPromise = None
  <2>1. \A r \in RefreshCalls : call[r] = Idle
    BY <1>1, <1>3 DEF SingleFlight
  <2>2. SharedRefresh \in RefreshCalls
    BY <1>3, <2>1, RefreshesApart DEF SharedRefresh
  <2> QED
    BY <1>3, <2>1, <2>2
<1> QED
  BY <1>2, <1>3

LEMMA AwaitRefreshKeeps ==
    ASSUME BrowserInv, NEW c \in Calls, call[c] # Idle, call[c].stage = "served",
           AwaitRefresh(c), UNCHANGED <<server, bounds>>
    PROVE  BrowserInv'
<1>0. PICK r \in RefreshCalls : r = SharedRefresh
  BY Shared DEF BrowserInv
<1> DEFINE w == Waiting(c, r)
           s == Sent("refresh", None, FALSE)
<1>1. CallTypeOK /\ call[c] \in Call /\ TypeOK /\ SingleFlight
         /\ \A d \in Calls : call[d] \in Call \cup {Idle}
  BY Unpacked DEF BrowserInv
<1>2. call[c].kind \notin {"refresh", "login"} /\ c \notin RefreshCalls
  BY <1>1 DEF AwaitRefresh, NeedsRefresh, IsAuthEndpoint, SingleFlight
<1>3. r \in RefreshCalls /\ r \in Calls /\ r # c
         /\ (\A x \in RefreshCalls \ {r} : call[x] = Idle)
         /\ (call[r] # Idle <=> refreshPromise # None)
         /\ (call[r] # Idle => refreshPromise = r)
  BY <1>0, <1>1, <1>2, Shared DEF Calls, SingleFlight
<1>4. w \in Call /\ w.kind = call[c].kind /\ w.stage = "waiting"
  BY <1>1, <1>3, WaitingCall
<1>5. s \in Call /\ s.kind = "refresh" /\ s.stage = "sent" /\ s.status = 0 /\ s.token = jar
  BY <1>1, SentCall DEF Kinds
<1>6. /\ call' = [d \in Calls |-> IF d = c THEN w
                                 ELSE IF d = r /\ call[r] = Idle THEN s ELSE call[d]]
      /\ refreshPromise' = r
      /\ UNCHANGED <<access, jar, user, bell>>
  BY <1>0 DEF AwaitRefresh
<1> HIDE DEF w, s
<1>7. /\ call'[c] = w
      /\ call[r] = Idle => call'[r] = s
      /\ call[r] # Idle => call'[r] = call[r]
      /\ \A d \in Calls \ {c, r} : call'[d] = call[d]
  BY <1>3, <1>6
<1>8. CallTypeOK'
  BY <1>1, <1>4, <1>5, <1>6 DEF CallTypeOK
<1>9. TypeOK'
  BY <1>1, <1>3, <1>6, <1>8 DEF TypeOK, CallTypeOK, bell, server, bounds
<1>10. SingleFlight'
  <2>1. \A x \in RefreshCalls : call'[x] # Idle <=> x = r
    BY <1>2, <1>3, <1>5, <1>7, Shapes DEF Calls
  <2>2. call'[r].kind = "refresh" /\ call'[r].stage # "waiting"
    BY <1>1, <1>3, <1>5, <1>7 DEF SingleFlight
  <2>3. \A d \in Calls : call'[d].kind = "refresh" => d \in RefreshCalls
    BY <1>1, <1>2, <1>3, <1>4, <1>7 DEF SingleFlight
  <2> QED
    BY <1>3, <1>6, <2>1, <2>2, <2>3 DEF SingleFlight
<1>11. ASSUME undisturbed'
       PROVE  Undisturbed'
  <2>1. Undisturbed /\ undisturbed /\ UNCHANGED <<record>>
    BY <1>11 DEF BrowserInv, bounds, server
  <2>2. user \in {"loading", "in"}
    BY <1>1, <1>2, <2>1, Shapes DEF Undisturbed, Phases, TypeOK
  <2>3. \A d \in Calls : call[d].kind # "login"
    <3>1. CASE user = "loading"
      BY <2>1, <3>1, Shapes DEF Undisturbed, Phases
    <3>2. CASE user = "in"
      BY <2>1, <3>2 DEF Undisturbed, Phases, BellKinds
    <3> QED
      BY <2>2, <3>1, <3>2
  <2>4. call[r] = Idle => \A d \in Calls : ~Renewing(d)
    BY <1>1, <1>3, <2>3, Shapes DEF Renewing, SingleFlight
  <2>5. call[r] = Idle => jar = record /\ record # None
    BY <2>1, <2>4 DEF Undisturbed, TokenInHand
  <2>6. \A d \in Calls : Renewing(d)' => d = r /\ call[r] # Idle
    <3>1. ~Renewing(c)'
      BY <1>4, <1>7 DEF Renewing
    <3>2. call[r] = Idle => ~Renewing(r)'
      BY <1>5, <1>7 DEF Renewing
    <3>3. \A d \in Calls \ {c, r} : ~Renewing(d)'
      BY <1>1, <1>3, <1>7, <2>3, Shapes DEF Renewing, SingleFlight
    <3> QED
      BY <3>1, <3>2, <3>3
  <2>7. call[r] # Idle => (Renewing(r)' <=> Renewing(r))
    BY <1>7 DEF Renewing
  <2>8. \A d \in Calls : Renewing(d) => d = r /\ call[r] # Idle
    BY <1>1, <1>3, <2>3, Shapes DEF Renewing, SingleFlight
  <2>9. TokenInHand'
    BY <1>3, <1>6, <1>7, <2>1, <2>5, <2>6, <2>7, <2>8 DEF Undisturbed, TokenInHand
  <2>10. RefreshGoesWell'
    <3>1. \A x \in RefreshCalls \ {r} : call'[x] = Idle
      BY <1>2, <1>3, <1>7 DEF Calls
    <3> QED
      BY <1>3, <1>5, <1>7, <2>1, <2>5, <3>1 DEF Undisturbed, RefreshGoesWell
  <2>11. Phases'
    <3>1. CASE user = "loading"
      <4>1. PICK p \in Calls :
                /\ call[p].kind = "profile"
                /\ \A d \in Calls \ {p} :
                       call[d] # Idle => call[d].kind = "refresh" /\ call[p].stage = "waiting"
        BY <2>1, <3>1 DEF Undisturbed, Phases
      <4>2. c = p
        BY <1>2, <4>1
      <4>3. \A d \in Calls \ {c} : call'[d] # Idle => call'[d].kind = "refresh"
        BY <1>3, <1>5, <1>7, <4>1, <4>2
      <4>4. call'[c].kind = "profile" /\ call'[c].stage = "waiting"
        BY <1>4, <1>7, <4>1, <4>2
      <4> QED
        BY <1>6, <3>1, <4>3, <4>4 DEF Phases
    <3>2. CASE user = "in"
      <4>1. \A d \in Calls : call'[d].kind \in BellKinds \cup {"refresh", "idle"}
        BY <1>3, <1>4, <1>5, <1>7, <2>1, <3>2 DEF Undisturbed, Phases
      <4> QED
        BY <1>6, <3>2, <4>1 DEF Phases
    <3> QED
      BY <2>2, <3>1, <3>2
  <2> QED
    BY <2>9, <2>10, <2>11 DEF Undisturbed
<1> QED
  BY <1>9, <1>10, <1>11 DEF BrowserInv

LEMMA SettleRefreshKeeps ==
    ASSUME BrowserInv, NEW r \in Calls, call[r] # Idle, call[r].stage = "served",
           SettleRefresh(r), UNCHANGED <<server, bounds>>
    PROVE  BrowserInv'
<1>1. CallTypeOK /\ call[r] \in Call /\ TypeOK /\ SingleFlight
         /\ \A d \in Calls : call[d] \in Call \cup {Idle}
  BY Unpacked DEF BrowserInv
<1>2. call[r].kind = "refresh" /\ r \in RefreshCalls /\ refreshPromise = r
         /\ refreshPromise' = None
  BY <1>1 DEF SettleRefresh, SingleFlight
<1>3. \A x \in RefreshCalls \ {r} : call[x] = Idle /\ x \in Calls
  BY <1>1, <1>2 DEF SingleFlight, Calls
<1>4. \A d \in Waiters(r) : d \in Calls /\ d # r /\ d \notin RefreshCalls /\ call[d] \in Call
         /\ call[d].stage = "waiting" /\ call[d].kind # "refresh"
  BY <1>1, <1>2, <1>3 DEF Waiters, SingleFlight
<1>5. CASE call[r].status = 200
  <2> DEFINE resent(d) == [call[d] EXCEPT !.stage = "sent", !.on = None,
                                          !.access = "valid", !.token = call[r].token]
  <2>1. /\ access' = "valid" /\ jar' = call[r].token
        /\ call' = [c \in Calls |-> IF c = r THEN Idle
                                    ELSE IF c \in Waiters(r) THEN resent(c) ELSE call[c]]
        /\ UNCHANGED <<user, bell>>
    BY <1>5 DEF SettleRefresh
  <2>2. call[r].token \in Tokens \cup {None}
    BY <1>1, Typing
  <2>3. \A d \in Waiters(r) :
            resent(d) \in Call /\ resent(d).kind = call[d].kind /\ resent(d).stage = "sent"
    BY <1>4, <2>2, ResentCall
  <2> HIDE DEF resent
  <2>4. /\ call'[r] = Idle
        /\ \A d \in Calls \ {r} : call'[d] = IF d \in Waiters(r) THEN resent(d) ELSE call[d]
    BY <2>1
  <2>5. CallTypeOK'
    BY <1>1, <2>1, <2>3 DEF CallTypeOK
  <2>6. TypeOK'
    BY <1>1, <1>2, <2>1, <2>2, <2>5 DEF TypeOK, CallTypeOK, Access, bell, server, bounds
  <2>7. \A d \in Calls \ {r} : call'[d].kind = call[d].kind /\ (call'[d] = Idle <=> call[d] = Idle)
    BY <1>1, <1>4, <2>3, <2>4, Shapes
  <2>8. SingleFlight'
    <3>1. \A x \in RefreshCalls : call'[x] = Idle
      BY <1>3, <2>4, <2>7
    <3>2. \A d \in Calls : call'[d].kind = "refresh" => d \in RefreshCalls
      BY <1>1, <2>4, <2>7, Shapes DEF SingleFlight
    <3>3. None \notin RefreshCalls
      BY NoneIsNone DEF Calls
    <3> QED
      BY <1>2, <3>1, <3>2, <3>3 DEF SingleFlight
  <2>9. ASSUME undisturbed'
        PROVE  Undisturbed'
    <3>1. Undisturbed /\ undisturbed /\ UNCHANGED <<record>>
      BY <2>9 DEF BrowserInv, bounds, server
    <3>2. Renewing(r) /\ call[r].token = record /\ record # None
      BY <1>2, <1>5, <3>1 DEF Undisturbed, TokenInHand, Renewing
    <3>3. \A d \in Calls \ {r} : call[d].kind \notin {"refresh", "login"}
      BY <1>2, <3>1, NotBoth
    <3>4. \A d \in Calls : ~Renewing(d)'
      BY <2>4, <2>7, <3>3, Shapes DEF Renewing
    <3>5. TokenInHand'
      BY <2>1, <3>1, <3>2, <3>4 DEF TokenInHand
    <3>6. RefreshGoesWell'
      BY <1>3, <2>4, <2>7 DEF RefreshGoesWell
    <3>7. Phases'
      <4>1. CASE user = "loading"
        <5>1. PICK p \in Calls :
                  /\ call[p].kind = "profile"
                  /\ \A d \in Calls \ {p} :
                         call[d] # Idle => call[d].kind = "refresh" /\ call[p].stage = "waiting"
          BY <3>1, <4>1 DEF Undisturbed, Phases
        <5>2. p # r
          BY <1>2, <5>1
        <5>3. \A d \in Calls \ {p} : call'[d] = Idle
          BY <2>4, <2>7, <3>3, <5>1
        <5> QED
          BY <2>1, <2>7, <4>1, <5>1, <5>2, <5>3 DEF Phases
      <4>2. CASE user = "out"
        BY <1>2, <3>1, <4>2 DEF Undisturbed, Phases
      <4>3. CASE user = "in"
        BY <2>1, <2>4, <2>7, <3>1, <4>3, Shapes DEF Undisturbed, Phases
      <4> QED
        BY <1>1, <4>1, <4>2, <4>3 DEF TypeOK
    <3> QED
      BY <3>5, <3>6, <3>7 DEF Undisturbed
  <2> QED
    BY <2>6, <2>8, <2>9 DEF BrowserInv
<1>6. CASE call[r].status # 200
  <2>1. /\ call' = [c \in Calls |-> IF c \in Waiters(r) \cup {r} THEN Idle ELSE call[c]]
        /\ user' \in {user, "out"} /\ list' \in {list, {}} /\ loading' \in {loading, FALSE}
        /\ UNCHANGED <<access, jar, badge>>
    BY <1>6 DEF SettleRefresh
  <2>2. CallTypeOK'
    BY <1>1, <2>1 DEF CallTypeOK
  <2>3. TypeOK'
    BY <1>1, <1>2, <2>1, <2>2 DEF TypeOK, CallTypeOK, server, bounds
  <2>4. SingleFlight'
    <3>1. \A x \in RefreshCalls : call'[x] = Idle
      BY <1>3, <2>1
    <3>2. \A d \in Calls : call'[d].kind = "refresh" => d \in RefreshCalls
      BY <1>1, <2>1, Shapes DEF SingleFlight
    <3>3. None \notin RefreshCalls
      BY NoneIsNone DEF Calls
    <3> QED
      BY <1>2, <3>1, <3>2, <3>3 DEF SingleFlight
  <2>5. ~undisturbed'
    BY <1>1, <1>2, <1>6 DEF BrowserInv, Undisturbed, RefreshGoesWell, bounds
  <2> QED
    BY <2>3, <2>4, <2>5 DEF BrowserInv
<1> QED
  BY <1>5, <1>6

\* A call that is over leaves no call behind that was not there.
LEMMA OneEnds ==
    ASSUME SingleFlight, CallTypeOK, UNCHANGED refreshPromise, NEW c \in Calls,
           call[c] # Idle, call[c].kind # "refresh", call' = [call EXCEPT ![c] = Idle]
    PROVE  /\ CallTypeOK' /\ SingleFlight'
           /\ call'[c] = Idle /\ \A d \in Calls \ {c} : call'[d] = call[d]
<1>1. c \notin RefreshCalls
  BY DEF SingleFlight, CallTypeOK
<1>2. Idle.kind # "refresh"
  BY DEF Idle
<1>3. SingleFlight'
  BY <1>1, <1>2, OneCallKeepsFlight
<1> QED
  BY <1>3, OneCall

LEMMA SettleProfileKeeps ==
    ASSUME BrowserInv, NEW c \in Calls, call[c] # Idle, call[c].stage = "served",
           SettleProfile(c), UNCHANGED <<server, bounds>>
    PROVE  BrowserInv'
<1>1. CallTypeOK /\ call[c] \in Call /\ TypeOK /\ SingleFlight
  BY Unpacked DEF BrowserInv
<1>2. call[c].kind = "profile" /\ call' = [call EXCEPT ![c] = Idle] /\ user' \in {"in", "out"}
         /\ UNCHANGED <<refreshPromise, access, jar, bell>>
  BY DEF SettleProfile, Settle
<1>3. CallTypeOK' /\ SingleFlight' /\ call'[c] = Idle /\ \A d \in Calls \ {c} : call'[d] = call[d]
  BY <1>1, <1>2, OneEnds
<1>4. TypeOK'
  BY <1>1, <1>2, <1>3 DEF TypeOK, CallTypeOK, bell, server, bounds
<1>5. ASSUME undisturbed'
      PROVE  Undisturbed'
  <2>1. Undisturbed /\ UNCHANGED record
    BY <1>5 DEF BrowserInv, bounds, server
  <2>2. user = "loading"
    BY <1>1, <1>2, <2>1, Shapes DEF Undisturbed, Phases, BellKinds, TypeOK
  <2>3. \A d \in Calls \ {c} : call[d] = Idle
    <3>1. PICK p \in Calls :
              /\ call[p].kind = "profile"
              /\ \A d \in Calls \ {p} :
                     call[d] # Idle => call[d].kind = "refresh" /\ call[p].stage = "waiting"
      BY <2>1, <2>2 DEF Undisturbed, Phases
    <3>2. c = p
      BY <1>2, <3>1
    <3> QED
      BY <3>1, <3>2
  <2>4. \A d \in Calls : ~Renewing(d) /\ ~Renewing(d)' /\ call'[d] = Idle
    BY <1>2, <1>3, <2>3, Shapes DEF Renewing
  <2>5. TokenInHand'
    BY <1>2, <2>1, <2>4 DEF Undisturbed, TokenInHand
  <2>6. RefreshGoesWell' /\ Phases'
    BY <1>2, <2>4, Shapes DEF RefreshGoesWell, Phases, Calls
  <2> QED
    BY <2>5, <2>6 DEF Undisturbed
<1> QED
  BY <1>3, <1>4, <1>5 DEF BrowserInv

LEMMA SettleLoginKeeps ==
    ASSUME BrowserInv, NEW c \in Calls, call[c] # Idle, call[c].stage = "served",
           SettleLogin(c), UNCHANGED <<server, bounds>>
    PROVE  BrowserInv'
<1>1. CallTypeOK /\ call[c] \in Call /\ TypeOK /\ SingleFlight
  BY Unpacked DEF BrowserInv
<1>2. /\ call[c].kind = "login" /\ call' = [call EXCEPT ![c] = Idle]
      /\ \/ /\ call[c].status = 200
            /\ user' = "in" /\ access' = "valid" /\ jar' = call[c].token
         \/ call[c].status # 200 /\ UNCHANGED <<user, access, jar>>
      /\ UNCHANGED <<refreshPromise, bell>>
  BY DEF SettleLogin, Settle
<1>3. CallTypeOK' /\ SingleFlight' /\ call'[c] = Idle /\ \A d \in Calls \ {c} : call'[d] = call[d]
  BY <1>1, <1>2, OneEnds
<1>4. TypeOK'
  <2>1. call[c].token \in Tokens \cup {None}
    BY <1>1, Typing
  <2> QED
    BY <1>1, <1>2, <1>3, <2>1 DEF TypeOK, CallTypeOK, Access, bell, server, bounds
<1>5. ASSUME undisturbed'
      PROVE  Undisturbed'
  <2>1. Undisturbed /\ UNCHANGED record
    BY <1>5 DEF BrowserInv, bounds, server
  <2>2. user = "out"
    BY <1>1, <1>2, <2>1, Shapes DEF Undisturbed, Phases, BellKinds, TypeOK
  <2>3. \A d \in Calls \ {c} : call[d] = Idle
    BY <1>2, <2>1, <2>2, Shapes DEF Undisturbed, Phases
  <2>4. \A d \in Calls : call'[d] = Idle
    BY <1>3, <2>3
  <2>5. \A d \in Calls : ~Renewing(d)'
    BY <2>4, Shapes DEF Renewing
  <2>6. jar' = record /\ record # None
    <3>1. CASE call[c].status = 200
      BY <1>2, <2>1, <3>1 DEF Undisturbed, TokenInHand, Renewing
    <3>2. CASE call[c].status # 200
      <4>1. \A d \in Calls : ~Renewing(d)
        BY <2>3, <3>2, Shapes DEF Renewing
      <4> QED
        BY <1>2, <2>1, <3>2, <4>1 DEF Undisturbed, TokenInHand
    <3> QED
      BY <3>1, <3>2
  <2>7. TokenInHand'
    BY <2>1, <2>5, <2>6 DEF TokenInHand
  <2>8. RefreshGoesWell' /\ Phases'
    BY <1>2, <2>2, <2>4, Shapes DEF RefreshGoesWell, Phases, Calls
  <2> QED
    BY <2>7, <2>8 DEF Undisturbed
<1> QED
  BY <1>3, <1>4, <1>5 DEF BrowserInv

LEMMA SettleLogoutKeeps ==
    ASSUME BrowserInv, NEW c \in Calls, call[c] # Idle, call[c].stage = "served",
           SettleLogout(c), UNCHANGED <<server, bounds>>
    PROVE  BrowserInv'
<1> DEFINE orphaned(q) == [q EXCEPT !.kind = "orphan", !.note = None, !.unread = {}]
<1>1. CallTypeOK /\ call[c] \in Call /\ TypeOK /\ SingleFlight
         /\ \A d \in Calls : call[d] \in Call \cup {Idle}
  BY Unpacked DEF BrowserInv
<1>2. /\ call[c].kind = "logout" /\ user' = "out"
      /\ call' = [d \in Calls |-> IF d = c THEN Idle
                                  ELSE IF call[d].kind \in BellKinds THEN orphaned(call[d])
                                  ELSE call[d]]
      /\ badge' = 0 /\ list' = {} /\ loading' = FALSE
      /\ access' \in {access, "none"} /\ jar' \in {jar, None}
      /\ UNCHANGED refreshPromise
  BY DEF SettleLogout, Unmount
<1>3. \A d \in Calls : call[d].kind \in BellKinds =>
          orphaned(call[d]) \in Call /\ orphaned(call[d]).kind = "orphan"
  <2> SUFFICES ASSUME NEW d \in Calls, call[d].kind \in BellKinds
               PROVE  orphaned(call[d]) \in Call /\ orphaned(call[d]).kind = "orphan"
    OBVIOUS
  <2>1. call[d] \in Call
    BY <1>1, Shapes DEF BellKinds
  <2> QED
    BY <2>1, OrphanCall
<1> HIDE DEF orphaned
<1>4. CallTypeOK'
  BY <1>1, <1>2, <1>3 DEF CallTypeOK
<1>5. TypeOK'
  <2>1. 0 \in 0 .. Cardinality(Notes)
    BY BrowserFinite, FS_CardinalityType
  <2> QED
    BY <1>1, <1>2, <1>4, <2>1 DEF TypeOK, CallTypeOK, Access, server, bounds
<1>6. SingleFlight'
  <2>1. c \notin RefreshCalls
    BY <1>1, <1>2 DEF SingleFlight
  <2>2. \A x \in RefreshCalls : x \in Calls /\ call'[x] = call[x]
    <3>1. \A x \in RefreshCalls : x \in Calls /\ call[x].kind \notin BellKinds
      BY <1>1, Shapes DEF SingleFlight, Calls, BellKinds
    <3> QED
      BY <1>2, <2>1, <3>1
  <2>3. \A d \in Calls : call'[d].kind = "refresh" => d \in RefreshCalls
    BY <1>1, <1>2, <1>3, Shapes DEF SingleFlight
  <2> QED
    BY <1>1, <1>2, <2>2, <2>3 DEF SingleFlight
<1>7. ~undisturbed'
  BY <1>2, NoLogout DEF bounds
<1> QED
  BY <1>5, <1>6, <1>7 DEF BrowserInv

LEMMA SettleBellKeeps ==
    ASSUME BrowserInv, NEW c \in Calls, call[c] # Idle, call[c].stage = "served",
           SettleBell(c), UNCHANGED <<server, bounds>>
    PROVE  BrowserInv'
<1>1. CallTypeOK /\ call[c] \in Call /\ TypeOK /\ SingleFlight
  BY Unpacked DEF BrowserInv
<1>2. /\ call[c].kind \in BellKinds \cup {"orphan"} /\ call' = [call EXCEPT ![c] = Idle]
      /\ badge' \in {Cardinality(call[c].unread), CountDown(badge), 0, badge}
      /\ list' \in {call[c].unread, {}, list \ {call[c].note}, list}
      /\ loading' \in BOOLEAN
      /\ UNCHANGED auth
  BY <1>1 DEF SettleBell, Settle, TypeOK
<1>3. CallTypeOK' /\ SingleFlight' /\ call'[c] = Idle /\ \A d \in Calls \ {c} : call'[d] = call[d]
  BY <1>1, <1>2, OneEnds DEF BellKinds, auth
<1>4. TypeOK'
  <2>1. call[c].unread \subseteq Notes
    BY <1>1, Typing
  <2>2. Cardinality(call[c].unread) \in 0 .. Cardinality(Notes)
    BY <2>1, BadgeFits
  <2>3. Cardinality(Notes) \in Nat
    BY BrowserFinite, FS_CardinalityType
  <2>4. badge' \in 0 .. Cardinality(Notes)
    BY <1>1, <1>2, <2>2, <2>3 DEF TypeOK, CountDown
  <2>5. list' \subseteq Notes
    BY <1>1, <1>2, <2>1 DEF TypeOK
  <2> QED
    BY <1>1, <1>2, <1>3, <2>4, <2>5 DEF TypeOK, CallTypeOK, auth, server, bounds
<1>5. ASSUME undisturbed'
      PROVE  Undisturbed'
  <2>1. Undisturbed /\ UNCHANGED <<jar, record, user>>
    BY <1>2, <1>5 DEF BrowserInv, bounds, server, auth
  <2>2. ~Renewing(c) /\ ~Renewing(c)'
    BY <1>2, <1>3, Shapes DEF Renewing, BellKinds
  <2>3. \A d \in Calls \ {c} : Renewing(d)' <=> Renewing(d)
    BY <1>3 DEF Renewing
  <2>4. TokenInHand'
    BY <1>3, <2>1, <2>2, <2>3 DEF Undisturbed, TokenInHand
  <2>5. RefreshGoesWell'
    BY <1>3, <2>1 DEF Undisturbed, RefreshGoesWell, Calls
  <2>6. user = "in"
    BY <1>1, <1>2, <2>1, Shapes DEF Undisturbed, Phases, BellKinds, TypeOK
  <2>7. Phases'
    BY <1>3, <2>1, <2>6, Shapes DEF Undisturbed, Phases
  <2> QED
    BY <2>4, <2>5, <2>7 DEF Undisturbed
<1> QED
  BY <1>3, <1>4, <1>5 DEF BrowserInv

-----------------------------------------------------------------------------
LEMMA LoseKeeps ==
    ASSUME BrowserInv, NEW c \in Calls, Lose(c)
    PROVE  BrowserInv'
<1>1. CallTypeOK /\ call[c] \in Call /\ TypeOK /\ SingleFlight
  BY Unpacked DEF BrowserInv, Lose
<1> DEFINE a == Served(call[c], 0)
           q == [a EXCEPT !.unread = {}]
<1>2. a \in Call /\ a.kind = call[c].kind /\ a.stage = "served"
  BY <1>1, ServedCall
<1>3. q \in Call /\ q.kind = call[c].kind /\ q.stage = "served"
  <2> HIDE DEF a
  <2> QED
    BY <1>2, SetUnread
<1>4. call' = [call EXCEPT ![c] = q] /\ call[c] # Idle /\ upsets' = upsets + 1
         /\ upsets < MaxUpsets /\ undisturbed' = FALSE /\ UNCHANGED <<auth, bell, server>>
  BY DEF Lose, Upset
<1> HIDE DEF q
<1>5. SingleFlight' /\ CallTypeOK'
  <2>1. c \notin RefreshCalls => q.kind # "refresh"
    BY <1>1, <1>3 DEF SingleFlight
  <2>2. c \in RefreshCalls => q.kind = "refresh"
    BY <1>1, <1>3, <1>4 DEF SingleFlight
  <2> QED
    BY <1>1, <1>3, <1>4, <2>1, <2>2, OneCall, OneCallKeepsFlight, Shapes DEF auth
<1>6. TypeOK'
  <2>1. upsets' \in 0 .. MaxUpsets
    BY <1>1, <1>4, BoundIsNat DEF TypeOK
  <2> QED
    BY <1>1, <1>4, <1>5, <2>1 DEF TypeOK, CallTypeOK, auth, bell, server
<1> QED
  BY <1>4, <1>5, <1>6 DEF BrowserInv

LEMMA AroundKeeps ==
    ASSUME BrowserInv,
           \/ Expire \/ DropCookie \/ Elsewhere \/ UNCHANGED vars
           \/ \E n \in Notes : Notify(n) \/ ReadElsewhere(n)
    PROVE  BrowserInv'
<1>1. TypeOK /\ SingleFlight
  BY DEF BrowserInv
<1>2. ASSUME UNCHANGED <<call, refreshPromise, jar, user>>,
             undisturbed' => undisturbed /\ UNCHANGED record
      PROVE  SingleFlight' /\ (undisturbed' => Undisturbed')
  BY <1>2, <1>1 DEF BrowserInv, SingleFlight, Undisturbed, TokenInHand, Renewing,
                    RefreshGoesWell, Phases
<1>3. CASE Expire
  <2>1. TypeOK'
    BY <1>1, <1>3, BoundIsNat DEF Expire, Upset, TypeOK, Access, bell, server
  <2> QED
    BY <1>2, <1>3, <2>1 DEF Expire, server, BrowserInv
<1>4. CASE DropCookie
  <2>1. TypeOK'
    BY <1>1, <1>4 DEF DropCookie, TypeOK, Access, bell, server, bounds
  <2> QED
    BY <1>2, <1>4, <2>1 DEF DropCookie, server, bounds, BrowserInv
<1>5. CASE Elsewhere
  <2>0. upsets' \in 0 .. MaxUpsets /\ record' \in Tokens \cup {None}
    BY <1>1, <1>5, Fresh, BoundIsNat DEF Elsewhere, Upset, TypeOK
  <2>1. TypeOK'
    BY <1>1, <1>5, <2>0 DEF Elsewhere, TypeOK, auth, bell
  <2> QED
    BY <1>2, <1>5, <2>1 DEF Elsewhere, auth, BrowserInv
<1>6. ASSUME NEW n \in Notes, Notify(n)
      PROVE  BrowserInv'
  <2>1. TypeOK'
    BY <1>1, <1>6 DEF Notify, TypeOK, auth, bell, bounds
  <2> QED
    BY <1>2, <1>6, <2>1 DEF Notify, auth, bounds, BrowserInv
<1>7. ASSUME NEW n \in Notes, ReadElsewhere(n)
      PROVE  BrowserInv'
  <2>1. TypeOK'
    BY <1>1, <1>7, BoundIsNat DEF ReadElsewhere, Upset, TypeOK, auth, bell
  <2> QED
    BY <1>2, <1>7, <2>1 DEF ReadElsewhere, auth, BrowserInv
<1>8. CASE UNCHANGED vars
  <2>1. TypeOK'
    BY <1>1, <1>8 DEF TypeOK, vars, auth, bell, server, bounds
  <2> QED
    BY <1>2, <1>8, <2>1 DEF vars, auth, server, bounds, BrowserInv
<1> QED
  BY <1>3, <1>4, <1>5, <1>6, <1>7, <1>8

LEMMA SendingKeeps ==
    ASSUME BrowserInv,
           \/ \E c \in PollCalls : Poll(c)
           \/ \E c \in UserCalls : \/ Open(c) \/ MarkAllAsRead(c)
                                   \/ \E n \in Notes : MarkAsRead(c, n)
    PROVE  BrowserInv'
<1>1. loading \in BOOLEAN
  BY DEF BrowserInv, TypeOK
<1>2. ASSUME NEW c \in PollCalls, Poll(c)
      PROVE  BrowserInv'
  BY <1>1, <1>2, BellSends DEF Poll, BellKinds, bell
<1>3. ASSUME NEW c \in UserCalls, Open(c)
      PROVE  BrowserInv'
  BY <1>3, BellSends DEF Open, BellKinds
<1>4. ASSUME NEW c \in UserCalls, MarkAllAsRead(c)
      PROVE  BrowserInv'
  BY <1>1, <1>4, BellSends DEF MarkAllAsRead, BellKinds, bell
<1>5. ASSUME NEW c \in UserCalls, NEW n \in Notes, MarkAsRead(c, n)
      PROVE  BrowserInv'
  BY <1>1, <1>5, BellSends DEF MarkAsRead, BellKinds, bell
<1> QED
  BY <1>2, <1>3, <1>4, <1>5

LEMMA BrowserInvariance ==
    ASSUME BrowserInv, [Next]_vars
    PROVE  BrowserInv'
<1>1. ASSUME NEW c \in Calls, Serve(c)
      PROVE  BrowserInv'
  BY <1>1, ServeAuthenticatedKeeps, ServeRefreshKeeps, ServeLoginKeeps, ServeLogoutKeeps DEF Serve
<1>2. ASSUME NEW c \in Calls, Deliver(c)
      PROVE  BrowserInv'
  BY <1>2, AwaitRefreshKeeps, SettleRefreshKeeps, SettleProfileKeeps, SettleLoginKeeps,
     SettleLogoutKeeps, SettleBellKeeps DEF Deliver
<1> QED
  BY <1>1, <1>2, LoseKeeps, AroundKeeps, SendingKeeps, LogoutKeeps, LogInKeeps DEF Next

LEMMA BrowserStarts == Init => BrowserInv
<1> SUFFICES ASSUME Init
             PROVE  BrowserInv
  OBVIOUS
<1>1. PICK c \in UserCalls :
          call = [d \in Calls |-> IF d = c THEN Sent("profile", None, FALSE) ELSE Idle]
  BY DEF Init
<1> DEFINE q == Sent("profile", None, FALSE)
<1>2. OneToken \in Tokens /\ OtherToken \in Tokens
  <2>1. IsFiniteSet({OneToken}) /\ Cardinality({OneToken}) = 1
    BY FS_Singleton
  <2>2. \E t \in Tokens : t # OneToken
    <3>1. SUFFICES ASSUME Tokens \subseteq {OneToken}
                   PROVE  FALSE
      OBVIOUS
    <3>2. IsFiniteSet(Tokens) /\ Cardinality(Tokens) <= 1
      BY <2>1, <3>1, FS_Subset
    <3>3. Cardinality(Tokens) \in Nat /\ Cardinality(Calls) \in Nat
      BY <3>2, BrowserFinite, FS_CardinalityType
    <3> QED
      BY <3>2, <3>3, EnoughTokens
  <2> QED
    BY <2>2 DEF OneToken, OtherToken
<1>3. q \in Call /\ q.kind = "profile" /\ q.stage = "sent"
  BY <1>2 DEF Sent, Call, Init, Kinds
<1> HIDE DEF q
<1>4. c \in Calls /\ c \notin RefreshCalls /\ call[c] = q /\ \A d \in Calls \ {c} : call[d] = Idle
  BY <1>1, RefreshesApart DEF Calls, q
<1>5. CallTypeOK
  BY <1>1, <1>3 DEF CallTypeOK, q
<1>6. TypeOK
  <2>1. 0 \in 0 .. Cardinality(Notes)
    BY BrowserFinite, FS_CardinalityType
  <2> QED
    <3>1. upsets \in 0 .. MaxUpsets
      BY BoundIsNat DEF Init
    <3>2. jar \in Tokens \cup {None} /\ record \in Tokens \cup {None}
      BY <1>2 DEF Init
    <3>3. badge = 0 /\ list = {} /\ loading = FALSE /\ made = {} /\ unread = {}
             /\ undisturbed \in BOOLEAN /\ access \in Access /\ user = "loading"
             /\ refreshPromise = None
      BY DEF Init
    <3> QED
      BY <1>5, <2>1, <3>1, <3>2, <3>3 DEF TypeOK, CallTypeOK
<1>7. SingleFlight
  <2>1. None \notin RefreshCalls /\ \A r \in RefreshCalls : r \in Calls \ {c}
    BY <1>4, NoneIsNone DEF Calls
  <2> QED
    BY <1>3, <1>4, <2>1, Shapes DEF SingleFlight, Init
<1>8. undisturbed => Undisturbed
  <2>1. \A d \in Calls : ~Renewing(d)
    BY <1>3, <1>4, Shapes DEF Renewing
  <2>2. undisturbed => TokenInHand
    BY <2>1 DEF Init, TokenInHand
  <2>3. RefreshGoesWell
    BY <1>4 DEF RefreshGoesWell, Calls
  <2>4. Phases
    BY <1>3, <1>4 DEF Phases, Init
  <2> QED
    BY <2>2, <2>3, <2>4 DEF Undisturbed
<1> QED
  BY <1>6, <1>7, <1>8 DEF BrowserInv

LEMMA BrowserAlways == Spec => []BrowserInv
  BY BrowserStarts, BrowserInvariance, PTL DEF Spec

\* Whatever is lost, expires or overtakes what, the tab's state keeps its types:
\* the unread count of NotificationBell.tsx:76-96 never leaves what can be
\* counted, and every promise of apiClient.ts:24-48 is one of a known refresh.
THEOREM SessionTypeCorrect == Spec => []TypeOK
  BY BrowserAlways, PTL DEF BrowserInv

\* refreshPromise (apiClient.ts:24-57) does its work: however many calls find
\* the access token expired, in a session nobody else touches no refresh is
\* answered 401 or 403, so none of them logs the user out.
THEOREM RefreshesShared == Spec => []RefreshIsNeverRefused
<1>1. BrowserInv => RefreshIsNeverRefused
  BY DEF BrowserInv, Undisturbed, RefreshGoesWell, RefreshIsNeverRefused
<1> QED
  BY BrowserAlways, <1>1, PTL

-----------------------------------------------------------------------------
(* AdminDashboard.  The inductive invariant has three parts: about spinners,  *)
(* about pages, and about what is right now or will be put right.            *)

\* Only a change of an account is refused.
RefusalsChange == \A k \in DOMAIN answers : ~answers[k].ok => Changes(answers[k].req)
SpinnerInv == SpinnerHasRequest /\ RefusalsChange

\* The offset of a page of the list.
InList(o, a) == o = 0 \/ o < Cardinality(Existing(a))
\* Until an account is removed, the pages that are named, asked for and answered
\* are pages of lists that have only grown since.
PagingInv ==
    /\ \A k \in DOMAIN answers :
           answers[k].req.kind = "delete" /\ answers[k].ok => "removed" \in mishaps
    /\ "removed" \notin mishaps =>
           /\ InList(offset, accounts)
           /\ shown.total <= Cardinality(Existing(accounts))
           /\ shown.total > 0 => DOMAIN shown.users # {}
           /\ \A k \in DOMAIN sent :
                  sent[k].req.kind = "users" => InList(sent[k].req.offset, accounts)
           /\ \A k \in DOMAIN answers :
                  /\ Existing(answers[k].of) \subseteq Existing(accounts)
                  /\ answers[k].req.kind = "users" => InList(answers[k].req.offset, answers[k].of)

\* Nothing has disturbed the page, and nothing under way will.
Calm ==
    /\ "disturbed" \notin mishaps
    /\ \A k \in DOMAIN sent : ~sent[k].overtaken
    /\ \A k \in DOMAIN answers : ~answers[k].overtaken

Fetches(p, q) == p \in PanelsOf(q.kind)
Refetches(p, q) == q.kind = "delete" \/ (q.kind = "role" /\ p = "stats")

\* Whatever the k-th answer puts into panel p (the 0-th is what p shows already)
\* will be replaced: by an answer behind it, by one not given yet, or by one that
\* a handler will ask for.
Superseded(p, k) ==
    \/ \E l \in DOMAIN sent : Fetches(p, sent[l].req)
    \/ \E l \in DOMAIN answers : answers[l].ok /\ Refetches(p, answers[l].req)
    \/ \E l \in DOMAIN answers : l > k /\ Fetches(p, answers[l].req)

ResentAfter(p, k) == \E l \in DOMAIN sent : l > k /\ Fetches(p, sent[l].req)

\* The row of account e will be patched after the k-th answer has been used.
RoleAfter(e, k) ==
    \E l \in DOMAIN answers :
        l > k /\ answers[l].ok /\ answers[l].req.kind = "role" /\ answers[l].req.id = e

OffsetOf(q) == IF q.kind = "users" THEN q.offset ELSE 0
RangeRight(days) == days = rangeDays \/ "removed" \in mishaps

\* Each answer, each request and each panel is right about the accounts and about
\* what the page has selected since, or superseded.
StatsAnswered ==
    \A k \in DOMAIN answers : Fetches("stats", answers[k].req) =>
        Counts(answers[k].of) = Counts(accounts) \/ Superseded("stats", k)

StatsShown == shown.stats = {Counts(accounts)} \/ Superseded("stats", 0)

RangesSent ==
    \A k \in DOMAIN sent : Fetches("analytics", sent[k].req) =>
        RangeRight(sent[k].req.days) \/ ResentAfter("analytics", k)

ChartsAnswered ==
    \A k \in DOMAIN answers : Fetches("analytics", answers[k].req) =>
        \/ Existing(answers[k].of) = Existing(accounts) /\ RangeRight(answers[k].req.days)
        \/ Superseded("analytics", k)

ChartsShown ==
    \A x \in shown.analytics :
        \/ x.of = Existing(accounts) /\ RangeRight(x.days)
        \/ Superseded("analytics", 0)

OffsetsSent ==
    \A k \in DOMAIN sent : Fetches("users", sent[k].req) =>
        OffsetOf(sent[k].req) = offset \/ ResentAfter("users", k)

RowsAnswered ==
    \A k \in DOMAIN answers : Fetches("users", answers[k].req) =>
        \/ /\ OffsetOf(answers[k].req) = offset
           /\ Existing(answers[k].of) = Existing(accounts)
           /\ \A e \in Existing(accounts) :
                  answers[k].of[e] = accounts[e] \/ RoleAfter(e, k)
        \/ Superseded("users", k)

RolesAnswered ==
    \A k \in DOMAIN answers : answers[k].ok /\ answers[k].req.kind = "role" =>
        \/ answers[k].req.role = accounts[answers[k].req.id]
        \/ RoleAfter(answers[k].req.id, k)
        \/ Superseded("users", k)

ListShown ==
    \/ /\ shown.total = Cardinality(Existing(accounts))
       /\ DOMAIN shown.users = DOMAIN PageOf(accounts, offset)
       /\ \A e \in DOMAIN shown.users :
              shown.users[e] = accounts[e] \/ RoleAfter(e, 0)
    \/ Superseded("users", 0)

FollowInv ==
    Calm =>
        /\ StatsAnswered /\ StatsShown
        /\ RangesSent /\ ChartsAnswered /\ ChartsShown
        /\ "turned" \notin mishaps =>
               OffsetsSent /\ RowsAnswered /\ RolesAnswered /\ ListShown

-----------------------------------------------------------------------------
LEMMA DashboardNats ==
    /\ MaxAccounts \in Nat /\ MaxAccounts > 0 /\ Limit \in Nat /\ Limit > 0
    /\ MaxInFlight \in Nat /\ Self \in Ids
    /\ Absent \notin Roles /\ Gone \notin Roles /\ "user" \in Roles /\ "admin" \in Roles
<1>1. MaxAccounts \in Nat \ {0} /\ Limit \in Nat \ {0} /\ MaxInFlight \in Nat \ {0}
  BY BoundsPositive
<1> QED
  BY <1>1, RolesKnown DEF Ids, Self

LEMMA RequestFields ==
    ASSUME NEW q \in Request
    PROVE  /\ q.kind \in {"overview", "analytics", "users", "stats", "role", "delete"}
           /\ q.kind \in {"overview", "analytics"} => q.days \in Ranges
           /\ q.kind \in {"users", "delete"} => q.offset \in Nat
           /\ q.kind \in {"role", "delete"} => q.id \in Ids
           /\ q.kind = "role" => q.role \in Roles
  BY DEF Request

LEMMA PanelsFilled ==
    ASSUME NEW q \in Request
    PROVE  /\ q.kind = "overview" => PanelsOf(q.kind) = Panels
           /\ q.kind \in Panels => PanelsOf(q.kind) = {q.kind}
           /\ Changes(q) => PanelsOf(q.kind) = {}
           /\ PanelsOf(q.kind) \subseteq Panels
           /\ ~Changes(q) => q.kind = "overview" \/ q.kind \in Panels
<1>1. CASE q.kind = "overview"
  BY <1>1 DEF PanelsOf, Panels, Changes
<1>2. CASE q.kind \in Panels
  BY <1>2 DEF PanelsOf, Panels, Changes
<1>3. CASE q.kind \in {"role", "delete"}
  BY <1>3 DEF PanelsOf, Panels, Changes
<1> QED
  BY <1>1, <1>2, <1>3, RequestFields DEF Panels

LEMMA Sends ==
    /\ \A o \in Nat : [kind |-> "users", offset |-> o] \in Request
    /\ [kind |-> "stats"] \in Request
    /\ \A d \in Ranges : [kind |-> "analytics", days |-> d] \in Request
    /\ \A d \in Ranges : [kind |-> "overview", days |-> d] \in Request
    /\ \A i \in Ids, r \in Roles : [kind |-> "role", id |-> i, role |-> r] \in Request
    /\ \A i \in Ids, o \in Nat : [kind |-> "delete", id |-> i, offset |-> o] \in Request
  BY DEF Request

LEMMA Flies ==
    ASSUME NEW q \in Request
    PROVE  Flying(q) \in Going /\ Flying(q).req = q /\ Flying(q).overtaken = FALSE
  BY DEF Flying, Going

LEMMA GoingFields ==
    ASSUME NEW m \in Going
    PROVE  /\ m.req \in Request /\ m.overtaken \in BOOLEAN
           /\ [m EXCEPT !.overtaken = TRUE] \in Going
           /\ [m EXCEPT !.overtaken = TRUE].req = m.req
           /\ [m EXCEPT !.overtaken = TRUE].overtaken = TRUE
  BY DEF Going

LEMMA ComingFields ==
    ASSUME NEW m \in Coming
    PROVE  /\ m.req \in Request /\ m.overtaken \in BOOLEAN /\ m.ok \in BOOLEAN
           /\ m.of \in Accounts
           /\ [m EXCEPT !.overtaken = TRUE] \in Coming
           /\ [m EXCEPT !.overtaken = TRUE].req = m.req
           /\ [m EXCEPT !.overtaken = TRUE].ok = m.ok
           /\ [m EXCEPT !.overtaken = TRUE].of = m.of
           /\ [m EXCEPT !.overtaken = TRUE].overtaken = TRUE
  BY DEF Coming

\* Where the j-th message was before the i-th was taken out.
Before(i, j) == IF j < i THEN j ELSE j + 1

LEMMA RemovedAt ==
    ASSUME NEW S, NEW q \in Seq(S), NEW i \in 1 .. Len(q)
    PROVE  /\ RemoveAt(q, i) \in Seq(S)
           /\ Len(RemoveAt(q, i)) = Len(q) - 1
           /\ \A j \in 1 .. Len(q) - 1 : RemoveAt(q, i)[j] = q[Before(i, j)]
<1> DEFINE a == SubSeq(q, 1, i - 1)
           b == SubSeq(q, i + 1, Len(q))
<1>1. Len(q) \in Nat /\ i \in Nat /\ i >= 1 /\ i <= Len(q)
  OBVIOUS
<1>2. a \in Seq(S) /\ Len(a) = i - 1 /\ \A j \in 1 .. i - 1 : a[j] = q[j]
  BY <1>1
<1>3. b \in Seq(S) /\ Len(b) = Len(q) - i /\ \A j \in 1 .. Len(q) - i : b[j] = q[i + j]
  BY <1>1
<1> HIDE DEF a, b
<1>4. /\ a \o b \in Seq(S) /\ Len(a \o b) = Len(q) - 1
      /\ \A j \in 1 .. Len(q) - 1 : (a \o b)[j] = IF j < i THEN a[j] ELSE b[j - (i - 1)]
  <2>1. Len(a \o b) = Len(a) + Len(b) /\ a \o b \in Seq(S)
    BY <1>2, <1>3, ConcatProperties
  <2>2. \A j \in 1 .. Len(a) + Len(b) :
            (a \o b)[j] = IF j <= Len(a) THEN a[j] ELSE b[j - Len(a)]
    BY <1>2, <1>3, ConcatProperties
  <2>3. Len(a) = i - 1 /\ Len(b) = Len(q) - i
    BY <1>2, <1>3
  <2> HIDE DEF a, b
  <2> QED
    BY <1>1, <2>1, <2>2, <2>3
<1>5. ASSUME NEW j \in 1 .. Len(q) - 1
      PROVE  (a \o b)[j] = q[Before(i, j)]
  <2>1. CASE j < i
    BY <1>1, <1>2, <1>4, <2>1 DEF Before
  <2>2. CASE j >= i
    <3>1. j - (i - 1) \in 1 .. Len(q) - i
      BY <1>1, <2>2
    <3>2. (a \o b)[j] = b[j - (i - 1)]
      BY <1>1, <1>4, <2>2
    <3>3. b[j - (i - 1)] = q[i + (j - (i - 1))]
      BY <1>3, <3>1
    <3> QED
      BY <1>1, <2>2, <3>2, <3>3 DEF Before
  <2>3. i \in Int /\ j \in Int
    BY <1>1
  <2>4. j < i \/ j >= i
    BY <2>3
  <2> QED
    BY <2>1, <2>2, <2>4
<1>6. RemoveAt(q, i) = a \o b
  BY DEF RemoveAt, a, b
<1> QED
  BY <1>4, <1>5, <1>6

LEMMA GoingTakenOut ==
    ASSUME NEW q \in Seq(Going), NEW i \in 1 .. Len(q)
    PROVE  /\ TakeOut(q, i) \in Seq(Going) /\ Len(TakeOut(q, i)) = Len(q) - 1
           /\ \A j \in 1 .. Len(q) - 1 :
                  /\ TakeOut(q, i)[j].req = q[Before(i, j)].req
                  /\ q[Before(i, j)].overtaken => TakeOut(q, i)[j].overtaken
                  /\ j < i /\ Clash(q[j].req, q[i].req) => TakeOut(q, i)[j].overtaken
<1> DEFINE m == [j \in DOMAIN q |-> IF j < i /\ Clash(q[j].req, q[i].req)
                                    THEN [q[j] EXCEPT !.overtaken = TRUE] ELSE q[j]]
<1>1. DOMAIN q = 1 .. Len(q) /\ Len(q) \in Nat /\ \A j \in 1 .. Len(q) : q[j] \in Going
  OBVIOUS
<1>2. \A j \in 1 .. Len(q) :
          /\ m[j] \in Going /\ m[j].req = q[j].req /\ (q[j].overtaken => m[j].overtaken)
          /\ j < i /\ Clash(q[j].req, q[i].req) => m[j].overtaken
  BY <1>1, GoingFields
<1>3. m \in [1 .. Len(q) -> Going]
  BY <1>1, <1>2
<1> HIDE DEF m
<1>4. m \in Seq(Going) /\ Len(m) = Len(q)
  BY <1>1, <1>3
<1>5. \A j \in 1 .. Len(q) - 1 : Before(i, j) \in 1 .. Len(q) /\ (j < i => Before(i, j) = j)
  BY <1>1 DEF Before
<1>6. TakeOut(q, i) = RemoveAt(m, i)
  BY DEF TakeOut, m
<1>7. /\ RemoveAt(m, i) \in Seq(Going) /\ Len(RemoveAt(m, i)) = Len(q) - 1
      /\ \A j \in 1 .. Len(q) - 1 : RemoveAt(m, i)[j] = m[Before(i, j)]
  BY <1>4, RemovedAt
<1>8. ASSUME NEW j \in 1 .. Len(q) - 1
      PROVE  /\ TakeOut(q, i)[j] = m[Before(i, j)]
             /\ Before(i, j) \in 1 .. Len(q) /\ (j < i => Before(i, j) = j)
  BY <1>5, <1>6, <1>7
<1> QED
  BY <1>2, <1>6, <1>7, <1>8

LEMMA ComingTakenOut ==
    ASSUME NEW q \in Seq(Coming), NEW i \in 1 .. Len(q)
    PROVE  /\ TakeOut(q, i) \in Seq(Coming) /\ Len(TakeOut(q, i)) = Len(q) - 1
           /\ \A j \in 1 .. Len(q) - 1 :
                  /\ TakeOut(q, i)[j].req = q[Before(i, j)].req
                  /\ TakeOut(q, i)[j].ok = q[Before(i, j)].ok
                  /\ TakeOut(q, i)[j].of = q[Before(i, j)].of
                  /\ q[Before(i, j)].overtaken => TakeOut(q, i)[j].overtaken
                  /\ j < i /\ Clash(q[j].req, q[i].req) => TakeOut(q, i)[j].overtaken
<1> DEFINE m == [j \in DOMAIN q |-> IF j < i /\ Clash(q[j].req, q[i].req)
                                    THEN [q[j] EXCEPT !.overtaken = TRUE] ELSE q[j]]
<1>1. DOMAIN q = 1 .. Len(q) /\ Len(q) \in Nat /\ \A j \in 1 .. Len(q) : q[j] \in Coming
  OBVIOUS
<1>2. \A j \in 1 .. Len(q) :
          /\ m[j] \in Coming /\ m[j].req = q[j].req /\ (q[j].overtaken => m[j].overtaken)
          /\ m[j].ok = q[j].ok /\ m[j].of = q[j].of
          /\ j < i /\ Clash(q[j].req, q[i].req) => m[j].overtaken
  BY <1>1, ComingFields
<1>3. m \in [1 .. Len(q) -> Coming]
  BY <1>1, <1>2
<1> HIDE DEF m
<1>4. m \in Seq(Coming) /\ Len(m) = Len(q)
  BY <1>1, <1>3
<1>5. \A j \in 1 .. Len(q) - 1 : Before(i, j) \in 1 .. Len(q) /\ (j < i => Before(i, j) = j)
  BY <1>1 DEF Before
<1>6. TakeOut(q, i) = RemoveAt(m, i)
  BY DEF TakeOut, m
<1>7. /\ RemoveAt(m, i) \in Seq(Coming) /\ Len(RemoveAt(m, i)) = Len(q) - 1
      /\ \A j \in 1 .. Len(q) - 1 : RemoveAt(m, i)[j] = m[Before(i, j)]
  BY <1>4, RemovedAt
<1>8. ASSUME NEW j \in 1 .. Len(q) - 1
      PROVE  /\ TakeOut(q, i)[j] = m[Before(i, j)]
             /\ Before(i, j) \in 1 .. Len(q) /\ (j < i => Before(i, j) = j)
  BY <1>5, <1>6, <1>7
<1> QED
  BY <1>2, <1>6, <1>7, <1>8

-----------------------------------------------------------------------------
LEMMA ExistingFinite ==
    ASSUME NEW a
    PROVE  /\ Existing(a) \subseteq Ids /\ IsFiniteSet(Existing(a))
           /\ Cardinality(Existing(a)) \in 0 .. MaxAccounts
<1>1. IsFiniteSet(Ids) /\ Cardinality(Ids) = MaxAccounts
  BY FS_Interval, DashboardNats DEF Ids
<1>2. Existing(a) \subseteq Ids
  BY DEF Existing
<1>3. IsFiniteSet(Existing(a)) /\ Cardinality(Existing(a)) <= MaxAccounts
  BY <1>1, <1>2, FS_Subset
<1>4. Cardinality(Existing(a)) \in Nat
  BY <1>3, FS_CardinalityType
<1> QED
  BY <1>2, <1>3, <1>4, DashboardNats

LEMMA CountsFit ==
    ASSUME NEW a
    PROVE  Counts(a) \in [Roles -> 0 .. MaxAccounts]
<1>1. IsFiniteSet(Ids) /\ Cardinality(Ids) = MaxAccounts
  BY FS_Interval, DashboardNats DEF Ids
<1>2. ASSUME NEW role \in Roles
      PROVE  Cardinality({i \in Ids : a[i] = role}) \in 0 .. MaxAccounts
  <2> DEFINE S == {i \in Ids : a[i] = role}
  <2>1. S \in SUBSET Ids
    OBVIOUS
  <2> HIDE DEF S
  <2>2. IsFiniteSet(S) /\ Cardinality(S) <= MaxAccounts
    BY <1>1, <2>1, FS_Subset
  <2>3. Cardinality(S) \in Nat
    BY <2>2, FS_CardinalityType
  <2> QED
    BY <2>2, <2>3, DashboardNats DEF S
<1> QED
  BY <1>2 DEF Counts

LEMMA PageFits ==
    ASSUME NEW a \in Accounts, NEW o \in Nat
    PROVE  /\ PageOf(a, o) \in Rows
           /\ DOMAIN PageOf(a, o) \subseteq Existing(a)
           /\ \A e \in DOMAIN PageOf(a, o) : PageOf(a, o)[e] = a[e]
<1> DEFINE D == {j \in Existing(a) :
                    LET Newer(i) == Cardinality({k \in Existing(a) : k > i})
                    IN  o <= Newer(j) /\ Newer(j) < o + Limit}
<1>1. D \subseteq Existing(a) /\ PageOf(a, o) = [i \in D |-> a[i]]
  BY DEF PageOf
<1> HIDE DEF D
<1>2. \A i \in Existing(a) : i \in Ids /\ a[i] \in Roles
  BY DEF Existing
<1>3. D \in SUBSET Ids /\ [i \in D |-> a[i]] \in [D -> Roles]
  BY <1>1, <1>2
<1> QED
  BY <1>1, <1>3 DEF Rows

LEMMA MaxOfTwo ==
    ASSUME NEW x \in Int
    PROVE  Max({0, x}) \in {0, x} /\ Max({0, x}) >= 0 /\ Max({0, x}) >= x
<1>1. \E m \in {0, x} : \A y \in {0, x} : m >= y
  <2>1. CASE x >= 0
    BY <2>1
  <2>2. CASE x < 0
    BY <2>2
  <2> QED
    BY <2>1, <2>2
<1>2. Max({0, x}) = CHOOSE m \in {0, x} : \A y \in {0, x} : m >= y
  BY DEF Max
<1>3. Max({0, x}) \in {0, x} /\ \A y \in {0, x} : Max({0, x}) >= y
  BY <1>1, <1>2
<1> QED
  BY <1>3

\* The messages under way, one by one.
LEMMA OnTheWay ==
    ASSUME DashboardTypeOK
    PROVE  /\ DOMAIN sent = 1 .. Len(sent) /\ Len(sent) \in Nat /\ sent \in Seq(Going)
           /\ \A k \in DOMAIN sent :
                  /\ sent[k] \in Going /\ sent[k].req \in Request
                  /\ sent[k].overtaken \in BOOLEAN
           /\ DOMAIN answers = 1 .. Len(answers) /\ Len(answers) \in Nat
           /\ answers \in Seq(Coming)
           /\ \A k \in DOMAIN answers :
                  /\ answers[k] \in Coming /\ answers[k].req \in Request
                  /\ answers[k].of \in Accounts
                  /\ answers[k].ok \in BOOLEAN /\ answers[k].overtaken \in BOOLEAN
<1>1. sent \in Seq(Going) /\ answers \in Seq(Coming)
  BY DEF DashboardTypeOK
<1>2. DOMAIN sent = 1 .. Len(sent) /\ Len(sent) \in Nat
  BY <1>1, LenProperties
<1>3. DOMAIN answers = 1 .. Len(answers) /\ Len(answers) \in Nat
  BY <1>1, LenProperties
<1>4. ASSUME NEW k \in DOMAIN sent
      PROVE  sent[k] \in Going
  BY <1>1, <1>2, ElementOfSeq
<1>5. ASSUME NEW k \in DOMAIN answers
      PROVE  answers[k] \in Coming
  BY <1>1, <1>3, ElementOfSeq
<1> QED
  BY <1>1, <1>2, <1>3, <1>4, <1>5, GoingFields, ComingFields

LEMMA DisplayFields ==
    ASSUME NEW s \in Display
    PROVE  /\ s.users \in Rows /\ s.total \in 0 .. MaxAccounts
           /\ s.stats \subseteq [Roles -> 0 .. MaxAccounts]
           /\ s.analytics \subseteq [days : Ranges, of : SUBSET Ids]
  BY DEF Display

LEMMA RowsShown ==
    ASSUME NEW r \in Rows
    PROVE  DOMAIN r \subseteq Ids /\ \A e \in DOMAIN r : r[e] \in Roles
  BY DEF Rows

\* What each answer puts into the panels.
LEMMA FilledUsers ==
    ASSUME NEW s \in Display, NEW q \in Request, NEW a \in Accounts, q.kind = "users"
    PROVE  /\ Filled(s, q, a) \in Display
           /\ Filled(s, q, a).users = PageOf(a, q.offset)
           /\ Filled(s, q, a).total = Cardinality(Existing(a))
           /\ Filled(s, q, a).stats = s.stats /\ Filled(s, q, a).analytics = s.analytics
<1> DEFINE P == PageOf(a, q.offset)
           n == Cardinality(Existing(a))
           b == [s EXCEPT !.users = P]
<1>1. P \in Rows /\ n \in 0 .. MaxAccounts
  BY PageFits, ExistingFinite, RequestFields
<1>2. Filled(s, q, a) = [b EXCEPT !.total = n]
  BY DEF Filled
<1> HIDE DEF P, n
<1>3. b \in Display /\ b.users = P /\ b.stats = s.stats /\ b.analytics = s.analytics
  BY <1>1 DEF Display
<1> HIDE DEF b
<1>4. LET c == [b EXCEPT !.total = n]
      IN  /\ c \in Display /\ c.users = P /\ c.total = n
          /\ c.stats = s.stats /\ c.analytics = s.analytics
  BY <1>1, <1>3 DEF Display
<1> QED
  BY <1>2, <1>4 DEF P, n

LEMMA FilledStats ==
    ASSUME NEW s \in Display, NEW q \in Request, NEW a \in Accounts, q.kind = "stats"
    PROVE  /\ Filled(s, q, a) \in Display
           /\ Filled(s, q, a).users = s.users /\ Filled(s, q, a).total = s.total
           /\ Filled(s, q, a).stats = {Counts(a)} /\ Filled(s, q, a).analytics = s.analytics
<1> DEFINE C == {Counts(a)}
<1>1. C \in SUBSET [Roles -> 0 .. MaxAccounts]
  BY CountsFit
<1>2. Filled(s, q, a) = [s EXCEPT !.stats = C]
  BY DEF Filled
<1> HIDE DEF C
<1>3. LET c == [s EXCEPT !.stats = C]
      IN  /\ c \in Display /\ c.users = s.users /\ c.total = s.total
          /\ c.stats = C /\ c.analytics = s.analytics
  BY <1>1 DEF Display
<1> QED
  BY <1>2, <1>3 DEF C

LEMMA FilledAnalytics ==
    ASSUME NEW s \in Display, NEW q \in Request, NEW a \in Accounts, q.kind = "analytics"
    PROVE  /\ Filled(s, q, a) \in Display
           /\ Filled(s, q, a).users = s.users /\ Filled(s, q, a).total = s.total
           /\ Filled(s, q, a).stats = s.stats
           /\ Filled(s, q, a).analytics = {[days |-> q.days, of |-> Existing(a)]}
<1> DEFINE C == {[days |-> q.days, of |-> Existing(a)]}
<1>1. C \in SUBSET [days : Ranges, of : SUBSET Ids]
  BY ExistingFinite, RequestFields
<1>2. Filled(s, q, a) = [s EXCEPT !.analytics = C]
  BY DEF Filled
<1> HIDE DEF C
<1>3. LET c == [s EXCEPT !.analytics = C]
      IN  /\ c \in Display /\ c.users = s.users /\ c.total = s.total
          /\ c.stats = s.stats /\ c.analytics = C
  BY <1>1 DEF Display
<1> QED
  BY <1>2, <1>3 DEF C

LEMMA FilledOverview ==
    ASSUME NEW s \in Display, NEW q \in Request, NEW a \in Accounts, q.kind = "overview"
    PROVE  /\ Filled(s, q, a) \in Display
           /\ Filled(s, q, a).users = PageOf(a, 0)
           /\ Filled(s, q, a).total = Cardinality(Existing(a))
           /\ Filled(s, q, a).stats = {Counts(a)}
           /\ Filled(s, q, a).analytics = {[days |-> q.days, of |-> Existing(a)]}
<1> DEFINE P == PageOf(a, 0)
           n == Cardinality(Existing(a))
           C == {Counts(a)}
           X == {[days |-> q.days, of |-> Existing(a)]}
<1>1. P \in Rows /\ n \in 0 .. MaxAccounts
  BY PageFits, ExistingFinite
<1>2. C \in SUBSET [Roles -> 0 .. MaxAccounts] /\ X \in SUBSET [days : Ranges, of : SUBSET Ids]
  BY CountsFit, ExistingFinite, RequestFields
<1>3. Filled(s, q, a) = [users |-> P, total |-> n, stats |-> C, analytics |-> X]
  BY DEF Filled
<1> HIDE DEF P, n, C, X
<1>4. [users |-> P, total |-> n, stats |-> C, analytics |-> X] \in Display
  BY <1>1, <1>2 DEF Display
<1> QED
  BY <1>3, <1>4 DEF P, n, C, X

LEMMA FetchesFill ==
    ASSUME NEW s \in Display, NEW q \in Request, NEW a \in Accounts, ~Changes(q)
    PROVE  Filled(s, q, a) \in Display
  BY FilledUsers, FilledStats, FilledAnalytics, FilledOverview, RequestFields DEF Changes

LEMMA RowPatched ==
    ASSUME DashboardTypeOK, NEW q \in Request, q.kind = "role", PatchRow(q)
    PROVE  /\ shown' \in Display
           /\ shown'.total = shown.total /\ shown'.stats = shown.stats
           /\ shown'.analytics = shown.analytics
           /\ DOMAIN shown'.users = DOMAIN shown.users
           /\ \A e \in DOMAIN shown.users :
                  shown'.users[e] = IF e = q.id THEN q.role ELSE shown.users[e]
<1> DEFINE r == [u \in DOMAIN shown.users |-> IF u = q.id THEN q.role ELSE shown.users[u]]
<1>1. DOMAIN shown.users \subseteq Ids /\ \A e \in DOMAIN shown.users : shown.users[e] \in Roles
  BY DisplayFields, RowsShown DEF DashboardTypeOK
<1>2. r \in [DOMAIN shown.users -> Roles]
  BY <1>1, RequestFields
<1>3. r \in Rows
  BY <1>1, <1>2 DEF Rows
<1>4. shown \in Display /\ shown' = [shown EXCEPT !.users = r]
  BY DEF DashboardTypeOK, PatchRow
<1>5. \A e \in DOMAIN shown.users : r[e] = IF e = q.id THEN q.role ELSE shown.users[e]
  OBVIOUS
<1>6. DOMAIN r = DOMAIN shown.users
  OBVIOUS
<1> HIDE DEF r
<1>7. /\ shown' \in Display /\ shown'.users = r
      /\ shown'.total = shown.total /\ shown'.stats = shown.stats
      /\ shown'.analytics = shown.analytics
  BY <1>3, <1>4 DEF Display
<1> QED
  BY <1>5, <1>6, <1>7

-----------------------------------------------------------------------------
LEMMA SendingTypes ==
    ASSUME DashboardTypeOK, NEW q \in Request, SendRequest(q)
    PROVE  /\ accounts' \in Accounts /\ sent' \in Seq(Going) /\ answers' \in Seq(Coming)
           /\ shown' \in Display /\ spinning' \subseteq Panels /\ mishaps' \subseteq Mishaps
<1>1. sent' \in Seq(Going)
  <2>1. Flying(q) \in Going /\ sent \in Seq(Going) /\ sent' = Append(sent, Flying(q))
    BY Flies DEF DashboardTypeOK, SendRequest
  <2> QED
    BY <2>1
<1>2. spinning' \subseteq Panels
  BY PanelsFilled DEF DashboardTypeOK, SendRequest
<1> QED
  BY <1>1, <1>2 DEF DashboardTypeOK, SendRequest

LEMMA ClickTypes ==
    ASSUME DashboardTypeOK, Click
    PROVE  DashboardTypeOK'
<1>1. ASSUME NEW days \in Ranges, PickRange(days)
      PROVE  DashboardTypeOK'
  BY <1>1, Sends, SendingTypes DEF DashboardTypeOK, PickRange
<1>2. ASSUME NEW o \in Nat, TurnTo(o)
      PROVE  DashboardTypeOK'
  BY <1>2, Sends, SendingTypes DEF DashboardTypeOK, TurnTo
<1>3. CASE NextPage
  <2>1. offset + Limit \in Nat
    BY DashboardNats DEF DashboardTypeOK
  <2> QED
    BY <1>2, <1>3, <2>1 DEF NextPage
<1>4. CASE PreviousPage
  <2>1. Max({0, offset - Limit}) \in Nat
    <3>1. offset - Limit \in Int
      BY DashboardNats DEF DashboardTypeOK
    <3> QED
      BY <3>1, MaxOfTwo
  <2> QED
    BY <1>2, <1>4, <2>1 DEF PreviousPage
<1>5. \A i : Shows(i) => i \in Ids
  BY DisplayFields, RowsShown DEF Shows, DashboardTypeOK
<1>6. ASSUME NEW i \in Ids, ClickDelete(i)
      PROVE  DashboardTypeOK'
  BY <1>6 DEF ClickDelete, Ask, DashboardTypeOK
<1>7. ASSUME NEW i \in Ids, NEW role \in Roles, SelectRole(i, role)
      PROVE  DashboardTypeOK'
  BY <1>7, Sends, SendingTypes DEF DashboardTypeOK, SelectRole
<1>8. CASE ClickCancel
  BY <1>8 DEF ClickCancel, Ask, DashboardTypeOK
<1>9. CASE ClickConfirm
  BY <1>5, <1>9, Sends, SendingTypes DEF DashboardTypeOK, ClickConfirm
<1> QED
  BY <1>1, <1>3, <1>4, <1>6, <1>7, <1>8, <1>9 DEF Click

\* What serving a request does, in the terms the other lemmas use.
LEMMA Serving ==
    ASSUME DashboardTypeOK, NEW i \in DOMAIN sent, ServeRequest(i)
    PROVE  /\ accounts' \in Accounts
           /\ \E m \in Coming :
                  /\ answers' = Append(answers, m)
                  /\ m.req = sent[i].req /\ m.overtaken = sent[i].overtaken
                  /\ m.of = accounts'
                  /\ m.ok <=> (Changes(m.req) => accounts[m.req.id] \in Roles)
                  /\ ~(m.ok /\ Changes(m.req)) => accounts' = accounts
                  /\ m.ok /\ m.req.kind = "role" =>
                         accounts' = [accounts EXCEPT ![m.req.id] = m.req.role]
                  /\ m.ok /\ m.req.kind = "delete" =>
                         accounts' = [accounts EXCEPT ![m.req.id] = Gone]
                  /\ mishaps' = IF m.ok /\ m.req.kind = "delete" THEN mishaps \cup {"removed"}
                                                                ELSE mishaps
           /\ sent' = TakeOut(sent, i) /\ UNCHANGED page
<1> DEFINE q == sent[i].req
           found == Changes(q) => accounts[q.id] \in Roles
           m == [req |-> q, overtaken |-> sent[i].overtaken, ok |-> found, of |-> accounts']
<1>1. sent[i] \in Going /\ q \in Request /\ sent[i].overtaken \in BOOLEAN
  BY OnTheWay
<1>2. accounts' = IF Changes(q) /\ found
                  THEN [accounts EXCEPT ![q.id] = IF q.kind = "role" THEN q.role ELSE Gone]
                  ELSE accounts
  BY DEF ServeRequest
<1>3. accounts' \in Accounts
  BY <1>1, <1>2, RequestFields DEF DashboardTypeOK, Accounts, Changes
<1>4. answers' = Append(answers, m)
  BY <1>2 DEF ServeRequest
<1>5. mishaps' = IF q.kind = "delete" /\ found THEN mishaps \cup {"removed"} ELSE mishaps
  BY DEF ServeRequest
<1>6. sent' = TakeOut(sent, i) /\ UNCHANGED page
  BY DEF ServeRequest
<1>7. m.req = q /\ m.overtaken = sent[i].overtaken /\ (m.ok <=> found) /\ m.of = accounts'
  OBVIOUS
<1> HIDE DEF q, found
<1>8. found \in BOOLEAN
  BY DEF found
<1>9. m \in Coming
  BY <1>1, <1>3, <1>8 DEF Coming
<1> HIDE DEF m
<1>10. /\ found /\ q.kind = "role" => accounts' = [accounts EXCEPT ![q.id] = q.role]
       /\ found /\ q.kind = "delete" => accounts' = [accounts EXCEPT ![q.id] = Gone]
       /\ ~(found /\ Changes(q)) => accounts' = accounts
  BY <1>2 DEF Changes
<1>11. m.req = sent[i].req /\ (found <=> (Changes(q) => accounts[q.id] \in Roles))
  BY <1>7 DEF q, found
<1> QED
  BY <1>3, <1>4, <1>5, <1>6, <1>7, <1>9, <1>10, <1>11

LEMMA ServingTypes ==
    ASSUME DashboardTypeOK, NEW i \in DOMAIN sent, ServeRequest(i)
    PROVE  DashboardTypeOK'
<1>1. i \in 1 .. Len(sent) /\ sent \in Seq(Going) /\ answers \in Seq(Coming)
  BY DEF DashboardTypeOK
<1>2. TakeOut(sent, i) \in Seq(Going)
  BY <1>1, GoingTakenOut
<1>3. PICK m \in Coming :
          /\ answers' = Append(answers, m)
          /\ mishaps' \subseteq mishaps \cup {"removed"}
  BY Serving
<1>4. answers' \in Seq(Coming)
  BY <1>1, <1>3
<1> QED
  BY <1>2, <1>3, <1>4, Serving DEF DashboardTypeOK, page, Mishaps

LEMMA ConsumingTypes ==
    ASSUME DashboardTypeOK, NEW i \in DOMAIN answers, NEW more \in SUBSET Mishaps,
           Consume(i, more)
    PROVE  answers' \in Seq(Coming) /\ mishaps' \subseteq Mishaps
<1>1. i \in 1 .. Len(answers) /\ answers \in Seq(Coming)
  BY DEF DashboardTypeOK
<1> QED
  BY <1>1, ComingTakenOut DEF Consume, DashboardTypeOK, Mishaps

LEMMA SettlingTypes ==
    ASSUME DashboardTypeOK, NEW i \in DOMAIN answers, SettleAnswer(i)
    PROVE  DashboardTypeOK'
<1>1. /\ answers[i] \in Coming /\ answers[i].req \in Request /\ answers[i].of \in Accounts
      /\ i \in 1 .. Len(answers) /\ answers \in Seq(Coming) /\ sent \in Seq(Going)
  BY OnTheWay
<1>2. CASE SettleFetch(i)
  <2>1. shown' \in Display
    BY <1>1, <1>2, FetchesFill DEF SettleFetch, DashboardTypeOK
  <2> QED
    BY <1>2, <2>1, ConsumingTypes DEF SettleFetch, DashboardTypeOK
<1>3. CASE SettleRoleChange(i)
  <2>1. sent' \in Seq(Going)
    <3>1. Flying([kind |-> "stats"]) \in Going
      BY Sends, Flies
    <3> QED
      BY <1>1, <1>3, <3>1 DEF SettleRoleChange
  <2>2. shown' \in Display
    BY <1>1, <1>3, RowPatched DEF SettleRoleChange
  <2> QED
    BY <1>3, <2>1, <2>2, ConsumingTypes DEF SettleRoleChange, DashboardTypeOK, Panels
<1>4. CASE SettleDelete(i)
  <2> DEFINE a == Flying([kind |-> "users", offset |-> PageToRefetch(answers[i].req)])
             b == Flying([kind |-> "stats"])
             c == Flying([kind |-> "analytics", days |-> DefaultDays])
  <2>1. a \in Going /\ b \in Going /\ c \in Going
    BY <1>1, <1>4, Sends, Flies, RequestFields, DefaultOffered DEF PageToRefetch, SettleDelete
  <2>2. sent' = sent \o <<a, b, c>>
    BY <1>4 DEF SettleDelete
  <2> HIDE DEF a, b, c
  <2>3. sent' \in Seq(Going)
    <3>1. <<a, b, c>> \in Seq(Going)
      BY <2>1
    <3> QED
      BY <1>1, <2>2, <3>1
  <2>4. answers' \in Seq(Coming) /\ mishaps' \subseteq Mishaps
    BY <1>4, ConsumingTypes DEF SettleDelete, Mishaps
  <2> QED
    BY <1>4, <2>3, <2>4 DEF SettleDelete, DashboardTypeOK
<1>5. CASE SettleRefused(i)
  BY <1>5, ConsumingTypes DEF SettleRefused, DashboardTypeOK, page
<1>6. CASE LoseAnswer(i)
  BY <1>1, <1>6, RemovedAt DEF LoseAnswer, Fail, DashboardTypeOK, Mishaps
<1> QED
  BY <1>2, <1>3, <1>4, <1>5, <1>6 DEF SettleAnswer

LEMMA ElsewhereTypes ==
    ASSUME DashboardTypeOK, AccountsChangeElsewhere
    PROVE  DashboardTypeOK'
<1>1. PICK i \in Ids \ {Self}, new \in Roles \cup {Gone} :
          /\ accounts' = [accounts EXCEPT ![i] = new]
          /\ mishaps' = mishaps \cup {"disturbed"} \cup (IF new = Gone THEN {"removed"} ELSE {})
  BY DEF AccountsChangeElsewhere
<1>2. accounts' \in Accounts
  BY <1>1 DEF DashboardTypeOK, Accounts
<1> QED
  BY <1>1, <1>2 DEF AccountsChangeElsewhere, DashboardTypeOK, page, Mishaps

LEMMA LosingTypes ==
    ASSUME DashboardTypeOK, NEW i \in DOMAIN sent, LoseRequest(i)
    PROVE  DashboardTypeOK'
<1>1. i \in 1 .. Len(sent) /\ sent \in Seq(Going)
  BY DEF DashboardTypeOK
<1> QED
  BY <1>1, RemovedAt DEF LoseRequest, Fail, DashboardTypeOK, Mishaps

LEMMA DashboardTypeInvariance ==
    ASSUME DashboardTypeOK, [DashboardNext]_dashboardVars
    PROVE  DashboardTypeOK'
<1>1. CASE UNCHANGED dashboardVars
  BY <1>1 DEF dashboardVars, DashboardTypeOK
<1> QED
  BY <1>1, ClickTypes, ServingTypes, SettlingTypes, ElsewhereTypes, LosingTypes
     DEF DashboardNext

LEMMA DashboardTypeStarts == DashboardInit => DashboardTypeOK
<1> SUFFICES ASSUME DashboardInit PROVE DashboardTypeOK
  OBVIOUS
<1>1. accounts \in Accounts
  BY DEF DashboardInit, Accounts
<1>2. sent \in Seq(Going)
  <2>1. Flying([kind |-> "overview", days |-> DefaultDays]) \in Going
    BY Sends, Flies, DefaultOffered
  <2> QED
    BY <2>1 DEF DashboardInit
<1>3. shown \in Display
  <2>1. <<>> \in Rows
    <3>1. <<>> \in [{} -> Roles]
      OBVIOUS
    <3> QED
      BY <3>1 DEF Rows
  <2> QED
    BY <2>1, DashboardNats DEF DashboardInit, Display
<1> QED
  BY <1>1, <1>2, <1>3, DefaultOffered DEF DashboardInit, DashboardTypeOK

-----------------------------------------------------------------------------
\* Where the k-th message is once the i-th has been taken out.
After(i, k) == IF k < i THEN k ELSE k - 1

LEMMA SendingMoves ==
    ASSUME DashboardTypeOK, NEW q \in Request, SendRequest(q)
    PROVE  /\ DOMAIN sent' = 1 .. Len(sent) + 1
           /\ \A k \in DOMAIN sent : k \in DOMAIN sent' /\ sent'[k] = sent[k]
           /\ Len(sent) + 1 \in DOMAIN sent'
           /\ sent'[Len(sent) + 1].req = q /\ ~sent'[Len(sent) + 1].overtaken
           /\ \A k \in DOMAIN sent' : k \in DOMAIN sent \/ k = Len(sent) + 1
<1>1. Flying(q) \in Going /\ sent' = Append(sent, Flying(q))
  BY Flies DEF SendRequest
<1>2. /\ sent' \in Seq(Going) /\ Len(sent') = Len(sent) + 1
      /\ \A k \in 1 .. Len(sent) : sent'[k] = sent[k]
      /\ sent'[Len(sent) + 1] = Flying(q)
  BY <1>1, OnTheWay
<1>3. DOMAIN sent' = 1 .. Len(sent) + 1
  BY <1>2, LenProperties
<1>4. DOMAIN sent = 1 .. Len(sent) /\ Len(sent) \in Nat
  BY OnTheWay
<1>5. sent'[Len(sent) + 1].req = q /\ ~sent'[Len(sent) + 1].overtaken
  BY <1>2 DEF Flying
<1>6. /\ \A k \in DOMAIN sent : k \in DOMAIN sent' /\ sent'[k] = sent[k]
      /\ Len(sent) + 1 \in DOMAIN sent'
      /\ \A k \in DOMAIN sent' : k \in DOMAIN sent \/ k = Len(sent) + 1
  BY <1>2, <1>3, <1>4
<1> QED
  BY <1>3, <1>5, <1>6

LEMMA ServingMoves ==
    ASSUME DashboardTypeOK, NEW i \in DOMAIN sent, ServeRequest(i)
    PROVE  /\ DOMAIN sent' = 1 .. Len(sent) - 1
           /\ \A k \in DOMAIN sent \ {i} :
                  After(i, k) \in DOMAIN sent' /\ sent'[After(i, k)].req = sent[k].req
           /\ \A j \in DOMAIN sent' :
                  Before(i, j) \in DOMAIN sent \ {i} /\ sent'[j].req = sent[Before(i, j)].req
           /\ DOMAIN answers' = 1 .. Len(answers) + 1
           /\ \A k \in DOMAIN answers : k \in DOMAIN answers' /\ answers'[k] = answers[k]
           /\ Len(answers) + 1 \in DOMAIN answers'
           /\ answers'[Len(answers) + 1].req = sent[i].req
           /\ \A k \in DOMAIN answers' : k \in DOMAIN answers \/ k = Len(answers) + 1
<1>1. i \in 1 .. Len(sent) /\ sent \in Seq(Going) /\ DOMAIN sent = 1 .. Len(sent) /\ Len(sent) \in Nat
  BY OnTheWay
<1>2. sent' = TakeOut(sent, i)
  BY Serving
<1>3. /\ sent' \in Seq(Going) /\ Len(sent') = Len(sent) - 1
      /\ \A j \in 1 .. Len(sent) - 1 : sent'[j].req = sent[Before(i, j)].req
  BY <1>1, <1>2, GoingTakenOut
<1>4. DOMAIN sent' = 1 .. Len(sent) - 1
  BY <1>3, LenProperties
<1>5. PICK m \in Coming : answers' = Append(answers, m) /\ m.req = sent[i].req
  BY Serving
<1>6. /\ answers' \in Seq(Coming) /\ Len(answers') = Len(answers) + 1
      /\ \A k \in 1 .. Len(answers) : answers'[k] = answers[k]
      /\ answers'[Len(answers) + 1] = m
  BY <1>5, OnTheWay
<1>7. DOMAIN answers' = 1 .. Len(answers) + 1
  BY <1>6, LenProperties
<1>8. /\ \A k \in DOMAIN sent \ {i} :
             After(i, k) \in DOMAIN sent' /\ Before(i, After(i, k)) = k
      /\ \A j \in DOMAIN sent' : Before(i, j) \in DOMAIN sent \ {i}
  BY <1>1, <1>4 DEF Before, After
<1>9. \A j \in DOMAIN sent' : sent'[j].req = sent[Before(i, j)].req
  BY <1>3, <1>4
<1> QED
  BY <1>4, <1>5, <1>6, <1>7, <1>8, <1>9, OnTheWay

LEMMA ConsumingMoves ==
    ASSUME DashboardTypeOK, NEW i \in DOMAIN answers, NEW more, Consume(i, more)
    PROVE  /\ DOMAIN answers' = 1 .. Len(answers) - 1
           /\ \A k \in DOMAIN answers \ {i} :
                  /\ After(i, k) \in DOMAIN answers'
                  /\ answers'[After(i, k)].req = answers[k].req
                  /\ answers'[After(i, k)].ok = answers[k].ok
                  /\ answers'[After(i, k)].of = answers[k].of
           /\ \A j \in DOMAIN answers' :
                  /\ Before(i, j) \in DOMAIN answers \ {i}
                  /\ answers'[j].req = answers[Before(i, j)].req
                  /\ answers'[j].ok = answers[Before(i, j)].ok
                  /\ answers'[j].of = answers[Before(i, j)].of
<1>1. /\ i \in 1 .. Len(answers) /\ answers \in Seq(Coming)
      /\ DOMAIN answers = 1 .. Len(answers) /\ Len(answers) \in Nat
  BY OnTheWay
<1>2. answers' = TakeOut(answers, i)
  BY DEF Consume
<1>3. /\ answers' \in Seq(Coming) /\ Len(answers') = Len(answers) - 1
      /\ \A j \in 1 .. Len(answers) - 1 :
             /\ answers'[j].req = answers[Before(i, j)].req
             /\ answers'[j].ok = answers[Before(i, j)].ok
             /\ answers'[j].of = answers[Before(i, j)].of
  BY <1>1, <1>2, ComingTakenOut
<1>4. DOMAIN answers' = 1 .. Len(answers) - 1
  BY <1>3, LenProperties
<1>5. /\ \A k \in DOMAIN answers \ {i} :
             After(i, k) \in DOMAIN answers' /\ Before(i, After(i, k)) = k
      /\ \A j \in DOMAIN answers' : Before(i, j) \in DOMAIN answers \ {i}
  BY <1>1, <1>4 DEF Before, After
<1>6. \A j \in DOMAIN answers' :
          /\ answers'[j].req = answers[Before(i, j)].req
          /\ answers'[j].ok = answers[Before(i, j)].ok
          /\ answers'[j].of = answers[Before(i, j)].of
  BY <1>3, <1>4
<1> QED
  BY <1>4, <1>5, <1>6

LEMMA LosingMoves ==
    ASSUME DashboardTypeOK
    PROVE  /\ \A i \in DOMAIN sent : sent' = RemoveAt(sent, i) =>
                  /\ \A k \in DOMAIN sent \ {i} :
                         After(i, k) \in DOMAIN sent' /\ sent'[After(i, k)] = sent[k]
                  /\ \A j \in DOMAIN sent' :
                         Before(i, j) \in DOMAIN sent /\ sent'[j] = sent[Before(i, j)]
           /\ \A i \in DOMAIN answers : answers' = RemoveAt(answers, i) =>
                  /\ \A k \in DOMAIN answers \ {i} :
                         After(i, k) \in DOMAIN answers' /\ answers'[After(i, k)] = answers[k]
                  /\ \A j \in DOMAIN answers' :
                         Before(i, j) \in DOMAIN answers /\ answers'[j] = answers[Before(i, j)]
<1>1. ASSUME NEW S, NEW q \in Seq(S), NEW i \in 1 .. Len(q), NEW r, r = RemoveAt(q, i)
      PROVE  /\ \A k \in DOMAIN q \ {i} : After(i, k) \in DOMAIN r /\ r[After(i, k)] = q[k]
             /\ \A j \in DOMAIN r : Before(i, j) \in DOMAIN q /\ r[j] = q[Before(i, j)]
  <2>1. /\ r \in Seq(S) /\ Len(r) = Len(q) - 1
        /\ \A j \in 1 .. Len(q) - 1 : r[j] = q[Before(i, j)]
    BY <1>1, RemovedAt
  <2>2. DOMAIN r = 1 .. Len(q) - 1 /\ DOMAIN q = 1 .. Len(q) /\ Len(q) \in Nat
    BY <2>1, LenProperties
  <2>3. /\ \A k \in DOMAIN q \ {i} : After(i, k) \in DOMAIN r /\ Before(i, After(i, k)) = k
        /\ \A j \in DOMAIN r : Before(i, j) \in DOMAIN q
    BY <2>2 DEF Before, After
  <2>4. \A j \in DOMAIN r : r[j] = q[Before(i, j)]
    BY <2>1, <2>2
  <2> QED
    BY <2>3, <2>4
<1> QED
  BY <1>1, OnTheWay

\* A deletion that succeeded fetches everything again.
LEMMA RefetchingMoves ==
    ASSUME DashboardTypeOK, NEW i \in DOMAIN answers, SettleDelete(i)
    PROVE  /\ \A k \in DOMAIN sent : k \in DOMAIN sent' /\ sent'[k] = sent[k]
           /\ \E u, s, a \in DOMAIN sent' :
                  /\ u > Len(sent) /\ s > Len(sent) /\ a > Len(sent)
                  /\ sent'[u].req = [kind |-> "users", offset |-> answers[i].req.offset]
                  /\ sent'[s].req = [kind |-> "stats"]
                  /\ sent'[a].req = [kind |-> "analytics", days |-> DefaultDays]
                  /\ ~sent'[u].overtaken /\ ~sent'[s].overtaken /\ ~sent'[a].overtaken
                  /\ \A k \in DOMAIN sent' : k \in DOMAIN sent \/ k \in {u, s, a}
<1> DEFINE a == Flying([kind |-> "users", offset |-> answers[i].req.offset])
           b == Flying([kind |-> "stats"])
           c == Flying([kind |-> "analytics", days |-> DefaultDays])
<1>1. answers[i].req \in Request /\ answers[i].req.offset \in Nat
  BY OnTheWay, RequestFields DEF SettleDelete
<1>2. a \in Going /\ b \in Going /\ c \in Going
  BY <1>1, Sends, Flies, DefaultOffered
<1>3. sent' = sent \o <<a, b, c>>
  BY DEF SettleDelete, PageToRefetch
<1>4. /\ a.req = [kind |-> "users", offset |-> answers[i].req.offset] /\ ~a.overtaken
      /\ b.req = [kind |-> "stats"] /\ ~b.overtaken
      /\ c.req = [kind |-> "analytics", days |-> DefaultDays] /\ ~c.overtaken
  BY DEF Flying
<1> HIDE DEF a, b, c
<1> DEFINE n == Len(sent)
           r == <<a, b, c>>
<1>5. sent \in Seq(Going) /\ n \in Nat /\ DOMAIN sent = 1 .. n
  BY OnTheWay
<1>6. r \in Seq(Going) /\ Len(r) = 3 /\ r[1] = a /\ r[2] = b /\ r[3] = c
  BY <1>2
<1> HIDE DEF r
<1>7. /\ sent' \in Seq(Going) /\ Len(sent') = n + 3
      /\ \A k \in 1 .. n + 3 : sent'[k] = IF k <= n THEN sent[k] ELSE r[k - n]
  BY <1>3, <1>5, <1>6, ConcatProperties DEF r
<1>8. DOMAIN sent' = 1 .. n + 3
  BY <1>7, LenProperties
<1> HIDE DEF n
<1>9. \A k \in DOMAIN sent : k \in DOMAIN sent' /\ sent'[k] = sent[k]
  BY <1>5, <1>7, <1>8
<1>10. /\ n + 1 \in DOMAIN sent' /\ n + 2 \in DOMAIN sent' /\ n + 3 \in DOMAIN sent'
       /\ n + 1 > n /\ n + 2 > n /\ n + 3 > n
       /\ \A k \in DOMAIN sent' : k \in DOMAIN sent \/ k \in {n + 1, n + 2, n + 3}
  BY <1>5, <1>8
<1>11. sent'[n + 1] = a /\ sent'[n + 2] = b /\ sent'[n + 3] = c
  BY <1>5, <1>6, <1>7
<1>12. \E u, s, d \in DOMAIN sent' :
          /\ u > n /\ s > n /\ d > n
          /\ sent'[u] = a /\ sent'[s] = b /\ sent'[d] = c
          /\ \A k \in DOMAIN sent' : k \in DOMAIN sent \/ k \in {u, s, d}
  BY <1>10, <1>11
<1> QED
  BY <1>4, <1>9, <1>12 DEF n

LEMMA RoleRefetchMoves ==
    ASSUME DashboardTypeOK, NEW i \in DOMAIN answers, SettleRoleChange(i)
    PROVE  /\ DOMAIN sent' = 1 .. Len(sent) + 1
           /\ \A k \in DOMAIN sent : k \in DOMAIN sent' /\ sent'[k] = sent[k]
           /\ Len(sent) + 1 \in DOMAIN sent'
           /\ sent'[Len(sent) + 1].req = [kind |-> "stats"] /\ ~sent'[Len(sent) + 1].overtaken
<1> DEFINE q == [kind |-> "stats"]
<1>1. Flying(q) \in Going /\ sent' = Append(sent, Flying(q))
  BY Sends, Flies DEF SettleRoleChange
<1>2. Flying(q).req = q /\ Flying(q).overtaken = FALSE
  BY DEF Flying
<1> HIDE DEF q
<1>3. /\ sent' \in Seq(Going) /\ Len(sent') = Len(sent) + 1
      /\ \A k \in 1 .. Len(sent) : sent'[k] = sent[k]
      /\ sent'[Len(sent) + 1] = Flying(q)
  BY <1>1, OnTheWay
<1>4. DOMAIN sent' = 1 .. Len(sent) + 1
  BY <1>3, LenProperties
<1> QED
  BY <1>2, <1>3, <1>4, OnTheWay DEF q

-----------------------------------------------------------------------------
(* Every spinner is stopped by an answer that is still to come. *)

Asked(p) == \E k \in DOMAIN sent : p \in PanelsOf(sent[k].req.kind)
Answered(p) == \E k \in DOMAIN answers : p \in PanelsOf(answers[k].req.kind)

LEMMA SpinnerSends ==
    ASSUME DashboardTypeOK, SpinnerInv, NEW q \in Request, SendRequest(q)
    PROVE  SpinnerInv'
<1>1. RefusalsChange'
  BY DEF SpinnerInv, RefusalsChange, SendRequest
<1>2. ASSUME NEW p \in spinning'
      PROVE  Asked(p)' \/ Answered(p)'
  <2>1. CASE p \in PanelsOf(q.kind)
    BY <2>1, SendingMoves DEF Asked
  <2>2. CASE p \in spinning
    BY <2>2, SendingMoves DEF SpinnerInv, SpinnerHasRequest, Asked, Answered, SendRequest
  <2> QED
    BY <2>1, <2>2 DEF SendRequest
<1> QED
  BY <1>1, <1>2 DEF SpinnerInv, SpinnerHasRequest, Asked, Answered

LEMMA SpinnerSettles ==
    ASSUME DashboardTypeOK, SpinnerInv, NEW i \in DOMAIN answers, NEW more, Consume(i, more)
    PROVE  /\ RefusalsChange'
           /\ \A p : Answered(p) /\ p \notin PanelsOf(answers[i].req.kind) => Answered(p)'
<1>1. RefusalsChange'
  BY ConsumingMoves DEF RefusalsChange, SpinnerInv, Changes
<1>2. ASSUME NEW p, Answered(p), p \notin PanelsOf(answers[i].req.kind)
      PROVE  Answered(p)'
  BY <1>2, ConsumingMoves DEF Answered
<1> QED
  BY <1>1, <1>2

LEMMA SpinnerInvariance ==
    ASSUME DashboardTypeOK, SpinnerInv, [DashboardNext]_dashboardVars
    PROVE  SpinnerInv'
<1> USE DEF Asked, Answered
<1>1. CASE UNCHANGED dashboardVars
  BY <1>1 DEF dashboardVars, SpinnerInv, SpinnerHasRequest, RefusalsChange
<1>2. CASE Click
  <2>1. ASSUME NEW i, Ask(i)
        PROVE  SpinnerInv'
    BY <2>1 DEF Ask, SpinnerInv, SpinnerHasRequest, RefusalsChange
  <2>2. ASSUME NEW days \in Ranges, PickRange(days)
        PROVE  SpinnerInv'
    BY <2>2, Sends, SpinnerSends DEF PickRange
  <2>3. ASSUME NEW o \in Nat, TurnTo(o)
        PROVE  SpinnerInv'
    BY <2>3, Sends, SpinnerSends DEF TurnTo
  <2>4. offset + Limit \in Nat /\ Max({0, offset - Limit}) \in Nat
    <3>1. offset - Limit \in Int /\ offset + Limit \in Nat
      BY DashboardNats DEF DashboardTypeOK
    <3> QED
      BY <3>1, MaxOfTwo
  <2>5. NextPage \/ PreviousPage => SpinnerInv'
    BY <2>3, <2>4 DEF NextPage, PreviousPage
  <2>6. ASSUME NEW i \in Ids, NEW role \in Roles, SelectRole(i, role)
        PROVE  SpinnerInv'
    BY <2>6, Sends, SpinnerSends DEF SelectRole
  <2>7. ClickConfirm => SpinnerInv'
    <3>1. \A i : Shows(i) => i \in Ids
      BY DisplayFields, RowsShown DEF Shows, DashboardTypeOK
    <3>2. offset \in Nat
      BY DEF DashboardTypeOK
    <3> QED
      BY <3>1, <3>2, Sends, SpinnerSends DEF ClickConfirm
  <2> QED
    BY <1>2, <2>1, <2>2, <2>5, <2>6, <2>7 DEF Click, ClickDelete, ClickCancel
<1>3. CASE AccountsChangeElsewhere
  BY <1>3 DEF AccountsChangeElsewhere, page, SpinnerInv, SpinnerHasRequest, RefusalsChange
<1>4. ASSUME NEW i \in DOMAIN sent, ServeRequest(i)
      PROVE  SpinnerInv'
  <2>1. RefusalsChange'
    <3>1. PICK m \in Coming : answers' = Append(answers, m) /\ (~m.ok => Changes(m.req))
      BY <1>4, Serving
    <3>2. answers'[Len(answers) + 1] = m
      BY <3>1, OnTheWay
    <3> QED
      BY <1>4, <3>1, <3>2, ServingMoves DEF SpinnerInv, RefusalsChange
  <2>2. ASSUME NEW p \in spinning'
        PROVE  Asked(p)' \/ Answered(p)'
    <3>1. Asked(p) \/ Answered(p)
      BY <1>4, <2>2, Serving DEF page, SpinnerInv, SpinnerHasRequest
    <3>2. CASE Answered(p)
      BY <1>4, <3>2, ServingMoves
    <3>3. ASSUME NEW k \in DOMAIN sent, p \in PanelsOf(sent[k].req.kind)
          PROVE  Asked(p)' \/ Answered(p)'
      <4>1. CASE k = i
        BY <1>4, <3>3, <4>1, ServingMoves
      <4>2. CASE k # i
        BY <1>4, <3>3, <4>2, ServingMoves
      <4> QED
        BY <4>1, <4>2
    <3> QED
      BY <3>1, <3>2, <3>3
  <2> QED
    BY <2>1, <2>2 DEF SpinnerInv, SpinnerHasRequest
<1>5. ASSUME NEW i \in DOMAIN sent, LoseRequest(i)
      PROVE  SpinnerInv'
  <2>1. sent' = RemoveAt(sent, i) /\ answers' = answers
        /\ spinning' = spinning \ PanelsOf(sent[i].req.kind)
    BY <1>5 DEF LoseRequest, Fail
  <2>2. ASSUME NEW p \in spinning'
        PROVE  Asked(p)' \/ Answered(p)'
    BY <2>1, <2>2, LosingMoves DEF SpinnerInv, SpinnerHasRequest
  <2> QED
    BY <2>1, <2>2 DEF SpinnerInv, SpinnerHasRequest, RefusalsChange
<1>6. ASSUME NEW i \in DOMAIN answers, SettleAnswer(i)
      PROVE  SpinnerInv'
  <2>1. CASE SettleFetch(i)
    BY <2>1, SpinnerSettles DEF SettleFetch, SpinnerInv, SpinnerHasRequest
  <2>2. CASE SettleRoleChange(i)
    <3>1. answers[i].req \in Request /\ Changes(answers[i].req) /\ PanelsOf(answers[i].req.kind) = {}
      BY <2>2, OnTheWay, PanelsFilled DEF SettleRoleChange, Changes
    <3>2. RefusalsChange' /\ \A p : Answered(p) => Answered(p)'
      BY <2>2, <3>1, SpinnerSettles DEF SettleRoleChange
    <3>3. \A p : Asked(p) => Asked(p)'
      BY <2>2, RoleRefetchMoves
    <3>4. Asked("stats")'
      <4>1. "stats" \in PanelsOf("stats")
        BY DEF PanelsOf, Panels
      <4>2. PICK k \in DOMAIN sent' : sent'[k].req = [kind |-> "stats"]
        BY <2>2, RoleRefetchMoves
      <4> QED
        BY <4>1, <4>2
    <3> QED
      BY <2>2, <3>2, <3>3, <3>4 DEF SettleRoleChange, SpinnerInv, SpinnerHasRequest
  <2>3. CASE SettleDelete(i)
    <3>1. RefusalsChange'
      BY <2>3, SpinnerSettles DEF SettleDelete
    <3>2. PICK u \in DOMAIN sent', s \in DOMAIN sent', a \in DOMAIN sent' :
              /\ sent'[u].req = [kind |-> "users", offset |-> answers[i].req.offset]
              /\ sent'[s].req = [kind |-> "stats"]
              /\ sent'[a].req = [kind |-> "analytics", days |-> DefaultDays]
      BY <2>3, RefetchingMoves
    <3>3. /\ "users" \in PanelsOf("users") /\ "stats" \in PanelsOf("stats")
          /\ "analytics" \in PanelsOf("analytics")
      BY DEF PanelsOf, Panels
    <3>4. Asked("users")' /\ Asked("stats")' /\ Asked("analytics")'
      BY <3>2, <3>3
    <3> QED
      BY <2>3, <3>1, <3>4 DEF SettleDelete, SpinnerInv, SpinnerHasRequest, Panels
  <2>4. CASE SettleRefused(i)
    <3>1. PanelsOf(answers[i].req.kind) = {}
      BY <2>4, OnTheWay, PanelsFilled DEF SettleRefused, SpinnerInv, RefusalsChange
    <3> QED
      BY <2>4, <3>1, SpinnerSettles DEF SettleRefused, page, SpinnerInv, SpinnerHasRequest
  <2>5. CASE LoseAnswer(i)
    <3>1. answers' = RemoveAt(answers, i) /\ sent' = sent
          /\ spinning' = spinning \ PanelsOf(answers[i].req.kind)
      BY <2>5 DEF LoseAnswer, Fail
    <3>2. ASSUME NEW p \in spinning'
          PROVE  Asked(p)' \/ Answered(p)'
      BY <3>1, <3>2, LosingMoves DEF SpinnerInv, SpinnerHasRequest
    <3>3. RefusalsChange'
      BY <3>1, LosingMoves DEF SpinnerInv, RefusalsChange
    <3> QED
      BY <3>2, <3>3 DEF SpinnerInv, SpinnerHasRequest
  <2> QED
    BY <1>6, <2>1, <2>2, <2>3, <2>4, <2>5 DEF SettleAnswer
<1> QED
  BY <1>1, <1>2, <1>3, <1>4, <1>5, <1>6 DEF DashboardNext

LEMMA SpinnerStarts == DashboardInit => SpinnerInv
<1> SUFFICES ASSUME DashboardInit PROVE SpinnerInv
  OBVIOUS
<1>1. 1 \in DOMAIN sent /\ sent[1].req.kind = "overview"
  <2> DEFINE m == Flying([kind |-> "overview", days |-> DefaultDays])
  <2>1. m.req.kind = "overview"
    BY DEF Flying
  <2>2. sent = <<m>>
    BY DEF DashboardInit
  <2> HIDE DEF m
  <2> QED
    BY <2>1, <2>2
<1>2. PanelsOf("overview") = Panels
  BY DEF PanelsOf, Panels
<1>3. spinning = Panels /\ answers = <<>>
  BY DEF DashboardInit
<1>4. <<>> \in [{} -> {}]
  OBVIOUS
<1>5. DOMAIN answers = {}
  BY <1>3, <1>4
<1> QED
  BY <1>1, <1>2, <1>3, <1>5 DEF SpinnerInv, SpinnerHasRequest, RefusalsChange

-----------------------------------------------------------------------------
(* The administrator pages inside a list that grows. *)

LEMMA CountsGrow ==
    ASSUME NEW a, NEW b, Existing(a) \subseteq Existing(b)
    PROVE  /\ Cardinality(Existing(a)) <= Cardinality(Existing(b))
           /\ \A o \in Nat : InList(o, a) => InList(o, b)
<1>1. Cardinality(Existing(a)) <= Cardinality(Existing(b))
  BY ExistingFinite, FS_Subset
<1>2. Cardinality(Existing(a)) \in Nat /\ Cardinality(Existing(b)) \in Nat
  BY ExistingFinite
<1> QED
  BY <1>1, <1>2 DEF InList

\* The accounts are numbered from the newest: each number below their count is
\* that of one of them, by counting.
LEMMA PageNotEmpty ==
    ASSUME NEW a, NEW o \in Nat, o < Cardinality(Existing(a))
    PROVE  DOMAIN PageOf(a, o) # {}
<1> DEFINE E == Existing(a)
           Newer(i) == {j \in E : j > i}
           n == Cardinality(E)
           f == [i \in E |-> Cardinality(Newer(i))]
<1>1. IsFiniteSet(E) /\ n \in Nat /\ E \subseteq Ids
  BY ExistingFinite
<1>2. ASSUME NEW i \in E
      PROVE  /\ IsFiniteSet(Newer(i)) /\ Cardinality(Newer(i)) \in 0 .. n - 1
  <2>1. Newer(i) \subseteq E \ {i}
    BY <1>1 DEF Ids
  <2>2. IsFiniteSet(E \ {i}) /\ Cardinality(E \ {i}) = n - 1
    BY <1>1, FS_RemoveElement
  <2>3. IsFiniteSet(Newer(i)) /\ Cardinality(Newer(i)) <= n - 1
    BY <2>1, <2>2, FS_Subset
  <2>4. Cardinality(Newer(i)) \in Nat
    BY <2>3, FS_CardinalityType
  <2> HIDE DEF Newer, n
  <2> QED
    BY <1>1, <2>3, <2>4
<1>3. ASSUME NEW i \in E, NEW k \in E, i < k
      PROVE  Cardinality(Newer(k)) < Cardinality(Newer(i))
  <2>1. Newer(k) \subseteq Newer(i) /\ k \in Newer(i) /\ k \notin Newer(k)
    BY <1>1, <1>3 DEF Ids
  <2> HIDE DEF Newer
  <2>2. Newer(k) # Newer(i)
    BY <2>1
  <2>3. Cardinality(Newer(k)) <= Cardinality(Newer(i))
    BY <1>2, <2>1, FS_Subset
  <2>4. Cardinality(Newer(k)) # Cardinality(Newer(i))
    BY <1>2, <2>1, <2>2, FS_Subset
  <2>5. Cardinality(Newer(k)) \in Int /\ Cardinality(Newer(i)) \in Int
    BY <1>2
  <2> QED
    BY <2>3, <2>4, <2>5
<1>4. f \in [E -> 0 .. n - 1]
  BY <1>2
<1>5. ASSUME NEW i \in E, NEW k \in E, f[i] = f[k]
      PROVE  i = k
  <2>1. i \in Int /\ k \in Int
    BY <1>1 DEF Ids
  <2>2. Cardinality(Newer(i)) = Cardinality(Newer(k))
    BY <1>5
  <2>3. Cardinality(Newer(i)) \in Int /\ Cardinality(Newer(k)) \in Int
    BY <1>2
  <2> HIDE DEF Newer
  <2>4. ~(i < k) /\ ~(k < i)
    BY <1>3, <2>2, <2>3
  <2> QED
    BY <2>1, <2>4
<1> HIDE DEF f
<1>6. f \in Injection(E, 0 .. n - 1)
  BY <1>4, <1>5 DEF Injection, IsInjective
<1>7. IsFiniteSet(0 .. n - 1) /\ Cardinality(0 .. n - 1) = n
  <2>1. n - 1 \in Int /\ (0 > n - 1 => n = 0) /\ (n - 1) - 0 + 1 = n
    BY <1>1
  <2> HIDE DEF n
  <2> QED
    BY <2>1, FS_Interval
<1>8. f \in Surjection(E, 0 .. n - 1)
  BY <1>1, <1>6, <1>7, FS_Injection
<1>9. o \in 0 .. n - 1
  BY <1>1
<1>10. PICK i \in E : f[i] = o
  BY <1>8, <1>9 DEF Surjection
<1>11. o <= Cardinality(Newer(i)) /\ Cardinality(Newer(i)) < o + Limit
  BY <1>10, DashboardNats DEF f
<1>12. i \in DOMAIN PageOf(a, o)
  BY <1>11 DEF PageOf
<1> QED
  BY <1>12

LEMMA FetchedPageNotEmpty ==
    ASSUME NEW s \in Display, NEW q \in Request, NEW a \in Accounts,
           q.kind \in {"users", "overview"}, q.kind = "users" => InList(q.offset, a)
    PROVE  /\ Filled(s, q, a).total = Cardinality(Existing(a))
           /\ Filled(s, q, a).total > 0 => DOMAIN Filled(s, q, a).users # {}
<1>1. CASE q.kind = "users"
  <2>1. q.offset \in Nat /\ Cardinality(Existing(a)) \in Nat
    BY <1>1, RequestFields, ExistingFinite
  <2>2. Cardinality(Existing(a)) > 0 => q.offset < Cardinality(Existing(a))
    BY <1>1, <2>1 DEF InList
  <2> QED
    BY <1>1, <2>1, <2>2, FilledUsers, PageNotEmpty
<1>2. CASE q.kind = "overview"
  <2>1. Cardinality(Existing(a)) > 0 => DOMAIN PageOf(a, 0) # {}
    BY ExistingFinite, PageNotEmpty
  <2> QED
    BY <1>2, <2>1, FilledOverview
<1> QED
  BY <1>1, <1>2

LEMMA MishapsStay ==
    ASSUME DashboardTypeOK, [DashboardNext]_dashboardVars
    PROVE  mishaps \subseteq mishaps'
<1>1. CASE UNCHANGED dashboardVars
  BY <1>1 DEF dashboardVars
<1>2. CASE Click
  BY <1>2 DEF Click, PickRange, NextPage, PreviousPage, TurnTo, ClickDelete, ClickCancel, Ask,
              SelectRole, ClickConfirm, SendRequest
<1>3. CASE AccountsChangeElsewhere
  BY <1>3 DEF AccountsChangeElsewhere
<1>4. ASSUME NEW i \in DOMAIN sent, ServeRequest(i)
      PROVE  mishaps \subseteq mishaps'
  BY <1>4, Serving
<1>5. ASSUME NEW i \in DOMAIN sent, LoseRequest(i)
      PROVE  mishaps \subseteq mishaps'
  BY <1>5 DEF LoseRequest
<1>6. ASSUME NEW i \in DOMAIN answers, SettleAnswer(i)
      PROVE  mishaps \subseteq mishaps'
  BY <1>6 DEF SettleAnswer, SettleFetch, SettleRoleChange, SettleDelete, SettleRefused,
              LoseAnswer, Consume
<1> QED
  BY <1>1, <1>2, <1>3, <1>4, <1>5, <1>6 DEF DashboardNext

\* The accounts only grow as long as none is removed.
LEMMA ListGrows ==
    ASSUME DashboardTypeOK, [DashboardNext]_dashboardVars, "removed" \notin mishaps'
    PROVE  Existing(accounts) \subseteq Existing(accounts')
<1>1. CASE accounts' = accounts
  BY <1>1
<1>2. ASSUME NEW i \in Ids, NEW r \in Roles, accounts' = [accounts EXCEPT ![i] = r]
      PROVE  Existing(accounts) \subseteq Existing(accounts')
  BY <1>2 DEF Existing, DashboardTypeOK, Accounts
<1>3. CASE AccountsChangeElsewhere
  <2>1. PICK i \in Ids \ {Self}, new \in Roles \cup {Gone} :
            /\ accounts' = [accounts EXCEPT ![i] = new]
            /\ mishaps' = mishaps \cup {"disturbed"} \cup (IF new = Gone THEN {"removed"} ELSE {})
    BY <1>3 DEF AccountsChangeElsewhere
  <2>2. new \in Roles
    BY <2>1
  <2> QED
    BY <1>2, <2>1, <2>2
<1>4. ASSUME NEW i \in DOMAIN sent, ServeRequest(i)
      PROVE  Existing(accounts) \subseteq Existing(accounts')
  <2>1. PICK m \in Coming :
            /\ ~(m.ok /\ Changes(m.req)) => accounts' = accounts
            /\ m.ok /\ m.req.kind = "role" =>
                   accounts' = [accounts EXCEPT ![m.req.id] = m.req.role]
            /\ mishaps' = IF m.ok /\ m.req.kind = "delete" THEN mishaps \cup {"removed"}
                                                          ELSE mishaps
    BY <1>4, Serving
  <2>2. ~(m.ok /\ m.req.kind = "delete")
    BY <2>1
  <2>3. m.req \in Request
    BY ComingFields
  <2> QED
    BY <1>1, <1>2, <2>1, <2>2, <2>3, RequestFields DEF Changes
<1>5. CASE Click
  BY <1>1, <1>5 DEF Click, PickRange, NextPage, PreviousPage, TurnTo, ClickDelete, ClickCancel,
                    Ask, SelectRole, ClickConfirm, SendRequest
<1>6. ASSUME NEW i \in DOMAIN answers, SettleAnswer(i)
      PROVE  accounts' = accounts
  BY <1>6 DEF SettleAnswer, SettleFetch, SettleRoleChange, SettleDelete, SettleRefused, LoseAnswer
<1>7. ASSUME NEW i \in DOMAIN sent, LoseRequest(i)
      PROVE  accounts' = accounts
  BY <1>7 DEF LoseRequest
<1>8. CASE UNCHANGED dashboardVars
  BY <1>1, <1>8 DEF dashboardVars
<1> QED
  BY <1>1, <1>3, <1>4, <1>5, <1>6, <1>7, <1>8 DEF DashboardNext

-----------------------------------------------------------------------------
LEMMA PagingSends ==
    ASSUME DashboardTypeOK, PagingInv, NEW q \in Request, SendRequest(q),
           offset' \in Nat,
           "removed" \notin mishaps =>
               /\ InList(offset', accounts)
               /\ q.kind = "users" => InList(q.offset, accounts)
    PROVE  PagingInv'
<1>1. answers' = answers /\ accounts' = accounts /\ shown' = shown /\ mishaps' = mishaps
  BY DEF SendRequest
<1>2. ASSUME "removed" \notin mishaps, NEW k \in DOMAIN sent', sent'[k].req.kind = "users"
      PROVE  InList(sent'[k].req.offset, accounts)
  BY <1>2, SendingMoves DEF PagingInv
<1> QED
  BY <1>1, <1>2 DEF PagingInv

LEMMA PagingClicks ==
    ASSUME DashboardTypeOK, PagingInv, Click
    PROVE  PagingInv'
<1>1. ASSUME NEW i, Ask(i)
      PROVE  PagingInv'
  BY <1>1 DEF Ask, PagingInv
<1>2. ASSUME NEW q \in Request, SendRequest(q), q.kind # "users", offset' = offset
      PROVE  PagingInv'
  <2>1. offset' \in Nat /\ ("removed" \notin mishaps => InList(offset', accounts))
    BY <1>2 DEF PagingInv, DashboardTypeOK
  <2> QED
    BY <1>2, <2>1, PagingSends
<1>3. ASSUME NEW days \in Ranges, PickRange(days)
      PROVE  PagingInv'
  BY <1>2, <1>3, Sends DEF PickRange
<1>4. ASSUME NEW o \in Nat, TurnTo(o), "removed" \notin mishaps => InList(o, accounts)
      PROVE  PagingInv'
  <2>1. SendRequest([kind |-> "users", offset |-> o]) /\ offset' = o
    BY <1>4 DEF TurnTo
  <2>2. [kind |-> "users", offset |-> o].offset = o
    OBVIOUS
  <2> QED
    BY <1>4, <2>1, <2>2, PagingSends, Sends
<1>5. offset \in Nat /\ Cardinality(Existing(accounts)) \in Nat /\ shown.total \in Nat
  BY ExistingFinite, DisplayFields, DashboardNats DEF DashboardTypeOK
<1>6. CASE NextPage
  <2>1. offset + Limit \in Nat /\ offset + Limit < shown.total
    BY <1>5, <1>6, DashboardNats DEF NextPage, HasNext
  <2>2. "removed" \notin mishaps => InList(offset + Limit, accounts)
    <3>1. "removed" \notin mishaps => shown.total <= Cardinality(Existing(accounts))
      BY DEF PagingInv
    <3> QED
      BY <1>5, <2>1, <3>1 DEF InList
  <2> QED
    BY <1>4, <1>6, <2>1, <2>2 DEF NextPage
<1>7. CASE PreviousPage
  <2> DEFINE o == Max({0, offset - Limit})
  <2>1. o \in {0, offset - Limit} /\ o >= 0
    <3>1. offset - Limit \in Int
      BY <1>5, DashboardNats
    <3> QED
      BY <3>1, MaxOfTwo
  <2>2. TurnTo(o) /\ offset # 0
    BY <1>7 DEF PreviousPage
  <2> HIDE DEF o
  <2>3. o \in Nat /\ (o = 0 \/ o < offset)
    BY <1>5, <2>1, DashboardNats
  <2>4. "removed" \notin mishaps => InList(o, accounts)
    <3>1. "removed" \notin mishaps => offset < Cardinality(Existing(accounts))
      BY <2>2 DEF PagingInv, InList
    <3> QED
      BY <1>5, <2>3, <3>1 DEF InList
  <2> QED
    BY <1>4, <2>2, <2>3, <2>4
<1>8. ASSUME NEW i \in Ids, NEW role \in Roles, SelectRole(i, role)
      PROVE  PagingInv'
  BY <1>2, <1>8, Sends DEF SelectRole
<1>9. CASE ClickConfirm
  <2>1. \A i : Shows(i) => i \in Ids
    BY DisplayFields, RowsShown DEF Shows, DashboardTypeOK
  <2> QED
    BY <1>2, <1>5, <1>9, <2>1, Sends DEF ClickConfirm
<1> QED
  BY <1>1, <1>3, <1>6, <1>7, <1>8, <1>9 DEF Click, ClickDelete, ClickCancel

LEMMA PagingServes ==
    ASSUME DashboardTypeOK, PagingInv, NEW i \in DOMAIN sent, ServeRequest(i)
    PROVE  PagingInv'
<1>1. PICK m \in Coming :
          /\ answers' = Append(answers, m) /\ m.req = sent[i].req /\ m.of = accounts'
          /\ mishaps' = IF m.ok /\ m.req.kind = "delete" THEN mishaps \cup {"removed"}
                                                        ELSE mishaps
  BY Serving
<1>2. answers'[Len(answers) + 1] = m
  BY <1>1, OnTheWay
<1>3. \A k \in DOMAIN answers' : \/ k \in DOMAIN answers /\ answers'[k] = answers[k]
                                 \/ answers'[k] = m
  BY <1>2, ServingMoves
<1>4. \A k \in DOMAIN answers' :
          answers'[k].req.kind = "delete" /\ answers'[k].ok => "removed" \in mishaps'
  BY <1>1, <1>3 DEF PagingInv
<1>5. ASSUME "removed" \notin mishaps'
      PROVE  /\ InList(offset, accounts') /\ shown.total <= Cardinality(Existing(accounts'))
             /\ shown.total > 0 => DOMAIN shown.users # {}
             /\ \A k \in DOMAIN sent' :
                    sent'[k].req.kind = "users" => InList(sent'[k].req.offset, accounts')
             /\ \A k \in DOMAIN answers' :
                    /\ Existing(answers'[k].of) \subseteq Existing(accounts')
                    /\ answers'[k].req.kind = "users" =>
                           InList(answers'[k].req.offset, answers'[k].of)
  <2>1. "removed" \notin mishaps
    BY <1>1, <1>5
  <2>2. Existing(accounts) \subseteq Existing(accounts')
    BY <1>5, ListGrows DEF DashboardNext
  <2>3. /\ Cardinality(Existing(accounts)) <= Cardinality(Existing(accounts'))
        /\ \A o \in Nat : InList(o, accounts) => InList(o, accounts')
    BY <2>2, CountsGrow
  <2>4. InList(offset, accounts')
    BY <2>1, <2>3 DEF PagingInv, DashboardTypeOK
  <2>5. shown.total <= Cardinality(Existing(accounts'))
    <3>1. shown.total <= Cardinality(Existing(accounts)) /\ shown.total \in Int
      BY <2>1, DisplayFields DEF PagingInv, DashboardTypeOK
    <3>2. Cardinality(Existing(accounts)) \in Int /\ Cardinality(Existing(accounts')) \in Int
      BY ExistingFinite
    <3> QED
      BY <2>3, <3>1, <3>2
  <2>6. \A k \in DOMAIN sent :
            sent[k].req.kind = "users" => InList(sent[k].req.offset, accounts')
    BY <2>1, <2>3, OnTheWay, RequestFields DEF PagingInv
  <2>7. \A k \in DOMAIN sent' :
            sent'[k].req.kind = "users" => InList(sent'[k].req.offset, accounts')
    BY <2>6, ServingMoves
  <2>8. m.req.kind = "users" => InList(m.req.offset, m.of)
    BY <1>1, <2>6
  <2>9. \A k \in DOMAIN answers' :
            /\ Existing(answers'[k].of) \subseteq Existing(accounts')
            /\ answers'[k].req.kind = "users" => InList(answers'[k].req.offset, answers'[k].of)
    BY <1>1, <1>3, <2>1, <2>2, <2>8 DEF PagingInv
  <2> QED
    BY <2>1, <2>4, <2>5, <2>7, <2>9 DEF PagingInv
<1> QED
  BY <1>4, <1>5, Serving DEF PagingInv, page

LEMMA PagingSettles ==
    ASSUME DashboardTypeOK, PagingInv, NEW i \in DOMAIN answers, SettleAnswer(i)
    PROVE  PagingInv'
<1>1. accounts' = accounts /\ offset' = offset
  BY DEF SettleAnswer, SettleFetch, SettleRoleChange, SettleDelete, SettleRefused, LoseAnswer,
         Fail, page
<1>2. mishaps \subseteq mishaps'
  BY MishapsStay DEF DashboardNext
<1>3. \A j \in DOMAIN answers' : \E k \in DOMAIN answers :
          /\ answers'[j].req = answers[k].req /\ answers'[j].ok = answers[k].ok
          /\ answers'[j].of = answers[k].of
  <2>1. CASE \E more : Consume(i, more)
    BY <2>1, ConsumingMoves
  <2>2. CASE LoseAnswer(i)
    BY <2>2, LosingMoves DEF LoseAnswer
  <2> QED
    BY <2>1, <2>2 DEF SettleAnswer, SettleFetch, SettleRoleChange, SettleDelete, SettleRefused
<1>4. \A k \in DOMAIN answers' :
          answers'[k].req.kind = "delete" /\ answers'[k].ok => "removed" \in mishaps'
  BY <1>2, <1>3 DEF PagingInv
<1>5. ASSUME "removed" \notin mishaps'
      PROVE  \A k \in DOMAIN answers' :
                 /\ Existing(answers'[k].of) \subseteq Existing(accounts')
                 /\ answers'[k].req.kind = "users" =>
                        InList(answers'[k].req.offset, answers'[k].of)
  BY <1>1, <1>2, <1>3, <1>5 DEF PagingInv
<1>6. ASSUME "removed" \notin mishaps'
      PROVE  \A k \in DOMAIN sent' :
                 sent'[k].req.kind = "users" => InList(sent'[k].req.offset, accounts')
  <2>1. "removed" \notin mishaps
    BY <1>2, <1>6
  <2>2. CASE sent' = sent
    BY <1>1, <2>1, <2>2 DEF PagingInv
  <2>3. CASE SettleRoleChange(i)
    <3>1. \A k \in DOMAIN sent' : \/ k \in DOMAIN sent /\ sent'[k] = sent[k]
                                  \/ sent'[k].req = [kind |-> "stats"]
      BY <2>3, RoleRefetchMoves, OnTheWay
    <3>2. [kind |-> "stats"].kind # "users"
      OBVIOUS
    <3> QED
      BY <1>1, <2>1, <3>1, <3>2 DEF PagingInv
  <2>4. CASE SettleDelete(i)
    BY <2>1, <2>4 DEF SettleDelete, PagingInv
  <2> QED
    BY <2>2, <2>3, <2>4, <1>1
       DEF SettleAnswer, SettleFetch, SettleRefused, LoseAnswer, page
<1>7. ASSUME "removed" \notin mishaps'
      PROVE  /\ shown'.total <= Cardinality(Existing(accounts))
             /\ shown'.total > 0 => DOMAIN shown'.users # {}
  <2>1. "removed" \notin mishaps
    BY <1>2, <1>7
  <2>2. CASE shown' = shown
    BY <2>1, <2>2 DEF PagingInv
  <2>3. CASE SettleRoleChange(i)
    <3>1. shown'.total = shown.total /\ DOMAIN shown'.users = DOMAIN shown.users
      BY <2>3, OnTheWay, RowPatched DEF SettleRoleChange
    <3> QED
      BY <2>1, <3>1 DEF PagingInv
  <2>4. CASE SettleFetch(i)
    <3> DEFINE q == answers[i].req
               a == answers[i].of
    <3>1. shown \in Display /\ q \in Request /\ a \in Accounts /\ ~Changes(q)
      BY <2>4, OnTheWay DEF SettleFetch, DashboardTypeOK
    <3>2. shown' = Filled(shown, q, a)
      BY <2>4 DEF SettleFetch
    <3>3. Existing(a) \subseteq Existing(accounts) /\ (q.kind = "users" => InList(q.offset, a))
      BY <2>1 DEF PagingInv
    <3> HIDE DEF q, a
    <3>4. CASE q.kind \in {"users", "overview"}
      <4>1. /\ shown'.total = Cardinality(Existing(a))
            /\ shown'.total > 0 => DOMAIN shown'.users # {}
        BY <3>1, <3>2, <3>3, <3>4, FetchedPageNotEmpty
      <4> QED
        BY <3>3, <4>1, CountsGrow
    <3>5. CASE q.kind \in {"stats", "analytics"}
      <4>1. shown'.users = shown.users /\ shown'.total = shown.total
        BY <3>1, <3>2, <3>5, FilledStats, FilledAnalytics
      <4> QED
        BY <2>1, <4>1 DEF PagingInv
    <3> QED
      BY <3>1, <3>4, <3>5, RequestFields DEF Changes
  <2> QED
    BY <2>2, <2>3, <2>4
       DEF SettleAnswer, SettleDelete, SettleRefused, LoseAnswer, Fail, page
<1>8. "removed" \notin mishaps' => InList(offset, accounts)
  BY <1>2 DEF PagingInv
<1> QED
  BY <1>1, <1>4, <1>5, <1>6, <1>7, <1>8 DEF PagingInv

LEMMA PagingElsewhere ==
    ASSUME DashboardTypeOK, PagingInv, AccountsChangeElsewhere
    PROVE  PagingInv'
<1>1. UNCHANGED <<sent, answers, shown, offset>> /\ mishaps \subseteq mishaps'
  BY DEF AccountsChangeElsewhere, page
<1>2. ASSUME "removed" \notin mishaps'
      PROVE  /\ "removed" \notin mishaps /\ Existing(accounts) \subseteq Existing(accounts')
             /\ Cardinality(Existing(accounts)) <= Cardinality(Existing(accounts'))
             /\ \A o \in Nat : InList(o, accounts) => InList(o, accounts')
  BY <1>1, <1>2, ListGrows, CountsGrow DEF DashboardNext
<1>3. /\ Cardinality(Existing(accounts)) \in Int /\ Cardinality(Existing(accounts')) \in Int
      /\ shown.total \in Int /\ offset \in Nat
  BY ExistingFinite, DisplayFields DEF DashboardTypeOK
<1>4. \A k \in DOMAIN sent : sent[k].req.kind = "users" => sent[k].req.offset \in Nat
  BY OnTheWay, RequestFields
<1>5. "removed" \notin mishaps' => shown.total <= Cardinality(Existing(accounts'))
  <2>1. "removed" \notin mishaps' => shown.total <= Cardinality(Existing(accounts))
    BY <1>2 DEF PagingInv
  <2> QED
    BY <1>2, <1>3, <2>1
<1> QED
  BY <1>1, <1>2, <1>3, <1>4, <1>5 DEF PagingInv

LEMMA PagingInvariance ==
    ASSUME DashboardTypeOK, PagingInv, [DashboardNext]_dashboardVars
    PROVE  PagingInv'
<1>1. CASE UNCHANGED dashboardVars
  BY <1>1 DEF dashboardVars, PagingInv
<1>2. ASSUME NEW i \in DOMAIN sent, LoseRequest(i)
      PROVE  PagingInv'
  <2>1. \A j \in DOMAIN sent' : \E k \in DOMAIN sent : sent'[j] = sent[k]
    BY <1>2, LosingMoves DEF LoseRequest
  <2>2. UNCHANGED <<accounts, answers, shown, offset>> /\ mishaps' = mishaps \cup {"disturbed"}
    BY <1>2 DEF LoseRequest, Fail
  <2> QED
    BY <2>1, <2>2 DEF PagingInv
<1> QED
  BY <1>1, <1>2, PagingClicks, PagingServes, PagingSettles, PagingElsewhere DEF DashboardNext

LEMMA PagingStarts == DashboardInit => PagingInv
<1> SUFFICES ASSUME DashboardInit PROVE PagingInv
  OBVIOUS
<1>1. DashboardTypeOK
  BY DashboardTypeStarts
<1> DEFINE m == Flying([kind |-> "overview", days |-> DefaultDays])
<1>2. m.req.kind = "overview"
  BY DEF Flying
<1>3. sent = <<m>>
  BY DEF DashboardInit
<1> HIDE DEF m
<1>4. \A k \in DOMAIN sent : sent[k].req.kind = "overview"
  BY <1>2, <1>3
<1>5. answers = <<>> /\ shown.total = 0 /\ offset = 0
  BY DEF DashboardInit
<1>6. <<>> \in [{} -> {}]
  OBVIOUS
<1>7. DOMAIN answers = {}
  BY <1>5, <1>6
<1> QED
  BY <1>4, <1>5, <1>7, ExistingFinite DEF PagingInv, InList

-----------------------------------------------------------------------------
(* Panels, rows and charts follow the accounts. *)

LEMMA Fetching ==
    ASSUME NEW q \in Request
    PROVE  /\ Fetches("stats", q) <=> q.kind \in {"stats", "overview"}
           /\ Fetches("analytics", q) <=> q.kind \in {"analytics", "overview"}
           /\ Fetches("users", q) <=> q.kind \in {"users", "overview"}
           /\ Changes(q) => \A p : ~Fetches(p, q)
           /\ ~Changes(q) => \A p : ~Refetches(p, q)
<1>1. CASE q.kind = "overview"
  BY <1>1, PanelsFilled DEF Fetches, Refetches, Changes, Panels
<1>2. CASE q.kind \in Panels
  BY <1>2, PanelsFilled DEF Fetches, Refetches, Changes, Panels
<1>3. CASE Changes(q)
  BY <1>3, PanelsFilled DEF Fetches, Changes
<1> QED
  BY <1>1, <1>2, <1>3, PanelsFilled

LEMMA Clashing ==
    ASSUME NEW q \in Request, NEW r \in Request
    PROVE  /\ \A p : Fetches(p, q) /\ Fetches(p, r) => Clash(q, r)
           /\ (q.kind = "role" \/ Fetches("users", q)) /\ (r.kind = "role" \/ Fetches("users", r))
                  => Clash(q, r)
  BY DEF Clash, Fetches, TouchesRows

LEMMA CalmSends ==
    ASSUME DashboardTypeOK, NEW q \in Request, SendRequest(q), Calm'
    PROVE  Calm
  BY SendingMoves DEF Calm, SendRequest

LEMMA CalmServes ==
    ASSUME DashboardTypeOK, NEW i \in DOMAIN sent, ServeRequest(i), Calm'
    PROVE  /\ Calm
           /\ \A k \in DOMAIN sent : k < i => ~Clash(sent[k].req, sent[i].req)
<1>1. /\ i \in 1 .. Len(sent) /\ sent \in Seq(Going) /\ DOMAIN sent = 1 .. Len(sent)
      /\ Len(sent) \in Nat
  BY OnTheWay
<1>2. sent' = TakeOut(sent, i) /\ DOMAIN sent' = 1 .. Len(sent) - 1
  BY Serving, ServingMoves
<1>3. \A j \in DOMAIN sent' :
          /\ sent[Before(i, j)].overtaken => sent'[j].overtaken
          /\ j < i /\ Clash(sent[j].req, sent[i].req) => sent'[j].overtaken
  BY <1>1, <1>2, GoingTakenOut
<1>4. PICK m \in Coming : answers' = Append(answers, m) /\ m.overtaken = sent[i].overtaken
  BY Serving
<1>5. answers'[Len(answers) + 1] = m
  BY <1>4, OnTheWay
<1>6. ~sent[i].overtaken
  BY <1>4, <1>5, ServingMoves DEF Calm
<1>7. ASSUME NEW k \in DOMAIN sent, k # i
      PROVE  ~sent[k].overtaken
  <2>1. After(i, k) \in DOMAIN sent' /\ Before(i, After(i, k)) = k
    BY <1>1, <1>2, <1>7 DEF Before, After
  <2> QED
    BY <1>3, <2>1 DEF Calm
<1>8. ASSUME NEW k \in DOMAIN sent, k < i
      PROVE  ~Clash(sent[k].req, sent[i].req)
  <2>1. k \in DOMAIN sent'
    BY <1>1, <1>2, <1>8
  <2> QED
    BY <1>3, <1>8, <2>1 DEF Calm
<1>9. \A k \in DOMAIN answers : ~answers[k].overtaken
  BY ServingMoves DEF Calm
<1>10. "disturbed" \notin mishaps
  BY MishapsStay DEF Calm, DashboardNext
<1> QED
  BY <1>6, <1>7, <1>8, <1>9, <1>10 DEF Calm

LEMMA CalmSettles ==
    ASSUME DashboardTypeOK, NEW i \in DOMAIN answers, NEW more, Consume(i, more),
           \A k \in DOMAIN sent : k \in DOMAIN sent' /\ sent'[k] = sent[k],
           Calm'
    PROVE  /\ Calm
           /\ \A k \in DOMAIN answers : k < i => ~Clash(answers[k].req, answers[i].req)
<1>1. /\ i \in 1 .. Len(answers) /\ answers \in Seq(Coming)
      /\ DOMAIN answers = 1 .. Len(answers) /\ Len(answers) \in Nat
  BY OnTheWay
<1>2. answers' = TakeOut(answers, i) /\ DOMAIN answers' = 1 .. Len(answers) - 1
  BY ConsumingMoves DEF Consume
<1>3. \A j \in DOMAIN answers' :
          /\ answers[Before(i, j)].overtaken => answers'[j].overtaken
          /\ j < i /\ Clash(answers[j].req, answers[i].req) => answers'[j].overtaken
  BY <1>1, <1>2, ComingTakenOut
<1>4. ~answers[i].overtaken /\ "disturbed" \notin mishaps
  BY DEF Consume, Calm
<1>5. ASSUME NEW k \in DOMAIN answers, k # i
      PROVE  ~answers[k].overtaken
  <2>1. After(i, k) \in DOMAIN answers' /\ Before(i, After(i, k)) = k
    BY <1>1, <1>2, <1>5 DEF Before, After
  <2> QED
    BY <1>3, <2>1 DEF Calm
<1>6. ASSUME NEW k \in DOMAIN answers, k < i
      PROVE  ~Clash(answers[k].req, answers[i].req)
  <2>1. k \in DOMAIN answers'
    BY <1>1, <1>2, <1>6
  <2> QED
    BY <1>3, <1>6, <2>1 DEF Calm
<1>7. \A k \in DOMAIN sent : ~sent[k].overtaken
  BY DEF Calm
<1> QED
  BY <1>4, <1>5, <1>6, <1>7 DEF Calm

LEMMA PageDomain ==
    ASSUME NEW a, NEW b, NEW o, Existing(a) = Existing(b)
    PROVE  DOMAIN PageOf(a, o) = DOMAIN PageOf(b, o)
  BY DEF PageOf

-----------------------------------------------------------------------------
(* What is to come stays to come. *)

LEMMA SupersededSends ==
    ASSUME DashboardTypeOK, NEW q \in Request, SendRequest(q), NEW p
    PROVE  /\ \A k : Superseded(p, k) => Superseded(p, k)'
           /\ Fetches(p, q) => \A k : Superseded(p, k)'
           /\ \A k : ResentAfter(p, k) => ResentAfter(p, k)'
           /\ Fetches(p, q) => \A k \in DOMAIN sent : ResentAfter(p, k)'
           /\ \A e, k : RoleAfter(e, k) => RoleAfter(e, k)'
<1>1. answers' = answers
  BY DEF SendRequest
<1>2. \A k : Superseded(p, k) => Superseded(p, k)'
  BY <1>1, SendingMoves DEF Superseded
<1>3. Fetches(p, q) => \A k : Superseded(p, k)'
  BY SendingMoves DEF Superseded
<1>4. \A k : ResentAfter(p, k) => ResentAfter(p, k)'
  BY SendingMoves DEF ResentAfter
<1>5. \A k \in DOMAIN sent : k < Len(sent) + 1
  BY OnTheWay
<1>6. Fetches(p, q) => \A k \in DOMAIN sent : ResentAfter(p, k)'
  BY <1>5, SendingMoves DEF ResentAfter
<1>7. \A e, k : RoleAfter(e, k) => RoleAfter(e, k)'
  BY <1>1 DEF RoleAfter
<1> QED
  BY <1>2, <1>3, <1>4, <1>6, <1>7

LEMMA SupersededServes ==
    ASSUME DashboardTypeOK, NEW i \in DOMAIN sent, ServeRequest(i), NEW p
    PROVE  LET n == Len(answers) + 1
           IN  /\ \A k \in 0 .. Len(answers) : Superseded(p, k) => Superseded(p, k)'
               /\ answers'[n].ok /\ Refetches(p, sent[i].req) => \A k : Superseded(p, k)'
               /\ \A k : \A l \in DOMAIN sent \ {i} :
                      Fetches(p, sent[l].req) => Superseded(p, k)'
<1>1. /\ Len(answers) \in Nat /\ DOMAIN answers = 1 .. Len(answers)
  BY OnTheWay
<1>2. ASSUME NEW k, NEW l \in DOMAIN sent \ {i}, Fetches(p, sent[l].req)
      PROVE  Superseded(p, k)'
  BY <1>2, ServingMoves DEF Superseded
<1>3. ASSUME NEW k \in 0 .. Len(answers), Fetches(p, sent[i].req)
      PROVE  Superseded(p, k)'
  <2>1. Len(answers) + 1 > k
    BY <1>1
  <2> QED
    BY <1>3, <2>1, ServingMoves DEF Superseded
<1>4. ASSUME NEW k \in 0 .. Len(answers), Superseded(p, k)
      PROVE  Superseded(p, k)'
  <2>1. CASE \E l \in DOMAIN sent : Fetches(p, sent[l].req)
    BY <1>2, <1>3, <2>1
  <2>2. CASE \E l \in DOMAIN answers : answers[l].ok /\ Refetches(p, answers[l].req)
    BY <2>2, ServingMoves DEF Superseded
  <2>3. CASE \E l \in DOMAIN answers : l > k /\ Fetches(p, answers[l].req)
    BY <2>3, ServingMoves DEF Superseded
  <2> QED
    BY <1>4, <2>1, <2>2, <2>3 DEF Superseded
<1>5. answers'[Len(answers) + 1].ok /\ Refetches(p, sent[i].req) => \A k : Superseded(p, k)'
  BY ServingMoves DEF Superseded
<1> QED
  BY <1>2, <1>4, <1>5

LEMMA ResentServes ==
    ASSUME DashboardTypeOK, NEW i \in DOMAIN sent, ServeRequest(i), NEW p,
           NEW k \in DOMAIN sent, ResentAfter(p, k), Fetches(p, sent[k].req),
           \A j \in DOMAIN sent : j < i => ~Clash(sent[j].req, sent[i].req)
    PROVE  /\ k # i => ResentAfter(p, After(i, k))'
           /\ k = i => \E l \in DOMAIN sent \ {i} : Fetches(p, sent[l].req)
<1>1. PICK l \in DOMAIN sent : l > k /\ Fetches(p, sent[l].req)
  BY DEF ResentAfter
<1>2. DOMAIN sent = 1 .. Len(sent) /\ Len(sent) \in Nat
  BY OnTheWay
<1>3. l # i
  <2>1. sent[k].req \in Request /\ sent[i].req \in Request
    BY OnTheWay
  <2> QED
    BY <1>1, <2>1, Clashing
<1>4. CASE k # i
  <2>1. After(i, l) > After(i, k)
    BY <1>1, <1>2, <1>3, <1>4 DEF After
  <2>2. After(i, l) \in DOMAIN sent' /\ Fetches(p, sent'[After(i, l)].req)
    BY <1>1, <1>3, ServingMoves
  <2> QED
    BY <1>4, <2>1, <2>2 DEF ResentAfter
<1> QED
  BY <1>1, <1>2, <1>3, <1>4

LEMMA RoleServes ==
    ASSUME DashboardTypeOK, NEW i \in DOMAIN sent, ServeRequest(i)
    PROVE  /\ \A e, k : RoleAfter(e, k) => RoleAfter(e, k)'
           /\ answers'[Len(answers) + 1].ok /\ sent[i].req.kind = "role" =>
                  \A e : e = sent[i].req.id => \A k \in 0 .. Len(answers) : RoleAfter(e, k)'
<1>1. Len(answers) \in Nat
  BY OnTheWay
<1>2. \A k \in 0 .. Len(answers) : Len(answers) + 1 > k
  BY <1>1
<1>3. \A e, k : RoleAfter(e, k) => RoleAfter(e, k)'
  BY ServingMoves DEF RoleAfter
<1>4. ASSUME answers'[Len(answers) + 1].ok, sent[i].req.kind = "role", NEW k \in 0 .. Len(answers),
             NEW id, id = sent[i].req.id
      PROVE  RoleAfter(id, k)'
  <2> DEFINE n == Len(answers) + 1
  <2>1. /\ n \in DOMAIN answers' /\ n > k /\ answers'[n].ok
        /\ answers'[n].req.kind = "role" /\ answers'[n].req.id = id
    BY <1>2, <1>4, ServingMoves
  <2> HIDE DEF n
  <2>2. \E l \in DOMAIN answers' :
            l > k /\ answers'[l].ok /\ answers'[l].req.kind = "role" /\ answers'[l].req.id = id
    BY <2>1
  <2> QED
    BY <2>2 DEF RoleAfter
<1> QED
  BY <1>3, <1>4

\* The messages that are left once the i-th answer has been used, and what its
\* handler has sent.
LEMMA SupersededSettles ==
    ASSUME DashboardTypeOK, NEW i \in DOMAIN answers, NEW more, Consume(i, more), NEW p,
           \A k \in DOMAIN sent : k \in DOMAIN sent' /\ sent'[k] = sent[k],
           answers[i].ok /\ Refetches(p, answers[i].req) =>
               \E l \in DOMAIN sent' : Fetches(p, sent'[l].req)
    PROVE  /\ Superseded(p, i) => Superseded(p, 0)'
           /\ ~Fetches(p, answers[i].req) /\ Superseded(p, 0) => Superseded(p, 0)'
           /\ \A k \in DOMAIN answers \ {i} :
                  Superseded(p, k) /\ ~(k < i /\ Fetches(p, answers[i].req)) =>
                      Superseded(p, After(i, k))'
<1>1. DOMAIN answers = 1 .. Len(answers) /\ Len(answers) \in Nat
  BY OnTheWay
<1>2. ASSUME NEW k, NEW l \in DOMAIN sent, Fetches(p, sent[l].req)
      PROVE  Superseded(p, k)'
  BY <1>2 DEF Superseded
<1>3. ASSUME NEW k, NEW l \in DOMAIN answers, answers[l].ok, Refetches(p, answers[l].req)
      PROVE  Superseded(p, k)'
  <2>1. CASE l = i
    BY <1>3, <2>1 DEF Superseded
  <2>2. CASE l # i
    BY <1>3, <2>2, ConsumingMoves DEF Superseded
  <2> QED
    BY <2>1, <2>2
<1>4. ASSUME NEW k, NEW l \in DOMAIN answers \ {i}, After(i, l) > k, Fetches(p, answers[l].req)
      PROVE  Superseded(p, k)'
  BY <1>4, ConsumingMoves DEF Superseded
<1>5. \A l \in DOMAIN answers \ {i} : After(i, l) > 0
  BY <1>1 DEF After
<1>6. Superseded(p, i) => Superseded(p, 0)'
  <2>1. ASSUME NEW l \in DOMAIN answers, l > i, Fetches(p, answers[l].req)
        PROVE  Superseded(p, 0)'
    BY <1>1, <1>4, <1>5, <2>1
  <2> QED
    BY <1>2, <1>3, <2>1 DEF Superseded
<1>7. ~Fetches(p, answers[i].req) /\ Superseded(p, 0) => Superseded(p, 0)'
  <2>1. ASSUME NEW l \in DOMAIN answers, l # i, Fetches(p, answers[l].req)
        PROVE  Superseded(p, 0)'
    BY <1>4, <1>5, <2>1
  <2> QED
    BY <1>2, <1>3, <2>1 DEF Superseded
<1>8. ASSUME NEW k \in DOMAIN answers \ {i}, Superseded(p, k),
             ~(k < i /\ Fetches(p, answers[i].req))
      PROVE  Superseded(p, After(i, k))'
  <2>1. ASSUME NEW l \in DOMAIN answers, l > k, Fetches(p, answers[l].req)
        PROVE  Superseded(p, After(i, k))'
    <3>1. l # i
      BY <1>8, <2>1
    <3>2. After(i, l) > After(i, k)
      BY <1>1, <2>1, <3>1 DEF After
    <3> QED
      BY <1>4, <2>1, <3>1, <3>2
  <2> QED
    BY <1>2, <1>3, <1>8, <2>1 DEF Superseded
<1> QED
  BY <1>6, <1>7, <1>8

LEMMA RoleSettles ==
    ASSUME DashboardTypeOK, NEW i \in DOMAIN answers, NEW more, Consume(i, more), NEW e
    PROVE  /\ RoleAfter(e, i) => RoleAfter(e, 0)'
           /\ ~(answers[i].req.kind = "role" /\ answers[i].req.id = e) /\ RoleAfter(e, 0) =>
                  RoleAfter(e, 0)'
           /\ \A k \in DOMAIN answers \ {i} :
                  RoleAfter(e, k) /\ ~(k < i /\ answers[i].req.kind = "role") =>
                      RoleAfter(e, After(i, k))'
<1> DEFINE About(l) == answers[l].ok /\ answers[l].req.kind = "role" /\ answers[l].req.id = e
<1>1. DOMAIN answers = 1 .. Len(answers) /\ Len(answers) \in Nat
  BY OnTheWay
<1>2. ASSUME NEW k, NEW l \in DOMAIN answers \ {i}, After(i, l) > k, About(l)
      PROVE  RoleAfter(e, k)'
  BY <1>2, ConsumingMoves DEF RoleAfter
<1>3. \A l \in DOMAIN answers \ {i} : After(i, l) > 0
  BY <1>1 DEF After
<1>4. RoleAfter(e, i) => RoleAfter(e, 0)'
  <2>1. ASSUME NEW l \in DOMAIN answers, l > i, About(l)
        PROVE  RoleAfter(e, 0)'
    BY <1>1, <1>2, <1>3, <2>1
  <2> QED
    BY <2>1 DEF RoleAfter
<1>5. ASSUME ~(answers[i].req.kind = "role" /\ answers[i].req.id = e), RoleAfter(e, 0)
      PROVE  RoleAfter(e, 0)'
  <2>1. PICK l \in DOMAIN answers : About(l)
    BY <1>5 DEF RoleAfter
  <2>2. l # i
    BY <1>5, <2>1
  <2> QED
    BY <1>2, <1>3, <2>1, <2>2
<1>6. ASSUME NEW k \in DOMAIN answers \ {i}, RoleAfter(e, k),
             ~(k < i /\ answers[i].req.kind = "role")
      PROVE  RoleAfter(e, After(i, k))'
  <2>1. PICK l \in DOMAIN answers : l > k /\ About(l)
    BY <1>6 DEF RoleAfter
  <2>2. l # i
    BY <1>6, <2>1
  <2>3. After(i, l) > After(i, k)
    BY <1>1, <2>1, <2>2 DEF After
  <2> QED
    BY <1>2, <2>1, <2>2, <2>3
<1> QED
  BY <1>4, <1>5, <1>6

-----------------------------------------------------------------------------
LEMMA FollowSends ==
    ASSUME DashboardTypeOK, FollowInv, NEW q \in Request, SendRequest(q),
           rangeDays' = rangeDays \/ Fetches("analytics", q),
           Fetches("analytics", q) => q.days = rangeDays',
           offset' = offset \/ Fetches("users", q),
           Fetches("users", q) => OffsetOf(q) = offset'
    PROVE  FollowInv'
<1> SUFFICES ASSUME Calm'
             PROVE  /\ StatsAnswered' /\ StatsShown'
                    /\ RangesSent' /\ ChartsAnswered' /\ ChartsShown'
                    /\ "turned" \notin mishaps' =>
                           OffsetsSent' /\ RowsAnswered' /\ RolesAnswered' /\ ListShown'
  BY DEF FollowInv
<1>1. /\ StatsAnswered /\ StatsShown /\ RangesSent /\ ChartsAnswered /\ ChartsShown
      /\ "turned" \notin mishaps => OffsetsSent /\ RowsAnswered /\ RolesAnswered /\ ListShown
  BY CalmSends DEF FollowInv
<1>2. UNCHANGED <<accounts, answers, shown, mishaps>>
  BY DEF SendRequest
<1>3. StatsAnswered' /\ StatsShown'
  BY <1>1, <1>2, SupersededSends DEF StatsAnswered, StatsShown
<1>4. RangesSent'
  <2> SUFFICES ASSUME NEW k \in DOMAIN sent', Fetches("analytics", sent'[k].req)
               PROVE  RangeRight(sent[k].req.days)' \/ ResentAfter("analytics", k)'
    BY DEF RangesSent
  <2>1. CASE k = Len(sent) + 1
    BY <2>1, SendingMoves DEF RangeRight
  <2>2. CASE k \in DOMAIN sent
    <3>1. sent'[k] = sent[k]
      BY <2>2, SendingMoves
    <3>2. RangeRight(sent[k].req.days) \/ ResentAfter("analytics", k)
      BY <1>1, <2>2, <3>1 DEF RangesSent
    <3> QED
      BY <1>2, <2>2, <3>1, <3>2, SupersededSends DEF RangeRight
  <2> QED
    BY <2>1, <2>2, SendingMoves
<1>5. ChartsAnswered' /\ ChartsShown'
  <2>1. CASE Fetches("analytics", q)
    BY <2>1, SupersededSends DEF ChartsAnswered, ChartsShown
  <2>2. CASE rangeDays' = rangeDays
    BY <1>1, <1>2, <2>2, SupersededSends DEF ChartsAnswered, ChartsShown, RangeRight
  <2> QED
    BY <2>1, <2>2
<1>6. ASSUME "turned" \notin mishaps'
      PROVE  OffsetsSent' /\ RowsAnswered' /\ RolesAnswered' /\ ListShown'
  <2>1. OffsetsSent /\ RowsAnswered /\ RolesAnswered /\ ListShown
    BY <1>1, <1>2, <1>6
  <2>2. OffsetsSent'
    <3> SUFFICES ASSUME NEW k \in DOMAIN sent', Fetches("users", sent'[k].req)
                 PROVE  OffsetOf(sent'[k].req) = offset' \/ ResentAfter("users", k)'
      BY DEF OffsetsSent
    <3>1. CASE k = Len(sent) + 1
      BY <3>1, SendingMoves
    <3>2. CASE k \in DOMAIN sent
      <4>1. sent'[k] = sent[k]
        BY <3>2, SendingMoves
      <4>2. OffsetOf(sent[k].req) = offset \/ ResentAfter("users", k)
        BY <2>1, <3>2, <4>1 DEF OffsetsSent
      <4> QED
        BY <3>2, <4>1, <4>2, SupersededSends
    <3> QED
      BY <3>1, <3>2, SendingMoves
  <2>3. RolesAnswered'
    BY <1>2, <2>1, SupersededSends DEF RolesAnswered
  <2>4. CASE Fetches("users", q)
    BY <2>2, <2>3, <2>4, SupersededSends DEF RowsAnswered, ListShown
  <2>5. CASE offset' = offset
    <3>1. RowsAnswered'
      BY <1>2, <2>1, <2>5, SupersededSends DEF RowsAnswered
    <3>2. ListShown'
      BY <1>2, <2>1, <2>5, SupersededSends DEF ListShown
    <3> QED
      BY <2>2, <2>3, <3>1, <3>2
  <2> QED
    BY <2>4, <2>5
<1> QED
  BY <1>3, <1>4, <1>5, <1>6

LEMMA FollowClicks ==
    ASSUME DashboardTypeOK, FollowInv, Click
    PROVE  FollowInv'
<1>1. ASSUME NEW i, Ask(i)
      PROVE  FollowInv'
  BY <1>1 DEF Ask, FollowInv, Calm, StatsAnswered, StatsShown, RangesSent, ChartsAnswered,
              ChartsShown, OffsetsSent, RowsAnswered, RolesAnswered, ListShown, Superseded,
              ResentAfter, RoleAfter, RangeRight
<1>2. ASSUME NEW days \in Ranges, PickRange(days)
      PROVE  FollowInv'
  <2> DEFINE q == [kind |-> "analytics", days |-> days]
  <2>1. q \in Request /\ q.kind = "analytics" /\ q.days = days
    BY Sends
  <2>2. SendRequest(q) /\ rangeDays' = days /\ offset' = offset
    BY <1>2 DEF PickRange
  <2> HIDE DEF q
  <2>3. Fetches("analytics", q) /\ ~Fetches("users", q)
    BY <2>1, Fetching
  <2> QED
    BY <2>1, <2>2, <2>3, FollowSends
<1>3. ASSUME NEW o \in Nat, TurnTo(o)
      PROVE  FollowInv'
  <2> DEFINE q == [kind |-> "users", offset |-> o]
  <2>1. q \in Request /\ q.kind = "users" /\ q.offset = o
    BY <1>3, Sends
  <2>2. SendRequest(q) /\ rangeDays' = rangeDays /\ offset' = o
    BY <1>3 DEF TurnTo
  <2> HIDE DEF q
  <2>3. Fetches("users", q) /\ ~Fetches("analytics", q) /\ OffsetOf(q) = o
    BY <2>1, Fetching DEF OffsetOf
  <2> QED
    BY <2>1, <2>2, <2>3, FollowSends
<1>4. CASE NextPage \/ PreviousPage
  <2>1. offset - Limit \in Int /\ offset + Limit \in Nat
    BY DashboardNats DEF DashboardTypeOK
  <2>2. Max({0, offset - Limit}) \in Nat
    BY <2>1, MaxOfTwo
  <2> QED
    BY <1>3, <1>4, <2>1, <2>2 DEF NextPage, PreviousPage
<1>5. ASSUME NEW q \in Request, Changes(q), SendRequest(q), UNCHANGED <<offset, rangeDays>>
      PROVE  FollowInv'
  BY <1>5, Fetching, FollowSends
<1>6. ASSUME NEW i \in Ids, NEW role \in Roles, SelectRole(i, role)
      PROVE  FollowInv'
  BY <1>5, <1>6, Sends DEF SelectRole, Changes
<1>7. CASE ClickConfirm
  <2>1. \A i : Shows(i) => i \in Ids
    BY DisplayFields, RowsShown DEF Shows, DashboardTypeOK
  <2>2. offset \in Nat
    BY DEF DashboardTypeOK
  <2> QED
    BY <1>5, <1>7, <2>1, <2>2, Sends DEF ClickConfirm, Changes
<1> QED
  BY <1>1, <1>2, <1>4, <1>6, <1>7 DEF Click, ClickDelete, ClickCancel

-----------------------------------------------------------------------------
LEMMA FollowServes ==
    ASSUME DashboardTypeOK, FollowInv, NEW i \in DOMAIN sent, ServeRequest(i)
    PROVE  FollowInv'
<1> SUFFICES ASSUME Calm'
             PROVE  /\ StatsAnswered' /\ StatsShown'
                    /\ RangesSent' /\ ChartsAnswered' /\ ChartsShown'
                    /\ "turned" \notin mishaps' =>
                           OffsetsSent' /\ RowsAnswered' /\ RolesAnswered' /\ ListShown'
  BY DEF FollowInv
<1> DEFINE n == Len(answers) + 1
<1>1. /\ StatsAnswered /\ StatsShown /\ RangesSent /\ ChartsAnswered /\ ChartsShown
      /\ "turned" \notin mishaps => OffsetsSent /\ RowsAnswered /\ RolesAnswered /\ ListShown
      /\ \A k \in DOMAIN sent : k < i => ~Clash(sent[k].req, sent[i].req)
  BY CalmServes DEF FollowInv
<1>2. PICK m \in Coming :
          /\ answers' = Append(answers, m)
          /\ m.req = sent[i].req
          /\ m.of = accounts'
          /\ ~(m.ok /\ Changes(m.req)) => accounts' = accounts
          /\ m.ok /\ m.req.kind = "role" => /\ accounts' = [accounts EXCEPT ![m.req.id] = m.req.role]
                                            /\ accounts[m.req.id] \in Roles
          /\ m.ok /\ m.req.kind = "delete" => accounts' = [accounts EXCEPT ![m.req.id] = Gone]
          /\ mishaps' = IF m.ok /\ m.req.kind = "delete" THEN mishaps \cup {"removed"}
                                                        ELSE mishaps
  BY Serving DEF Changes
<1>3. UNCHANGED <<shown, offset, rangeDays>>
  BY Serving DEF page
<1>4. answers'[n] = m /\ n \in DOMAIN answers'
  BY <1>2, OnTheWay, ServingMoves
<1>5. \A k \in DOMAIN answers' : \/ k \in DOMAIN answers /\ answers'[k] = answers[k] /\ k \in 0 .. Len(answers)
                                 \/ k = n
  BY ServingMoves, OnTheWay
<1>6. m.req \in Request /\ m.req = sent[i].req /\ 0 \in 0 .. Len(answers)
  BY <1>2, OnTheWay
<1>7. ASSUME NEW p
      PROVE  /\ \A k \in 0 .. Len(answers) : Superseded(p, k) => Superseded(p, k)'
             /\ m.ok /\ Refetches(p, m.req) => \A k : Superseded(p, k)'
             /\ \A k : \A l \in DOMAIN sent \ {i} : Fetches(p, sent[l].req) => Superseded(p, k)'
  BY <1>4, <1>6, SupersededServes
<1> HIDE DEF n
<1>8. StatsAnswered' /\ StatsShown'
  <2>1. CASE accounts' = accounts
    BY <1>1, <1>2, <1>3, <1>4, <1>5, <1>6, <1>7, <2>1 DEF StatsAnswered, StatsShown
  <2>2. CASE m.ok /\ Changes(m.req)
    <3>1. \A k : Superseded("stats", k)'
      BY <1>7, <2>2 DEF Refetches, Changes
    <3> QED
      BY <3>1 DEF StatsAnswered, StatsShown
  <2> QED
    BY <1>2, <2>1, <2>2
\* What was asked for is still asked for, or has just been answered.
<1>9. ASSUME NEW j \in DOMAIN sent'
      PROVE  \E k \in DOMAIN sent \ {i} : j = After(i, k) /\ sent'[j].req = sent[k].req
  <2>1. Before(i, j) \in DOMAIN sent \ {i} /\ sent'[j].req = sent[Before(i, j)].req
    BY ServingMoves
  <2>2. j = After(i, Before(i, j))
    <3>1. i \in Int /\ j \in Int
      BY OnTheWay, ServingMoves
    <3> QED
      BY <3>1 DEF Before, After
  <2> QED
    BY <2>1, <2>2
<1>10. ASSUME NEW p, NEW k \in DOMAIN sent \ {i}, Fetches(p, sent[k].req), ResentAfter(p, k)
       PROVE  ResentAfter(p, After(i, k))'
  BY <1>1, <1>10, ResentServes
<1>11. ASSUME NEW p, Fetches(p, sent[i].req), ResentAfter(p, i)
       PROVE  \A k : Superseded(p, k)'
  BY <1>1, <1>7, <1>11, ResentServes
<1>12. mishaps \subseteq mishaps'
  BY <1>2
<1>13. RangesSent'
  <2> SUFFICES ASSUME NEW j \in DOMAIN sent', Fetches("analytics", sent'[j].req)
               PROVE  RangeRight(sent[j].req.days)' \/ ResentAfter("analytics", j)'
    BY DEF RangesSent
  <2>1. PICK k \in DOMAIN sent \ {i} : j = After(i, k) /\ sent'[j].req = sent[k].req
    BY <1>9
  <2>2. RangeRight(sent[k].req.days) \/ ResentAfter("analytics", k)
    BY <1>1, <2>1 DEF RangesSent
  <2> QED
    BY <1>3, <1>10, <1>12, <2>1, <2>2 DEF RangeRight
<1>14. ~(m.ok /\ m.req.kind = "delete") => Existing(accounts') = Existing(accounts)
  <2>1. CASE m.ok /\ m.req.kind = "role"
    <3>1. m.req.id \in Ids /\ m.req.role \in Roles /\ accounts \in Accounts
      BY <1>6, <2>1, RequestFields DEF DashboardTypeOK
    <3> QED
      BY <1>2, <2>1, <3>1 DEF Existing, Accounts
  <2> QED
    BY <1>2, <2>1 DEF Changes
<1>15. ChartsAnswered' /\ ChartsShown'
  <2>1. CASE m.ok /\ m.req.kind = "delete"
    <3>1. \A k : Superseded("analytics", k)'
      BY <1>7, <2>1 DEF Refetches
    <3> QED
      BY <3>1 DEF ChartsAnswered, ChartsShown
  <2>2. CASE ~(m.ok /\ m.req.kind = "delete")
    <3>1. mishaps' = mishaps /\ Existing(accounts') = Existing(accounts)
      BY <1>2, <1>14, <2>2
    <3>2. ASSUME NEW k \in DOMAIN answers', k \in DOMAIN answers, answers'[k] = answers[k],
                 k \in 0 .. Len(answers), Fetches("analytics", answers'[k].req)
          PROVE  \/ Existing(answers'[k].of) = Existing(accounts') /\ RangeRight(answers[k].req.days)'
                 \/ Superseded("analytics", k)'
      BY <1>1, <1>3, <1>7, <3>1, <3>2 DEF ChartsAnswered, RangeRight
    <3>3. ASSUME Fetches("analytics", m.req)
          PROVE  \/ m.req.days = rangeDays' \/ "removed" \in mishaps'
                 \/ \A k : Superseded("analytics", k)'
      BY <1>1, <1>3, <1>6, <1>11, <3>1, <3>3 DEF RangesSent, RangeRight
    <3>4. ChartsAnswered'
      BY <1>2, <1>4, <1>5, <3>2, <3>3 DEF ChartsAnswered, RangeRight
    <3>5. ChartsShown'
      BY <1>1, <1>3, <1>6, <1>7, <3>1 DEF ChartsShown, RangeRight
    <3> QED
      BY <3>4, <3>5
  <2> QED
    BY <2>1, <2>2
<1>16. ASSUME "turned" \notin mishaps'
       PROVE  OffsetsSent' /\ RowsAnswered' /\ RolesAnswered' /\ ListShown'
  <2>1. OffsetsSent /\ RowsAnswered /\ RolesAnswered /\ ListShown
    BY <1>1, <1>12, <1>16
  <2>2. OffsetsSent'
    <3> SUFFICES ASSUME NEW j \in DOMAIN sent', Fetches("users", sent'[j].req)
                 PROVE  OffsetOf(sent'[j].req) = offset' \/ ResentAfter("users", j)'
      BY DEF OffsetsSent
    <3>1. PICK k \in DOMAIN sent \ {i} : j = After(i, k) /\ sent'[j].req = sent[k].req
      BY <1>9
    <3>2. OffsetOf(sent[k].req) = offset \/ ResentAfter("users", k)
      BY <2>1, <3>1 DEF OffsetsSent
    <3> QED
      BY <1>3, <1>10, <3>1, <3>2
  <2>3. CASE m.ok /\ m.req.kind = "delete"
    <3>1. \A k : Superseded("users", k)'
      BY <1>7, <2>3 DEF Refetches
    <3> QED
      BY <2>2, <3>1 DEF RowsAnswered, RolesAnswered, ListShown
  <2>4. CASE ~(m.ok /\ m.req.kind = "delete")
    <3>1. Existing(accounts') = Existing(accounts)
      BY <1>14, <2>4
    \* A role that has changed since is about to be patched.
    <3>2. ASSUME NEW e \in Ids, accounts'[e] # accounts[e]
          PROVE  \A k \in 0 .. Len(answers) : RoleAfter(e, k)'
      <4>1. m.ok /\ m.req.kind = "role"
        BY <1>2, <2>4, <3>2 DEF Changes
      <4>2. e = sent[i].req.id
        BY <1>2, <3>2, <4>1 DEF DashboardTypeOK, Accounts
      <4> QED
        BY <1>4, <1>6, <4>1, <4>2, RoleServes DEF n
    <3>3. \A e, k : RoleAfter(e, k) => RoleAfter(e, k)'
      BY RoleServes
    <3>4. ASSUME NEW k \in DOMAIN answers, k \in 0 .. Len(answers), Fetches("users", answers[k].req)
          PROVE  \/ /\ OffsetOf(answers[k].req) = offset'
                    /\ Existing(answers[k].of) = Existing(accounts')
                    /\ \A e \in Existing(accounts') :
                           answers[k].of[e] = accounts'[e] \/ RoleAfter(e, k)'
                 \/ Superseded("users", k)'
      <4>1. CASE Superseded("users", k)
        BY <1>7, <3>4, <4>1
      <4>2. CASE ~Superseded("users", k)
        BY <1>3, <2>1, <3>1, <3>2, <3>3, <3>4, <4>2, ExistingFinite DEF RowsAnswered
      <4> QED
        BY <4>1, <4>2
    <3>5. ASSUME Fetches("users", m.req)
          PROVE  \/ OffsetOf(m.req) = offset' \/ \A k : Superseded("users", k)'
      BY <1>3, <1>6, <1>11, <2>1, <3>5 DEF OffsetsSent
    <3>6. RowsAnswered'
      BY <1>2, <1>4, <1>5, <3>4, <3>5 DEF RowsAnswered
    <3>7. RolesAnswered'
      <4> SUFFICES ASSUME NEW k \in DOMAIN answers', answers'[k].ok, answers'[k].req.kind = "role"
                   PROVE  \/ answers'[k].req.role = accounts'[answers'[k].req.id]
                          \/ RoleAfter(answers[k].req.id, k)'
                          \/ Superseded("users", k)'
        BY DEF RolesAnswered
      <4>1. CASE k = n
        <5>1. m.ok /\ m.req.kind = "role" /\ m.req.id \in Ids
          BY <1>4, <1>6, <4>1, RequestFields
        <5>2. accounts'[m.req.id] = m.req.role
          BY <1>2, <5>1 DEF DashboardTypeOK, Accounts
        <5> QED
          BY <1>4, <4>1, <5>2
      <4>2. CASE k \in DOMAIN answers /\ answers'[k] = answers[k] /\ k \in 0 .. Len(answers)
        <5>1. PICK e : e = answers[k].req.id
          OBVIOUS
        <5>2. e \in Ids
          BY <4>2, <5>1, OnTheWay, RequestFields
        <5>3. answers[k].req.role = accounts[e] \/ RoleAfter(e, k) \/ Superseded("users", k)
          BY <2>1, <4>2, <5>1 DEF RolesAnswered
        <5>4. answers'[k].req.role = accounts'[e] \/ RoleAfter(e, k)' \/ Superseded("users", k)'
          BY <1>7, <3>2, <3>3, <4>2, <5>2, <5>3
        <5>5. e = answers'[k].req.id
          BY <4>2, <5>1
        <5> QED
          BY <5>4, <5>5 DEF RoleAfter
      <4> QED
        BY <1>5, <4>1, <4>2
    <3>8. ListShown'
      <4>1. DOMAIN PageOf(accounts', offset) = DOMAIN PageOf(accounts, offset)
        BY <3>1, PageDomain
      <4>2. CASE Superseded("users", 0)
        BY <1>6, <1>7, <4>2 DEF ListShown
      <4>3. CASE ~Superseded("users", 0)
        <5>1. DOMAIN shown.users \subseteq Ids
          BY DisplayFields, RowsShown DEF DashboardTypeOK
        <5> QED
          BY <1>3, <1>6, <2>1, <3>1, <3>2, <3>3, <4>1, <4>3, <5>1 DEF ListShown
      <4> QED
        BY <4>2, <4>3
    <3> QED
      BY <2>2, <3>6, <3>7, <3>8
  <2> QED
    BY <2>3, <2>4
<1> QED
  BY <1>8, <1>13, <1>15, <1>16

\* The claims about the other answers survive the use of one of them.
LEMMA FollowKept ==
    ASSUME DashboardTypeOK, NEW i \in DOMAIN answers, NEW more, Consume(i, more),
           UNCHANGED <<accounts, offset, rangeDays>>,
           \A k \in DOMAIN sent : k \in DOMAIN sent' /\ sent'[k] = sent[k],
           \A p : answers[i].ok /\ Refetches(p, answers[i].req) =>
                      \E l \in DOMAIN sent' : Fetches(p, sent'[l].req),
           \A k \in DOMAIN answers : k < i => ~Clash(answers[k].req, answers[i].req)
    PROVE  /\ StatsAnswered => StatsAnswered'
           /\ ChartsAnswered => ChartsAnswered'
           /\ RowsAnswered => RowsAnswered'
           /\ RolesAnswered => RolesAnswered'
<1>1. ASSUME NEW j \in DOMAIN answers'
      PROVE  \E k \in DOMAIN answers \ {i} :
                 /\ j = After(i, k) /\ answers'[j].req = answers[k].req
                 /\ answers'[j].ok = answers[k].ok /\ answers'[j].of = answers[k].of
  <2>1. /\ Before(i, j) \in DOMAIN answers \ {i}
        /\ answers'[j].req = answers[Before(i, j)].req
        /\ answers'[j].ok = answers[Before(i, j)].ok
        /\ answers'[j].of = answers[Before(i, j)].of
    BY ConsumingMoves
  <2>2. i \in Int /\ j \in Int
    BY OnTheWay, ConsumingMoves
  <2>3. j = After(i, Before(i, j))
    BY <2>2 DEF Before, After
  <2> QED
    BY <2>1, <2>3
<1>2. answers[i].req \in Request /\ \A k \in DOMAIN answers : answers[k].req \in Request
  BY OnTheWay
<1>3. ASSUME NEW p, NEW k \in DOMAIN answers \ {i}, Superseded(p, k),
             Fetches(p, answers[k].req) \/ (p = "users" /\ answers[k].req.kind = "role")
      PROVE  Superseded(p, After(i, k))'
  <2>1. ~(k < i /\ Fetches(p, answers[i].req))
    BY <1>2, <1>3, Clashing
  <2> QED
    BY <1>3, <2>1, SupersededSettles
<1>4. ASSUME NEW e, NEW k \in DOMAIN answers \ {i}, RoleAfter(e, k),
             Fetches("users", answers[k].req) \/ answers[k].req.kind = "role"
      PROVE  RoleAfter(e, After(i, k))'
  <2>1. ~(k < i /\ answers[i].req.kind = "role")
    BY <1>2, <1>4, Clashing
  <2> QED
    BY <1>4, <2>1, RoleSettles
<1>5. mishaps \subseteq mishaps'
  BY DEF Consume
<1>6. StatsAnswered => StatsAnswered'
  <2> SUFFICES ASSUME StatsAnswered, NEW j \in DOMAIN answers', Fetches("stats", answers'[j].req)
               PROVE  Counts(answers'[j].of) = Counts(accounts') \/ Superseded("stats", j)'
    BY DEF StatsAnswered
  <2>1. PICK k \in DOMAIN answers \ {i} :
            j = After(i, k) /\ answers'[j].req = answers[k].req /\ answers'[j].of = answers[k].of
    BY <1>1
  <2> QED
    BY <1>3, <2>1 DEF StatsAnswered
<1>7. ChartsAnswered => ChartsAnswered'
  <2> SUFFICES ASSUME ChartsAnswered, NEW j \in DOMAIN answers',
                      Fetches("analytics", answers'[j].req)
               PROVE  \/ /\ Existing(answers'[j].of) = Existing(accounts')
                         /\ RangeRight(answers[j].req.days)'
                      \/ Superseded("analytics", j)'
    BY DEF ChartsAnswered
  <2>1. PICK k \in DOMAIN answers \ {i} :
            j = After(i, k) /\ answers'[j].req = answers[k].req /\ answers'[j].of = answers[k].of
    BY <1>1
  <2> QED
    BY <1>3, <1>5, <2>1 DEF ChartsAnswered, RangeRight
<1>8. RowsAnswered => RowsAnswered'
  <2> SUFFICES ASSUME RowsAnswered, NEW j \in DOMAIN answers', Fetches("users", answers'[j].req)
               PROVE  \/ /\ OffsetOf(answers'[j].req) = offset'
                         /\ Existing(answers'[j].of) = Existing(accounts')
                         /\ \A e \in Existing(accounts') :
                                answers'[j].of[e] = accounts'[e] \/ RoleAfter(e, j)'
                      \/ Superseded("users", j)'
    BY DEF RowsAnswered
  <2>1. PICK k \in DOMAIN answers \ {i} :
            j = After(i, k) /\ answers'[j].req = answers[k].req /\ answers'[j].of = answers[k].of
    BY <1>1
  <2>2. CASE Superseded("users", k)
    BY <1>3, <2>1, <2>2
  <2>3. CASE ~Superseded("users", k)
    BY <1>4, <2>1, <2>3 DEF RowsAnswered
  <2> QED
    BY <2>2, <2>3
<1>9. RolesAnswered => RolesAnswered'
  <2> SUFFICES ASSUME RolesAnswered, NEW j \in DOMAIN answers', answers'[j].ok,
                      answers'[j].req.kind = "role"
               PROVE  \/ answers'[j].req.role = accounts'[answers'[j].req.id]
                      \/ RoleAfter(answers[j].req.id, j)'
                      \/ Superseded("users", j)'
    BY DEF RolesAnswered
  <2>1. PICK k \in DOMAIN answers \ {i} :
            /\ j = After(i, k) /\ answers'[j].req = answers[k].req
            /\ answers'[j].ok = answers[k].ok
    BY <1>1
  <2>2. PICK e : e = answers[k].req.id
    OBVIOUS
  <2>3. answers[k].req.role = accounts[e] \/ RoleAfter(e, k) \/ Superseded("users", k)
    BY <2>1, <2>2 DEF RolesAnswered
  <2>4. answers'[j].req.role = accounts'[e] \/ RoleAfter(e, j)' \/ Superseded("users", j)'
    BY <1>3, <1>4, <2>1, <2>3
  <2>5. e = answers'[j].req.id
    BY <2>1, <2>2
  <2> QED
    BY <2>4, <2>5 DEF RoleAfter
<1> QED
  BY <1>6, <1>7, <1>8, <1>9

LEMMA FollowFetch ==
    ASSUME DashboardTypeOK, FollowInv, NEW i \in DOMAIN answers, SettleFetch(i)
    PROVE  FollowInv'
<1> SUFFICES ASSUME Calm'
             PROVE  /\ StatsAnswered' /\ StatsShown'
                    /\ RangesSent' /\ ChartsAnswered' /\ ChartsShown'
                    /\ "turned" \notin mishaps' =>
                           OffsetsSent' /\ RowsAnswered' /\ RolesAnswered' /\ ListShown'
  BY DEF FollowInv
<1> DEFINE q == answers[i].req
           a == answers[i].of
<1>1. /\ q \in Request /\ a \in Accounts /\ ~Changes(q) /\ shown \in Display
      /\ shown' = Filled(shown, q, a) /\ Consume(i, {})
      /\ UNCHANGED <<accounts, sent, offset, rangeDays>>
  BY OnTheWay DEF SettleFetch, DashboardTypeOK
<1>2. /\ StatsAnswered /\ StatsShown /\ RangesSent /\ ChartsAnswered /\ ChartsShown
      /\ "turned" \notin mishaps => OffsetsSent /\ RowsAnswered /\ RolesAnswered /\ ListShown
      /\ \A k \in DOMAIN answers : k < i => ~Clash(answers[k].req, q)
  BY <1>1, CalmSettles DEF FollowInv
<1>3. \A p : ~Refetches(p, q)
  BY <1>1, Fetching
<1>4. mishaps \subseteq mishaps'
  BY <1>1 DEF Consume
<1>5. /\ StatsAnswered' /\ ChartsAnswered'
      /\ "turned" \notin mishaps' => RowsAnswered' /\ RolesAnswered'
  BY <1>1, <1>2, <1>3, <1>4, FollowKept
<1>6. RangesSent' /\ ("turned" \notin mishaps' => OffsetsSent')
  BY <1>1, <1>2, <1>4 DEF RangesSent, OffsetsSent, ResentAfter, RangeRight
<1>7. ASSUME NEW p
      PROVE  /\ Superseded(p, i) => Superseded(p, 0)'
             /\ ~Fetches(p, q) /\ Superseded(p, 0) => Superseded(p, 0)'
  BY <1>1, <1>3, SupersededSettles
<1>8. StatsShown'
  <2>1. CASE Fetches("stats", q)
    <3>1. shown'.stats = {Counts(a)}
      BY <1>1, <2>1, Fetching, FilledStats, FilledOverview
    <3>2. Counts(a) = Counts(accounts) \/ Superseded("stats", i)
      BY <1>2, <2>1 DEF StatsAnswered
    <3> QED
      BY <1>1, <1>7, <3>1, <3>2 DEF StatsShown
  <2>2. CASE ~Fetches("stats", q)
    <3>1. shown'.stats = shown.stats
      BY <1>1, <2>2, Fetching, FilledUsers, FilledAnalytics, RequestFields DEF Changes
    <3> QED
      BY <1>1, <1>2, <1>7, <2>2, <3>1 DEF StatsShown
  <2> QED
    BY <2>1, <2>2
<1>9. ChartsShown'
  <2>1. CASE Fetches("analytics", q)
    <3>1. shown'.analytics = {[days |-> q.days, of |-> Existing(a)]}
      BY <1>1, <2>1, Fetching, FilledAnalytics, FilledOverview
    <3>2. (Existing(a) = Existing(accounts) /\ RangeRight(q.days)) \/ Superseded("analytics", i)
      BY <1>2, <2>1 DEF ChartsAnswered
    <3>3. \A x \in shown'.analytics : x.days = q.days /\ x.of = Existing(a)
      BY <3>1
    <3> HIDE DEF q, a
    <3> QED
      BY <1>1, <1>4, <1>7, <3>2, <3>3 DEF ChartsShown, RangeRight
  <2>2. CASE ~Fetches("analytics", q)
    <3>1. shown'.analytics = shown.analytics
      BY <1>1, <2>2, Fetching, FilledUsers, FilledStats, RequestFields DEF Changes
    <3> QED
      BY <1>1, <1>2, <1>4, <1>7, <2>2, <3>1 DEF ChartsShown, RangeRight
  <2> QED
    BY <2>1, <2>2
<1>10. ASSUME "turned" \notin mishaps'
       PROVE  ListShown'
  <2>1. RowsAnswered /\ ListShown
    BY <1>2, <1>4, <1>10
  <2>2. CASE Fetches("users", q)
    <3>1. /\ shown'.users = PageOf(a, OffsetOf(q))
          /\ shown'.total = Cardinality(Existing(a))
      BY <1>1, <2>2, Fetching, FilledUsers, FilledOverview DEF OffsetOf
    <3>2. CASE Superseded("users", i)
      BY <1>7, <3>2 DEF ListShown
    <3>3. CASE ~Superseded("users", i)
      <4>1. /\ OffsetOf(q) = offset /\ Existing(a) = Existing(accounts)
            /\ \A e \in Existing(accounts) : a[e] = accounts[e] \/ RoleAfter(e, i)
        BY <2>1, <2>2, <3>3 DEF RowsAnswered
      <4>2. \A e : RoleAfter(e, i) => RoleAfter(e, 0)'
        BY <1>1, RoleSettles
      <4>3. offset \in Nat
        BY DEF DashboardTypeOK
      <4> HIDE DEF q, a
      <4>4. /\ DOMAIN PageOf(a, offset) \subseteq Existing(a)
            /\ \A e \in DOMAIN PageOf(a, offset) : PageOf(a, offset)[e] = a[e]
        BY <1>1, <4>3, PageFits
      <4>5. DOMAIN PageOf(a, offset) = DOMAIN PageOf(accounts, offset)
        BY <4>1, PageDomain
      <4>6. \A e \in DOMAIN shown'.users : shown'.users[e] = accounts[e] \/ RoleAfter(e, 0)'
        BY <3>1, <4>1, <4>2, <4>4
      <4> QED
        BY <1>1, <3>1, <4>1, <4>5, <4>6 DEF ListShown
    <3> QED
      BY <3>2, <3>3
  <2>3. CASE ~Fetches("users", q)
    <3>1. shown'.users = shown.users /\ shown'.total = shown.total
      BY <1>1, <2>3, Fetching, FilledAnalytics, FilledStats, RequestFields DEF Changes
    <3>2. \A e : RoleAfter(e, 0) => RoleAfter(e, 0)'
      BY <1>1, RoleSettles DEF Changes
    <3> QED
      BY <1>1, <1>7, <2>1, <2>3, <3>1, <3>2 DEF ListShown
  <2> QED
    BY <2>2, <2>3
<1> QED
  BY <1>5, <1>6, <1>8, <1>9, <1>10

LEMMA FollowRole ==
    ASSUME DashboardTypeOK, FollowInv, NEW i \in DOMAIN answers, SettleRoleChange(i)
    PROVE  FollowInv'
<1> SUFFICES ASSUME Calm'
             PROVE  /\ StatsAnswered' /\ StatsShown'
                    /\ RangesSent' /\ ChartsAnswered' /\ ChartsShown'
                    /\ "turned" \notin mishaps' =>
                           OffsetsSent' /\ RowsAnswered' /\ RolesAnswered' /\ ListShown'
  BY DEF FollowInv
<1> DEFINE q == answers[i].req
           new == [kind |-> "stats"]
<1>1. /\ q \in Request /\ q.kind = "role" /\ answers[i].ok /\ Changes(q) /\ PatchRow(q)
      /\ Consume(i, {}) /\ UNCHANGED <<accounts, offset, rangeDays>>
  BY OnTheWay DEF SettleRoleChange, Changes
<1>2. /\ \A k \in DOMAIN sent : k \in DOMAIN sent' /\ sent'[k] = sent[k]
      /\ \E l \in DOMAIN sent' : sent'[l].req = new
      /\ \A k \in DOMAIN sent' : (k \in DOMAIN sent /\ sent'[k] = sent[k]) \/ sent'[k].req = new
  BY RoleRefetchMoves, OnTheWay
<1>3. /\ Fetches("stats", new) /\ ~Fetches("analytics", new) /\ ~Fetches("users", new)
  <2>1. new \in Request /\ new.kind = "stats"
    BY Sends
  <2> HIDE DEF new
  <2> QED
    BY <2>1, Fetching
<1> HIDE DEF new
<1>4. /\ StatsAnswered /\ StatsShown /\ RangesSent /\ ChartsAnswered /\ ChartsShown
      /\ "turned" \notin mishaps => OffsetsSent /\ RowsAnswered /\ RolesAnswered /\ ListShown
      /\ \A k \in DOMAIN answers : k < i => ~Clash(answers[k].req, q)
  BY <1>1, <1>2, CalmSettles DEF FollowInv
<1>5. \A p : ~Fetches(p, q) /\ (Refetches(p, q) => p = "stats")
  BY <1>1, Fetching DEF Refetches
<1>6. mishaps \subseteq mishaps'
  BY <1>1 DEF Consume
<1>7. \A p : answers[i].ok /\ Refetches(p, q) => \E l \in DOMAIN sent' : Fetches(p, sent'[l].req)
  BY <1>2, <1>3, <1>5
<1>8. /\ StatsAnswered' /\ ChartsAnswered'
      /\ "turned" \notin mishaps' => RowsAnswered' /\ RolesAnswered'
  BY <1>1, <1>2, <1>4, <1>6, <1>7, FollowKept
<1>9. \A p : Superseded(p, 0) => Superseded(p, 0)'
  BY <1>1, <1>2, <1>5, <1>7, SupersededSettles
<1>10. RangesSent' /\ ("turned" \notin mishaps' => OffsetsSent')
  <2>1. \A p, k : ResentAfter(p, k) => ResentAfter(p, k)'
    BY <1>2 DEF ResentAfter
  <2>2. RangesSent'
    BY <1>1, <1>2, <1>3, <1>4, <1>6, <2>1 DEF RangesSent, RangeRight
  <2>3. "turned" \notin mishaps' => OffsetsSent'
    BY <1>1, <1>2, <1>3, <1>4, <1>6, <2>1 DEF OffsetsSent
  <2> QED
    BY <2>2, <2>3
<1>11. StatsShown'
  <2>1. Superseded("stats", 0)'
    BY <1>2, <1>3 DEF Superseded
  <2> QED
    BY <2>1 DEF StatsShown
<1>12. /\ shown'.total = shown.total /\ shown'.analytics = shown.analytics
       /\ DOMAIN shown'.users = DOMAIN shown.users
       /\ \A e \in DOMAIN shown.users :
              shown'.users[e] = IF e = q.id THEN q.role ELSE shown.users[e]
  BY <1>1, RowPatched
<1>13. ChartsShown'
  BY <1>1, <1>4, <1>6, <1>9, <1>12 DEF ChartsShown, RangeRight
<1>14. ASSUME "turned" \notin mishaps'
       PROVE  ListShown'
  <2>1. RolesAnswered /\ ListShown
    BY <1>4, <1>6, <1>14
  <2>2. CASE Superseded("users", 0)
    BY <1>9, <2>2 DEF ListShown
  <2>3. CASE Superseded("users", i)
    BY <1>1, <1>2, <1>7, <2>3, SupersededSettles DEF ListShown
  <2>4. CASE ~Superseded("users", 0) /\ ~Superseded("users", i)
    <3>1. q.role = accounts[q.id] \/ RoleAfter(q.id, i)
      BY <1>1, <2>1, <2>4 DEF RolesAnswered
    <3>2. ASSUME NEW e \in DOMAIN shown.users
          PROVE  shown'.users[e] = accounts[e] \/ RoleAfter(e, 0)'
      <4>1. CASE e = q.id
        <5>1. q.role = accounts[e] \/ RoleAfter(e, i)
          BY <3>1, <4>1
        <5> QED
          BY <1>1, <1>12, <4>1, <5>1, RoleSettles
      <4>2. CASE e # q.id
        <5>1. shown.users[e] = accounts[e] \/ RoleAfter(e, 0)
          BY <2>1, <2>4 DEF ListShown
        <5> QED
          BY <1>1, <1>12, <4>2, <5>1, RoleSettles
      <4> QED
        BY <4>1, <4>2
    <3> QED
      BY <1>1, <1>12, <2>1, <2>4, <3>2 DEF ListShown
  <2> QED
    BY <2>2, <2>3, <2>4
<1> QED
  BY <1>8, <1>10, <1>11, <1>13, <1>14

LEMMA FollowDelete ==
    ASSUME DashboardTypeOK, PagingInv, FollowInv, NEW i \in DOMAIN answers, SettleDelete(i)
    PROVE  FollowInv'
<1> SUFFICES ASSUME Calm'
             PROVE  /\ StatsAnswered' /\ StatsShown'
                    /\ RangesSent' /\ ChartsAnswered' /\ ChartsShown'
                    /\ "turned" \notin mishaps' =>
                           OffsetsSent' /\ RowsAnswered' /\ RolesAnswered' /\ ListShown'
  BY DEF FollowInv
<1> DEFINE q == answers[i].req
           more == IF q.offset # offset THEN {"turned"} ELSE {}
<1>1. /\ q \in Request /\ q.kind = "delete" /\ answers[i].ok
      /\ Consume(i, more) /\ UNCHANGED <<accounts, shown, offset, rangeDays>>
  BY OnTheWay DEF SettleDelete
<1>2. PICK u \in DOMAIN sent', s \in DOMAIN sent', c \in DOMAIN sent' :
          /\ u > Len(sent) /\ s > Len(sent) /\ c > Len(sent)
          /\ sent'[u].req = [kind |-> "users", offset |-> q.offset]
          /\ sent'[s].req = [kind |-> "stats"]
          /\ sent'[c].req = [kind |-> "analytics", days |-> DefaultDays]
          /\ \A k \in DOMAIN sent' : k \in DOMAIN sent \/ k \in {u, s, c}
  BY RefetchingMoves
<1>3. \A k \in DOMAIN sent : k \in DOMAIN sent' /\ sent'[k] = sent[k]
  BY RefetchingMoves
<1>4. /\ sent'[u].req \in Request /\ sent'[s].req \in Request /\ sent'[c].req \in Request
      /\ sent'[u].req.kind = "users" /\ sent'[u].req.offset = q.offset
      /\ sent'[s].req.kind = "stats"
      /\ sent'[c].req.kind = "analytics" /\ sent'[c].req.days = DefaultDays
  <2>1. q.offset \in Nat
    BY <1>1, RequestFields
  <2> HIDE DEF q
  <2> QED
    BY <1>2, <2>1, Sends, DefaultOffered
<1>5. /\ Fetches("users", sent'[u].req) /\ ~Fetches("analytics", sent'[u].req)
      /\ ~Fetches("users", sent'[s].req) /\ ~Fetches("analytics", sent'[s].req)
      /\ Fetches("stats", sent'[s].req)
      /\ ~Fetches("users", sent'[c].req) /\ Fetches("analytics", sent'[c].req)
  BY <1>4, Fetching
<1>6. /\ StatsAnswered /\ StatsShown /\ RangesSent /\ ChartsAnswered /\ ChartsShown
      /\ "turned" \notin mishaps => OffsetsSent /\ RowsAnswered /\ RolesAnswered /\ ListShown
  BY <1>1, <1>3, CalmSettles DEF FollowInv
<1>7. mishaps \subseteq mishaps' /\ ("turned" \notin mishaps' => q.offset = offset)
  BY <1>1 DEF Consume
<1>8. \A p \in Panels : \A k : Superseded(p, k)'
  BY <1>5 DEF Superseded, Panels
<1>9. StatsAnswered' /\ StatsShown' /\ ChartsAnswered' /\ ChartsShown'
  BY <1>8 DEF StatsAnswered, StatsShown, ChartsAnswered, ChartsShown, Panels
<1>10. RowsAnswered' /\ ListShown' /\ RolesAnswered'
  BY <1>8 DEF RowsAnswered, RolesAnswered, ListShown, Panels
<1>11. \A p, k : ResentAfter(p, k) => ResentAfter(p, k)'
  BY <1>3 DEF ResentAfter
<1>12. "removed" \in mishaps'
  BY <1>1, <1>7 DEF PagingInv
<1>13. RangesSent'
  <2> SUFFICES ASSUME NEW k \in DOMAIN sent', Fetches("analytics", sent'[k].req)
               PROVE  RangeRight(sent[k].req.days)' \/ ResentAfter("analytics", k)'
    BY DEF RangesSent
  <2> QED
    BY <1>12 DEF RangeRight
<1>14. ASSUME "turned" \notin mishaps'
       PROVE  OffsetsSent'
  <2> SUFFICES ASSUME NEW k \in DOMAIN sent', Fetches("users", sent'[k].req)
               PROVE  OffsetOf(sent'[k].req) = offset' \/ ResentAfter("users", k)'
    BY DEF OffsetsSent
  <2>1. CASE k \in DOMAIN sent
    BY <1>1, <1>3, <1>6, <1>7, <1>11, <1>14, <2>1 DEF OffsetsSent
  <2>2. CASE k = u
    BY <1>1, <1>4, <1>7, <1>14, <2>2 DEF OffsetOf
  <2> QED
    BY <1>2, <1>5, <2>1, <2>2
<1> QED
  BY <1>9, <1>10, <1>13, <1>14

LEMMA FollowRefused ==
    ASSUME DashboardTypeOK, SpinnerInv, FollowInv, NEW i \in DOMAIN answers, SettleRefused(i)
    PROVE  FollowInv'
<1> SUFFICES ASSUME Calm'
             PROVE  /\ StatsAnswered' /\ StatsShown'
                    /\ RangesSent' /\ ChartsAnswered' /\ ChartsShown'
                    /\ "turned" \notin mishaps' =>
                           OffsetsSent' /\ RowsAnswered' /\ RolesAnswered' /\ ListShown'
  BY DEF FollowInv
<1> DEFINE q == answers[i].req
<1>1. /\ q \in Request /\ ~answers[i].ok /\ Changes(q) /\ Consume(i, {})
      /\ UNCHANGED <<accounts, sent, shown, offset, rangeDays>>
  BY OnTheWay DEF SettleRefused, SpinnerInv, RefusalsChange, page
<1>2. /\ StatsAnswered /\ StatsShown /\ RangesSent /\ ChartsAnswered /\ ChartsShown
      /\ "turned" \notin mishaps => OffsetsSent /\ RowsAnswered /\ RolesAnswered /\ ListShown
      /\ \A k \in DOMAIN answers : k < i => ~Clash(answers[k].req, q)
  BY <1>1, CalmSettles DEF FollowInv
<1>3. mishaps \subseteq mishaps'
  BY <1>1 DEF Consume
<1>4. /\ StatsAnswered' /\ ChartsAnswered'
      /\ "turned" \notin mishaps' => RowsAnswered' /\ RolesAnswered'
  BY <1>1, <1>2, <1>3, FollowKept
<1>5. RangesSent' /\ ("turned" \notin mishaps' => OffsetsSent')
  BY <1>1, <1>2, <1>3 DEF RangesSent, OffsetsSent, ResentAfter, RangeRight
<1>6. \A p : Superseded(p, 0) => Superseded(p, 0)'
  BY <1>1, Fetching, SupersededSettles
\* A change that was refused patches nothing.
<1>7. \A e : RoleAfter(e, 0) => RoleAfter(e, 0)'
  <2> SUFFICES ASSUME NEW e, RoleAfter(e, 0) PROVE RoleAfter(e, 0)'
    OBVIOUS
  <2>1. PICK l \in DOMAIN answers :
            answers[l].ok /\ answers[l].req.kind = "role" /\ answers[l].req.id = e
    BY DEF RoleAfter
  <2>2. l # i
    BY <1>1, <2>1
  <2>3. After(i, l) > 0
    BY <2>2, OnTheWay DEF After
  <2> QED
    BY <1>1, <2>1, <2>2, <2>3, ConsumingMoves DEF RoleAfter
<1>8. StatsShown' /\ ChartsShown'
  BY <1>1, <1>2, <1>3, <1>6 DEF StatsShown, ChartsShown, RangeRight
<1>9. "turned" \notin mishaps' => ListShown'
  <2> SUFFICES ASSUME "turned" \notin mishaps', ListShown PROVE ListShown'
    BY <1>2, <1>3
  <2>1. CASE Superseded("users", 0)
    BY <1>6, <2>1 DEF ListShown
  <2>2. CASE ~Superseded("users", 0)
    BY <1>1, <1>7, <2>2 DEF ListShown
  <2> QED
    BY <2>1, <2>2
<1> QED
  BY <1>4, <1>5, <1>8, <1>9

LEMMA FollowInvariance ==
    ASSUME DashboardTypeOK, SpinnerInv, PagingInv, FollowInv, [DashboardNext]_dashboardVars
    PROVE  FollowInv'
<1>1. CASE UNCHANGED dashboardVars
  BY <1>1 DEF dashboardVars, FollowInv, Calm, StatsAnswered, StatsShown, RangesSent,
              ChartsAnswered, ChartsShown, OffsetsSent, RowsAnswered, RolesAnswered, ListShown,
              Superseded, ResentAfter, RoleAfter, RangeRight
<1>2. CASE "disturbed" \in mishaps'
  BY <1>2 DEF FollowInv, Calm
<1>3. AccountsChangeElsewhere => "disturbed" \in mishaps'
  BY DEF AccountsChangeElsewhere
<1>4. \A i \in DOMAIN sent : LoseRequest(i) => "disturbed" \in mishaps'
  BY DEF LoseRequest
<1>5. \A i \in DOMAIN answers : LoseAnswer(i) => "disturbed" \in mishaps'
  BY DEF LoseAnswer
<1> QED
  BY <1>1, <1>2, <1>3, <1>4, <1>5, FollowClicks, FollowServes, FollowFetch, FollowRole,
     FollowDelete, FollowRefused DEF DashboardNext, SettleAnswer

LEMMA FollowStarts == DashboardInit => FollowInv
<1> SUFFICES ASSUME DashboardInit PROVE FollowInv
  OBVIOUS
<1> DEFINE q == [kind |-> "overview", days |-> DefaultDays]
           m == Flying(q)
<1>1. q \in Request /\ q.kind = "overview" /\ q.days = DefaultDays
  BY Sends, DefaultOffered
<1>2. m.req = q
  BY DEF Flying
<1>3. sent = <<m>>
  BY DEF DashboardInit
<1> HIDE DEF q, m
<1>4. DOMAIN sent = {1} /\ sent[1].req = q
  BY <1>2, <1>3
<1>5. Fetches("stats", q) /\ Fetches("users", q) /\ Fetches("analytics", q)
  BY <1>1, Fetching
<1>6. \A k : Superseded("stats", k) /\ Superseded("users", k) /\ Superseded("analytics", k)
  BY <1>4, <1>5 DEF Superseded
<1>7. offset = 0 /\ rangeDays = DefaultDays
  BY DEF DashboardInit
<1>8. OffsetsSent /\ RangesSent
  BY <1>1, <1>4, <1>7 DEF OffsetsSent, RangesSent, OffsetOf, RangeRight
<1> QED
  BY <1>6, <1>8 DEF FollowInv, StatsAnswered, StatsShown, ChartsAnswered, ChartsShown,
                    RowsAnswered, RolesAnswered, ListShown

-----------------------------------------------------------------------------
DashboardInv == DashboardTypeOK /\ SpinnerInv /\ PagingInv /\ FollowInv

LEMMA FollowsWhenQuiet ==
    ASSUME DashboardInv
    PROVE  PanelsFollowOwnChanges /\ ListFollowsPagination
<1>1. ASSUME Quiet
      PROVE  /\ DOMAIN sent = {} /\ DOMAIN answers = {}
             /\ \A p, k : ~Superseded(p, k)
             /\ \A e, k : ~RoleAfter(e, k)
  <2>1. <<>> \in [{} -> {}]
    OBVIOUS
  <2>2. DOMAIN sent = {} /\ DOMAIN answers = {}
    BY <1>1, <2>1 DEF Quiet
  <2> QED
    BY <2>2 DEF Superseded, RoleAfter
<1>2. ASSUME Quiet, "disturbed" \notin mishaps
      PROVE  Calm
  BY <1>1, <1>2 DEF Calm
<1>3. PanelsFollowOwnChanges
  <2> SUFFICES ASSUME Quiet, "disturbed" \notin mishaps
               PROVE  /\ shown.stats = {Counts(accounts)}
                      /\ \A x \in shown.analytics :
                             /\ x.of = Existing(accounts)
                             /\ "removed" \notin mishaps => x.days = rangeDays
    BY DEF PanelsFollowOwnChanges
  <2>1. StatsShown /\ ChartsShown
    BY <1>2 DEF DashboardInv, FollowInv
  <2> QED
    BY <1>1, <2>1 DEF StatsShown, ChartsShown, RangeRight
<1>4. ListFollowsPagination
  <2> SUFFICES ASSUME Quiet, mishaps \cap {"disturbed", "turned"} = {}
               PROVE  /\ shown.users = PageOf(accounts, offset)
                      /\ shown.total = Cardinality(Existing(accounts))
    BY DEF ListFollowsPagination
  <2>1. ListShown
    BY <1>2 DEF DashboardInv, FollowInv
  <2>2. /\ shown.total = Cardinality(Existing(accounts))
        /\ DOMAIN shown.users = DOMAIN PageOf(accounts, offset)
        /\ \A e \in DOMAIN shown.users : shown.users[e] = accounts[e]
    BY <1>1, <2>1 DEF ListShown
  <2>3. accounts \in Accounts /\ offset \in Nat /\ shown.users \in Rows
    BY DisplayFields DEF DashboardInv, DashboardTypeOK
  <2>4. /\ PageOf(accounts, offset) \in Rows
        /\ \A e \in DOMAIN PageOf(accounts, offset) : PageOf(accounts, offset)[e] = accounts[e]
    BY <2>3, PageFits
  <2>5. ASSUME NEW r \in Rows, NEW s \in Rows, DOMAIN r = DOMAIN s,
               \A e \in DOMAIN r : r[e] = s[e]
        PROVE  r = s
    BY <2>5 DEF Rows
  <2> QED
    BY <2>2, <2>3, <2>4, <2>5
<1> QED
  BY <1>3, <1>4

LEMMA DashboardAlways == DashboardSpec => []DashboardInv
<1>1. DashboardInit => DashboardInv
  BY DashboardTypeStarts, SpinnerStarts, PagingStarts, FollowStarts DEF DashboardInv
<1>2. DashboardInv /\ [DashboardNext]_dashboardVars => DashboardInv'
  BY DashboardTypeInvariance, SpinnerInvariance, PagingInvariance, FollowInvariance
     DEF DashboardInv
<1> QED
  BY <1>1, <1>2, PTL DEF DashboardSpec

\* The page's state keeps its types, whichever answer comes when: never is
\* confirmDelete (AdminDashboardPage.tsx:375-404) the administrator's own id.
THEOREM DashboardTypeCorrect == DashboardSpec => []DashboardTypeOK
<1>1. DashboardInv => DashboardTypeOK
  BY DEF DashboardInv
<1> QED
  BY <1>1, DashboardAlways, PTL

\* The finally blocks (AdminDashboardPage.tsx:92-151) suffice: a spinner runs only
\* while a request that will stop it is under way, though requests share it.
THEOREM SpinnersStop == DashboardSpec => []SpinnerHasRequest
<1>1. DashboardInv => SpinnerHasRequest
  BY DEF DashboardInv, SpinnerInv
<1> QED
  BY <1>1, DashboardAlways, PTL

\* The pagination's guards (AdminDashboardPage.tsx:413-441) suffice: an empty page
\* of a list that is not empty is seen only after an account has been removed,
\* for lists and pages of any size.
THEOREM PagingStaysInside == DashboardSpec => []EmptyPageNeedsRemoval
<1>1. DashboardInv => EmptyPageNeedsRemoval
  BY DEF DashboardInv, PagingInv, EmptyPageNeedsRemoval
<1> QED
  BY <1>1, DashboardAlways, PTL

\* The refetches of handleRoleChange and handleDelete (AdminDashboardPage.tsx:157-181)
\* suffice: left alone and at rest, counts and charts are those of the server.
THEOREM PanelsFollow == DashboardSpec => []PanelsFollowOwnChanges
<1>1. DashboardInv => PanelsFollowOwnChanges
  BY FollowsWhenQuiet
<1> QED
  BY <1>1, DashboardAlways, PTL

\* And so are the rows, patched in place or fetched again: those of the page that
\* is named, unless it was turned while a deletion was on its way.
THEOREM ListFollows == DashboardSpec => []ListFollowsPagination
<1>1. DashboardInv => ListFollowsPagination
  BY FollowsWhenQuiet
<1> QED
  BY <1>1, DashboardAlways, PTL
=============================================================================
