--------------------------- MODULE BrowserSession ---------------------------
(***************************************************************************)
(* One browser tab: the calls it makes through apiClient, whose response   *)
(* interceptor refreshes an expired session behind the caller's back,      *)
(* AuthContext's idea of who is logged in, and NotificationBell, which     *)
(* polls the API and applies its answers.  A call is three steps: sent     *)
(* with the cookies of that moment, served, and delivered; calls overtake  *)
(* each other, and any of them may be lost.  The API's handlers are one    *)
(* step here (module Sessions has them await by await).                    *)
(***************************************************************************)
EXTENDS Naturals, FiniteSets

CONSTANTS
    PollCalls,    \* calls of the bell's timer in flight at a time
    UserCalls,    \* calls made by clicks in flight at a time
    RefreshCalls, \* calls of /auth/refresh; one suffices as refreshes are shared
    Notes,        \* the user's notifications
    Tokens,       \* refresh tokens; enough for one to be fresh at any time
    MaxUpsets,    \* bound on losses, expiries and what other devices do
    None

Calls == PollCalls \cup UserCalls \cup RefreshCalls

ASSUME NoneIsNone == None \notin Calls \cup Notes \cup Tokens
ASSUME RefreshesApart ==
    RefreshCalls # {} /\ RefreshCalls \cap (PollCalls \cup UserCalls) = {}
ASSUME BrowserFinite == IsFiniteSet(Calls) /\ IsFiniteSet(Notes)
ASSUME EnoughTokens == Cardinality(Tokens) > Cardinality(Calls) + 2
ASSUME BoundIsNat == MaxUpsets \in Nat

VARIABLES
    call,           \* the calls in flight
    refreshPromise, \* apiClient's: the refresh in flight, or None
    access,         \* the accessToken cookie; "stale": older than its JWT allows
    jar,            \* the refreshToken cookie
    user,           \* AuthContext: "loading", "in" or "out"
    badge,          \* unreadCount
    list,           \* notifications shown as unread in the popover
    loading,        \* the popover shows its spinner
    record,         \* column refresh_token
    made, unread,   \* table notifications, and its rows with is_read = 0
    upsets,
    undisturbed     \* history: nothing lost, logged out, or done elsewhere

auth == <<refreshPromise, access, jar, user>>
bell == <<badge, list, loading>>
server == <<record, made, unread>>
bounds == <<upsets, undisturbed>>
vars == <<call, auth, bell, server, bounds>>

\* The calls of the bell; an "orphan" is one whose bell has been unmounted.
BellKinds == {"count", "list", "read", "readAll"}
Kinds == BellKinds \cup {"orphan", "profile", "login", "logout", "refresh"}
Access == {"none", "valid", "stale"}

\* The fields of a call that its stage does not use keep their initial value.
Call == [kind : Kinds, stage : {"sent", "served", "waiting"}, retried : BOOLEAN,
         on : RefreshCalls \cup {None}, note : Notes \cup {None},
         access : Access, token : Tokens \cup {None},
         status : {0, 200, 401, 403}, unread : SUBSET Notes]
Idle == [kind |-> "idle"]

TypeOK ==
    /\ call \in [Calls -> Call \cup {Idle}]
    /\ refreshPromise \in RefreshCalls \cup {None}
    /\ access \in Access
    /\ {jar, record} \subseteq Tokens \cup {None}
    /\ user \in {"loading", "in", "out"}
    /\ badge \in 0 .. Cardinality(Notes)
    /\ list \subseteq Notes /\ loading \in BOOLEAN
    /\ unread \subseteq made /\ made \subseteq Notes
    /\ upsets \in 0 .. MaxUpsets /\ undisturbed \in BOOLEAN

\* A call as it is sent: the browser attaches the cookies it holds.
Sent(kind, note, retried) ==
    [kind |-> kind, stage |-> "sent", retried |-> retried, on |-> None, note |-> note,
     access |-> access, token |-> jar, status |-> 0, unread |-> {}]

OneToken == CHOOSE t \in Tokens : TRUE
OtherToken == CHOOSE t \in Tokens : t # OneToken

\* The page has been loaded, with whatever cookies an earlier one has left, and
\* AuthProvider asks who the user is.
Init ==
    /\ access \in Access
    /\ jar \in {None, OneToken} /\ record \in {None, OneToken, OtherToken}
    /\ \E c \in UserCalls :
           call = [d \in Calls |-> IF d = c THEN Sent("profile", None, FALSE) ELSE Idle]
    /\ refreshPromise = None
    /\ user = "loading"
    /\ badge = 0 /\ list = {} /\ loading = FALSE
    /\ made = {} /\ unread = {}
    /\ upsets = 0
    /\ undisturbed = (jar # None /\ jar = record)

-----------------------------------------------------------------------------
(* What the tab does. *)

Send(c, kind, note) ==
    /\ call[c] = Idle
    /\ call' = [call EXCEPT ![c] = Sent(kind, note, FALSE)]

\* A bell that asks only until it has something to show.
PollWhileEmpty(c) ==
    /\ user = "in" /\ badge = 0
    /\ Send(c, "count", None)
    /\ UNCHANGED <<auth, bell, server, bounds>>

\* fetchUnreadCount, when the bell mounts and every 30 seconds after.
Poll(c) ==
    /\ user = "in"
    /\ Send(c, "count", None)
    /\ UNCHANGED <<auth, bell, server, bounds>>

\* togglePopover, opening it: fetchNotifications.
Open(c) ==
    /\ user = "in"
    /\ Send(c, "list", None)
    /\ loading' = TRUE
    /\ UNCHANGED <<auth, badge, list, server, bounds>>

\* markAsRead, by a click on a notification shown as unread.
MarkAsRead(c, n) ==
    /\ user = "in"
    /\ ~loading /\ n \in list
    /\ Send(c, "read", n)
    /\ UNCHANGED <<auth, bell, server, bounds>>

\* markAllAsRead; its button shows while the badge does.
MarkAllAsRead(c) ==
    /\ user = "in"
    /\ badge > 0
    /\ Send(c, "readAll", None)
    /\ UNCHANGED <<auth, bell, server, bounds>>

Logout(c) ==
    /\ user = "in"
    /\ Send(c, "logout", None)
    /\ undisturbed' = FALSE
    /\ UNCHANGED <<auth, bell, server, upsets>>

\* LoginPage's onSubmit; its button is disabled while a login is in flight.
LogIn(c) ==
    /\ user = "out"
    /\ \A d \in Calls : call[d].kind # "login"
    /\ Send(c, "login", None)
    /\ UNCHANGED <<auth, bell, server, bounds>>

-----------------------------------------------------------------------------
(* What the API answers. *)

\* A token that nobody holds.
FreshToken ==
    CHOOSE t \in Tokens :
        /\ t # jar /\ t # record
        /\ \A c \in Calls : call[c] # Idle => call[c].token # t

Served(q, status) == [q EXCEPT !.stage = "served", !.status = status]

Answer(c, status) == call' = [call EXCEPT ![c] = Served(@, status)]

\* An answer that sets the cookies; the token of the call is now the new one.
AnswerTokens(c) ==
    /\ record' = FreshToken
    /\ call' = [call EXCEPT ![c] = [Served(@, 200) EXCEPT !.token = FreshToken]]

\* authenticateJWT, and the handler behind it.
ServeAuthenticated(c) ==
    /\ call[c].kind \in BellKinds \cup {"orphan", "profile"}
    /\ UNCHANGED <<record, made>>
    /\ \/ /\ call[c].access = "none"
          /\ Answer(c, 401) /\ UNCHANGED unread
       \/ /\ call[c].access = "stale"
          /\ Answer(c, 403) /\ UNCHANGED unread
       \/ /\ call[c].access = "valid"
          /\ call' = [call EXCEPT ![c] = [Served(@, 200) EXCEPT
                 !.unread = IF call[c].kind \in {"count", "list"} THEN unread ELSE {}]]
          /\ unread' = CASE call[c].kind = "read"    -> unread \ {call[c].note}
                         [] call[c].kind = "readAll" -> {}
                         [] OTHER                    -> unread

ServeRefresh(c) ==
    /\ call[c].kind = "refresh"
    /\ UNCHANGED <<made, unread>>
    /\ \/ call[c].token = None /\ Answer(c, 401) /\ UNCHANGED record
       \/ call[c].token \notin {None, record} /\ Answer(c, 403) /\ UNCHANGED record
       \/ call[c].token # None /\ call[c].token = record /\ AnswerTokens(c)

ServeLogin(c) ==
    /\ call[c].kind = "login"
    /\ UNCHANGED <<made, unread>>
    /\ \/ AnswerTokens(c)
       \/ Answer(c, 401) /\ UNCHANGED record

ServeLogout(c) ==
    /\ call[c].kind = "logout"
    /\ record' = IF call[c].token = record THEN None ELSE record
    /\ Answer(c, 200)
    /\ UNCHANGED <<made, unread>>

Serve(c) ==
    /\ call[c] # Idle /\ call[c].stage = "sent"
    /\ ServeAuthenticated(c) \/ ServeRefresh(c) \/ ServeLogin(c) \/ ServeLogout(c)
    /\ UNCHANGED <<auth, bell, bounds>>

-----------------------------------------------------------------------------
(* What apiClient does with an answer. *)

\* A list of endpoints that forgets the refresh itself.
IsCredentialEndpoint(kind) == kind = "login"

IsAuthEndpoint(kind) == kind \in {"refresh", "login"}

NeedsRefresh(c) ==
    /\ call[c].status = 401
    /\ ~call[c].retried
    /\ ~IsAuthEndpoint(call[c].kind)

\* The promise that a call which needs a refresh waits for: one of its own ...
OwnRefresh ==
    IF \E r \in RefreshCalls : call[r] = Idle
    THEN CHOOSE r \in RefreshCalls : call[r] = Idle ELSE refreshPromise

\* ... or the one that is shared.
SharedRefresh ==
    IF refreshPromise # None THEN refreshPromise
    ELSE CHOOSE r \in RefreshCalls : call[r] = Idle

Waiting(c, r) ==
    [call[c] EXCEPT !.stage = "waiting", !.retried = TRUE, !.on = r,
                    !.access = "none", !.token = None, !.status = 0]

AwaitRefresh(c) ==
    /\ NeedsRefresh(c)
    /\ LET r == SharedRefresh
       IN  /\ call' = [d \in Calls |->
                          IF d = c THEN Waiting(c, r)
                          ELSE IF d = r /\ call[r] = Idle THEN Sent("refresh", None, FALSE)
                          ELSE call[d]]
           /\ refreshPromise' = r
    /\ UNCHANGED <<access, jar, user, bell>>

Waiters(r) == {c \in Calls : call[c] # Idle /\ call[c].stage = "waiting" /\ call[c].on = r}

\* The refresh settles: those that wait for it send their request again, with
\* the new cookies, or fail with their own 401.
SettleRefresh(r) ==
    /\ call[r].kind = "refresh" /\ ~NeedsRefresh(r)
    /\ refreshPromise' = IF refreshPromise = r THEN None ELSE refreshPromise
    /\ IF call[r].status = 200
       THEN /\ access' = "valid" /\ jar' = call[r].token
            /\ call' = [c \in Calls |->
                   IF c = r THEN Idle
                   ELSE IF c \in Waiters(r)
                   THEN [call[c] EXCEPT !.stage = "sent", !.on = None,
                                        !.access = "valid", !.token = call[r].token]
                   ELSE call[c]]
            /\ UNCHANGED <<user, bell>>
       ELSE /\ call' = [c \in Calls |-> IF c \in Waiters(r) \cup {r} THEN Idle ELSE call[c]]
            /\ user' = IF \E c \in Waiters(r) : call[c].kind = "profile" THEN "out" ELSE user
            /\ LET failed == \E c \in Waiters(r) : call[c].kind = "list"
               IN  /\ list' = IF failed THEN {} ELSE list
                   /\ loading' = IF failed THEN FALSE ELSE loading
            /\ UNCHANGED <<access, jar, badge>>

\* The page a bell is on is left: what is still in flight finds no bell.
Unmount(c) ==
    /\ call' = [d \in Calls |->
           IF d = c THEN Idle
           ELSE IF call[d].kind \in BellKinds
           THEN [call[d] EXCEPT !.kind = "orphan", !.note = None, !.unread = {}]
           ELSE call[d]]
    /\ badge' = 0 /\ list' = {} /\ loading' = FALSE

Settle(c) == call' = [call EXCEPT ![c] = Idle]

\* loadProfile: any failure means logged out.
SettleProfile(c) ==
    /\ call[c].kind = "profile" /\ ~NeedsRefresh(c)
    /\ Settle(c)
    /\ user' = IF call[c].status = 200 THEN "in" ELSE "out"
    /\ UNCHANGED <<refreshPromise, access, jar, bell>>

SettleLogin(c) ==
    /\ call[c].kind = "login"
    /\ Settle(c)
    /\ IF call[c].status = 200
       THEN user' = "in" /\ access' = "valid" /\ jar' = call[c].token
       ELSE UNCHANGED <<user, access, jar>>
    /\ UNCHANGED <<refreshPromise, bell>>

\* logout clears the user even if the call fails; only an answer clears cookies.
SettleLogout(c) ==
    /\ call[c].kind = "logout"
    /\ Unmount(c)
    /\ user' = "out"
    /\ IF call[c].status = 200
       THEN access' = "none" /\ jar' = None
       ELSE UNCHANGED <<access, jar>>
    /\ UNCHANGED refreshPromise

\* A bell that counts down past zero.
CountDownAnyway(n) == n - 1

\* setUnreadCount(prev => Math.max(0, prev - 1))
CountDown(n) == IF n = 0 THEN 0 ELSE n - 1

SettleBell(c) ==
    /\ call[c].kind \in BellKinds \cup {"orphan"} /\ ~NeedsRefresh(c)
    /\ Settle(c)
    /\ LET kind == call[c].kind
           ok   == call[c].status = 200
       IN  /\ badge' = CASE ok /\ kind = "count"   -> Cardinality(call[c].unread)
                         [] ok /\ kind = "read"    -> CountDown(badge)
                         [] ok /\ kind = "readAll" -> 0
                         [] OTHER                  -> badge
           /\ list' = CASE kind = "list"           -> IF ok THEN call[c].unread ELSE {}
                        [] ok /\ kind = "read"     -> list \ {call[c].note}
                        [] ok /\ kind = "readAll"  -> {}
                        [] OTHER                   -> list
           /\ loading' = (kind # "list" /\ loading)
    /\ UNCHANGED auth

Deliver(c) ==
    /\ call[c] # Idle /\ call[c].stage = "served"
    /\ \/ AwaitRefresh(c) \/ SettleRefresh(c) \/ SettleProfile(c) \/ SettleLogin(c)
       \/ SettleLogout(c) \/ SettleBell(c)
    /\ UNCHANGED <<server, bounds>>

-----------------------------------------------------------------------------
(* What happens around it. *)

Upset == upsets < MaxUpsets /\ upsets' = upsets + 1

\* A request, or its answer, is lost; profile and logout also time out.
Lose(c) ==
    /\ call[c] # Idle /\ call[c].stage \in {"sent", "served"}
    /\ Upset
    /\ call' = [call EXCEPT ![c] = [Served(@, 0) EXCEPT !.unread = {}]]
    /\ undisturbed' = FALSE
    /\ UNCHANGED <<auth, bell, server>>

\* The access token expires, and with it, or a little later, its cookie.
Expire ==
    /\ access = "valid"
    /\ Upset
    /\ access' \in {"stale", "none"}
    /\ UNCHANGED <<call, refreshPromise, jar, user, bell, server, undisturbed>>

DropCookie ==
    /\ access = "stale"
    /\ access' = "none"
    /\ UNCHANGED <<call, refreshPromise, jar, user, bell, server, bounds>>

\* A login, a refresh or a logout with another browser.
Elsewhere ==
    /\ Upset
    /\ record' \in {FreshToken, None}
    /\ undisturbed' = FALSE
    /\ UNCHANGED <<call, auth, bell, made, unread>>

Notify(n) ==
    /\ n \notin made
    /\ made' = made \cup {n}
    /\ unread' = unread \cup {n}
    /\ UNCHANGED <<call, auth, bell, record, bounds>>

ReadElsewhere(n) ==
    /\ n \in unread
    /\ Upset
    /\ unread' = unread \ {n}
    /\ UNCHANGED <<call, auth, bell, record, made, undisturbed>>

Next ==
    \/ \E c \in PollCalls : Poll(c)
    \/ \E c \in UserCalls :
         \/ Open(c) \/ MarkAllAsRead(c) \/ Logout(c) \/ LogIn(c)
         \/ \E n \in Notes : MarkAsRead(c, n)
    \/ \E c \in Calls : Serve(c) \/ Deliver(c) \/ Lose(c)
    \/ \E n \in Notes : Notify(n) \/ ReadElsewhere(n)
    \/ Expire \/ DropCookie \/ Elsewhere

\* Requests that are not lost are answered, the timer fires, and the browser
\* drops a cookie whose age has passed.
Fairness ==
    /\ \A c \in Calls : WF_vars(Serve(c)) /\ WF_vars(Deliver(c))
    /\ \A c \in PollCalls : WF_vars(Poll(c))
    /\ WF_vars(DropCookie)

Spec == Init /\ [][Next]_vars /\ Fairness
-----------------------------------------------------------------------------
\* Calls that meet an expired session share one refresh, so that they do not
\* spend each other's token: of a tab that is left alone, on a network that
\* loses nothing, no refresh is ever refused.
RefreshIsNeverRefused ==
    undisturbed => \A r \in RefreshCalls : call[r] # Idle => call[r].status \notin {401, 403}

\* Whatever fails, and however often a session is refreshed, every call comes
\* to an end: in particular no refresh waits for itself.
EveryCallSettles == \A c \in Calls : call[c] # Idle ~> call[c] = Idle

LoggedIn == user = "in" /\ jar # None /\ jar = record

\* For as long as the session lives, the badge comes to show what the server
\* counts, whichever answers overtook which, and whatever was read elsewhere.
BadgeCatchesUp ==
    <>[]LoggedIn => <>[](badge = Cardinality(unread))
=============================================================================
