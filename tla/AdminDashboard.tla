--------------------------- MODULE AdminDashboard ---------------------------
(***************************************************************************)
(* frontend/src/pages/AdminDashboardPage.tsx and the endpoints it reads    *)
(* (backend/src/controllers/admin.controller.ts).  One administrator's     *)
(* page: three panels, each filled by whatever answer comes last, the      *)
(* clicks that send requests without waiting for earlier ones, and the     *)
(* refetches a handler sends once its PATCH or DELETE has succeeded.       *)
(* Requests overtake each other on the way to the server, answers on the   *)
(* way back.  An answer carries the accounts as the server saw them; a     *)
(* panel takes from it what it shows.  The search box only hides rows.     *)
(***************************************************************************)
EXTENDS Integers, FiniteSets, SequencesExt

CONSTANTS
    MaxAccounts, \* ids in order of registration; 1 is the page's own account
    Roles,       \* user, moderator, admin
    Limit,       \* LIMIT: rows of a page, 10 in the code
    Ranges,      \* the offered ranges, in days
    DefaultDays, \* the range of the first render, 14
    MaxInFlight  \* bound: requests under way when the administrator clicks

ASSUME BoundsPositive ==
    {MaxAccounts, Limit, MaxInFlight} \subseteq Nat \ {0}

ASSUME DefaultOffered == DefaultDays \in Ranges

Ids == 1..MaxAccounts
Self == 1
Absent == "absent"
Gone == "gone"
NoOne == 0

\* role VARCHAR: the three roles, and the two states of an id that has none.
ASSUME RolesKnown ==
    {"user", "admin"} \subseteq Roles /\ Roles \cap {Absent, Gone} = {}

Panels == {"stats", "analytics", "users"}

VARIABLES
    accounts,  \* the server's users: a role for each id, Absent before, Gone after
    sent,      \* requests on their way, in the order they were sent
    answers,   \* answers on their way, in the order the server gave them
    shown,     \* users, total, stats, analytics: null or empty at first
    offset,    \* of the page the pagination names
    rangeDays, \* the range button that is pressed
    spinning,  \* loadingStats, loadingAnalytics, loadingUsers
    confirm,   \* confirmDelete
    mishaps    \* history: what went wrong or came from elsewhere so far

dashboardVars == <<accounts, sent, answers, shown, offset, rangeDays, spinning,
                   confirm, mishaps>>
page == <<shown, offset, rangeDays, spinning, confirm>>

\* disturbed: an answer was used after it had been overtaken, a call failed, or
\* somebody else changed the accounts.  removed: an account was.  turned: the
\* page was, while a deletion was on its way.
Mishaps == {"disturbed", "removed", "turned"}

Request ==
         [kind : {"overview", "analytics"}, days : Ranges]
    \cup [kind : {"users"}, offset : Nat]
    \cup [kind : {"stats"}]
    \cup [kind : {"role"}, id : Ids, role : Roles]
    \cup [kind : {"delete"}, id : Ids, offset : Nat]

\* The panels a request fills, and whose spinner it turns.
PanelsOf(kind) == CASE kind = "overview"        -> Panels
                    [] kind \in Panels          -> {kind}
                    [] kind \in {"role", "delete"} -> {}

-----------------------------------------------------------------------------
\* The queries behind the endpoints, of accounts a.

Existing(a) == {i \in Ids : a[i] \in Roles}

\* getAllUsers: newest first, LIMIT and OFFSET.
PageOf(a, o) ==
    LET Newer(i) == Cardinality({j \in Existing(a) : j > i})
    IN  [i \in {j \in Existing(a) : o <= Newer(j) /\ Newer(j) < o + Limit} |-> a[i]]

\* getTotalUserCount and getUserRoleCounts.
Counts(a) == [role \in Roles |-> Cardinality({i \in Ids : a[i] = role})]

\* What an answer to request q about accounts a puts into the panels.
Filled(s, q, a) ==
    CASE q.kind = "users"     -> [s EXCEPT !.users = PageOf(a, q.offset),
                                           !.total = Cardinality(Existing(a))]
      [] q.kind = "stats"     -> [s EXCEPT !.stats = {Counts(a)}]
      [] q.kind = "analytics" -> [s EXCEPT !.analytics = {[days |-> q.days, of |-> Existing(a)]}]
      [] q.kind = "overview"  -> [users     |-> PageOf(a, 0),
                                  total     |-> Cardinality(Existing(a)),
                                  stats     |-> {Counts(a)},
                                  analytics |-> {[days |-> q.days, of |-> Existing(a)]}]

-----------------------------------------------------------------------------
Accounts == [Ids -> Roles \cup {Absent, Gone}]

\* A request on its way, and an answer on its way back.
Going == [req : Request, overtaken : BOOLEAN]
Coming == [req : Request, overtaken : BOOLEAN, ok : BOOLEAN, of : Accounts]

Rows == UNION {[S -> Roles] : S \in SUBSET Ids}
Display == [users : Rows, total : 0..MaxAccounts,
            stats : SUBSET [Roles -> 0..MaxAccounts],
            analytics : SUBSET [days : Ranges, of : SUBSET Ids]]

DashboardTypeOK ==
    /\ accounts \in Accounts
    /\ sent \in Seq(Going)
    /\ answers \in Seq(Coming)
    /\ shown \in Display
    /\ offset \in Nat
    /\ rangeDays \in Ranges
    /\ spinning \subseteq Panels
    /\ confirm \in (Ids \ {Self}) \cup {NoOne}
    /\ mishaps \subseteq Mishaps

Flying(q) == [req |-> q, overtaken |-> FALSE]

\* The first render has sent fetchOverview.
DashboardInit ==
    /\ \E n \in Ids : accounts \in {a \in [Ids -> Roles \cup {Absent}] :
           a[Self] = "admin" /\ \A i \in Ids : a[i] = Absent <=> i > n}
    /\ sent = <<Flying([kind |-> "overview", days |-> DefaultDays])>>
    /\ answers = <<>>
    /\ shown = [users |-> <<>>, total |-> 0, stats |-> {}, analytics |-> {}]
    /\ offset = 0
    /\ rangeDays = DefaultDays
    /\ spinning = Panels
    /\ confirm = NoOne
    /\ mishaps = {}

-----------------------------------------------------------------------------
(* The administrator clicks.  Nothing but the range buttons waits for an    *)
(* answer; the rows are hidden while the list is loading.                    *)

MayClick == Len(sent) + Len(answers) < MaxInFlight

Shows(i) == "users" \notin spinning /\ i \in DOMAIN shown.users

\* A request is sent; its spinner starts.
SendRequest(q) ==
    /\ sent' = Append(sent, Flying(q))
    /\ spinning' = spinning \cup PanelsOf(q.kind)
    /\ UNCHANGED <<accounts, answers, shown, mishaps>>

PickRange(days) ==
    /\ MayClick
    /\ "analytics" \notin spinning
    /\ rangeDays' = days
    /\ SendRequest([kind |-> "analytics", days |-> days])
    /\ UNCHANGED <<offset, confirm>>

\* totalPages > 1
PaginationShown == shown.total > Limit

\* An off-by-one: the page after the last full one.
HasNextOrFull == offset + Limit <= shown.total

HasNext == offset + Limit < shown.total

TurnTo(o) ==
    /\ offset' = o
    /\ SendRequest([kind |-> "users", offset |-> o])
    /\ UNCHANGED <<rangeDays, confirm>>

NextPage ==
    /\ MayClick
    /\ PaginationShown
    /\ HasNext
    /\ TurnTo(offset + Limit)

PreviousPage ==
    /\ MayClick
    /\ PaginationShown
    /\ offset # 0
    /\ TurnTo(Max({0, offset - Limit}))

SelectRole(i, role) ==
    /\ MayClick
    /\ Shows(i)
    /\ i # Self
    /\ shown.users[i] # role
    /\ SendRequest([kind |-> "role", id |-> i, role |-> role])
    /\ UNCHANGED <<offset, rangeDays, confirm>>

Ask(i) ==
    /\ confirm' = i
    /\ UNCHANGED <<accounts, sent, answers, shown, offset, rangeDays, spinning,
                   mishaps>>

\* Without u.id !== user?.id around the button.
ClickDeleteAnyone(i) == Shows(i) /\ confirm # i /\ Ask(i)

ClickDelete(i) == Shows(i) /\ i # Self /\ confirm # i /\ Ask(i)

ClickCancel == Shows(confirm) /\ Ask(NoOne)

\* handleDelete of this render: it will refetch the page named now.
ClickConfirm ==
    /\ MayClick
    /\ Shows(confirm)
    /\ SendRequest([kind |-> "delete", id |-> confirm, offset |-> offset])
    /\ UNCHANGED <<offset, rangeDays, confirm>>

-----------------------------------------------------------------------------
(* The server.                                                              *)

Changes(q) == q.kind \in {"role", "delete"}

TouchesRows(q) == q.kind = "role" \/ "users" \in PanelsOf(q.kind)

\* Two messages whose order the page can tell.
Clash(p, q) ==
    \/ PanelsOf(p.kind) \cap PanelsOf(q.kind) # {}
    \/ TouchesRows(p) /\ TouchesRows(q)

\* The i-th message overtakes those before it.
TakeOut(q, i) ==
    RemoveAt([j \in DOMAIN q |->
                 IF j < i /\ Clash(q[j].req, q[i].req)
                 THEN [q[j] EXCEPT !.overtaken = TRUE] ELSE q[j]], i)

\* getAdminUsers and getAdminOverview read in several queries; they are taken
\* together, as the page compares nothing between them but total and offset.
ServeRequest(i) ==
    LET q     == sent[i].req
        found == Changes(q) => accounts[q.id] \in Roles
        after == IF Changes(q) /\ found
                 THEN [accounts EXCEPT ![q.id] = IF q.kind = "role" THEN q.role ELSE Gone]
                 ELSE accounts
    IN  /\ sent' = TakeOut(sent, i)
        /\ accounts' = after
        /\ answers' = Append(answers, [req |-> q, overtaken |-> sent[i].overtaken,
                                       ok |-> found, of |-> after])
        /\ mishaps' = IF q.kind = "delete" /\ found THEN mishaps \cup {"removed"}
                                                    ELSE mishaps
        /\ UNCHANGED page

\* Somebody registers, or another administrator changes or removes an account.
\* Bound: once, before anything else has disturbed the page.
AccountsChangeElsewhere ==
    /\ "disturbed" \notin mishaps
    /\ \E i \in Ids \ {Self}, new \in Roles \cup {Gone} :
           /\ \/ accounts[i] \in Roles \ {new}
              \/ accounts[i] = Absent /\ accounts[i - 1] # Absent /\ new = "user"
           /\ accounts' = [accounts EXCEPT ![i] = new]
           /\ mishaps' = mishaps \cup {"disturbed"}
                                 \cup (IF new = Gone THEN {"removed"} ELSE {})
    /\ UNCHANGED <<sent, answers, page>>

-----------------------------------------------------------------------------
(* The page gets an answer.                                                 *)

Consume(i, more) ==
    /\ answers' = TakeOut(answers, i)
    /\ mishaps' = mishaps \cup more
                  \cup (IF answers[i].overtaken THEN {"disturbed"} ELSE {})

\* setStats, setAnalytics, setUsers, setTotal, and the finally block.
SettleFetch(i) ==
    /\ ~Changes(answers[i].req)
    /\ shown' = Filled(shown, answers[i].req, answers[i].of)
    /\ spinning' = spinning \ PanelsOf(answers[i].req.kind)
    /\ Consume(i, {})
    /\ UNCHANGED <<accounts, sent, offset, rangeDays, confirm>>

PatchRow(q) ==
    shown' = [shown EXCEPT !.users = [u \in DOMAIN @ |-> IF u = q.id THEN q.role ELSE @[u]]]

\* A role change that fetches nothing again.
SettleRoleChangeOnly(i) ==
    /\ answers[i].req.kind = "role"
    /\ answers[i].ok
    /\ PatchRow(answers[i].req)
    /\ Consume(i, {})
    /\ UNCHANGED <<accounts, sent, spinning, offset, rangeDays, confirm>>

\* The row is patched in place, the counts are fetched again.
SettleRoleChange(i) ==
    /\ answers[i].req.kind = "role"
    /\ answers[i].ok
    /\ PatchRow(answers[i].req)
    /\ sent' = Append(sent, Flying([kind |-> "stats"]))
    /\ spinning' = spinning \cup {"stats"}
    /\ Consume(i, {})
    /\ UNCHANGED <<accounts, offset, rangeDays, confirm>>

\* Always the first page.
FirstPage(q) == 0

\* The page a deletion fetches again: that of the click, from the closure.
PageToRefetch(q) == q.offset

\* All panels are fetched again; fetchAnalytics has no argument here, and its
\* default is the range of the first render.
SettleDelete(i) ==
    LET q == answers[i].req
    IN  /\ q.kind = "delete"
        /\ answers[i].ok
        /\ confirm' = NoOne
        /\ sent' = sent \o <<Flying([kind |-> "users", offset |-> PageToRefetch(q)]),
                             Flying([kind |-> "stats"]),
                             Flying([kind |-> "analytics", days |-> DefaultDays])>>
        /\ spinning' = Panels
        /\ Consume(i, IF q.offset # offset THEN {"turned"} ELSE {})
        /\ UNCHANGED <<accounts, shown, offset, rangeDays>>

\* 404, the account is gone already: a toast.
SettleRefused(i) ==
    /\ ~answers[i].ok
    /\ Consume(i, {})
    /\ UNCHANGED <<accounts, sent, page>>

\* A fetch without its finally block.
FailSpinning(q) == UNCHANGED page

\* A toast, and the finally block of a fetch.
Fail(q) ==
    /\ spinning' = spinning \ PanelsOf(q.kind)
    /\ UNCHANGED <<shown, offset, rangeDays, confirm>>

\* A request that never reached the server or failed there ...
LoseRequest(i) ==
    /\ sent' = RemoveAt(sent, i)
    /\ Fail(sent[i].req)
    /\ mishaps' = mishaps \cup {"disturbed"}
    /\ UNCHANGED <<accounts, answers>>

\* ... and an answer that never reached the page.
LoseAnswer(i) ==
    /\ answers' = RemoveAt(answers, i)
    /\ Fail(answers[i].req)
    /\ mishaps' = mishaps \cup {"disturbed"}
    /\ UNCHANGED <<accounts, sent>>

SettleAnswer(i) ==
    \/ SettleFetch(i) \/ SettleRoleChange(i) \/ SettleDelete(i)
    \/ SettleRefused(i) \/ LoseAnswer(i)

Click ==
    \/ \E days \in Ranges : PickRange(days)
    \/ NextPage \/ PreviousPage
    \/ \E i \in Ids : ClickDelete(i) \/ \E role \in Roles : SelectRole(i, role)
    \/ ClickCancel \/ ClickConfirm

DashboardNext ==
    \/ Click
    \/ AccountsChangeElsewhere
    \/ \E i \in DOMAIN sent : ServeRequest(i) \/ LoseRequest(i)
    \/ \E i \in DOMAIN answers : SettleAnswer(i)

DashboardSpec == DashboardInit /\ [][DashboardNext]_dashboardVars

-----------------------------------------------------------------------------
Quiet == sent = <<>> /\ answers = <<>>

\* The comment at handleDelete, and fetchStats in handleRoleChange: after the
\* page's own changes, counts and charts are those of the server, unless an
\* answer was overtaken or lost, or somebody else changed the accounts.  The
\* charts are of the pressed range until a deletion fetches the first one again.
PanelsFollowOwnChanges ==
    Quiet /\ "disturbed" \notin mishaps =>
        /\ shown.stats = {Counts(accounts)}
        /\ \A x \in shown.analytics :
               /\ x.of = Existing(accounts)
               /\ "removed" \notin mishaps => x.days = rangeDays

\* Under the same conditions the rows are those of the page the pagination
\* names, unless it was turned while a deletion was on its way: the deletion
\* then fetches the page that was named when it was confirmed.
ListFollowsPagination ==
    Quiet /\ mishaps \cap {"disturbed", "turned"} = {} =>
        /\ shown.users = PageOf(accounts, offset)
        /\ shown.total = Cardinality(Existing(accounts))

\* However the answers overlap, an empty page of a list that is not empty is
\* seen only after a removal: paging alone never leads past the end.
EmptyPageNeedsRemoval ==
    shown.total > 0 /\ DOMAIN shown.users = {} => "removed" \in mishaps

\* No spinner turns for ever: each is shared by all requests of its panel and
\* stopped by whichever is settled first, but never runs with none under way.
SpinnerHasRequest ==
    \A p \in spinning :
        \/ \E i \in DOMAIN sent : p \in PanelsOf(sent[i].req.kind)
        \/ \E i \in DOMAIN answers : p \in PanelsOf(answers[i].req.kind)
=============================================================================
