# A verification project for web3-platform

TLA+ models of the platform's backend, browser client and smart contracts,
checked with TLC on small instances, and proofs of the most important results
with TLAPS. Paths below are relative to the repository; `B` is
`backend/src`, `F` is `frontend/src`, `C` is `blockchain/contracts`.

Run `tlc -config X.cfg M` for a configuration and its module (table under
"Runs"), and `tlapm M.tla` for the eight proof modules (`...Proofs.tla`).

## 1. The system

A React page talks to an Express API with cookies. The API keeps its state in
SQL: SQLite in development, Postgres when `DATABASE_URL` is set. The page also
sends transactions to a chain through the user's wallet, and afterwards reports
them to the API, which checks them against a node of its own before recording
them.

| Part | State | Operations | What is hard | What makes it correct |
|---|---|---|---|---|
| Database access (`B/config/db.ts`, `initDb.ts`) | tables; SQLite: one connection and its open transaction; Postgres: a pool of five clients | `pool.query`, `withTransaction` | on SQLite the statements of all requests share the connection; on Postgres clients run out | a group of rows arrives whole or not at all; what is acknowledged stays; clients come back; foreign keys hold |
| Recording (`B/controllers/token.controller.ts`, models) | tables `tokens`, `transactions`, `notifications` | `recordToken`, `recordTokenTransfer`, `removeNotification` | failures between inserts; the account disappears meanwhile | rows of a recording are together, and never without their account |
| Chain verification (`B/services/chainVerifier.ts`) | none; reads a node | `verifyTokenCreation`, `verifyTokenTransfer` | anyone may report anything, of any contract; the node lags; wallets are relinked meanwhile | what is recorded is in the receipt of a transaction of the account's own wallet |
| Wallet linking (`B/controllers/auth.controller.ts`) | `users.wallet_address`, `users.nonce` | `getNonce`, `linkWallet`, `unlinkWallet` | check-then-act over awaits; two requests at once | a wallet belongs to one account, which has proven it controls it; a nonce works once |
| Sessions (same file, `B/middleware/auth.middleware.ts`) | `users.refresh_token`, cookies, JWTs | `login`, `refreshToken`, `logout`, `authenticateJWT` | refresh against logout; lost responses; stale roles | an ended session stays ended; removed authority ends |
| Accounts (`auth`, `admin.controller.ts`, `initDb.ts`, `index.ts`) | `users` | `register`, seeding, `patchUserRole`, `removeUser` | starting processes race; tokens outlive roles | e-mails are unique; the platform keeps an administrator |
| API client, AuthContext, login, bell (`F/services/apiClient.ts`, `F/contexts/AuthContext.tsx`, `F/pages/LoginPage.tsx`, `F/components/NotificationBell.tsx`) | the shared refresh promise, the user, badge and list | every call, its retry after a refresh, polling | calls in flight when the session expires; answers overtake each other | every call settles; one refresh at a time; the badge recovers |
| Token page (`F/pages/TokenManagementPage.tsx`) | a form in progress | deploy, transfer | failure between chain and report | the page always comes back |
| Contracts (`C/*.sol`) | registry, factory, tokens | their external functions | overflow, caps, paging, order of calls | list and mapping agree; supply is the sum of balances and within the cap |
| Chain panel of the dashboard (`F/pages/DashboardPage.tsx`, `F/services/web3Service.ts`) | the connected wallet, questions to the chain under way, a registration | asking after every change of wallet, a timer of five seconds, `handleRegisterOnChain` | questions are never cancelled; the node may never answer | the panel is about the connected wallet; its spinner stops |
| Admin dashboard (`F/pages/AdminDashboardPage.tsx`, the reads of `admin.controller.ts`) | three panels and their spinners, page, range, a deletion to confirm | ranges, paging, role change, deletion, and what each fetches again | nothing waits for earlier requests; handlers keep the values of their render | panels come to show the server's accounts; an empty page has a reason |
| `C/PlatformRegistry.sol`, `blockchain/scripts/deploy.ts`, `deployments.json` | the chain's contracts, the registry, the file | deploying, naming, writing the file; a local node that starts anew | the script dies between two steps; two scripts share the file | what the frontend reads is usable |
| Migration (`backend/scripts/migrate-sqlite-to-postgres.ts`) | both databases, an open transaction | copying, with and without `--force` | conflicts of ids, e-mails and wallets; the API runs meanwhile | a success copies everything, a failure nothing |
| Other pages, rate limits, charts, configuration | see PROJECT.json | | | not modelled, see 7 |

Components interact in four ways: page and API by requests that can be lost or
overtaken; requests with each other through the tables, at every `await`; API
and chain by reads of a node that may lag behind; the chain with everyone by
transactions, which are atomic.

`PROJECT.json` lists every component, and under "hazards" the places where this
code can go wrong in ways a test would hardly reach, each with the properties
that would catch it.

## 2. Modules

| Module | Models | Composes |
|---|---|---|
| `RecordTables` | the tables a recording writes: rows as data, insertion, cascade, foreign keys | |
| `AtomicRecords` | the abstract specification: a recording adds its whole group of rows in one step; rows otherwise only disappear | `RecordTables` |
| `SqliteTransactions` | `db.ts` on SQLite and the four handlers that matter to it, one step per awaited statement | implements `AtomicRecords` |
| `PostgresTransactions` | `db.ts` on Postgres, same handlers | implements `AtomicRecords` |
| `WalletLink` | nonce, link and unlink requests, one step per awaited statement | |
| `Sessions` | login, refresh, logout, cookies and the passing of time | |
| `AdminAccounts` | registration, seeding, role change, removal under possibly stale tokens | |
| `Contracts` | the words of the chain: `uint256` of some width, the zero address | |
| `UserRegistry` | `C/UserRegistry.sol` and a reader that pages through it | `Contracts` |
| `CustomToken` | `C/CustomToken.sol` with the ERC20 parts it inherits | `Contracts` |
| `TokenFactory` | `C/TokenFactory.sol` | used by `TokenRecording` |
| `TokenRecording` | token page, any other client, chain with foreign contracts, node, verification and recording end to end | `TokenFactory`; takes the transaction as atomic, which `AtomicRecords` justifies |
| `BrowserSession` | one tab: apiClient's interceptor, AuthContext, LoginPage, NotificationBell, with the API's handlers as single steps | abstracts `Sessions` |
| `AdminDashboard` | the administrator's page and the endpoints it reads, one step per message | the accounts of `AdminAccounts` as plain data |
| `ChainPanel` | the dashboard's panel about the connected wallet | registration as in `UserRegistry`, reduced to who is registered |
| `Deployment` | `deploy.ts`, `PlatformRegistry`, `deployments.json`, `forceRegister.ts` | |
| `Migration` | the migration script next to a running API | |
| `MCAlone` | puts `CustomToken`, `Deployment`, `Migration` and `ChainPanel` into one run | those four: a behaviour is that of one of them |
| `MC...` | the module of a run and what TLC needs besides | |
| `...Proofs` | theorems about the module of that name; `AloneProofs` about the four parts of `MCAlone` and, as one more contract, `UserRegistry`; `BrowserProofs` about `BrowserSession` and `AdminDashboard` | |

How the models read the code:

* An `await` ends a step. What a handler does between two awaits is one action,
  with its guard, its early returns and its writes; requests interleave between
  actions. `pc` (or `stage`) says which await a request is at.
* A contract call is one step. A call that reverts changes nothing and is left
  out, so the guard of an action is the conjunction of the `require`s.
* Crashes lose everything but the disk. Requests in flight become "lost".
* History variables (`committed`, `proven`, `undisturbed`, `mishaps`,
  `disturbed`, `touched`, `published`, `garbled`) are marked as such
  and appear in no guard, but for the bound in `Elsewhere` of `AdminDashboard`. `issued` and `signed` of `WalletLink` are not history:
  they are what clients and wallet owners have in hand, from which requests are
  made; the length of `drawnFor` numbers the nonces.
* Where the order of messages matters (`AdminDashboard`, `ChainPanel`), requests
  and answers under way are sequences from which any element may be taken; one
  that is taken before an earlier one has overtaken it, and the earlier one is
  marked. Properties that speak of the end result except what was overtaken,
  because the code shows whatever comes last.
* Data are as coarse as the properties allow: an address is a pair of a name
  and a spelling, because `toLowerCase` decides uniqueness; a JWT is its
  payload and its age, because two signed in one second for one payload are the
  same string; `uint256` is `0 .. MaxUint` with checked arithmetic; a row
  is its table, its request and its account.

State and actions of the central module, as an example of the correspondence:

| `SqliteTransactions` | Code |
|---|---|
| `disk`, `view`, `tx` | the file; what the one connection of `getDb` sees; who issued the `BEGIN` that is open (`db.ts:67-85, 148-157`) |
| `FindUser`, `Refuse` | `requireLinkedWallet`, `verifyTokenCreation` (`token.controller.ts:18-58`), or an error of the first statement, which for a deletion is its `DELETE` |
| `Begin` | `db.exec('BEGIN')`: an error, not a wait, if a transaction is open, and outside the `try` (`db.ts:149`) |
| `Insert` | one of the two or three inserts (`token.controller.ts:60-91`) |
| `StatementFails`, `Rollback` | the `catch` (`db.ts:154-157`) |
| `Commit` | `db.ts:152` |
| `DeleteUser`, `DismissNotification` | one autocommitted statement, which is part of `tx` if one is open |
| `Respond`, `Crash` | the answer; the process dies, the disk stays |

## 3. Runs

Every passing run checks one question of the system (`alone`: one of each of four
parts); each property has a mutant, a plausible bug in the code, that breaks it.
States are distinct states on the instance in the `.cfg`. What is proved for
every instance and implied by a checked property, or is a type invariant, is not
checked again: seven type invariants, and of `SqliteTransactions`
`UncommittedLeavesNothing`, `ForeignKeysOnDisk`, `ViewIsDiskPlusOpenTransaction`
and `GroupsArriveWhole` (section 6).

| Run | Instance | States | Shows |
|---|---|---|---|
| `sqlite` | 2 accounts, a token and a transfer recording, a deletion, a dismissal | 73,842 | groups arrive whole and stay; a failed one leaves nothing; the one transaction always has a live owner; refinement of `AtomicRecords` |
| `postgres` | the same, with two clients for four requests | 60,656 | no client is lost, private rows stay private, acknowledged writes (deletions too) stay, refinement, and every request is answered |
| `wallet_link` | 2 accounts, 2 wallets, 2 spellings, overlapping requests of each kind | 708,815 | a wallet has one account; it has signed a nonce of that account; an answered link has spent its nonce |
| `sessions` | 1 user, 1 browser, a login, a refresh and a logout repeated for ever, 3 ages | 401,548 | nothing revives an ended session but what was in flight; a role taken away is out of force after the access token's life |
| `admin_accounts` | 2 names, 2 spellings, 2 processes, 1 registration, 2 role changes, 1 removal | 339,774 | accounts are unique; the last administrator is lost only to a request with stale authority |
| `user_registry` | 3 addresses, 2 profiles, pages of 2 | 353,096 | list and mapping agree; deactivation is final; the paging reader misses and repeats nobody and catches up |
| `token_recording` | 1 account, 2 wallets, 2 names, a page, 2 transactions, 4 receipts of foreign contracts, reports of any content until a row is recorded | 723,592 | records are what a receipt of a proven wallet's transaction says, whoever reports; a page's transaction is not recorded twice; the page comes back |
| `browser_session` | a poll, a user's call, 2 refreshes, 1 notification, 2 upsets | 214,722 | a refresh is never refused by the tab's own doing; every call settles; the badge catches up |
| `admin_dashboard` | 2 accounts, pages of 1, 2 ranges, 2 requests under way at a click | 726,549 | after the page's own changes the panels show the server's accounts; the list is that of the page named; an empty page comes only from a removal; no spinner turns alone |
| `alone` | `CustomToken`: 3 holders, `uint256` of 0..11, units of 2; `Deployment`: 2 networks, a script and a half on one of them; `Migration`: 3 users, 2 e-mails, 1 wallet, 1 row; `ChainPanel`: 2 wallets, 2 questions | 928,502 | the supply is the sum of the balances and within the cap; published addresses are usable and no network's entry is lost; a migration copies everything or adds nothing; the panel is about the connected wallet and never hangs |
| `sqlite_lost_ack` | violation | | section 5 |
| `sessions_race` | violation | | section 5 |

Why the bounds are enough for what is claimed:

* The transaction models need two writers of groups, one autocommitted deletion
  and one autocommitted row change to have every pair of statements meet; two
  accounts so that a deletion can hit a recording's account or another's. The
  Postgres pool is smaller than the number of requests, so waiting is reached;
  the code's five is the same situation with more requests.
* In `WalletLink` two of everything makes both collisions possible: two
  accounts at one wallet, and two requests at one nonce; with the second wallet
  a signature may be by a wallet that is not the claimed one, which is what
  `linkWallet` compares. `View` in `MCWalletLink` takes states for one that
  differ only in what no step and no property reads any more.
* In `Sessions` a life of one tick for access and two for refresh tokens
  distinguishes valid, stale and dead in either combination. Requests return to
  idle and run again, so sequences of any length are explored.
* `UserRegistry` with three addresses has pages that are full, partial and
  empty, and registrations between two pages. `MaxUint = 8` leaves room for
  offset plus limit, as 2^256 does for a reader with a limit of its own size;
  a limit near the maximum makes the sum overflow and the call revert
  (`PageReverts`), and such a reader would never get a second page.
* `CustomToken` has `Unit = 2` and `MaxUint = 11`, odd, so that multiples of the
  unit do not end at the boundary; initial supplies, caps and amounts beyond it
  are in `Amounts`.
* `TokenRecording` bounds the transactions sent by `MaxTxs`; linking and
  unlinking are unbounded. Two transactions are a deployment, by the page or
  not, and what may follow it: a transfer of its token, a second deployment, or a
  call of a foreign contract. `ForeignLogs` has what a foreign contract can
  leave that matters: nothing, a `TokenCreated` of a token of its own, two of
  them about the factory's token of which only the first decides, and a
  `Transfer` of that token. A client other than the page may report anything
  of any transaction until `MaxRows` rows are recorded: two such reports of one
  transaction are accepted by the code, and would only add equal rows. One
  account is enough, because the second wallet may be linked to it or to nobody;
  two accounts give several million states, and are what the theorems cover,
  with any number of pages.
* `AdminDashboard` with pages of one row has an empty page, a last page and a
  page between accounts already with two accounts. `MaxInFlight` bounds the
  requests under way when the administrator clicks; a deletion adds its three
  refetches on top, so up to four requests are under way at once. Accounts are
  changed from elsewhere at most once in a behaviour, and before any other
  disturbance: the properties then only speak of what holds in spite of it.
* The four parts of `alone` share no variable, so a behaviour of their product
  is one of each; only one moves, the others stay in an initial state. In
  `Deployment` a script makes five transactions: five allow one whole run, a
  restart of the local node any number of them, and the sixth on the other
  network a second run that dies early. Two networks are what it takes for two
  scripts to meet at the file. In `Migration` three users, two e-mails and one
  wallet, which a user has or has not, make every conflict of ids, e-mails and
  wallets between the sides; in `ChainPanel` two wallets and two questions let
  one question overtake the other, a registration adds its own, and another tab
  or device registers either wallet at any time.
* `BrowserSession` bounds what may go wrong (losses, expiries, other devices) by
  `MaxUpsets`; every property must hold after they are used up. Seven tokens are
  one more than the four calls, jar and record can have between them, so there
  is always one to draw.
* Symmetry is used only in runs without liveness properties, over sets whose
  members the model does not tell apart.

## 4. Fairness

Fairness is weak, and per continuation, never on a failure, a crash, a lost
message or a user's click:

* `PostgresTransactions`: each request that can go on does. Node's event
  loop runs every ready continuation, and the pool serves its waiters first
  come, first served.
* `Sessions`: the same for each request, and time passes.
* `TokenRecording`: a sent transaction is mined (with success or failure), page
  and API finish what they have started. That the API's node learns of a block
  is not assumed: `PagesComeBack` does not need it.
* `BrowserSession`: a request is served and its answer delivered unless it is
  lost, the 30-second timer fires, and the browser drops a cookie whose Max-Age
  has passed.
* `UserRegistry`: the reader keeps reading, which is what a reader is.
* `ChainPanel`: the browser's timer fires for the oldest question. A node owes no
  answer: `PanelNeverHangs` is exactly about a node that gives none.

## 5. Disagreements met while modelling

Two are shown by a run:

* **A deletion that was acknowledged comes back** (`sqlite_lost_ack`).
  On SQLite, a `DELETE` executed while another request's transaction is
  open is part of it. If that request fails, its `ROLLBACK` (`db.ts:155`) undoes
  the deletion after "User deleted successfully" (`admin.controller.ts:146`) has
  been sent. Postgres does not have this (`AckedWritesDurable`), so development
  and production differ.
* **Logout can be undone by a refresh in flight** (`sessions_race`).
  `refreshToken` reads the row, signs, and stores; a logout in between nulls a
  column that is then written again, against `auth.controller.ts:150-154`.
  `EndedUntilLogin` is the part that does hold: with nothing in flight, only a
  login starts a session.
Others are plain from the code, and have no run:

* A dead session does not lead to the login page, against the comment in
  `apiClient.ts:10-13`: AuthContext asks for the profile once, on load
  (`AuthContext.tsx:42-58`), and nothing else clears the user, so
  `ProtectedRoute` never redirects.
* `handleDelete` fetches the page its render was on (`AdminDashboardPage.tsx:173`):
  after turning the page while the deletion is under way, the list is that of a
  page the pagination does not name. And it fetches the charts of 14 days
  whichever range is pressed (`AdminDashboardPage.tsx:104, 177`). Deleting the
  last row of the last page shows an empty page; where only one page is left,
  the pagination that would lead back is gone too.
* After a deletion elsewhere, or with answers overtaking each other, panels may
  disagree until the next click; nothing polls.
* `forceRegister.ts:50` calls `registerUser` with three arguments, which the
  contract has not had since roles are assigned by its owner; the script funds
  the account and then fails.
* If `deploy.ts` dies before it writes the file, the chain has contracts the
  frontend does not know, and the file is as it was. Two scripts at once can
  lose an entry (`deploy.ts:78, 128`).
* The chain panel compares nothing with the wallet that is connected when an
  answer arrives (`DashboardPage.tsx:62`): it can show the account of the wallet
  before, until the next question.
* `CustomToken.sol:25-26` says that `maxSupply` 0 means a fixed supply;
  `CustomToken.sol:39` and the code say unlimited. Also, minting after a burn is
  measured against `totalSupply`, so a cap bounds what exists, not what was ever
  minted.
* `ADMIN_EMAIL` is looked up and stored as written, accounts are looked up in
  lower case: an administrator seeded with a capital letter cannot log in; and
  if an ordinary account has the address already, the `INSERT OR IGNORE` seeds
  nothing while the log says it did (`initDb.ts:107-121`).
* On SQLite a recording that begins while another is open is answered with an
  error: `BEGIN` does not nest, and nothing waits (`db.ts:149`).
* `auth.controller.ts:125` says a rotated-away token cannot be replayed; two
  tokens signed for one user within one second are the same string.
* Two link requests that read the nonce before either rotates it can both be
  accepted on one signature; they are by the same account with the same wallet.
* `apiClient.ts:24` says a burst of 401s triggers exactly one refresh; a 401
  that arrives after the shared promise has settled triggers another.
* The migration calls itself safe to re-run (`migrate-sqlite-to-postgres.ts:6`).
  It is, in that a failure adds nothing (`MigrationOnlyAdds`), but one e-mail or
  one linked wallet with two ids makes every run fail as soon as the skipped
  user owns a row; if it owns none, the run succeeds and the user is missing,
  counted among the rows "already present". `ON CONFLICT DO NOTHING` names no
  column, and `email` and `wallet_address` are both UNIQUE (`initDb.ts:19, 24`).
* `verifyTokenCreation` takes a `TokenCreated` event from the log of any contract
  (`chainVerifier.ts:115-123`), while `verifyTokenTransfer` filters by address
  (`chainVerifier.ts:163`). So a recorded token need not be one the factory has
  made; `RecordsMatchChain` says of the factory only what a transaction that
  called it did.
* `chainVerifier.ts:14-16` says that a transaction is matched against what was
  claimed. The initial supply and the amount are not: no `TokenCreationClaim` or
  `TokenTransferClaim` has them (`chainVerifier.ts:93-101, 142-149`), and they
  are stored as reported.
* The API trims name and symbol (`schemas.ts:45-46`), the page sends them to the
  chain as typed (`TokenManagementPage.tsx`), and the verifier compares exactly:
  a token whose name has a blank at an end is deployed and never recorded.

## 6. Proofs

Every invariant and every action property of the passing runs is proved for all
values of the constants, and so are the two refinements: 33 of the 40 checked
properties. The other seven are the liveness properties, which stay with TLC.
The constants are assumed to be what TLC evaluates on every run:

* sets of requests or calls of different kinds are disjoint, and `None` is no
  member of what it is told apart from (`RecordReqsDisjoint`,
  `RequestsDisjoint`, `RefreshesApart`, `NoneIsNone`, `NoneIsNoRequest`,
  `NoneIsNoCall`, `NoneIsNoValue`, `NoneIsNoWallet`): these are names of our own
  for things the code holds in different variables, or null;
* what foreign contracts leave in a receipt are logs (`ForeignLogsAreLogs`);
* bounds and widths are naturals (`BoundIsNat`, `BoundsPositive`,
  `PoolSizePositive`, `PageSizePositive`, `UintPositive`, `WidthsPositive`,
  `LivesOrdered`);
* what is summed or counted is finite: the holders of a token
  (`HoldersFinite`), a tab's calls and a user's notifications (`BrowserFinite`);
* there is a browser, a network, a user with an e-mail (`SomeBrowser`,
  `SomeNetwork`, `SomeUser`), and the dashboard's roles include those its
  handlers name (`RolesKnown`);
* there are more refresh tokens than can be somewhere at once
  (`EnoughTokens`: one per call, one in the jar, one on record, and one to
  draw). Tokens are recycled in the model: with fewer, `FreshToken` might find
  none that is nowhere, while the code can always sign one more.

No safety property but the simplest is inductive. Each proof module has an
invariant that is, a lemma for each of its parts with a step per action, and
theorems that read the properties off it.

`SqliteTransactionsProofs`, first half (`IInv`). That a failed recording leaves
nothing on disk needs to know that rows in the view which are not on disk belong
to the open transaction, since a `COMMIT` copies the view to the disk, whoever's
rows it has:

* `TypeOK` and `TransactionHasOneLiveOwner`: only the owner of the open
  transaction is between `BEGIN` and its end;
* `RowsHaveCause`: a row on disk was committed, one in the view was committed
  or is the open transaction's;
* `ViewSettled`: with no transaction open, view and disk are equal;
* `ForeignKeys`, in the view and on disk: `DELETE` cascades in the view, so the
  disk inherits it at `COMMIT`;
* `LedgerKept`: what a request has written is in the view as long as its account
  is, and on disk once committed. Notifications are excepted: a user may
  dismiss one at any time.

Second half (`RInv`). That a `COMMIT` adds one whole group, and nothing else,
needs more: the view differs from the disk by exactly the open transaction's
rows, less what others have erased meanwhile (`ViewShrinks`); the account of the
rows already written is on disk (`OwnerOnDisk`: others cannot create accounts,
and a deletion leaves the disk alone until `COMMIT`); rows carry the account of
their request (`RowsNamed`); nothing is committed twice (`CommittedOnce`); and
only token requests write tokens (`TokensByToken`). From it, `Implements` maps
`Commit` to `Record`, or to `Erase` where the account was deleted inside the
transaction, and every other action to `Erase` or a stutter.

`PostgresTransactionsProofs`. The pool is a set of clients in use, so that none
is lost is a fact about cardinalities: `PoolInv` adds that the set is finite.
`PrivateRowsInv` says what an open transaction has and which account it has
locked; `LedgerInv` and `DeletedInv` that acknowledged recordings and deletions
are in the database. Here a deletion waits for the lock instead of joining the
transaction, which is why `AckedWritesDurable` has no counterpart on SQLite.

`WalletLinkProofs`. `LinkedWalletProven` and `AnsweredLinkSpendsNonce` follow a
nonce from where it was drawn: whatever a column, a client, a request or a
signature has was drawn for its account (`NoncesDrawn`, `SignaturesIssued`),
a request past the check carries the signature it needs (`VerifiedIsSigned`),
and what is stored is in lower case (`StoredLower`), on which uniqueness rests.

`AloneProofs`, `UserRegistry`. `ReadIsPrefix` says that what the reader has read
is the list's beginning up to its offset; the list only grows at its end, so a
page read later continues it.

`AdminAccountsProofs`. Ids are drawn in order (`IdsDrawn`), and a request that
is about to write has passed the check against acting on oneself
(`WritersChecked`). That the last administrator is lost only to a stale token is
proved from it as an action property: whoever demotes or deletes the last one is
another account, which is therefore no administrator any more.

`SessionsProofs`. `EndedUntilLogin` needs only that a request about to sign
or store knows whose session it is (`IssuersKnowWhose`); the weight is in
the case distinction over what is in flight.

`TokenRecordingProofs`. What a request has read stays true while it goes on: the
wallet stays proven though it may be unlinked (`ReadIsProven`), and a receipt
that bears out a report (`BearsOut`) goes on doing so (`VerifiedIsTrue`), since
a mined transaction never changes, and a row names one that was sent
(`RowsAreSent`).
That a creation of the factory is in its list (`DeployedIsListed`) is about the
chain alone, and holds whoever reports. Of reports by other clients nothing is
assumed but that they name a transaction there is. A page's transaction is not
recorded for it twice because one form at a time reports it as the page's own
(`FormsFit`, `ReportedOnce`).

`AloneProofs`, the parts of `MCAlone`. They share no variable (`StepsOfParts`),
and each has its own invariant:

* `TokenInv`: supply and cap are numbers, the cap holds, and the supply is the
  number of units held. A sum over the holders would be a fold, about which
  nothing can be proved for every input; so `UnitsHeld` counts instead: the
  units of a holder are the pairs of holder and number up to the balance, and
  the sum of the balances is how many pairs there are. Minting adds pairs,
  burning removes some, a transfer exchanges as many for others; that no
  balance exceeds the supply, and so `uint256`, follows because a holder's pairs
  are among them;
* `DeploymentInv`: what a script has deployed and named so far is on the chain
  (`RunsFit`), and what it has read is what it will leave of the other networks
  (`CopiesFit`), unless the file was garbled;
* `MigrationInv`: what the open transaction shows is consistent, and everything
  up to the present row is there or was skipped for its id, e-mail or wallet
  (`CopiedSoFar`);
* `PanelInv`: undisturbed, either the last question is about the connected wallet
  and still counts (`LastCounts`), or it has been answered and no earlier one
  counts any more (`LastAnswered`).

`BrowserProofs`, `BrowserSession`. `BrowserInv` carries `RefreshIsNeverRefused`:

* `SingleFlight`: a refresh is under way exactly when its promise is the shared
  one, and it never waits for another;
* as long as nothing has disturbed the session, `TokenInHand`: the token on record
  at the server is in the jar, or in the one answer that will put it there;
* `RefreshGoesWell`: a refresh at the server presents that token, or has been
  granted a new one;
* `Phases`: while the profile loads, only it and refreshes are under way; logged
  out, at most one login is. Without it a login could replace the token under a
  refresh that has been sent.

That a token drawn is nowhere else is a count (`EnoughTokens`), and that the badge
stays between zero and the number of notifications is one over `unread`.

`BrowserProofs`, `AdminDashboard`. Requests and answers are sequences from which
any element is taken, so the lemmas that all else cites say what taking one out
and appending some leaves (`OnTheWay`). `DashboardInv` has, besides the types:

* `SpinnerInv`: each running spinner has a request or an answer that will stop
  it, and only a change of an account is ever refused, for which no spinner runs;
* `PagingInv`: until an account is removed, every offset named, asked for or
  answered is zero or less than the number of accounts there are by now, since
  lists only grow. That such a page is not empty is a pigeonhole
  (`PageNotEmpty`): of more accounts than the offset, one has at least that many
  before it and fewer than a page more;
* `FollowInv`: undisturbed, each panel, each answer and each request is right
  about the accounts and the selection of now, or it is `Superseded`: behind it
  comes an answer, or a request not served yet, or a change whose handler will
  fetch again. When nothing is under way nothing can be superseded, so what is
  shown is right. For the rows there is a third way: one row may be wrong while
  a `PATCH` is still to patch it (`RoleAfter`). For the charts, that the range
  is the pressed one holds only until a deletion, whose handler asks for the
  range of the first render.

Only model-checked, because out of the prover's reach: liveness
(`EveryRequestAnswered`, `StaleAuthorityEnds`, `PagesComeBack`,
`ReaderCatchesUp`, `EveryCallSettles`, `BadgeCatchesUp`, `PanelNeverHangs`) and
anything about `ENABLED`.

## 7. Not modelled

* SQLite ending a transaction of its own accord (disk full, I/O error);
  Postgres serialization failures and lost connections other than a crash.
  Readers of a list while a transaction is open on SQLite (`db.ts:117`).
* Amounts and initial supplies, which the verifier never looks at (name and
  symbol, which it compares, are one value in `TokenRecording`). Several chains:
  `TokenRecording` has one, and a `chainId` without a node of its own is one more
  reason to refuse. Chain reorganisations after a receipt was read.
* Allowances and permits of ERC20, which change who may move a balance, not how
  much there is.
* Several tabs of one browser: each has a refresh promise of its own, and the
  loser of two refreshes is sent to log in again.
* `PlatformRegistry` beyond what `deploy.ts` calls: another owner, listing the
  names. `verify.ts`, which only prints or submits sources to an explorer.
* Statistics by day, rate limits (a library's counters; for the browser, a 429
  is a failed call), request validation beyond the normal form of e-mails and
  addresses, swagger, theme, charts, layout.

## 8. What is left

In this order:

1. `BrowserSession` with several tabs, and a refinement of an abstract session
   (none, live, ended) by it and by `Sessions`.
2. The safety that the liveness properties rest on, as theorems: that access
   tokens older than their life are out of every browser (`StaleAuthorityEnds`),
   that a page in use always has a call or a timer under way that will end it
   (`PagesComeBack`, `PanelNeverHangs`), that a call that waits has a refresh to
   wait for (`EveryCallSettles`). What is then left to TLC is that time passes
   and continuations run.
3. A reader of lists in `SqliteTransactions`, which may be shown rows of a
   transaction that is rolled back afterwards.
