# okane-dokoitta: specifications

TLA+ models of okane-dokoitta, a self-hosted personal ledger: a PWA that works
offline (`apps/web`), an HTTP API (`apps/api`) and one PostgreSQL database
(`packages/database`). The models are written from the source, not from the
design documents; where the two disagree the disagreement is a run or a configuration
of its own (see *Where the code and its documents disagree*). Paths below are relative
to the repository.

Contents: [inventory](#1-inventory) · [modules](#2-modules) · [runs](#3-runs) ·
[proofs](#4-proofs) · [disagreements](#5-where-the-code-and-its-documents-disagree) ·
[left out](#6-what-is-not-modelled) · [plan](#7-plan)

## 1. Inventory

| component | state it keeps | operations | hard part |
|---|---|---|---|
| **Write path** `packages/database/src/mutations.ts`, `POST /mutations` in `apps/api/src/app.ts` | rows of the synchronised tables with `version` and `deleted_at`; `sync_mutations`; `change_log` | one transaction per mutation: look up the id, dispatch to a handler inside a savepoint, record the result, append the change | several requests at once under READ COMMITTED; the same mutation twice; failure anywhere; answer lost after commit |
| **Offline client** `apps/web/src/offline.ts`, `api.ts`, `packages/sync/src/outbox.ts` | IndexedDB stores `outbox`, `conflicts`, `drafts`; retry timer; chain of sync runs | queue a mutation, send the head, handle a response, resolve a conflict, discard a draft, retry, wake up, start again | two IndexedDB transactions per update; several pages; lost, late and repeated responses |
| **Change feed and mirror** `packages/database/src/sync.ts`, `apps/api/src/sync-routes.ts`, `packages/sync/src/feed.ts` | `change_log.seq`; the device's cursor and mirror | append, list after a cursor, merge | numbers drawn before commit; merges from an old copy; limited responses |
| **Audit sessions** `packages/database/src/audit.ts`, `apps/api/src/audit-routes.ts`, `packages/domain/src/audit-patches.ts` | statements, their lines and matches, sessions, candidates, patches; the ledger rows they are about | import (one card or several), save or fail the matching, accept or reject a patch, complete | imports, decisions and the user's own edits at the same time; a patch that fails half way |
| **Audit engine** `packages/audit-engine`, `runMatching` in `audit-routes.ts` | candidates and a report per session | score pairs, match line by line, explain a difference, report | signs of refunds and rewards; a subset search with limits |
| **Ledger** `packages/domain/src/posting.ts`, `money.ts`, `transactions.ts`; `mutations.ts:400-460`, `553-656`, `967-1230`, `queries.ts` | transactions, journal entries and lines, balances | create, update, delete, refund; balances and net worth | every live entry balances; edits rebuild entries from a row read earlier |
| **Investments** `packages/domain/src/investments.ts`; `mutations.ts:471-550`, `1545-1721` | holdings (quantity, cost), securities, quotes | buy, sell, opening position, replay after an edit | read-then-write of an accumulated value |
| **Recurring** `packages/domain/src/recurring.ts`; `mutations.ts:1232-1541`; `pages/recurring.tsx`, `pages/quick-add.tsx`, `discord-routes.ts` | rules and expected transactions | create, update, delete, book and confirm, skip | two rows written in both orders; booking and confirming are two requests |
| **Accounts and groups** `mutations.ts:657-963` | accounts, cards, groups, limit groups, investment accounts | create, update, delete with cascade | references from elsewhere, checked by an earlier read |
| **Billing periods and dates** `packages/domain/src/dates.ts`, `statements.ts`; `cardCycleView` in `queries.ts` | none: computed from today | period of a day, previous bill, what is unpaid | days 29 to 31, leap years, ends of periods |
| **Notifications** `apps/api/src/notification-scheduler.ts`, `packages/notifications` | notification log, preferences | detect, deduplicate, cool down, deliver | overlapping scans, crash before delivery, midnight |
| **Authentication** `packages/database/src/auth.ts`, `passkeys.ts`; `apps/api/src/auth.ts`, `passkey-routes.ts` | users, sessions, challenges, recovery codes, invites | set up, register, log in four ways | two requests with one token; a handler of several transactions |
| **Devices and Discord links** `packages/database/src/sync.ts:126-196`, `discord.ts` | devices, the sessions bound to them, links | register, attach, revoke, link, unlink | revocation racing registration |
| **Import files** `apps/api/src/file-store.ts`, `retention.ts` | encrypted files, their rows | store, purge | file and row in two steps |
| **Restore** `packages/database/src/restore.ts` | the whole ledger of a user | replace an empty ledger | the check is outside the transaction |
| Others | — | importers, Discord commands, AI and market data calls, rate limit, pages | see section 6 |

How they interact. A page turns a user's action into a mutation with an id of its
own (UUIDv7), stores it in the outbox, and a sync run posts the outbox's head until
it is empty; each answer moves the head out of the outbox, into *conflicts* or into
*drafts*. The server decides a mutation in one database transaction and repeats that
decision whenever the id comes again. The same transaction appends the row's new
state to `change_log`; when the outbox is empty the run pulls the changes after the
device's cursor into its mirror. An audit import reads the ledger, and an accepted
patch writes it: through `applyMutation` when a transaction is created, directly
when one is assigned to the statement.

What makes each component correct:

- **Write path.** A mutation takes effect at most once; effect, record and change
  commit together; whatever has been answered is durable; deletions are final;
  versions count changes; every request is answered.
- **Offline client.** A mutation is in exactly one place until it has been applied
  or dismissed; the server decides mutations in the order they were made; nothing
  queued behind a refused mutation of the same record is sent; what waits is sent.
- **Change feed.** What the cursor has passed is in the mirror; a record never goes
  back to an older state.
- **Audit sessions.** A line is matched to at most one transaction, and that
  transaction belongs to the line's statement; a decision is made once; a superseded
  statement no longer changes; a completed session has nothing open.
- **Ledger.** Every live entry balances and is the one its transaction's columns call
  for; the net worth that is shown is what was earned, spent and brought in.
- **Investments.** A holding is the replay of the live trades of its security, and the
  investment account carries its cost.
- **Recurring.** A rule has at most one open expected transaction, and that one has the
  rule's date and terms; what is settled stays settled; a transaction booked for an
  expected one settles it, or the user knows that it did not.
- **Accounts.** What is in use refers to what is in use; every change of a row, also by
  somebody else's request, is in the change feed; values are in one currency.
- **Billing periods.** They tile the calendar; a bill is what its period showed; what
  is unpaid is reminded of.
- **Audit engine.** Every line has one answer and every transaction one use; the
  difference adds up, and its explanations explain all of it.
- **Notifications, one-time things, devices, files.** One delivery per key; one use per
  token; no live session of a revoked device; no file that retention cannot find.

## 2. Modules

```
MutationPromise        what the write path promises (abstract)
   ^ implemented by            ^ used as the server by
MutationService        SyncSystem  --extends-->  OfflineClient

Posting  <--extended by--  Ledger          AuditSession
Calendar <--extended by--  CardCycle       AuditEngine

Platform       composes ChangeFeed (extended) with Access, Reminders, ImportFiles
Bookkeeping    composes Accounts, Recurring, CardCycle, AuditEngine

MutationServiceProofs, SyncSystemProofs, AuditSessionProofs, LedgerProofs,
PlatformProofs and BookkeepingProofs extend the module they are named after, and
HoldingProofs extends LedgerProofs; the last four share the lemmas about finite
sets and sums of FiniteFacts
```

`MC*.tla` give each specification its model values; every `.cfg` names one question.
The idempotency envelope of MutationService surrounds every handler of Ledger,
Accounts and Recurring; these model what is inside it, so a failed request simply
leaves nothing behind and a repeated one is not handled twice.

Platform and Bookkeeping put several specifications side by side, so that one run
checks them all. A behaviour is one of one part: the variable `part` says which, and the variables
of the others keep a fixed value. Where the code lets one part read what another one
writes (the accounts of a rule, the bill a reminder is about, the lines a matching is
given), the reader's model takes it as an arbitrary input, so interleaving the parts
would multiply their states and show nothing more.

### MutationService (`mutations.ts`, `app.ts`, `sync.ts`)

A *worker* is a request handler; several run over one database. A step is one
statement of the transaction: a SELECT sees what is committed, a write waits for the
uncommitted row or key of another transaction, and what a transaction wrote appears
at once when it commits, so the uncommitted writes live in the worker's registers
(`seen`, `outcome`, `stamp`) and locks are derived from where the workers are
(`RowLocked`, `KeyHeld`).

| action | code |
|---|---|
| `Receive` | `POST /mutations` up to the call; an envelope whose payload fails its schema is refused and not recorded |
| `Lookup` | SELECT from `sync_mutations`: a known id is answered with its first result, a foreign one is refused |
| `Dispatch` | the handler's SELECT and checks inside the savepoint |
| `Write` | its INSERT or UPDATE, without a condition on the version |
| `RecordResult` | INSERT INTO `sync_mutations`, and `recordChange` |
| `Commit` | everything becomes visible; the answer leaves |
| `ReadBack` | the unique violation branch; also its failure to recognise the error |
| `Fail`, `Finish` | any other error or a lost database connection; the response is handed over |

The handlers in `mutations.ts` share one skeleton: require a base version, SELECT
the caller's live row, compare versions, check, write `version + 1`. It is taken
from the limit group handlers, the smallest ones. A check about amounts or references
may come out either way. Row contents are abstracted to *whose mutation's values the
row holds*, which is what overwrites and deletions are about.

### MutationPromise

Abstract specification, three variables: the fate of each mutation, the set of
mutations that took effect, and what has been told. Deciding is one step; repeating
changes nothing. MutationService is shown to implement it (`ImplementsPromise`, by
TLC and by proof); SyncSystem uses it in place of the server, so what is checked of
the client holds for the concurrent server as well.

### OfflineClient and SyncSystem (`offline.ts`, `api.ts`, `outbox.ts`)

OfflineClient has one action for every stretch of code between two awaits that
touches a store: `UiRead`/`UiWrite` for the two halves of `queueMutation`,
`resolveConflict` and `discardDraft`, `ReadHead`, `SyncRead`/`SyncWrite` for the sync
loop, `TimerFires`, `Wake` and `Reload` for what starts a run. `ApplyResponse` is
`applyMutationResponse`. `wanted` stands for the runs chained by `syncNow`: one that
has not begun will see everything queued so far, so one flag is enough. The outbox is
a set: `readQueue` sorts by `clientAt` and then by id, which `Before` orders. Ids are
numbers in the order they are drawn, as UUIDv7 are.

SyncSystem adds the server's promise and a network: a request is answered, or the
page gives up on it and it is lost, or it is still on its way (`orphans`) and the
server handles it later, possibly after the page was reloaded. `entrusted` and
`behind` are history variables: what the user handed over, and what was queued behind
what.

### ChangeFeed (`sync.ts`, `sync-routes.ts`, `feed.ts`, `offline.ts`)

Transactions draw numbers with `RecordChange`, hold their rows' locks and commit or
abort in any order; a page asks, receives at most `Limit` changes, reads the mirror
and writes the merge with the new cursor. `UserPut` is every other write to the
mirror: the optimistic entry of a mutation (`applyOptimisticCache`) and the server's
row of a conflict that is given up (`putMirror`).

### AuditSession (`audit.ts`, `audit-routes.ts`, `audit-patches.ts`)

A session is identified by its import and its bill (a card and a statement date).
`ImportRead`/`ImportInsert` are the two halves of `createAuditImport` and
`createGroupedAuditImport`; `MatchSave` is `runMatching` with `saveAuditResults`;
`MatchFails`/`MarkFailed` the error branch of the route, which marks every session of
the import; `ImportEnds` a crash. Which lines match which transactions depends on
amounts, dates and names: `Proposals` is the set of all outcomes, and every one is
tried. `Reject`, `Acknowledge`, `Create`, `CreateRefused`, `AssignRead`/`AssignWrite`
are the branches of `applyAuditPatch`. A decision locks the session's row, so a
decision that makes no write another flow could interfere with is one step, and the
assignment, which reads a ledger row it has not locked, is two. `EditRead`/`EditWrite`
are the user's edits through the write path, whose UPDATE has no version condition.
`matched`, `patches`, `session` and `statement` are the tables' columns.

Simplifications: currencies agree, so that check cannot fail; one request at a time
is completing a given session; a candidate and its patch, which are inserted and
decided together, are one record; the ledger range of the matching is read in the
step that saves its results (every transaction is looked at again when its patch is
decided, and the range is arbitrary, so nothing is lost).

### Posting and Ledger (`posting.ts`, `investments.ts`, `transactions.ts`, `mutations.ts`, `queries.ts`)

Posting has the pure rules: which accounts of which kinds each type of transaction
debits and credits (`PostingRule`, `Postable`, `BuildPosting`), the average cost of a
holding (`ApplyBuy`, `ApplySell`, `CostOf` with the code's rounding), the allowed
changes of status. An entry is a function from accounts to signed amounts.

Ledger executes them by concurrent requests. `BeginCreate`, `BeginUpdate` and
`BeginDelete` are a handler up to its first write, `ApplyUpdate` and `ApplyDelete`
what it computes once its row is locked (replay of the holding, the new entry), and
`CommitTxn` makes it visible. The UPDATE writes back every column of the row that was
read, and rebuilds the entry only if a financial column differs *from that copy*; this
is what the histories are about. `BeginDeleteAccount`/`CommitDeleteAccount` are
`deleteAccount` against bookings. `Balance` and `NetWorth` are `accountBalances` and
`netWorthSummary` for one currency and without quotes. `Replay` is `recomputeHolding`: a
fold over the live trades of an account, from the earliest on, that keeps the holding,
the cost of each sale and whether there was always enough to sell. Holdings are kept
by account, not by investment account: an edit may take an opening position to any
account.

Nothing keeps other entries off an investment account: `buildPosting` takes it for an
asset, so a transfer may be booked there, and an edit may even bring the proceeds of a
sale to the account the shares are sold from. `EntryMatchesRow` reads what a sale cost
from the entry beside those proceeds (`BookedCost`), and `OnlyItsTrades` restricts
`InvestmentsAddUp` to accounts that have their trades only.

### Accounts (`mutations.ts:657-963`, `1545-1700`, `restore.ts`)

Groups, limit groups, accounts, cards, investment accounts with their two accounts,
securities and quotes are rows with references. Rows are marked as deleted and never
removed, so the foreign keys say nothing about a reference being in use: each handler
checks by a SELECT (`Begin...`) and writes later (`Commit...`). `Restore` is
`restoreAllData`, whose check that the ledger is empty is outside its transaction.

### Recurring (`recurring.ts`, `mutations.ts:1232-1541`, the pages and the bot)

One rule and its expected transactions. An update of the rule writes the rule and then
the open row (`WriteRule`, `CommitUpdate`); settling a row writes the row and then the
rule (`WriteRow`, `CommitSettle`): two lock orders, so PostgreSQL may have to end one of
them (`Fail`). `Load`, `Book`, `BeginConfirm` are the three places that first book a
transaction and then, in a second request, confirm the expected one with the version they
loaded. The confirmation may be refused, get no answer (`ConfirmFails`), or never be sent
because the page was closed (`Vanish`): `unpaid` keeps which payments came to nothing and
whether the user was told. A date is the number of its period; real dates are in Calendar.

### Calendar and CardCycle (`dates.ts`, `statements.ts`, `recurring.ts`, `queries.ts`)

Calendar translates the date arithmetic and the schedules as functions. CardCycle lets
seventy days pass over two cards and a rule, and shows each day what `cardCycleView`
computes and which reminders `detectCandidates` sends. A rule begins with the date the
user gave it, which need not be on its day (`createRecurringRule`), and goes on with
`nextExpectedDate`. The properties compare one day with the day before, and the arithmetic
with a calendar counted on the fingers.
Both are written without recursion, so that the proofs hold for every date.

### AuditEngine (`packages/audit-engine`, `runMatching`)

`MatchLine` is one turn of the matching loop, `MakeReport` what follows it. `ScorePair`
has the signals with their weights and contradictions in 1/10000, `SolveDiscrepancy`
the search for one, two and three inputs that explain the difference. Lists are functions
on positions (`InOrder` lists a set of them), sums are over functions, which is the form
the proofs need. The run tries it on combinations of small bills and ledgers.

### Access (`auth.ts`, `passkeys.ts`, `passkey-routes.ts`, `account-routes.ts`, `sync.ts`, `discord.ts`)

A request goes through the separate transactions of its handler: look at the challenge,
consume it, issue the session; or save the passkey, count the passkeys, make the codes.
Others, or `Crash`, come in between. A challenge that expires after it was looked at is
consumed all the same, because only `usedAt` is in the UPDATE. A session is live, idle,
expired or revoked; a request that found it live writes its `last_seen_at` later
(`Resolve`, `Touch`), so that a session that went idle meanwhile is live again, and one
that was revoked is not. `LookAtDevice`/`Attach` are the two halves of
`attachSessionDevice`, `CheckDevice` is the check in `POST /mutations`.

### ImportFiles (`file-store.ts`, `retention.ts`, `audit-routes.ts`) and Reminders (`notification-scheduler.ts`)

ImportFiles has the temporary file, its rename, the row, and purges by the timer and by
the user, with a crash between any two steps. An error of the rename or of the transaction
is answered by removing the file, which may fail too (`RenameFails`, `PersistFails`).
Reminders has scans that overlap, last longer than an hour or stop half way: `Decide` is
the deduplication and the cooldown, `RecordSent` the row in the log, `Deliver` what follows
it.

## 3. Runs

Each run that holds explores its whole state space. A run that is violated has one property,
which says what a document, a comment or a test of the repository says; it is as small as
its counterexample.

| run | instance | question | result |
|---|---|---|---|
| `service` | 2 workers, 2 users, 1 row, 3 ids, 5 envelopes sent any number of times, 1 failure | idempotency, durability, feed, deadlock, refinement | holds, 0.5 M states |
| `service_overwrite` | 2 updates of the same version | no silent overwrite | **violated** |
| `client` | up to 2 pages, 2 records, up to 4 mutations, 2 clock ticks, 2 losses, 1 reload, every user action | order, dependents, nothing lost but to stale writes | holds, 0.9 M |
| `client_live` | 1 page, 2 mutations, 2 losses, 1 reload, fair | the outbox drains | holds, 38 k |
| `client_lost` | 1 page, no losses | nothing is lost | **violated** |
| `client_bare_conflict` | 1 page, 1 mutation, 1 loss | a conflict carries the server's row | **violated** |
| `feed_gap` | 2 transactions, 2 records | a device that pulled everything agrees with the server | **violated** |
| `audit` | 2 imports of 1 bill or 1 import of 2 bills, 1 line each, 1 transaction, 1 edit or deletion | matching, decisions, superseding, completion | holds, 0.8 M |
| `audit_partial` | 2 imports of 1 bill, no edits | a failed patch writes nothing | **violated** |
| `ledger` | 2 requests, 3 transactions: trades of one security booked in any order, or one of every other type; 2 edits or deletions | entries, holdings, net worth | holds, 0.3 M |
| `platform` | the feed (3 transactions, 2 records, limited responses, 1 optimistic entry); 2 users with 4 requests; reminders over 2 days; 2 imported files with 2 purges | each part's properties | holds, 0.5 M |
| `bookkeeping` | one row of every kind with 3 requests and a backup; a rule with 3 dates, 2 terms and 4 requests; 2 cards over 70 days; bills of up to 3 lines and ledgers of up to 3 rows | each part's properties | holds, 0.3 M |

Ten more configurations are kept beside these runs. Some properties of the passing runs make
an exception where the code lets a race or a failure through; each of these configurations
has the property *without* the exception, as a document of the repository has it, and TLC
finds the behaviour that violates it in seconds. They are no runs of PROJECT.json: they show
nothing that the exceptions do not say, but they show it step by step, and they are what to
run after the code is repaired: `tlc -config files_left.cfg ImportFiles`, for example.

| configuration, module | instance | property | the behaviour |
|---|---|---|---|
| `client_clock`, MCSyncSystem | 1 page, 2 mutations, a clock that is set back | `FirstInFirstDecided` | the mutation made later is decided first |
| `audit_early`, MCAuditSession | 2 imports of 1 bill, no edits | `NothingIsLeftOpen` | results saved between the count and the UPDATE of a completion |
| `ledger_overtaken`, MCLedger | as `ledger` | `EntryIsRegenerated` | an edit of the note restores the amount that another edit has changed, and leaves the new entry |
| `ledger_lost_trade`, MCLedger | as `ledger` | `NoTradeIsLost` | two trades computed from the same holding |
| `ledger_cost`, MCLedger | as `ledger`, one request at a time | `AssetAccountCarriesCost` | a purchase edited after a sale |
| `account_in_use`, MCBookkeeping | the accounts of `bookkeeping` | `UsedAccountsAreKept` | an account booked on between the check and the UPDATE of its deletion |
| `payment_lost`, Recurring | a rule with 2 dates, 1 page | `NoPaymentIsForgotten` | the page is closed between booking and confirming |
| `reminder_cooldown`, MCPlatform | the reminders of `platform` | `CooldownIsKept` | two scans, on either side of midnight |
| `files_left`, ImportFiles | 1 file, 1 purge | `RetentionFindsAll` | an import ends between its file and its row |
| `first_passkeys`, Access | 2 requests, 1 user | `CodesComeWithPasskey` | a registration ends after the passkey |

The bounds, and why they are enough for the questions asked:

- *service.* The interesting races are between two attempts of one mutation and
  between two writers of one row: two workers, and ids that are sent again without
  limit, contain both, and one failure at any step contains every crash point. Every
  property is about one mutation or one row; the proofs lift the bounds for all but
  liveness. `MaxFailures` bounds failures; no other counter is bounded.
- *client.* Two mutations are the fewest with an order; two records distinguish
  dependents from others; two losses let a first attempt and its repetition both be
  lost; a reload in any state is a crash in any state. Four mutations are the fewest
  with which a stale queue, written back by the page itself, can bring back a dependent
  of a refused mutation when a later one is decided already: the exception that
  `FirstInFirstDecided` states (`Settled`). `MaxMutations`, `MaxClock`, `MaxLosses` and
  `MaxReloads` are the bounds, and the constraint `Smaller` limits them together: with
  one page open two mutations and at most two failures, or four mutations, no failure
  and no conflict; with two pages two mutations of one record, one loss and plain
  mutations only. `ClockStepsBack` is FALSE in the passing runs: order
  by wall clock is the code's assumption. In `client_clock` it is TRUE, and a mutation made
  after the clock was set back is sent before the one made earlier. `FirstInFirstDecided`
  and `DependentsNeverOvertake` are about one open page: with two, a stale write of one
  brings back what the other has removed.
- *audit.* Two imports are needed to supersede; two sessions and one edit give three
  writers of one ledger row. `MaxEdits` = 1 excludes the sequence in which a second
  edit sets the version back to one a decision has read; the exception in
  `MatchedOnce` (`rewound`) says so. `TwoImportsOrTwoBills` separates what does not
  meet: to complete a session does not touch the ledger.
- *ledger.* Three trades are the fewest of which one can be booked late between two
  others; two workers contain every race of a read and a write; two edits let an edit
  follow or overtake another. `OneKindOfBook`: trades and other transactions share
  nothing but the code that is checked on either. `MaxEdits` bounds edits and
  deletions.
- *platform.* Feed: one transaction to be late, one to overtake it, and one more so
  that a limited response ends between them; one page, because with two
  `CursorIsCovered` fails when the page with the older response writes last
  (`Limit`, `MaxPuts`). Access: two requests for one token, four requests for the
  longest story (register, attach, revoke, attach again); `OneMatter` lets one of
  challenges, devices, links and invitations happen at a time, since they only share
  the session that is issued (`MaxRequests`, `MaxPasskeys`). Reminders: days of three
  hours, so that midnight and both forms of quiet hours are in four hours (`PerDay`,
  `Cooldown`, `Horizon`); one interference of the user (`OneInterference`). Files: two
  imports and two purges, any number of crashes.
- *bookkeeping.* Accounts: a check, a deletion and a use are three requests
  (`MaxRequests`), over one row of each kind; `OneSubject` separates cards and groups
  from investments, which do not refer to each other. Recurring: three dates, so that a
  rule can be moved over a settled one (`LastDate`), and four requests; `FirstTerms` is
  a symmetry. Cards: seventy days from the end of December are two ends of periods and
  the end of February of a leap year and of 2100 (for the rules also of an ordinary year), for twenty settings
  of statement and due day. Engine: every pair of lines with every pair of
  transactions, the triples that make three-input explanations, and the
  facts about a pair that raise or lower its score: none of them, all of them, and all
  with a merchant's alias.

Deadlock is checked in the service, client and feed runs. In the others requests,
edits or days are bounded and imports run once, so the system does stop. Symmetry is
used in runs without liveness only.

Fairness. `service` assumes weak fairness of a worker's own steps: Node runs every
continuation and PostgreSQL ends a lock wait when the lock is released. `client_live`
assumes weak fairness of a page's continuations and of its retry timer, and that once
the losses are used up a request gets an answer; nothing is assumed of the user or of
wake-up events. It covers `mutate` and `keep_local`, the actions that queue something.
A resolution by the server's copy or a discarded draft is not followed by a sync run,
so one of those writing back a stale copy can put an item into the outbox with nobody
scheduled to send it until the next wake-up; they are left out of this run for that
reason.

The exceptions in the properties are behaviours of the code, recorded by history
variables. Outside them the properties hold without qualification. A property with an
exception says nothing about the hazard it excepts: the run or configuration in the last
column has the property without it, which is violated.

| history | what it records | shown by |
|---|---|---|
| `overtaken` (Ledger) | a row written from a copy that was no longer current | `ledger_overtaken` |
| `crossed` (Ledger) | trades that changed under a holding's writer | `ledger_lost_trade` |
| `skewed` (Ledger) | edits that change what an earlier sale cost | `ledger_cost` |
| | trades booked late, trades moved to another account | |
| `raced` (MutationService) | a row that changed between a writer's read and its write | `service_overwrite` |
| `raced` (Recurring) | the same of the rows of a rule: two requests that settle one row | |
| `unpaid` (Recurring) | payments whose confirmation came to nothing | `payment_lost` |
| `StaleWrite` (SyncSystem) | a queue computed from an old copy of the stores | `client_lost` |
| `late` (ChangeFeed) | a change committed after one with a larger number | `feed_gap` |
| `early` (AuditSession) | a session completed on a count from before its results were saved | `audit_early` |
| `rewound` (AuditSession) | a version set back by an edit | |
| `crossed` (Accounts) | references whose check no longer held when they were written | `account_in_use` |
| `crossed` (Access) | two first passkeys side by side, a registration that died | `first_passkeys` |
| | a session attached on a device read before its revocation | |
| `crossed` (Reminders) | two scans deciding about one thing at once | `reminder_cooldown` |
| `orphaned` (ImportFiles) | an import that ended before its row without removing its file | `files_left` |

The others are behaviours that no document rules out in so many words, or the
same lost update as in `service_overwrite` (`raced` of Recurring, `rewound`). They are
described beside their properties and in section 5.

## 4. Proofs

TLAPS checks the theorems of seven modules, and the lemmas of an eighth (FiniteFacts),
for every value of the constants that the assumptions below allow. None of them needs
the constraints that keep a run small.

| module | theorem | statement |
|---|---|---|
| `MutationServiceProofs` | `Invariant` | `Spec => []IInv` |
| | `TypeCorrect` | `Spec => []TypeOK` |
| | `ExactlyOnce` | `Spec => []EffectIffRecorded` |
| | `AnswersAreDurable` | `Spec => []AnsweredIsDurable` |
| | `ResultsAreFinal` | `Spec => FirstResultWins` |
| | `DeletionIsFinal` | `Spec => DeletedStaysDeleted` |
| | `FeedIsComplete` | `Spec => []RowsAreInFeed` |
| | `VersionsCount` | `Spec => []VersionsCountChanges` |
| | `ServiceKeepsPromise` | `Spec => ImplementsPromise` |
| `SyncSystemProofs` | `TypeCorrect` | `SysSpec => []TypeOK` |
| | `OnePlace` | `SysSpec => []OnePlaceEach` |
| | `OnlyStaleWritesLoseAny` | `SysSpec => OnlyStaleWritesLose` |
| | `FirstInFirst` | `~ClockStepsBack => (SysSpec => []FirstInFirstDecided)` |
| | `NeverOvertake` | `~ClockStepsBack => (SysSpec => []DependentsNeverOvertake)` |
| `AuditSessionProofs` | `TypeCorrect` | `Spec => []TypeOK` |
| | `MatchedToOne` | `Spec => []MatchedOnce` |
| | `CompletedSettled` | `Spec => []CompletedIsSettled` |
| | `DecidesOnce` | `Spec => DecidedOnce` |
| | `SupersededFrozen` | `Spec => SupersededIsFrozen` |
| `LedgerProofs` | `TypeCorrect` | `Spec => []TypeOK` |
| | `Balances` | `Spec => []EntriesBalance` |
| | `EntryIsOfRow` | `Spec => []EntryMatchesRow` |
| `HoldingProofs` | `HoldingOfTrades` | `Spec => []HoldingIsReplay` |
| | `InvestmentsOnTheLedger` | `Spec => []InvestmentsAddUp` |
| `PlatformProofs` | `FeedOrdered` | `Spec => [](TypeOK /\ ServerInv /\ FeedIsInOrder)` |
| | `CursorNeverSkips` | `OnePage => (Spec => []CursorIsCovered)` |
| | `PlatformIsTyped` | `PlatformSpec => []PlatformTypeOK` |
| | `OneTimeThingsLetOneIn` | `PlatformSpec => []OneTimeThings` |
| | `RevokedDevicesHaveNoSession` | `PlatformSpec => []DevicesAndPasskeys` |
| | `FilesAccounted` | `PlatformSpec => []FilesAreAccounted` |
| | `RemindersSaidOnce` | `PlatformSpec => []RemindersAreSaidOnce` |
| | `EndedNeverComesBack` | `PlatformSpec => NothingComesBack` |
| `BookkeepingProofs` | `BooksAreTyped` | `BookSpec => []TypeOK` |
| | `RecordsHoldAlways` | `BookSpec => []RecordsHold` |
| | `ChangesReported` | `BookSpec => []ChangesAreReported` |
| | `RulesFollowed` | `BookSpec => []RulesAreFollowed` |
| | `SettledIsFinal` | `BookSpec => SettledStays` |
| | `PeriodsHold` | `BookSpec => []PeriodsAndBills` |
| | `BillsExplained` | `BookSpec => []BillsAreExplained` |

### The assumptions

Each is a named `ASSUME` of the module it is about, which TLC evaluates too.

- *MutationService*: envelopes have the shape of an envelope, `None` is not a record,
  the failure bound is a number.
- *OfflineClient, SyncSystem*: the bounds are numbers, at least one clock reading, the
  tasks are those the user interface has, and the pages of a browser are finitely many.
  `FirstInFirst` and `NeverOvertake` assume of the clock what the code assumes of it.
- *ChangeFeed*: a response holds at least one change. `CursorNeverSkips` is about one
  page; with two it is false (the comment beside the property says how).
- *AuditSession*: the user's transactions are not those that will be made for the lines
  (new UUIDs), and `None` is none of the ids.
- *Ledger*: transactions and accounts are finitely many, every investment account has
  its settlement account, which is not an investment account itself, an account is of
  the kind `investment_asset` exactly if it is one of an investment account, opening
  positions are booked against an account for opening balances, days are numbers, and
  clients' requests have the shape their schema demands (`RequestAssumption`). `None` and
  `Keep` are no values that are stored.
- *Platform*: `None` is no row, device, thing to remind of or file (`NoneAssumption`);
  the ids of invitations are not the words `setup` and `open`, a user may have a passkey
  (`AccessAssumption`); every kind of reminder is said either once or daily, as in
  `events.ts`, a day has an hour, and the hours of the preferences are hours of a day
  (`RemindersAssumption`). The bounds are numbers.
- *Bookkeeping* (`BookAssumption`): an id is of one table; the opening balance account
  and the two accounts of an investment account are not credit cards; at the start
  there is an opening balance account, and an investment account exactly if its two
  accounts are there; a backup is of a ledger in which nothing dangles
  (`BackupAssumption`): what it refers to is in it, in use where it has to be, and only
  cards share a limit. A rule has dates and terms. `None` is no id, row or booking, and
  the bounds are numbers.
- *CardCycle* (`CycleAssumption`): the days that pass begin with a civil date as
  `parseCivilDate` lets it in, of any year; statement and due days are days of a month,
  1 to 31, intervals of schedules are positive, and the first date of a rule is a civil
  date, as the schemas demand; it is not before those days, which is a bound of the model:
  a rule that begins in the past has only its overdue row to show until it is settled.
  Amounts are
  whatever they are.
- *AuditEngine* (`EngineAssumption`): bills and ledgers are lists of records with whole
  amounts (minor units), the facts a caller of `scorePair` may know are codes with a
  weight, the two caps are numbers and `None` is not. How names are similar is arbitrary.

### The arguments

None of the safety properties is inductive. What each module adds, checked by TLC on
the module's run before it was proved:

**MutationService.** That a commit does not overwrite a result depends on what other
workers are about to do. `BusyWorkers`: a worker with work to do has an envelope, and
what it is about to record is a verdict that can be recorded. `LocksExclude`: two
workers are never in `commit` with the same id, and never hold an uncommitted write of
the same row; this is where the primary key and the row lock do their work.
`InsertsAreNew`: a worker in `commit` works on an id that has no result yet, and a
`create` about to commit is of a row that does not exist. With these, each step is one
case: only `Commit` writes the tables. `DeletionIsFinal` needs in addition that only a
`create` can set a row live and that it never meets an existing row. `VersionsCount`
rests on a second invariant: numbers drawn by workers holding a row are above all
committed ones of that row, and, unless somebody was overtaken, the version about to be
written is the next one. `ServiceKeepsPromise` maps `Commit` to `Decide`, an answered
repetition to `Repeat` and everything else to a stutter.

**SyncSystem.** For `OnePlace` the invariant speaks of every queue there is, the stored
one and the copies that flows have read: in each, an id is of one mutation in one of the
stores (`QueuesAreSound`), and an id that a flow has drawn and not stored yet is in none
(`DrawnOnce`). `ResponsesAreTrue` says that what a page has been told is what the server
decided. `OnlyStaleWritesLoseAny` follows step by step: a flow whose copy is still the
queue removes only what was applied or disposed of. Order needs more (`OrderInv`, about
the one open page): ids are used in the order they are drawn and sent only after they
are stored; where the clock does not go back the order of the outbox is that of the ids;
what is behind something has it before it in the same copy, or it was applied, or is in
conflict; what was made before a mutation that was sent is settled, in the store and in
both copies; and where the copies differ, what one lacks is settled or newer
(`CopiesAgree`). The proof of this invariant showed that `FirstInFirstDecided` as first
stated was false with four mutations; it now says what is true, and the run has the
counterexample's size.

**ChangeFeed.** `OpenIsAhead`: what an open transaction has written carries the next
version of its record, with a number above all committed ones of that record, and no
other open transaction writes the record. So commits keep `FeedIsInOrder`. For the
cursor (`DeviceInv`): it is a number of the log and does not move while a pull is under
way, a response has everything from where it was asked up to its last change
(`FeedIsComplete`, from the lemma that a limited response is a prefix), and the copy of
the mirror covers what the mirror covered.

**AuditSession.** `AssigningIsSound`: a decision under way holds its session, whose
statement is not superseded, and the version that it has read is the row's only if
nobody else has taken the row; this is what makes the conditional UPDATE of `audit.ts`
sufficient. `ImportsAreApart`: an import works on sessions of its own.
`ProposedIsNotMade`: a transaction that a patch is still to make is not there.
`PatchesAreSound`: a line has one patch. `CountedIsSettled`: what a request to complete
has counted is settled, unless the results came later. `MatchedOnce` itself was
strengthened for the proof: the patches applied to a line are about the transaction the
line is matched to, and there are none if it is matched to none.

**Ledger.** `JobsAreSound`: what a request is about to commit is a row, a balanced entry
and a holding that is not below zero. It rests on lemmas about the pure rules:
`PostingSound` (whatever `Postable` lets through has an entry that adds up to zero),
`CostBound` (with the code's rounding, part of a holding never costs more than all of
it) and `ReplaySound`. `RowsAreLocked`: of two requests about to commit the same row
neither has found one. `LinesFit`: the entry a request will write is the one its row
calls for; if it keeps the entry that is there, the columns the entry is made of are
those of the copy it read, and it is live exactly if the row still is. The lock keeps the
row as it was, so a request that was not overtaken finds the entry of its copy.

**Holdings.** A holding is written by a request that has read it, or the trades it is
replayed from, some steps earlier, so `HInv` says of every request about to commit what
its holding is: `AfterTrade` of the holding it read for a new trade (`NewKnown`), the
replay of the trades it read with its own row among them otherwise (`BasisKnown`). Two
lemmas about the fold connect them: one more trade that is later than all others is one
more step of the replay (`LaterTrade`), and replays of the same trades agree, whatever
else is in the tables (`ReplaysAgree`). Both need that trades are totally ordered, that
is, that no two rows were born together (`RowsAreKnown`). Which holding a trade is of
needs an invariant as well (`AtHome`, `Linked`): a copy that was read places the trade
where it is now, or it is known to have been moved. For `InvestmentsAddUp`, `CostInv`
says that an entry about to be written carries the cost by which the holding changes
(`CostBooked`), and that a holding costs what its trades were booked with unless it is
known that a replay gave one of them another cost (`CostFits`). What the ledger carries
on an investment account is a sum over entries, what the holding costs a sum over
trades; `SumOfPart` and `SumsOfSums` exchange them.

**Platform.** Each part has an inductive invariant of its own; a step of one part leaves
`part` and the others alone.

- *Files* (`FileInv`): a file on the disk has been renamed and is not marked as purged; a
  temporary file belongs to an import that is about to rename it, or that ended without
  removing it; a purge marks only what it has removed. Hence a file that nobody can find is
  one of `orphaned`.
- *Reminders* (`ReminderInv`): a key is recorded once, so at most one scan is between
  recording and delivering it, and has not delivered; the cooldown of what a scan is about
  to record was free of records and stays so unless two scans decided about the thing
  together. The hours of quiet are counted round the clock
  (`HoursRoundTheClock`), which is where quiet over midnight is right or wrong.
- *Access* (`AccessInv`): what a request holds is there (`HeldIsThere`), and what
  entitled someone to a session or to an account is spent (`AllIsSpent`). A new session
  is the one its request was entitled to, and a new entitlement was unspent before the
  step and is spent after it; so no two have the same (`UsedOnce`). This would not be so
  if a used recovery code could be made again: `CodesAreMadeOnce` says that whoever is
  about to make codes is alone with it and that there are none yet, because only the
  request that finds one passkey makes them. The history `crossed` is where that
  fails to make any: first passkeys side by side.

**Recurring** (`RuleInv`). The rule and its open row are written by requests that read
them earlier and lock them in opposite orders, so the invariant is about what a request
holds: of two requests that have written, one has not written what the other has
(`LocksExclude`); the open row an update or a deletion has found is still the only open
one (`OpenIsAsRead`); and who settles an open row has read a rule that is switched on, and
so waits for the lock on it (`RuleIsRead`): both as long as no two requests settle one row.
Every payment is of one request and one row (`PaymentsAreKnown`), so it is found in its
row, with the request that is still to confirm it, or in `unpaid`, where the steps that end
such a request put it (`GiveUpStep`). `SettledStays` was false as
first stated, with four dates and seven requests, more than the run has: two requests that
settle one row side by side can leave a rule with two open rows; an update that switches
the rule off takes one of them along, and the other is settled without waiting for it.
The property now has that exception (`raced`).

**Accounts** (`AccountsInv`). Of every request under way the invariant says only that it
is about registered ids and columns of its table (`RequestsAreKnown`): nothing follows from its
check, since the rows may change before it commits; what it may break then, `crossed`
records. What has to be strengthened is what the rows say. The group of an account is in
use even if the account is deleted (`GroupsAreInUse`), because a deleted opening balance
account comes back with the next opening balance, and a deletion of the group takes leave
of deleted accounts too. Only cards have a limit group (`LimitsAreInUse`), because it is the cards that
the deletion of one looks at. A trade is between the two accounts of its
investment account (`BookingsAreInUse`), so whoever asks for entries on them
(`deleteInvestmentAccount`) finds all positions; `UnusedIfDeletable` is the statement
that the checks of the deletions are enough. Each commit is then a lemma about the rows
it writes, and about the bookings that stay as they were (`BookingsKept`).

**Periods** (`CardsInv`). The view that is kept is the one computed for today, and the one
before it is yesterday's, a day earlier (`DayAfter`), with the reminders sent then
(`Reminded`); the rule's date is not past (`NotPast`) and on its day (`KeepsDay`). What is
left is arithmetic. `toSerialDay` and `fromSerialDay` are inverse to each other
(`CalendarHolds`): both count years from March, in eras of 400 years, and the lemmas about
days of an era bound each division. A card's statements are one in each month, so they
follow one another as the months do (`StatementOrder`); the statement of a day is the
first that is not before it, and on the next day it is the same one or, after a statement
day, the one of the next month (`NextDay`). That the periods tile the days, and that what
was the current period is the previous one the day after, is this lemma, and so is that an
unpaid bill is the one that was reminded of the day before (`TwoDays`).

**Matching of bills** (`EngineInv`). After `position` lines (`Looked`) each of them has one
candidate and the others have none (`Answers`); a transaction is matched once if it was
used and never if it was not, with a score from which it is taken (`MatchedWell`); the sum
that is kept is the sum over the matches, and the amounts of the matched lines sum to the
same over lines and over matches (`AddsUp`). The report, once made, was computed from
these (`Reported`): its candidates close the list without a new match or a new missing
line, so the inputs of the search are the same before and after (`InputsStay`). The
difference then adds up by splitting sums (`SumSplits`). For the search, the inputs number
their names without repetition (`InputsAreSearchable`): a set of one, two or three names
that sums to the difference is a choice of increasing numbers and the other way round
(`OneExplains`, `TwoExplain`, `ThreeExplain`), which is what the nested loops find; and no
input is of a role that the common mistakes look at (`NothingCommon`), so the search never
stops there. A score is a sum cut at 0 and 1, and below 0.9 with a contradiction,
whatever the caller knows (`ScoreIs`).

**FiniteFacts.** The library states induction over finite sets with an operator as a
parameter, which cannot be instantiated here. `MinimalSet` takes its place: of some
finite sets one contains no other. `Greatest`, the existence and uniqueness of folds
(`FoldExists`, `FoldsAgree`), the ranks of a finite set of numbers (`RankExists`) and the
facts about sums (`SumWithout`, `SumOfBoth`, `SumOfPart`, `SumSplits`, `SumsOfSums`) follow
from it.

### What is only model-checked

- `EveryRequestAnswered` and `OutboxDrains`: liveness under fairness is out of the proof
  system's reach.
- Nothing else of what the passing runs check: each of their other properties is stated by
  a theorem above. What is proved is about the models; that the functions of Calendar and
  AuditEngine are those of the source rests on reading them side by side.

## 5. Where the code and its documents disagree

Each of these is a run that TLC finds violated; PROJECT.json quotes the lines.

- `service_overwrite`: two edits of the same version that overlap are both applied,
  against "any silent overwrite is a bug" (docs/SYNC_DESIGN.md:9). The check and the
  UPDATE in `mutations.ts` are separate statements and the UPDATE does not repeat the
  version, as `audit.ts:534` does.
- `client_lost`: a mutation queued while a response is being handled is overwritten
  by the handler's `writeQueue`, against "removed only when it succeeded"
  (SYNC_DESIGN.md:71). One page and a perfect network are enough.
- `client_bare_conflict`: a repeated conflict has no `serverSnapshot`, which the type
  requires (`packages/sync/src/types.ts:27`); the user can then resolve it neither way.
- `feed_gap`: a change that commits after one with a larger `seq` is never pulled by a
  device whose cursor has passed it, against SYNC_DESIGN.md:74.
- `audit_partial`: a `create_transaction` patch that fails because its statement has
  been superseded leaves its transaction in the ledger, against "no partial
  application" (docs/AUDIT_ENGINE.md:101, :110).

Each of these is a configuration that TLC finds violated (section 3):

- `client_clock`: the outbox is sorted by the wall clock's `clientAt`, so when the clock is
  set back the later mutation is sent first, against "the outbox is FIFO" (SYNC_DESIGN.md:71,
  :50).
- `audit_early`: results saved between the count and the UPDATE of `completeAuditSession`
  stay open in a completed session, against AUDIT_ENGINE.md:108.
- `ledger_overtaken`: an edit of a note that overlaps an edit of the amount restores the old
  amount and leaves the new entry, against "a financial column changes: the entry is made
  anew" (mutations.ts:1116).
- `ledger_lost_trade`: of two trades booked side by side one is missing from the holding,
  against docs/INVESTMENT_MODEL.md:29-30.
- `ledger_cost`: an edited purchase does not rebuild the entries of later sales, so the
  investment account parts from the holding's cost, against docs/DATA_MODEL.md:281. It takes
  no concurrency.
- `account_in_use`: an account is deleted while another request books on it, against
  apps/api/test/api.test.ts:529, :540.
- `reminder_cooldown`: two scans on either side of midnight say the same thing within the
  cooldown, against packages/notifications/src/dedup.ts:4.
- `files_left`: an import that crashes, or whose cleaning up fails, leaves a file that
  retention never finds, against docs/SECURITY.md:95.
- `first_passkeys`: a request that ends after the first passkey, or two first ones side by
  side, leave a user without recovery codes for good, against SECURITY.md:63.
- `payment_lost`: a page closed between booking and confirming leaves the transaction booked
  and the row open, to be booked once more, against docs/USER_FLOWS.md:64.

Smaller ones met on the way, without a run. Each is in a model as the code has it:

*Audit.* `saveAuditResults` and `markAuditImportFailed` set a session back to
*reviewing*, and a purged file to *failed*, whatever it has become; a crash between an import's commit and its saved
results leaves the session in *matching*. Cancelled transactions are candidates, which
docs/AUDIT_ENGINE.md:29 excludes, and so are card payments. The matching gives the
solver unmatched lines and unmatched transactions only, so the hypotheses about a
common error in a matched pair never arise, and a pair with different amounts leaves
its transaction to be listed a second time, as missing on the bill. A refund listed
before its purchase can take the purchase's transaction. `statement_ready` waits for
the status `created`, which no session has (notification-scheduler.ts:208), and the
number of differences shown in Discord is never set (discord-routes.ts:373).

*Ledger.* The entries of cancelled and draft transactions stay, so balances, what is
outstanding on a card and the net worth count them, also what `/finance add` writes
("only as far as the draft", docs/DISCORD_INTEGRATION.md:49). Moving a trade to another investment
account does not replay the old one. A deletion overtaken by a stale financial edit
leaves an entry without a transaction.

*Recurring.* An update of a rule that meets the unique index of rule and date is an
error 500, and every retry meets it again: what the comment in app.ts:147 is about.
Pausing and resuming a rule, or a skipped row of its date, leaves it without an open
row. Two surfaces that confirm one row book two transactions; one of them is told so.
Updating a rule and settling its row lock the two rows in opposite orders.

*Accounts.* `updateAccount` does not check that a new group exists and is not deleted;
deleting a security and then a sale of it brings shares back; an autopay account and
the accounts of a rule can be deleted; deleting an investment account leaves its two
accounts.

*Periods and reminders.* `dueDate` is not "the first due day after the statement day"
(statements.ts:28) when the due day does not exist in that month: statement on February
28, due day 31, due on March 28. A bill due the day after its statement is not reminded
of. A failed delivery is not repeated, and what quiet hours skip is "made up for by
itself" (quiet-hours.ts:3) only if it is still true a day later.

*Access and files.* A session attached to a device that is being revoked can stay alive; an instance in open registration whose
first user does not go through the set-up has no administrator; a revoked Discord link
still occupies the unique index, so the account cannot be linked to somebody else, and
the token is used up all the same; a TOTP login consumes its challenge before it looks
at the code. A purge stops at its first error.

*Tests.* `packages/sync/test/matrix.test.ts:45` fabricates a `duplicate` for a second
deletion where the server answers `rejected_invalid`.

## 6. What is not modelled

- *Pure I/O and presentation*: pages, store and UI components, the service worker, the
  texts of the Discord bot and of reminders, calls to AI and market data services, push
  delivery, deployment scripts. Where a page drives the queue or books in two requests
  it is in OfflineClient and Recurring.
- *Text and bytes*: importers, schemas, encryption, hashing, cookies, the parsing of
  amounts, the trigrams of merchants' names (a relation `Alike` in AuditEngine). Their
  results enter the models as choices.
- *Cryptography*: passwords, passkeys and TOTP are right or wrong answers.
- *Several currencies*: a transfer between two currencies is two entries with an
  exchange rate, and the net worth converts and drops what has no rate; Ledger is in
  one currency (the type of an account's currency and the check of it are there).
- *Export*, and the restore's checks of a backup's columns and journal: one pass over
  data without state of its own.
- *Rate limiting and HTTP headers*: a counter read and written without an await.
- *Clocks*: the deadline of the search in AuditEngine is a choice to give up (`gaveUp`),
  the ages of challenges, invitations and sessions are steps like `ChallengeExpires` and
  `GoesIdle`.
- *Generated code*: `apps/api/src/worker-configuration.d.ts`.

## 7. Plan

Done, in this order: MutationService and MutationPromise (everything else relies on
them), their proofs, OfflineClient and SyncSystem, ChangeFeed, AuditSession; then
Posting and Ledger, Recurring, Accounts, Access, ImportFiles, Reminders, Calendar and
CardCycle, AuditEngine.

The proofs followed the same order: MutationService, then SyncSystem, ChangeFeed,
AuditSession and Ledger, the holdings, the parts of Platform, and of Bookkeeping the
records, the rules, the periods and the matching of bills.

Left is what section 6 lists as out of reach, and liveness, which stays with TLC. A change
of the code begins with the definition that `map` names for it; the run of its module says
within minutes what it breaks, and the proofs say which fact it rested on.
