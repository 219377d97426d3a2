# CardPulse in TLA+

CardPulse tracks card expenses end to end encrypted: an iOS script turns bank
SMS messages into encrypted transactions, a Rust server stores them in
PostgreSQL, a React dashboard decrypts and edits them. This directory holds
TLA+ models of the parts that keep state and run concurrently, and of the
algorithms that are easy to get wrong; TLC configurations that check them on
small instances; and TLAPS proofs of what holds for every value of the
constants. Paths below are relative to the repository's root; `PROJECT.json`
maps every definition to its lines.

    tlc -workers 2 -config MCApiCrud.cfg MCCardPulseApi     # one run
    tlapm CardPulseProofs.tla                               # one proof module

## 1. Inventory

| Part | State it keeps | Operations | Interacts through |
|---|---|---|---|
| Tables (`migrations/`, `src/repositories/`) | `users`, `cards`, `transactions`, `user_configs` | one autocommitted SQL statement per repository call | every handler; no handler opens a database transaction |
| Card and transaction handlers (`src/handlers/cards.rs`, `transactions.rs`) | locals of a request across its awaits | list, create (bulk), update, delete | the tables, concurrently with each other |
| Sync handlers (`src/handlers/sync.rs`) | the id map of an import | export (two reads), import (an INSERT per entry) | the same tables |
| Authentication (`src/auth/`, `user_repo.rs`) | `users` rows: password hash, wrapped DEK; tokens | register, login, refresh, rotate-key | dashboard session, iOS set-up |
| User configuration (`user_config.rs`, `user_config_repo.rs`) | one encrypted value per user and key | get, put (upsert) | dashboard and script: category overrides |
| Rate limiter (`src/middleware/rate_limit.rs`) | a mutex-protected map of windows per address | check | in front of register and login |
| Validation (`src/validation.rs`), errors (`src/error.rs`) | none | bucket, base64, email checks; status of an error | called by the handlers at fixed places |
| Server assembly (`main.rs`, `router.rs`, `config.rs`, `db.rs`, `state.rs`) | pool of at most 10 connections | routing, start, shutdown | – |
| Server SMS parsers (`src/sms/`) | none | parse a message with a chain of banks | no handler calls them |
| iOS capture script, automated runs (`ios/scriptable/CardPulse.js`) | deduplication file | capture an SMS: parse, encrypt, POST with retries, mark | POST /v1/transactions, GET config, the Keychain |
| iOS capture script, set-up and card mapping | Keychain: token, DEK, card map, default card, overrides | set-up, mapping of digits to cards | login, GET cards; read by automated runs |
| Dashboard session (`lib/session.ts`, `useAuth`, `useTokenRefresh`, `LoginPage`) | token, DEK, wrapped DEK; a timer; calls in flight | login, unlock, refresh, logout | auth endpoints |
| Key rotation (`RotateKeyModal.tsx`) | the modal's step and the unwrapped DEK | unwrap, wrap again, POST | session, `users` row, other devices |
| Category overrides (`lib/overrides.ts`, `TransactionsPage.tsx`, `DashboardPage.tsx`) | one encrypted map | fetch, add, save | user configuration; a PUT of the edited transaction; the phone |
| Queries and caches (`TransactionsPage`, `CardsPage`, `DashboardPage`) | React Query caches | fetch, decrypt, invalidate, age | API |
| Pure algorithms (`fuzzyCategory`, `categories`, `filters`, `transactions`, `chart-data`) | none; filters live in the URL | matching, filtering, month arithmetic, aggregation | pages, `useFilters` |
| Encryption (`lib/crypto.ts`, `transaction-data.ts`, `card-data.ts`) | none | derive, wrap, encrypt, decrypt; forms of a payload | opaque to all others |
| Device pairing (`lib/deviceSync.ts`), offline shell (`public/sw.js`, `offline-cache.ts`), presentation | a cache of static files; IndexedDB | encode a URL; cache; draw | – |

**What is hard here.** Handlers check ownership in one statement and write in
another, while other requests delete the rows. Bulk writes are loops of
autocommitted statements, so every early stop leaves a part. The export reads
two tables at two moments. The script checks for duplicates before, and marks
after, awaits that last up to three HTTP attempts; answers get lost, requests
arrive late, iOS kills runs; its set-up writes two Keychain entries that only
mean something together. The dashboard edits one encrypted map from many
devices without versions, caches decrypted rows under lengths, and a refresh, an
unlocking or a modal in flight outlives a logout. `PROJECT.json` lists each of
these hazards at its line, with the properties that cover it or the reason why
none does.

**What makes each part correct.**

- tables and handlers: a transaction is always on an existing card of its own
  user; a write touches only rows of its request's user; deleted rows stay
  deleted; a refused bulk insert inserted nothing; 201 and 200 mean everything;
- export and import: an export misses only cards created after its first read;
  an import's transactions are on its own cards;
- capture script: what is suppressed is stored; how often a message can be
  stored is bounded; a mark holds for a window; every run ends; a row is
  encrypted with the key of the user it is stored for; a mapping is lost only to a
  run that is older than it;
- rate limiter: never more than the limit in a window, nor twice the limit in
  any span of a window's length; no refusal below the limit;
- session: token, keys and page are one user's; refreshes keep their distance;
  no session stays with an expired token;
- key rotation: every key, stored or remembered, opens with the password it was
  wrapped for, and no session is ahead of the server;
- overrides: every map in use was stored, an override follows its transaction;
- caches: no list is shown from before the number of rows changed, or from before an
  override appeared or went; what is missed otherwise, as both lengths stayed the
  same, is not missed forever;
- algorithms: filters survive each other and the URL, charts agree with the
  total, months and distances are exact, a variant of a learned name shows what was
  taught, teaching one merchant changes no other.

## 2. Modules

    Store ── Vault ─────────────┐
      ├───── CrudHandlers ──────┼── CardPulseApi ── MCCardPulseApi, MCApiScenes
      └───── SyncHandlers ──────┘        └── CardPulseProofs
    SmsCapture ── MCSmsCapture, SmsProofs
    PhoneSetup ── MCPhoneSetup, PhoneProofs
    RateLimiter, TimestampBucket ── MCRateLimiter, AdmissionProofs
    Session ── MCSession
    KeyRotation ── MCKeyRotation, KeyRotationProofs
    OverrideHistory ── CategoryOverrides ── MCCategoryOverrides, OverrideProofs
    DashboardCache ── MCDashboardCache
    DashboardFilters, DecryptedRows ── MCDashboardPure
    Session, DashboardFilters ── DashboardProofs
    DashboardCache, DecryptedRows ── ListProofs

### The server

**Store** models the two tables. A table is a function from the ids that have a
row to rows; each operator is one repository call, one atomic step. UUIDs are
counters, as they are fresh and only compared; `NoId` is a well-formed UUID
nothing ever had. The columns an UPDATE rewrites together are one value. The
foreign key makes `TxCreate` impossible on a missing card, and
`ON DELETE CASCADE` is part of `CardDelete`.

**Vault** is the abstract specification: the tables evolve by atomic operations
of a user on the user's own rows. `OwnershipIntegrity` and `NoResurrection`
belong to it.

**CrudHandlers** models the six writing handlers. A request is a record with a
program counter that names the statement it is suspended at. Code between two
awaits belongs to the step of the statement before it; the order of the checks
and so of 403, 404 and 422 is the code's (in `create_transaction` buckets and
cards of all items come before the first INSERT, base64 is decoded between the
INSERTs). `Abort` is the handler stopping at any statement: a dropped future, a
database error, a crash. What was committed stays.

**SyncHandlers** models the export's two reads and the import's loops with the
map from original ids to stored ids; a repeated original id overwrites its entry.

**CardPulseApi** interleaves them over one pair of tables and states the
properties that relate requests to tables. The abstract vault has the same
tables, so the refinement mapping is the identity and the abstract
specification is checked directly as the property `VaultSpec`.

**RateLimiter** models `check` as one step, since it holds the mutex, and the
clock as `Tick`. `accepted` is a history variable: how many requests of an
address were accepted at each age within one window's length.
**TimestampBucket** is the bucket check of `validation.rs` over texts of signs,
digits and dashes, with the number parsers' treatment of signs, widths and
overflow of `u16` and `u8`; `Value` is the parsers' loop, a recursive function
over the prefixes of a text.

### The phone

**SmsCapture** models the automated path of the script. A run is a record with
its pc and attempt; `Commit` is the server's INSERT and `Receive` the 201, so an
answer can be lost between them. A request that failed for the script may be
executed later (`late`, `SettleLate`). The overrides fetch never fails and only
chooses a category; it is modelled as the await it is. A time is an age, capped
at the window, because the script only subtracts times from `Date.now()`.

**PhoneSetup** models the interactive runs and what automated runs make of the
Keychain. A set-up is a run with the steps login, master password, DEK, where
the token is written before the key and each write is a step of its own; a
mapping run holds the map it loaded over every alert; a capture takes token and
key at its start, resolves the card from digits or default, completes the date
and posts. Any run may be killed at its awaits. `by` is the number of the set-up
that wrote a credential, and `disturbed` records set-ups killed or met by another
between their writes.

### The dashboard

**Session** models one tab: the session object, the timer of `useTokenRefresh`,
both steps of LoginPage and every call in flight with the answer it will bring.
`SetSession`, `Refreshed` and `Clear` are the three writers of session.ts; each
reschedules the timer as the effect does and redirects the page as the guards
in App.tsx do. Logins, unlockings and refreshes settle in any order, and an
answer meets whatever session is the current one then.

**KeyRotation** models the modal of several devices against the `users` rows: a
key is a wrapping and the salt that is stored next to it; a request is sent,
served, and answered or lost in separate steps; the modal may be closed, or its
session replaced, under it.

**OverrideHistory** is the abstract specification of the learned categories:
the stored map becomes some earlier map with one entry added. **CategoryOverrides**
is the detailed one (its `History` is an INSTANCE of the former with the stored map
and its earlier values): tabs load map and rows at different moments, an edit takes
what its tab shows, PUTs the transaction, then the whole map, either PUT may
fail before or after it took effect, and the phone loads the same map into its
Keychain. A payload is one of the forms the code produces: JSON, plain bank
text, sealed (does not decrypt), and what an edit makes of the last two.

**DashboardCache** models the three queries behind the lists: what they hold,
whether it is stale, their key (the lengths), age, collection, invalidation and
refetch, under logins, logouts, edits of this tab and changes of rows and overrides
elsewhere. A tab opens on any rows and overrides.

**DashboardFilters** models `filters.ts` and `useFilters` as a state machine over
renders and the URL (a change is computed from the last render, and the clock
may pass a month between two renders), with month arithmetic (`Carry` is the two
loops of `navigateMonth`, a recursive function) and the charts' aggregation
(`SumOver` is every sum); its names differ from Session's (`FiltersSpec`, `filterVars`, `Unset`),
so that one module can prove about both. **DecryptedRows** has the recursive algorithms: the normalization of
names, the two-row edit distance, the fuzzy match with its ties, learning, and
the reading of amounts, over names of a few characters. The loops that are proved
about are recursive functions (`Loop`); those that read amounts use the library's folds.

## 3. Runs

| Run | Question | Bounds, and why they are enough |
|---|---|---|
| `api_crud` | Does what a check found still hold at the write, do deleted rows stay deleted? | any of six operations in each of two slots, two users, two cards, one transaction: every pair of handlers interleaves at every statement, with ids of one's own, of the other user, deleted and never issued |
| `api_sync` | What do bulk inserts, exports and imports leave behind when they are interleaved, refused or interrupted, and do all handlers implement the vault? | three scenes. Bulk: two items against creations and deletions of cards. Export: two cards, one older and one newer than the first read, and a transaction. Import: up to three entries over two original ids (equal and different), flawed entries, cards deleted between the steps |
| `sms` | What does the deduplication file guarantee under retries, lost answers and killed runs, and does every run end? | two overlapping runs, two messages with different hashes, two attempts, a window of 2 ticks that a run with a retry outlasts, three runs that get past the check |
| `rate_limiter` | How many requests pass, and which buckets? | limit 2, window 3 ticks, counter to 4: refusals beyond the limit, requests on both sides of a window's end, with and without the header. 100 texts at the edges of year, month, sign, width and `u16` |
| `session` | Whose are token and keys, how often is a token refreshed, does an expired session end? | two users, two of a login, an unlocking and a refresh in flight, a lifetime of 3 ticks with a margin of 1 and up to 2 ticks in transit: an answer can carry a token that is within its margin or expired on arrival |
| `rotation` | Do stored and remembered keys stay openable, is a session ever ahead? | two users, two devices, two passwords, two wrappings: one abandoned and one that overtakes it, or one from each device |
| `overrides` | What do edits of the shared map guarantee, and do they implement the history? | two tabs, two transactions of two merchants, two edits under way at once, the phone: every order of loads, PUTs, failures and refetches |
| `cache` | Does what is on the screen have the lengths of what was loaded, does it catch up? | two rows in two revisions, an override that is absent, set or changed to another. Three scenes: one user on any rows and override with one write of any kind, so that rows are added, deleted, edited and put one for another and an override changes behind the same lengths; one user with a row and an override and two writes, the tab's own or a deletion or an override from elsewhere, so that an addition here can meet a deletion there; two users who share the tab, with one such write |
| `dashboard_pure` | Do filters, months, charts, distances and learning do what they say? | three transactions around the turn of a year, a bound of 0, blank and meaningless URL texts; six names with a typo, a suffix, a store number and nothing left after normalization, up to three overrides, distances of names up to five characters; amounts of no, one and two points; offsets of ±25 months; filters and rows share no state and are explored one at a time |
| `phone` | Whose halves does the Keychain hold, can rows be read, which mappings are lost? | scene "all": two users, two runs at a time, two set-ups, two saves, the turn of a year and one message of every kind that matters; scene "mapping": three overlapping runs, four saves, two cards |

Symmetry is used for safety properties only: users, contents and original ids
(`api_*`), slots that are offered the same operations (`api_crud`), devices
(`overrides`, `rotation`), passwords, script runs (`phone`). Runs with a liveness
property have none. The bounds are constants (`MaxCards`, `MaxTxs`, `MaxItems`,
`MaxImport`, `MaxRuns`, `MaxStarted`, `MaxCount`, `MaxTransit`, `MaxCalls`,
`MaxRefreshes`, `MaxWraps`, `MaxEdits`, `MaxWrites`, `MaxSetups`, `MaxSaves`,
`LastMonth`, `MaxLearned`, `MaxCompared`), named where they are declared; the theorems hold for
every value of those of their module. The scenes of `api_sync`, `cache` and `phone` restrict the
MC modules only; the modules themselves and the theorems about them have no such
restriction. Deadlock is checked in all runs.

**Fairness**, and why the code justifies it:

- `sms` (`SmallSpec`): the clock and each run's own steps. Timers fire, and every
  request of the script ends, with an answer, an error or a timeout. Nothing is
  assumed of the outcome: all attempts may fail. Nothing of late requests, of iOS
  killing runs, or of the server.
- `session`: the clock, the timer's callback, and that every call is answered
  (a browser ends a request with an error at the latest) and its continuation
  runs. No fairness of logins, logouts or of success.
- `cache`: time passes, requests are answered, and the user keeps returning to
  the tab, which is what makes React Query refetch. The number of writes is bounded,
  so the server is left alone eventually, as `EventuallyCurrent` asks.

**Where the code and what it says disagree.** Two disagreements are runs of
`PROJECT.json`; the others have a configuration of their own here, or are stated
in the module and join the named configuration; TLC finds each violated.

| Configuration, property | The text | The code |
|---|---|---|
| `rotation_intact`: MCRotationIntact, `DataStaysIntact` | `RotateKeyModal.tsx:132` "Your encrypted data will remain intact." | an open modal keeps its DEK while a failed refresh logs the user out and another logs in; it then stores the first user's DEK for the second |
| `dashboard_phone`: MCDashboardPhone, `AmountsAddUp` | `types/dashboard.ts:18` "amount: number;" | the phone's payload has a text there; sums with `+` concatenate it |
| MCApiExportGap, `ExportIsSelfContained` | `sync.rs:33` "Returns all cards and transactions belonging to the authenticated user." | a card and its transaction created between the two reads: the transaction is exported, its card is not, and the import refuses the file |
| MCApiCrud with `AcceptedCardChangeIsStored` as PROPERTY | `transactions.rs:207` "Verify new card_id ownership if changed" | the new card is verified, 200 is answered, and the UPDATE has no `card_id` column |
| MCApiCrud with `CreateAnswersAreDocumented` as INVARIANT | `transactions.rs:86` "`404 Not Found` — card does not exist" | a card deleted after its check fails the foreign key: 500, which is not among the documented statuses |
| MCSmsResent, `RetransmissionIgnored` | README.md:594 "Ignored via 30-second deduplication window" | the mark is written after the 201, so a retransmission during the POST is posted again |
| MCSmsDropped, `DroppedIsRetried` | `CardPulse.js:493` "Will retry on next SMS." | the payload is kept nowhere |
| MCPhone with `DatedFiledUnderItsMonth` as INVARIANT | `CardPulse.js:147` "Compute timestamp_bucket as YYYY-MM from transaction date" | a date without a year gets the year of reading, and parseBradesco takes a date without its year (`CardPulse.js:208`): a purchase of December that is read in January is filed a year late |
| MCSessionLogout, `LogoutClears` | `session.ts:118` "Clears all session data (logout)." | a refresh in flight puts the first user's token into the session of the next |
| MCSession with `RefreshedImmediately` as INVARIANT | `useTokenRefresh.ts:51` "refresh immediately" | the delay is at least the minimum interval |
| MCRotationVerify, `VerifiesCurrentPassword` | `RotateKeyModal.tsx:131` "Enter your current master password to verify your identity." | it is verified against the copy of the key this session was given at login |
| MCRotationReflect, `SessionReflectsRotation` | `session.ts:105-106` "so the in-memory session reflects the new wrapped DEK" | the late answer of a cancelled rotation overwrites the key of a later one |
| MCOverridesLost, `LearnedStays` | `TransactionsPage.tsx:128-129` "future transactions from the same merchant are auto-categorized" | the whole map is written back as it was when the edit began, or as empty while it had not loaded |
| MCOverridesPlain, `AmountsStay` | `transaction-data.ts:35` "Falls back to plain-text parsing with R$ amount extraction." | an edit wraps the text as a description, and the amount is shown as 0 from then on |
| MCOverridesSealed, `SealedStays` | `transaction-data.ts:36` "Returns a safe fallback on decryption failure." | an edit encrypts the fallback and writes it over the ciphertext |
| MCOverridesSource, `SourceShown` | `CardPulse.js:135-136` "so the dashboard can distinguish keyword-matched and override-matched categories" | `category_source` is never read |
| MCDashboardPure with `MatchesExceedThreshold` as INVARIANT | `fuzzyCategory.ts:155-156` "or null if no key exceeds the similarity threshold", and :9-11 "the length ratio is high enough", "if score > 80% it is a match" | a similarity of exactly 0.8 is taken, and so is a name that begins with the words of the other at any ratio of lengths (`BestMatchWins` says match in this sense) |
| MCCacheLoaded, `ShownIsLoaded` | `DashboardPage.tsx:100-101` "invalidating queries to refresh the decrypted data" | the decrypted list's key holds lengths only, so an edit leaves the old list as fresh |
| MCCacheForeign, `NoForeignRows` | `session.ts:118` "Clears all session data (logout)." | the query client survives a logout, decrypted rows included |

A configuration is run with the MC module that bears its name, and otherwise with
the one of its family (`MCApi…` MCCardPulseApi, but MCApiSync with MCApiScenes,
`MCSms…` MCSmsCapture, `MCPhone` MCPhoneSetup, `MCSession…` MCSession,
`MCDashboard…` MCDashboardPure, `MCRotation…` MCKeyRotation,
`MCOverrides…` MCCategoryOverrides, `MCCache…` MCDashboardCache).

Also met, and not a property of any model:

- `ios/README.md:163-164` speaks of retries after 2 s, 4 s and 8 s, but three
  attempts have two pauses between them;
- `sync.rs:202` counts the entries of the id map as `cards_imported`, which is
  fewer than the rows inserted when original ids repeat;
- `CardPulse.js:697-700`: the base URL typed into the set-up is logged and kept
  nowhere; `CardPulse.js:784-787` says that digits were mapped when none, or no card, was typed;
- `validation.rs:10` promises YYYY-MM, and a plus sign in front of a number passes,
  and so does a year of five digits with a month of one (`AcceptedIsAMonth` shows
  that nothing else does);
- `fuzzyCategory.ts:47-48` has separators replaced before suffixes are stripped; the code
  strips first, so that a suffix after an asterisk stays;
- `fuzzyCategory.ts:90` gives 2 as the distance of NETFLIK and NETFLIX; the code
  computes 1, the edit distance (`NamesMatch`);
- `transaction-data.ts:106` replaces the first point only, so a bank text of a
  million or more is misread (`AmountsRead` stops below it);
- `deviceSync.ts:12-13` says that the login form pre-fills the API's address;
  LoginPage reads the e-mail only;
- `offline-cache.ts` says that it enables offline viewing, and OfflineIndicator
  that cached data is shown; nothing ever fills or reads that cache;
- `sw.js:61` caches a fresh shell under the request's URL, while the fallback
  reads the `/index.html` of the installation.

**Assumptions about the environment.** PostgreSQL statements are atomic. The
deduplication file is read and rewritten without an await, so `MarkAsProcessed` is
one step; two runs in separate processes that write the file in the same instant
are outside the model, and so is a wall clock that is set back. One Keychain write
is atomic. `simpleHash` is an arbitrary function in the theorems and injective in
the runs. Encryption is perfect: a payload opens with its key and no other.

## 4. Proofs

The eight `…Proofs` modules are checked by TLAPS for all users, contents, slots,
payloads, messages, hash functions, devices, passwords, lifetimes and bounds. The
assumptions are the named ASSUMEs of the modules:

| Assumption | Says |
|---|---|
| `StoreAssumption`, `CrudAssumption`, `SyncAssumption` | bounds are naturals, flawed contents are not storable, each slot is offered known operations |
| `SmsAssumption` | the hash is a function of the message, window and retries are positive, pauses are naturals |
| `PhoneAssumption` | cards have owners, months are pairs of integers, messages are of the forms the patterns give, `None` is none of them |
| `SessionAssumption`, `NoneIsNoSession` | times and bounds are naturals; users, `None` and `Failed` are no tokens, and `None` is no session |
| `RotationAssumption` | `None` is no user, the bound is a natural |
| `OverridesAssumption`, `PayloadAssumption` | every transaction has a merchant, the placeholders are no categories, `None` is no payload |
| `CacheAssumption`, `FiniteAssumption` | `None` is no user, bounds are naturals, there are finitely many rows |
| `LimiterAssumption` | the fallback address is one, an absent header is none, the window is not empty |
| `TextsAssumption` | texts are sequences of characters, among them the figures and signs; a failed parse is no number |
| `RowsAssumption` | names and suffixes are texts over an alphabet that has the characters which upper case, spacing and the banks' variants put into a name; `Null` is no category; amounts are naturals |
| `FiltersAssumption` | there are finitely many transactions; amounts and bounds are integers, months are pairs of a year and a month from 1 to 12 (the server's check leaves no others, which `BucketsAreMonths` is about); no value, meaningless texts and garbled digits are told apart from months, bounds and amounts |

| Theorem | Result | Argument |
|---|---|---|
| `VaultIntegrity` | `VaultSpec => [](StoreTypeOK /\ OwnershipIntegrity)` | the conjunction is inductive: an insert is on a card of the same user, and a delete takes the card's transactions along |
| `VaultNoResurrection` | `VaultSpec => NoResurrection` | `StoreTypeOK` keeps issued ids below the counters, and an INSERT uses the counter |
| `ApiType`, `ApiCheckedRows` | `Spec => []TypeOK`, `[]CheckedRowsStillOwned` | parts of the invariant below |
| `ApiImplementsVault` | `Spec => VaultSpec` | each handler step is a vault operation or leaves the tables alone |
| `ApiIntegrity`, `ApiNoResurrection` | `Spec => []OwnershipIntegrity`, `Spec => NoResurrection` | from the refinement and the vault's theorems |
| `ApiTouchesOwnRows` | `Spec => RequestsTouchOwnRows` | a request that writes names a row its check found to be its user's, and such a row still is or is gone |
| `ApiBulkInsert` | `Spec => []BulkInsertIsPrefix` | `BulkInv`, part of `RowsInv`: see below |
| `ApiExport` | `Spec => []ExportMissesOnlyNewCards` | `ReadInv`: a card of the user that the first read did not find was created after it |
| `ApiImportStays`, `ApiImportAnswer` | `Spec => []ImportStaysInside`, `[]ImportAnswerIsComplete` | `LoopInv`: an entry of the id map is the id of a card the import inserted for an entry of that original id, and the arrays are worked off in order |
| `SmsType` | `Spec => []TypeOK` | with `AsleepMayRetry`: without it a woken run could pass `maxRetries` |
| `SmsSuppressed` | `Spec => []SuppressedIsStored` | with `CommittedIsStored`: a run that marks has been answered, so its row exists |
| `SmsWindow` | `Spec => WindowHolds` | with `LastMarkKept`: the last entry of a hash stays in the file at its age until it expires |
| `SmsDuplicates` | `Spec => []DuplicatesBounded` | `RequestsCounted`: see below |
| `LimiterInvariant` | `Spec => []LimInv` | see below |
| `LimiterBounds`, `LimiterRefusals` | `Spec => []LimitHolds`, `Spec => RefusedOnlyAtLimit` | both read off `LimInv` |
| `BucketsAreMonths` | `BucketsSpec => []AcceptedIsAMonth` | `Value` reads numerals of up to four figures; a signless text of seven characters with a year part other than five must be the text of its month: see below |
| `PhoneTypes`, `PhoneHalves` | `Spec => []TypeOK`, `[]HalvesBelongTogether` | `CredentialInv`: see below |
| `PhoneRowsReadable` | `Spec => []RowsReadable` | `RowsInv`: a capture that is on its way took both halves at once, and is marked if they were two |
| `PhoneMappings` | `Spec => MappingsLostOnlyToOlderRuns` | `MapInv`: the map a run holds agrees with the Keychain on all digits that were not changed since it loaded |
| `SessionTypes` | `Spec => []TypeOK` | `SessionInv`: see below |
| `SessionNoRapidRefresh` | `Spec => []NoRapidRefresh` | `TimerSound`: every rescheduling waits the minimum interval, and the clock moves timer and distance together |
| `SessionMixedOnlyByLateAnswer` | `Spec => MixedOnlyByLateAnswer` | per action: from a coherent session, each step but a late answer keeps token, keys, page and calls of one login |
| `RotationType`, `RotationKeysOpen`, `RotationKeyWasStored` | `Spec => []TypeOK`, `[]KeysOpen`, `[]SessionKeyWasStored` | `RotationInv`: every key on its way, stored or remembered is wrapped with the salt it carries; one that was served is in `past` |
| `OverridesType`, `OverridesWereStored` | `Spec => []TypeOK`, `[]MapsWereStored` | `OverrideInv`: an edit's map, and so what it will store, comes from `versions`; rows that are shown exist |
| `OverridesImplementHistory` | `Spec => HistorySpec` | a PUT that takes effect extends a version that `OverrideInv` finds in `versions`; all other steps stutter |
| `OverridesFollowEdits` | `Spec => []OverrideFollowsEdit` | `LearnedInv`: what an edit's second PUT adds was written by its first, and all stored versions were learned that way |
| `CacheType`, `CacheLengthsShown` | `Spec => []TypeOK`, `[]LengthsShown` | `CacheInv`: a decryption is kept under the number of its rows (decrypting is injective on rows) and the length of the override it was computed with, and `Key` looks it up by the two |
| `RowsBestMatch` | `RowsSpec => []BestMatchWins` | `FuzzyTakesFirstBest`: after each entry the loop has the first of the best so far, as `Less` is a strict weak order on the scores: see below |
| `RowsLearning` | `RowsSpec => []LearningOnlyTeaches` | `MapSound`: no key is in the map twice. Teaching changes one entry or adds a last one; if another entry is the first of the best afterwards, it was so before |
| `RowsNames` | `RowsSpec => []NamesMatch` | `DistanceIs`: each row of the table holds the least cost of a pairing of what was read so far; `VariantContinues`: of what the normalization leaves of a name and of its variant the one continues the other, so the name matches, and what is taken instead matches no worse: see below |
| `RowsAmounts` | `RowsSpec => []AmountsRead` | `WholeValue`: the figures of a number in groups of three, read without the points, are its value; below a million there is one point at most, and removing the first removes all |
| `FiltersUrl` | `FiltersSpec => []UrlKeepsFilters` | `FiltersInv`: filters that were parsed from a URL are canonical, and canonical filters survive the way into the URL and back |
| `FiltersOthersSurvive` | `FiltersSpec => OthersSurvive` | every action is one change of the rendered filters, a clearing, or a visit or redirect that sets the month |
| `FiltersNavigate` | `FiltersSpec => []NavigationExact` | `MonthInv`: what is displayed is a month or meaningless; `Carry` is exact for any pair of integers: see below |
| `FiltersCharts` | `FiltersSpec => []ChartsAddUp` | the groups of a chart partition the list, and rounding moves each point by half a cent at most: see below |

The inductive invariant of the API, `IInv`, says of each request in flight what
its checks have established (`ReqOK`, `ImpOK`): the payload it is about to write is
clean, ids it names were issued, and a row whose owner it checked still has that
owner or no longer exists. The last part is what connects a check to a later
write, and it is not inductive on its own: other requests' steps keep it because
an issued id is never issued again and no operation changes an owner
(`VaultKeepsOwners`). The proof therefore shows for each action at once that it
keeps its own request's part and that it is a step of the vault (`Kept`), then
uses the latter to keep all other requests' parts.

`HalvesBelongTogether` is far from inductive: what matters is not the two halves
that lie in the Keychain but which set-ups may still write theirs. `CredentialInv`
adds that a set-up has its number for itself, and that no key has it before the
set-up writes its own (`NumbersSound`); that no token has it before that either,
and that a set-up between its writes still finds its own token, or one of a set-up
that counts as disturbed (`TokensSound`); and that two halves of one number are of
one user (`HalvesSound`).

`SessionInv` joins what a call in flight was asked for (`CallsSound`: an answer is
about the user who asked), the page and its loginData (`PageSound`), which logins
count as late (`LoginsLate`) and the timer's range (`TimerSound`). It is the part
about late logins that makes `MixedOnlyByLateAnswer` provable: once a login has
made a session every other one in flight is late, so no login in time replaces
another's session.

`RowsInv` is what becomes of the rows after `ReqOK` has let them be inserted. While
a bulk insert runs, each id in `made` was issued, and the row under it is the item's
or deleted. The other handlers keep this
because every step of theirs is a step of the vault: an issued id is never issued
again, and an update keeps a row's card. For an export and an import
the same holds of the cards the first read found and of the id map.

`RequestsCounted` bounds duplicates although `stored` and `late` count what the
network does: each run in flight owns as many numbered tokens as it may still send
requests (`Remaining`), and the rows of a message together with the tokens
of its runs are at most `maxRetries` per run that got past the check. Every step
either trades a token for a row or loses one.

`LimInv` splits the accepted requests of the last window length at the start of the
address's current window. Those since are exactly what the counter says, up to
the limit; those before are at most the limit, too: a new window starts when the
last one has expired, with what that one accepted as its older part, and from then
on ticks only take requests out of the older part. An expired window has
accepted nothing at age 0, so nothing is counted twice. `LimitHolds` is the sum of
the two parts, and `RefusedOnlyAtLimit` the first part at the limit.

**Recursion.** The library's induction theorems take an operator as a parameter and
cannot be used, but the well-foundedness of `<` on the naturals can
(`NatLessThanWellFounded`, `WFMin`): the set of counterexamples to a statement, if
there are any, has a least element, and one step of the recursion leads from it to a
smaller one. The recursive definitions are reasoned about in this way.
A recursive function is a choice among the functions that satisfy its equation,
so first of all there must be one. For `Carry` it can be written down in closed form;
that what satisfies the equation is exact for every pair of integers is shown at the
counterexample nearest to the middle of its year (`CarryExact`). For `Value` the function is
extended by one character at a time (`ReadsExists`). A sum over a set is a fold,
a choice made at every element of which one comes first: `SumIsBalance` shows
that it is the number of units the elements contribute less the number they
owe, as cardinalities, over the smallest set that would lack this; after that, sums
of disjoint sets add up because cardinalities do. 
The loops of `DecryptedRows` share one lemma: a loop whose steps stay in a set has a
run in it (`Runs`), and nothing that follows the same steps leaves it (`RunStays`).
A loop over one more element is the loop and one more step (`FoldAppend`), and what
holds of the empty sequence and survives one more element holds of all
(`SeqInduction`, for a set in place of the library's operator). So normalized names
are texts; so scores are fractions with a positive denominator, which `Less` compares
by multiplying crosswise, and only then is it transitive and the loop's comparison
with the best so far one with all before.

That the distance is the edit distance needs no induction over two names at once.
The reference is the least cost of a pairing, in order, of letters of the one with
letters of the other. Such a pairing leaves out the last letter of one prefix, or
pairs the two (`LastLetters`), and each shorter one extends (`MoreLetters`); so the
least cost follows the recurrence of the table (`LeastStep`), and every row of the
table, by the one induction over the loop's run, holds the least costs (`LastRowIs`).

A variant is a name with a tail that begins with a space or an asterisk. Stripping
suffixes leaves a start of a text, cut at its end or after a space (`StrippedCut`).
A name that is cut where a word ends leaves the first of the words that a longer cut
leaves (`LeftNested`), as words come apart at a space (`WordsParts`) and dropping
some of them is done word by word. So of the two normalized names the one is the
other, or continues it after a space (`JoinNested`), and that matches; it does not
matter which of the two is longer, nor which suffixes there are, or in which order.
When nothing is left of one of them there is no match, which is what the premise of
`VariantsCovered` leaves out: a merchant "12 LTDA EPP LTDA" loses "LTDA", then "EPP",
and keeps a word, while its variant with "ME" loses "LTDA ME", then "LTDA EPP", and
then the number. `DistancesExact` is for names up to `MaxCompared` characters because
TLC enumerates the pairings; the theorem is for any value of that bound.

**Only model-checked.** `RunsEnd`, `ExpiredSessionEnds` and `EventuallyCurrent`:
liveness under fairness is outside what the prover handles. All the other properties
of the runs that hold are theorems.

## 5. Not modelled, and what is left to do

- **Server SMS parsers**: stateless, called by no handler; their content is
  regular expressions, which a model would only repeat.
- **Device pairing**: a stateless codec of a URL.
- **Offline shell**: a cache of static files, and an IndexedDB cache that logout
  clears and no code fills.
- **Presentation**: drawing, theme, forms and which of them is open. An answer
  closes whatever form is open when it comes; no stored row depends on that.
- **Registration** is an initial state; password hashes, JWT signatures and the
  ciphers are the platform's algorithms.
- **The phone's token** is never refreshed; its expiry ends every later run with 401,
  a branch `SmsCapture` has without modelling the lifetime.
- **The limiter's map** only grows; the code promises no bound to check.
- **HTTP and JSON framing, the connection pool, start-up and shutdown.** The list
  handlers and `GET /v1/me` change nothing.

Worth doing next: `SmsCapture` and `PhoneSetup` composed over one token with a
lifetime.
