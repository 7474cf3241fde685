# Formal models of simplifi-mcp-rs

TLA+ models of the bridge between MCP clients and Quicken Simplifi, translated from the Rust
source under `src/`, with TLC configurations that check them on small instances and TLAPS proofs
for all values of the constants. `PROJECT.json` maps every definition to the lines it models and
lists the runs, findings, hazards and theorems.

## 1. The system

A process (`simplifi-mcp serve`, `serve-http`, or a CLI command) holds one `SimplifiClient`, one
`SyncStore` and one `SimplifiMcpServer`. Tool calls are tokio tasks that run concurrently on them.

| Part | State it keeps | Operations | Hard behaviour | What makes it correct |
|---|---|---|---|---|
| Auth manager (`auth.rs`) | flight mutex, refresh backoff | `access_token`, `login`, `complete_mfa`, `logout` | tasks queue on the flight and act after waking; rotation, save failures, crash between save and use; calls dropped at any await | one flight; login budget over restarts; one device id, unless another is configured; a replaced refresh token is not resent; backoff spacing |
| Token cache and its key (`token_cache.rs`, `secrets.rs`) | tokens, expiry, device id, login times, dataset id; `tokens.enc`; the key in the keychain | `open`, `save`, the setters, `keychain_get_or_create` | crash between the file operations or before the key is added, two threads or two processes saving | the file opens after any crash with the key the next start finds; what was acknowledged is on disk |
| Request lane (`client.rs`) | pace lock, last request time | `request_raw`, `pace`, dataset discovery | sleeping with the lock held, retries, nested request | pacing floor, bounded tries, Retry-After, every call ends |
| Pagination (`client.rs`, `transport.rs`) | visited links of one listing | `list_transactions_all`, `list_reference_all`, `resolve_next_link` | the upstream chooses the links | bounded requests, no link twice, whole listings |
| Sync store (`store.rs`) | mirror, watermark, sync times, sync gate | `ensure_*`, snapshot, get, `upsert_local` | edits during a paged sync, failing syncs, write-through racing a sync | no change lost to the watermark, no answered update taken back, a mirror that changes by whole syncs, sync floor |
| Write lane (`server.rs`, `audit.rs`) | quota slots, journal file, read-only flag | update, categorize, create, bulk import | unknown outcomes, dropped calls, crash and torn lines around the journal, quota races | attempts on file before mutations, true results, quota, bulk abort |
| Read tools (`server.rs`) | none of their own (an offset cursor at the client) | filter, sort, paginate | the mirror changes between pages | no row skipped or repeated except by movement, progress, filters that mean what they say |
| Recurring detection (`recurring.rs`) | none | `detect_recurring` | repeated days, even numbers of gaps, outliers | reports what is regular and only that |
| Search and suggestions (`local.rs`) | none | `aggregate_merchants`, `suggest_categories_for_merchant` | ties, the cut to a limit, two tools counting the same rows | counts are true, the most frequent first, the tools agree |
| Rows and patches (`models.rs`, `build_patch`) | none | `apply`, `validate_upsert_required`, `to_create_body` | fields a patch cannot remove, required fields kept in two lists | what was created can be edited; what was edited can be restored |
| CSV (`csvio.rs`) | none | `parse_import_csv`, template export | headers or none, caps, bad rows, quoting | every row accounted for, cap on data rows, round trip |

Interactions: a tool call enters the store (`ensure_transactions`), which under the sync gate lists
pages through the client; each page is a `request_raw`, which asks the auth manager for a token
and then waits for its turn at `pace`; the auth manager changes the token cache and saves it. A
mutating tool also reserves quota, appends its attempt to the journal, sends a PUT or POST through the
same request lane, writes the row through to the mirror and appends its result.

The hazards of this code, each at its line and with the properties that cover it, are the `hazards`
of `PROJECT.json`.

## 2. Modules

Each `MCx.tla` instantiates `x.tla` with small sets; each `.cfg` gives the rest of the constants.
Definitions marked `Fault:` are plausible bugs of the definition that follows; no specification uses
them, and each shows that some property would notice it.

**Auth.tla** — one `AuthManager` over one process's cache. `cache` is `TokenState` in memory and
`disk` what was last saved; `Saved`/`SaveFailed` are the two ends of `save`. An action is the code
between two awaits or between a change of the cache and its save: `CallAccess … CallLogout` start
an operation, `Acquire` takes the flight mutex, `CheckHit`, `CheckBackoff`, `CheckNoRefreshToken`
and `CanRefresh` are the branches of `access_token` after it, `SendRefresh` to `StoreSaveFailed` a
refresh, `ChargeLogin` to `ExchangeRejected` a `login_attempt`. `Abandon` drops a call at an await,
`Restart` loses memory and reopens the file. `cfg` is the configuration the process was started with (password
fallback, client secret, and the `SIMPLIFI_TM_SESSION_ID` that takes the place of the stored device id and is stored in
turn: `DeviceFor`), chosen anew at a restart. `spent`, `submitted`, `devices`, `used` and `failed` are history.

**SyncStore.tla** — the mirror over an upstream ledger other clients edit. Every modification has a
stamp; a row's content is the set of the modifications it shows. `StartSync`, `FirstPage`, `NextPage`
and `Apply`/`ApplyReference` are a sync, `CacheHit` a call served from the mirror, `ReadBase`, `PutAccepted`,
`PutFails` and `UpsertLocal` a mutating tool. A PUT that timed out or whose caller was dropped may have been sent: `late` holds
those, and the upstream may apply each at any later time (`Lands`) or never. The other variables are history: `lapped` marks a task whose PUT has been
followed, before its write-through, by the landing of a sync or by another PUT of the row, a late one included, `overtaken` holds the rows such a
task wrote through (`NoLostChange` is what holds of all others, `MirrorConsistent`
what the comment on `upsert_local` promises of all rows), `settled` the PUTs written through while no sync in
progress, no other update and no late PUT had an older copy (`Outdated`), and `during` what each row has been since the sync in progress began. `SnapshotAsOf` names an assumption about the external service: the
pages of one listing carry the `asOf` of its first page. The code takes the last page's `asOf`, so a service
that stamps every page afresh would lose edits; the repository does not say which it does.

**LedgerView.tla** — what the mirror promises a reader: it changes by whole refreshes, in which every row is as the
ledger had it at some moment since the refresh began, and by write-throughs of one row; a refresh that fails shows
nothing. `IsView` is the refinement of it by `SyncStore` (`ledger <- content`, `view <- mirror`, `since <- during`,
`open <-` a transaction sync in progress, `astray <- overtaken`). That syncs do not overlap follows from it; that readers
never see a row go back which only others modify is the theorem `RowsAdvance`.

**WriteLane.tla** — the mutating tools from gate to result. An operation is a call that passed the gate, its
mutations are numbered rows. The journal is the sequence of what appends left in the file; a piece that
is not `whole` has no newline, so the next record continues its line (`Swallowed`). `cfg` is the
configuration of the process: writes allowed, unverified endpoints enabled, quota. `excused` (history) holds the
operations that a crash, a dropped call or a failed append kept from writing their result.

**Request.tla** — `request_raw`: token, dataset or its nested discovery, `pace`, send, retry. Time is
kept in clocks that stop at the largest value a guard asks for, so neither calls nor time are bounded.

**TokenRegister.tla, TokenFile.tla** — the abstract register a caller of `save` relies on, and the file
operations that implement it: snapshot, create or truncate the temporary file, write, rename. Files are
inodes, so a writer goes on writing to what it opened wherever a rename puts it. A start resolves its key first:
`KeyFound`, or `KeyMissing` and then `KeyAdded`, which are the two commands of `keychain_get_or_create`; a key from the
environment or a key file is one that is always found. `Denied` lets `security(1)` refuse a key that is there.
`IsRegister` is the refinement (`TokenRegister` with `known`, `stored` and `acked` mapped).

**Paging.tla** — one listing after another over a graph of links that the upstream chooses.
`Receive` is what every arm of the loop does with a page; `LastPage`, `PageLimit`, `UnsafeLink`, `LinkCycle`
and `Follow` are the arms, `RequestFails` the `?`. Its specification is `PagingSpec`, over `stage`, so that
one module can extend it and `Request`.

**ReadTools.tla** — `Matches`, `Listing`, `Clamp`, `Page` and `NextCursor` translate the filter, the sorted
snapshot and `paginate`; `FirstPage`, `NextPage` are calls of one client's walk and `Change` a row
replaced by a sync or a write-through. Dates are places in the order of texts, which is what the code compares, and
`Day` gives the day each text means.

**Recurring.tla** — `detect_recurring` as operators (`Groups`), against a definition by sets of days. Payees are a
key and noise; `normalize_payee` keeps the key. Dates are places in the order of texts, as in `ReadTools`: `date_from` is
compared with them as a text, everything else goes by the day they mean. The definitions go by the day throughout, and
`ComparesAsDay` is the exception they state for a `date_from` whose text does not. `Picked` and `Sorted` put each place or value at its rank, in place of
the code's filter and sort, so that they can be reasoned about.

**Suggest.tla** — `aggregate_merchants` and `suggest_categories_for_merchant` over the same rows, as the set of answers
the code may give. A count is the size of a set of places of the snapshot; `Orders` leaves entries that tie in both sort keys in any order, as the hash map does.

**CsvFile.tla** — a record is a sequence of cells. `Rows`, `Errors` and `Refused` are `parse_import_csv`, `Template`
the template export. Where a header gives one title twice the later column counts, in `HeaderColumns` as in the property's
own definition (`Under`). `StringRecord` is the reader, which trims every cell (`csv::Trim::All`). The template writes a tag by its name
(`TagNames`, `tag_cell`), so a row comes back with names for tags where creation takes ids: `ExpressibleReturn` says so (`ByName`), and
`Expressible` asks that the names read back, that no cell is trimmed or quoted, and that the date is in the form an import gives. The template has no
memo column, so `Expressible` asks for a row without one; nor has it a category, a renamed payee or a flag, of which an exported row says nothing.
Cells are members of a small set
with what the conversions make of them (`DayOf`, `AmountOf`, `Parts`, `TagName`, `Trimmed`, `Quoted`, …) given as functions.

**Edit.tla** — one row through the mutating tools, on top of `CsvFile`: `Import` of a parsed file,
`create_transaction`, `Appears` for a row of another client, then `update_transaction` and `categorize_transaction`
without end. A row is a function from the fields it has; a patch is one too, so that `apply` is a merge, `Named` what
`build_patch` makes of its arguments and `Complete` is `validate_upsert_required`. A coa is a type, an id and what else the service
gave it (`extra`); a patch puts a whole coa in its place, without extras (`category`). `CanSay` is what `update_transaction` has words for. `image` is the before-image in the
journal, `origin` (history) what the row was created from. What two writers do to each other is in `SyncStore`, what
the journal goes through in `WriteLane`.

## 3. Runs

| Run | Shows | Bounds, and why they are enough |
|---|---|---|
| auth_tokens | TypeOK, SingleFlight, LoginBudget, OneDevice, NoSpentRefresh, RefreshSpacing; EveryCallReturns under fairness | 2 tasks, 4 calls, budget of 1 in a window of 2, clock to 2, backoff 1 capped at 2 (the second failure of a run doubles it, the third meets the cap), started with fallback and secret or with neither and a configured device id: a login, its failure, a restart, an expired charge and two refresh failures all fit. All but liveness are also proved, for all bounds |
| sync_mirror | NoLostChange, OwnEditsStand, SyncFloor, IsView (refinement of `LedgerView`) | 2 tasks that read and update, 2 rows, 3 calls, edits by others up to stamp 2, clock to 1 with a floor and a transaction staleness of 1 and one of 2 for reference data (so that a sync may be due by age, by force, or not): an edit before, between and after the pages of a sync, a second sync, a dropped or failed one, a PUT of unknown outcome that lands at once, later or not at all, two updates of one row in every order, and a third after them. All four are also proved |
| write_journal | Journaled, ResultsTrue, QuotaHolds, BulkStops, EveryAttemptAnswered | 2 tasks, 2 operations, single or a bulk of 3 with the threshold at 2, a quota of 3 in a window of 2 (or none, with unverified endpoints disabled), clock to 2, failing and torn appends, crashes: two operations compete for the quota and for the file; a bulk stops in the middle, at its end, or not. All five are also proved |
| request_calls | BoundedTries, DataPaced, RetryAfterHonored; EveryCallEnds under fairness | 2 tasks, 1 retry, advice below and above the cap; neither the number of calls nor time is bounded. All but liveness are also proved |
| file_register | AlwaysOpens, BudgetPersists, IsRegister (refinement of `TokenRegister`) | 1 saver, 5 updates, 3 starts with a key in the keychain or none, every file operation and keychain command may fail: more updates than the budget, spread over processes that die between any two steps. All three are also proved |
| paging_links | RequestsBounded, NoLinkTwice, WholeListing, ErrorsJustified | every graph over 4 trusted pages and a foreign one, bound of 4 pages: full chains, cycles of every length, chains cut by the bound. All four are also proved, for all graphs |
| read_walk | NoneTwice, NoneMissed, WalkIsListing, DatesHonored, CursorAdvances | 3 rows, 4 row values, 6 filters, padded dates, limits below, inside and above the page sizes; changes of the mirror and walks are unbounded. All five are also proved |
| recurring_rows | RegularReported, OneOutlierTolerated, ReportedIsRegular, CountsTrue | every snapshot of up to 4 of 22 rows, with a padded `date_from`, an unpadded one that compares as its day in some snapshots, or none, and with or without an account: three intervals, even and odd medians, repeats, an unpadded and an unreadable date; merchants under two numbers, renamed or only inferred, three categories that share a type or an id, a reference without an id, rows in none; limits of 0, 1, 2 and more than there are. All four are also proved, for snapshots of any length |
| row_life | EveryRowAccounted, ExpressibleReturn, CreatedEditable, ImageRestores | files of up to 5 records around a cap of 3 data rows, with a header (one title given twice included) and without; snapshots of up to 5 rows around an export cap of 4; then a row imported, created from 7 argument records or found in one of 4 forms, and any number of patches of up to two of six fields, with values that fail to parse. The exported rows have tags with a name, without one, and with names that do not read back; files have cells the reader trims. One row found on the ledger has a coa with an extra field, a tag object and a date that is not ISO. All four are also proved |
| sync_write_race | MirrorConsistent, violated | section 6; proved of behaviours in which nothing comes between a PUT and its write-through |
| file_two_threads | AlwaysOpens, violated | section 6 |
| read_dates | DatesHonored, violated | section 6 |

In `Recurring` the only behaviour is a growing input, and an input of `Edit` that grew to its bound and
is refused leads nowhere, so the two runs of these modules do not check for deadlock. All other runs do; where an action bound can end a behaviour a `Quiet` action says so.

Symmetry is used in two runs that check no liveness: on the rows and tasks of `sync_mirror` and the tasks of `write_journal`, which
no definition tells apart.

### Fairness

* `Auth`: weak fairness of a task's own steps, since a tokio task that is not dropped is polled again and every
  upstream wait ends by `reqwest`'s timeouts; strong fairness of acquiring the mutex, since tokio's `Mutex` is first
  come first served and so a waiter is not overtaken for ever. Calling a tool, dropping it, crashing and the clock
  have no fairness.
* `Request`: the same for the pace lock, with weak fairness of the clock, because sleeps end.

`EveryAttemptAnswered` is an invariant and `CursorAdvances` is an action property; they need no fairness.

## 4. Proofs

The eight `…Proofs` modules prove the properties of the runs for every value of the constants: any number of tasks,
rows, calls, processes, threads and pages, any intervals, budgets and bounds, and any behaviour of the upstream that the
actions allow. They rest on the assumptions the modules name (times and bounds are natural numbers, an absent
value is not a present one, the argument records have the fields their types require), on nothing the provers do
not check, and, where a theorem says so, on a hypothesis of its own:

| Hypothesis | Needed by | What it says, and why |
|---|---|---|
| `SnapshotAsOf` | `ChangesKept`, `MirrorIsView`, `ConsistentUndisturbed` | the service stamps all pages of one listing with its first `asOf`; the code takes the last one's (section 2) |
| `Alternates` | `BudgetKept`, `FileOpens`, `FileIsRegister` | no two processes run and no two threads save at once. The code does not enforce it: `file_two_threads` shows what happens without. `OneSaverAlternates` proves it for a single thread, which is the instance of `file_register` |
| `~Denied` | `FileOpens` | `security(1)` shows a key that is in the keychain (section 6) |
| `CapReached` | `RefreshesSpaced` | the backoff cap is at most 32 times its base, so the shift, which stops at the sixth failure, reaches it: 30 s and 900 s in `auth.rs` |
| `TextsSortAsDays` | `ListingHonorsDates` | the texts of dates sort as their days, which padded ones do; `read_dates` has one that does not |
| `ReadsBack` | `RowsReturn` | `parse_import_date` reads what `iso_to_mdy` writes for a date in the form an import gives, and `parse_import_amount` what `Decimal::to_string` writes. Nothing is assumed of tags or of trimming |
| `NoneIsNoRow` | `CreatedStaysEditable`, `ChangesUndone` | the value that stands for no row has no `id` |
| `AnyArguments` | `ChangesUndone` | the patches are closed: a field that can be patched to two values can be patched to either, whatever else the patch names, a category can be named alone, and every id the tools assign can be named. The code bounds no argument's value |
| `RowsSayable` | `ChangesUndone` | what a row of the ledger, a creation or an import holds in a field that patches name is given by some argument, if it is a value that `update_transaction` has words for at all (`CanSay`). Rows may hold others: a coa with extra fields, tag objects, a date that is not ISO |
| `[]Undisturbed` | `ConsistentUndisturbed` | while a call waits to write its row through, no transaction listing is in progress, no other call is about to PUT that row and no late PUT of it is under way. The code does not see to it (section 6) |
| `[]NotOurs(r)` | `RowsAdvance` | no tool call of this process is about the row `r`, from the start on |

**Auth** (`AuthProofs`)

* `TypeCorrect` — `TypeInv`: `TypeOK` and `OpOK`, which ties the operation of a task to its place in it.
* `FlightIsSingle` — `FlightInv`: a task is at a place inside the flight exactly if the mutex names it. The one
  lemma `MovesFlight` covers every step that stays inside or leaves.
* `BudgetHolds` — `LoginInv`: the charges in memory and on disk are each within the budget (`LedgersWithin`),
  every submitted password is charged in both (`AllCharged`), and a task about to submit has paid (`PaidUp`).
  `LoginBudget` alone is not inductive: it says nothing of what a restart will find on disk.
* `DeviceIsStable` — `DeviceInv`: once a device was shown, memory and disk hold it or an id configured since, and
  a task past the device step shows the one they hold; an id in memory that is not yet on disk is saved with the charge
  of the next login before it is shown, and an MFA completion comes after a login that has shown it (`Settled`). The
  property lets the id change by configuration only, and an id so adopted stays when the configuration no longer names it
  (`tests/token_cache.rs:124-139`).
* `RefreshSpentOnce` — `TokenInv`: what is on disk and in memory is never a spent token, the token in flight is
  the cached one, and numbers not yet given are not in use.
* `RefreshesSpaced` — `BackoffInv`: the instant before which no refresh is sent is that of the last failure plus the
  delay its run has come to. The run of failures is history, kept by doubling; `DelayDoubles` shows that the code's shift
  computes the same.

**SyncStore** (`SyncStoreProofs`) — `StoreInv` asks nothing of the service, `MirrorInv` and `ViewOK` take `SnapshotAsOf`.

* `SyncFloorHolds` — `GateOK` (a task is fetching exactly if it holds the gate) and `FloorOK` (a sync that is not in
  progress failed, or landed no earlier than it began).
* `UpdatesStand` — `StandOK`: an update that settled shows in the ledger, the mirror, every batch, every base of a
  writer of its row and every PUT of it under way, which are all the places a later state of the row can come from.
* `ChangesKept` — `MirrorInv`: `NoLostChange` is carried through a listing by `ListingOK` (what the listing has
  read is current or modified past its `asOf`; what it passes over is so in the mirror, or will be by a write-through),
  which is what makes it true again when the batch lands. `AckOK` and `BaseOK` say what a PUT that has not been lapped owes.
* `MirrorIsView` — `ViewOK`: what a listing has read or passed over is something the row has been since the sync
  began. Each action of `SyncStore` is then a step of `LedgerView` or a stutter (`ViewStepMaps`).
* `RowsAdvance` — `AdvanceOK`: of a row no call is about, the mirror shows no more than a listing in progress has read,
  and that no more than the ledger; no PUT of it is under way. It asks nothing of the service's stamps.
* `ConsistentUndisturbed` — `InTime`: nothing was ever lapped or overtaken, so that `NoLostChange`, which excepts those
  rows, is the whole of `MirrorConsistent`. With it the run `sync_write_race` and the theorem name the exact gap.

**WriteLane** (`WriteLaneProofs`) — one invariant `Inv`: an operation belongs to one call (`CallOK`), the
tally of failures is that of the last rows (`TallyOK`), the file mentions an operation only from its attempt on and
its result only when it is over (`JournalOK`), every mutation taken was attempted and every acknowledged one
taken (`AppliedOK`), and the slots of the window are on the server's list (`QuotaOK`, which has to hold of every
past instant for a reservation now to be safe). `MutationsJournaled`, `ResultsTold`, `QuotaKept`,
`ImportStops` and `AttemptsAnswered` are its parts; the induction is over whole lines of the file (`OnFile`), readable or
swallowed, since a torn line after them may change which they are.

**Request** (`ClientProofs`) — `PaceOK` (the sleeper holds the lock and wakes no earlier than the interval),
`AdviceOK` (a call that waits has heard its advice long enough when it is through) and `TriesOK` (the requests
sent follow from the attempt, with those of one discovery). From it `RequestsPaced`, `AdviceHonored`, `TriesBounded`. That
the backoff without advice is a number is not shown, as no prover knows exponentiation, and not needed.

**Paging** (`ClientProofs`) — one invariant `PagingInv`: a listing in progress asked for
one page more than it holds (`Progress`), the URLs requested are a path along the links whose pages are held in
order (`LinkPath`), every link requested is remembered (`Remembered`), and the stamp is that of the last
stamped page (`Stamped`). From it `PagesBounded`, `LinksFollowedOnce`, `ListingsAreWhole` and, with what each error
return has seen, `ErrorsHaveCause`.

**TokenFile** (`TokenFileProofs`) — `SaveOK` says for each place of a save what the temporary file holds, `FileOK` that
the file in place is whole, is not the temporary one, and holds nothing the running process does not. `LoginsOK`
and `AckedOK` give `BudgetKept`; `KeyOK` (one key, of the keychain, the process and the file) gives `FileOpens`;
`FileIsRegister` maps each step to one of `TokenRegister`, or a stutter.

**ReadTools** (`ReadToolsProofs`) — `ListingFacts` shows that `Listing` has each hit once, at its rank (the
number of hits ahead of it). While no row moves or enters, ranks only fall, so what was returned stays behind the cursor
(`TwiceInv`, for `NoRowTwice`); while none moves or leaves, they only grow, so what was not stays ahead (`MissedInv`,
for `NoRowMissed`); while neither happens the pages are the beginning of the listing (`WalkInv`, for
`WalkReturnsListing`). `CursorMovesOn` is about one page, `ListingHonorsDates` about the filter.

**CsvFile and Edit** (`EditProofs`) — `RowsAccounted`: the candidates are as many as the rows that can be read under the
header's columns, by a bijection that shifts the data rows (`AllAccounted`). `RowsReturn`: a template's header
names its columns where its lines have them (`TemplateColumns`) and each line reads back (`LineReadsBack`).
`CreatedStaysEditable`: `RowInv` keeps the required fields of a created row filled through every patch that is sent.
`ChangesUndone`: `RestoreInv` says that what stands on the ledger can be spelled in arguments as far as it can be said (`Sayable`), which patches,
`categorize_transaction` and creations keep (`PatchedSayable`, `CategorizedSayable`, `CreatedSayable`). The arguments that put
a before-image back are then those that spell its fields (`ArgumentUndoes`), and the patch they make passes the checks the
first one passed (`PatchRestores`).

**Recurring and Suggest** (`RecurringProofs`) — the snapshots are any sequence of rows. `Sorted` and `Picked` go once over
their places, by the rank of each (`SortedOnce`, `PickedOnce`), so a merchant's days are the days it was paid on, one place
each (`DaysArePaid`; where `date_from` compares as its day, `MembersByDay`), and its gaps are in bijection with the pairs of successive days (`GapsOfMerchant`), of which there is
one less than days (`SuccessiveCount`). What is left is the median of numbers of which all or all but one are equal
(`MedianOfEqual`, `MedianOfMost`) and of numbers in general (`MedianHalves`), of the gaps and of their deviations, and the
cadences' tolerances (`Tolerances`). `RegularIsReported`, `OutlierIsTolerated` and `ReportsAreRegular` follow; `OneReport` is that no
two cadences take the same gap. `CountsAreTrue` rests on tallies: rows put into classes by their keys are counted once each
(`TallyTotal`), an order of the classes that is cut to a limit leaves out none that is ahead of one it keeps
(`AnswersAre`), and the merchant's rows in a category are the same set of places in both tools (`CategoryTally`,
`MerchantTally`).

Only model-checked: liveness (`EveryCallReturns`, `EveryCallEnds`), as the provers have no rule for fairness or `ENABLED`. All
other properties of the passing runs are proved.

## 5. Not modelled, and why

Configuration and credentials (constants read at start), the HTTP server (stateless), the transport and the mock
(I/O; their outcomes are choices of the models), argument parsing, printing, money formatting, the
error enumeration; `delete_transaction`, `find_transaction`, `whoami` and `earliest_date_on`, which no tool calls; the
listings of accounts, tags and categories and the account balances (projections of one read); the fields of a patch
that `Edit` leaves out are set like those it has; detailed CSV and JSON exports. The access token may
expire while a request waits for its turn (`client.rs:442`); the code promises nothing there and no property is stated.
Whether a POST answered 503 was applied cannot be seen by the client, so duplicates of created rows are not
a property here.

## 6. Where the code and its documents disagree

Each of these is a run whose property states what a document or a comment says, and which TLC violates:

* **sync_write_race** — a write-through overwrites a newer row that a sync has just brought, beyond the watermark
  (`store.rs:167`); `store.rs:165` has it keep the mirror consistent. Where nothing comes between the
  PUT and the write-through, it does: `ConsistentUndisturbed` proves the same property of those behaviours.
* **file_two_threads** — two saves at once share one temporary file (`token_cache.rs:320`): one renames what the other
  has just truncated, and `tokens.enc` does not open (`SECURITY.md:42`).
* **read_dates** — `validate_iso_date` takes `2026-7-5` for a date (`server.rs:360`) and the filter compares it as a
  text, so that a listing from July 5 leaves out August 1; `server.rs:330` relies on ISO dates, which compare as texts. With
  padded dates the same property holds (`read_walk`). The dates a patch or a creation sets pass the same test.
  `recurring_detection` has the same defect (`server.rs:1334`, `recurring.rs:127`): from `2026-7-5` on it drops the rows of
  August, and a regular merchant is not reported. `RegularReported`, `OneOutlierTolerated` and `ReportedIsRegular` except a
  `date_from` that does not compare as its day; without `ComparesAsDay`, TLC shows each of them violated.

Met while modelling, and not the subject of a run:

* A missing client secret is found after the password has been sent and charged (`auth.rs:229`); `error.rs:13` says that
  configuration problems are detected before any network traffic. In `Auth` this is a behaviour: `Submit` does
  not look at `cfg.secret`, `ExchangeRejected` does.
* A failed sync leaves no time behind, so the next call goes upstream at once, below the floor of `README.md:110`
  (`store.rs:105`). `SyncFloor` states what does hold: the exception is a last sync that failed.
* A whole-object PUT takes back what others edited since the mirror's copy was fetched (`server.rs:967`).
* After a torn append the next record is written onto the broken line and cannot be read back (`audit.rs:113`).
  `Journaled` and `EveryAttemptAnswered` state the exception (`Swallowed`).
* Quota slots are dated when they are reserved, so an hour can see more mutations than the cap of
  `SECURITY.md:51` (`server.rs:511`). `QuotaHolds` counts reservations.
* Token requests do not pass the pacing floor of `SECURITY.md:46` (`auth.rs:194`, `auth.rs:259`). `DataPaced` is the floor among
  data requests.
* Two processes on one data directory keep a login budget each (`token_cache.rs:199`). `BudgetPersists` is checked for one
  process after another.
* Exports do not "re-import cleanly" (`csvio.rs:8`) in these cases, each of which `Expressible` or `ByName` names. Tags are exported by
  name (`csvio.rs:231`) and come back as names, in a field that creation sends as ids (`server.rs:221`): the tag of a re-imported row is not
  the one it had, wherever a name is not its id. A tag name that holds a separator comes back as several. The reader trims (`csvio.rs:89`), so a payee with blanks around it
  comes back without them. Quoting against formulas (`csvio.rs:217`) is not undone. A date that is not in the padded form comes back in it.
* An answered update can be taken back by this process itself: a sync that fetched the row before the PUT lands its older
  copy after the write-through (`store.rs:109`), and the next PUT is made from it. `OwnEditsStand` excepts the updates
  that a sync in progress holds an older copy of.
* So can one that ran beside another update of the row: both tools read the row, nothing orders them, and the second PUT
  is the whole row without the first one's change, though both are answered `ok` (`server.rs:941`). `OwnEditsStand` excepts
  these too; without `Rivals` in `Outdated`, TLC shows the loss with two calls.
* And so can one that came after a PUT of the row that timed out (`transport.rs:68`) or whose caller went away: nothing in the
  code tells whether that PUT will still be applied (`server.rs:979`), and when it is, the row is back to what it had sent.
  `OwnEditsStand` excepts the updates written through while such a PUT is under way; without that clause TLC shows
  the loss with two calls. (An attempt answered 429 or 503, which is retried, is taken not to have been applied; `Request`
  treats the retries.)
* `SECURITY.md:70` has the before-images make a manual restore possible via `update_transaction`. Not of a field the row did
  not have, which a patch cannot remove (`models.rs:249`), not of an `UNCATEGORIZED` category, since a `categoryId` is
  always sent as a `CATEGORY` (`models.rs:61`), not of a category that the service had given more than a type and an id
  (`models.rs:56`; the repository's own sample has a `vendorCoaHint`, `models.rs:575`), since a patch puts in its place a coa without
  them (`models.rs:261`), not of tags given as objects or numbers, nor of a date that is not ISO, which no argument can give, and not of a row that was incomplete before.
  `ImageRestores` states the rest.
* One bulk import response numbers its errors by data row and its results by position among the rows that parsed
  (`server.rs:1191`, `csvio.rs:25`).
* `keychain_get` takes any failure of `security(1)`, a locked keychain included, for a missing key (`secrets.rs:162`), and the
  fresh key then replaces the one `tokens.enc` is sealed with. With `Denied = TRUE` TLC finds `AlwaysOpens` violated in
  `FileRegister.cfg`'s instance. Two first starts at once each make a key, and the file of one cannot be opened.
* Suggestions can name the `UNCATEGORIZED` category, like any other (`local.rs:133`), and those that tie in count and id come in the order of a hash map.
* `SECURITY.md:57` names `-` among the sanitized prefixes; `sanitize_cell` leaves it, since negative amounts need it.

## 7. Plan

Done: the modules above, in the order auth, sync, writes, files, requests, pages, reads, recurring, CSV, edits, the
abstract mirror, suggestions and the keychain; proofs for all of them, both refinements included.

The project keeps to a dozen runs, one per module and one per disagreement, and to forty properties: a property
added later takes the place of the weakest (first `BulkStops`, `ErrorsJustified`).

Left:

1. The effect of an expiring token between `access_token` and the request (`Request` with `Auth`'s promise). The code
   promises nothing there yet.
2. The paged listing of `Paging` as what `SyncStore` lists, by a refinement of its pages.
