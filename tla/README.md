# Xplora Watch for Home Assistant: TLA+ models

This directory holds TLA+ specifications of the Home Assistant integration
`xplora_watch` (`src/custom_components/xplora_watch/`), the TLC configurations
that check them on small instances, and proofs for TLAPS. Paths below are
relative to that directory; line numbers are those of this commit.

The integration is single-threaded `asyncio` code. Nothing preempts a
coroutine between two `await`s, and everything may happen at one. All models
follow that rule: **one action per stretch of code without an `await`**. What
makes the code hard is therefore what is read before an `await` and used after
it, who awaits whom, what a cancelled or failing step leaves behind, and what
is on disk when Home Assistant stops.

1. [Inventory](#1-inventory)
2. [Modules](#2-modules-and-how-they-correspond-to-the-code)
3. [Runs](#3-runs-what-they-check-and-their-bounds)
4. [Fairness](#4-fairness)
5. [Proofs](#5-proofs)
6. [What the checks found](#6-what-the-checks-found)
7. [Limits](#7-limits)
8. [Plan](#8-plan)

## 1. Inventory

One config entry is one Xplora account. It has one coordinator, which owns one
client (`controller`) of the vendor's GraphQL API and one dict `data` with an
entry per watch. Entities read `data`; the poll, services, buttons, a websocket
command and a card of the dashboard all call the coordinator.

| Component (code) | State | Operations | Hard behaviour | What makes it correct |
|---|---|---|---|---|
| **Token recovery** (`coordinator.py` 271-510, 733-857; client `_login`, `init`, `refresh`, `logout`) | access and refresh token, user record, `_token_generation`, `_token_recovery`, session store | any authorised call, sign-in, refresh, re-login, persist, restore, logout | many calls rejected at once; recoveries fail or are cancelled; restarts between rotation and write; a controller dropped under a running call; writes that fail; a replaced coordinator that still writes the file | one recovery for any number of rejections; a retry only after a recovery; the token in use survives a restart; every call returns |
| **Update coalescer** (689-731) | `_inflight_updates`: signature to task | join, lead, clean up, cancel | leader and joiners wake in any order; cancelling one caller cancels the shared task | one fetch per signature; no dead entry; every update returns |
| **Watch data fan-out** (`data_loop`, `_refresh_watch_fix`, `get_map`, `get_data`; client `setDevices`) | `self.device`, `self.lat`, `self.location_name`, the geocoder cache, the client's dicts | one turn per watch, address lookup at two providers | shared attributes written in one turn and read in another; caches | a watch never shows the fix or the address of another watch or place |
| **Coordinator data** (604-731, 859-915, 1809-1824; `services.py` 748-804, 946-992) | `data` and its shared mutable entries, the client's lists, the clock of the functions | updates, edits of alarms and silent times, `read_message` | snapshots taken before an await and merged after it; a bare entry while a chat read runs; lists only fetched when due | an undisturbed update is exact; a chat read shows what it fetched; polls heal what was left |
| **Location history** (390-425, 1625-1745) | day buckets in memory and on disk | view a day, force a day, nightly fetch, prune, save, restore | midnight under a request; overlapping fetches; failed writes; calls that outlive their coordinator | file follows memory; a bucket holds its own day; archived points stay |
| **Notification feed** (916-988; `notifications.py` 96-160) | high-water mark and its file | check by poll, button or service; plan events; save | reordered answers, equal seconds, full pages, reloads that leave old checks running, crashes | no event twice, none lost silently |
| **Service fan-out** (`services.py` 327-1362; client `_run_control_action`) | accounts, per-watch outcomes | every domain service: update, feed, history, follow, logout, read, message, command, create, edit and switch by id, toggle all | lost answers and retries, lists answered as null, accounts that break, errors that escape, the phone app editing meanwhile | verdicts are true; a call without complaint did everything; no request to a broken account; the call returns |
| **Live follow** (1015-1133, 1747-1761; `services.py` 823-862) | sessions with deadlines, one timer | start, extend, stop, tick, abort, teardown | ticks overlap, share fetches with others, meet a rate limit hidden behind `UpdateFailed` | a timer exactly while a session runs; a 429 ends all; sessions end |
| **Entry life cycle** (`__init__.py`; `coordinator.py` 150-352, 487-508) and **config flow** (`config_flow.py`) | entries, `hass.data`, registered domain services, timers and listeners, repair issues, session stores, an open flow | set up, unload, reload, remove, sign in, reconfigure, change options | flows write entries that are loading; services shared by all accounts; tasks that outlive the entry; entries replaced by one of the same account | a loaded entry runs with its settings; no account twice; sessions stay with their account; nothing of an entry outlives it |
| **Client** (`pyxplora_api/`: reads, control actions) and **transport** (`graphql_client.py`, `gql_handler_async.py`) | the client's dict per watch; no state in the transport | one HTTP request, its outcome as an answer or an exception; polls that gather reads per watch and function; mutations, media, feeds, chats, locations | requests without an answer, answers of gateways, rate limits under a retry loop, tasks that `gather` abandons | a verdict tells what the server did; a poll that returns left the newest lists |
| **Entities** (`sensor.py`, ...) | none of their own | read `data`; buttons and the switch call the coordinator | missing keys | - |
| **Geocoder**, **helpers**, **demo account**, **websocket command**, **card** | a request cache; files; memory; nothing; JavaScript state | - | the card keeps requests in flight of its own | - |

Interactions:

- every coordinator call that talks to the server runs inside
  `_with_recovery` (token recovery), which runs it once more after a recovery;
- the poll, `see`, `refresh_functions`, buttons and live follow all go through
  `async_update_xplora_data` (the coalescer), whose leader runs the fan-out and
  merges into `data`; the poll then runs the notification cycle;
- services go through the service fan-out, which calls the client, then
  `_refresh_list`, which writes into `data`;
- `read_message` replaces `data` and pushes back the dict it kept;
- session, functions clock, mark and history each have a store of Home
  Assistant, written by awaiting `async_save` and read at start.

The hazards of each part, at their lines, are listed in `PROJECT.json`.

## 2. Modules and how they correspond to the code

Every component has an `MC` module (constants for TLC) and a `.cfg`. No
specification states its history variables to be part of the program: they are
named where they occur below.

### TokenRecovery

`issued`, `live` and `half` are the server: tokens are numbered in the order
issued, `live` is what it accepts, `half` the tokens whose client session lacks
the user record `init()` asks for. `controller`, `token`, `watchs` are the
coordinator's client; `pending` and `disk` the session store, where a write is
taken when it begins and reaches the disk when it ends. `generation` and
`recovery` are `_token_generation` and `_token_recovery`; `rec`, `got` and
`saves` are the tasks: their progress, the token each obtained and the one it
stores. A write may fail (`SaveReturns`): Home Assistant's store logs the error
and returns, and `persisted`, which is `_persisted_token`, says that it is done.
A caller runs `_with_recovery`; pollers run `_init_and_fetch`, so they may first
restore, sign in, list the watches and persist.

`StartCall .. Answered` is the way of one call; `StaleRejection`, `JoinRecovery`
and `LeadRecovery` are the three branches of `_recover_token`; `Refreshed`,
`RefreshRefused`, `RefreshFailed`, `ReloggedIn`, `ReloginLists`,
`ReloginListed`, `ReloginFailed` and `Persisted` are the ladder of
`_do_recover_token`; `Resume`, `ShareFailure`, `CancelWaiting` and `CancelCall`
are the ends of an awaiting call. `StrayInit` and `StrayRecovery` are steps of
tasks whose controller another call has dropped. `StartLogout` and `LoggedOut`
are the logout service, which does not pass the gate. `Restart` keeps only the
disk. So does `Reload`, but calls and recoveries of the former coordinator go
on: `Straggle` is what they do to the server and the shared file. A finished task's awaiters wake in any order, before or after calls that
start at the same time.
`history` ("clean" until a recovery fails or a controller is dropped) and
`lastSave` (whether the file holds what this coordinator wrote last) are
observations.

### UpdateCoalescer

The abstract specification of the coalescer, and its model: `inflight` is
`_inflight_updates`, `fetch` the state of each task, `pc` and `awaits` the
callers. `Join`, `Lead`, `Return` (with the leader's `finally`, which pops the
signature whatever task it holds) and `Cancel`. Signatures are members of
`Keys`; only `PlainKeys` run the notification cycle at the end. `overrun`
records that a caller led a new task between the end of an old one and its
clean-up. `LiveFollow` instantiates this module.

### WatchFix

One fetch walks its list of watches: `DevicesListed`, `FunctionsFetched`,
`HistoryLoaded` and `FixRead`, then `StreetMapAnswered`, `OpenCageAnswered`,
`LicenceAnswered`, `MapboxAnswered` or `FallBack` for the address, and the turn
ends with the entry in the result. `attrs` and `name` stand for the attributes
`get_data` reads, which the turn before has left behind; a fix is a pair of a
watch and a position, so that a mix-up is visible. `Rerun` is the second run of
`_with_recovery`. `dict` is the client's dict, carried over when a request
fails. An address is the fix it was resolved for.

### CoordinatorData

`data` maps a watch to an id in `heap`, because entries are shared, mutable
dicts: snapshots, `data` and the dict `read_message` keeps may hold the same
one. An entry is its list (the number of edits it shows), its chats (the number
of reads that found them) and whether it has the watch's status. `device` is
the list in `controller.device`, `clock` is `_last_functions_fetch`.
`Poll`/`Update`, `SetDevices`, `Loop`, `Store` are one update; `Edit`, `Answer`,
`ShowList` an edit service with `_refresh_list`; `StartRead`, `Ask`, `Chats`,
`Media`, `Push` a `read_message`. Failing, repeated and dying steps have
actions of their own. `HeapBecomes` drops what nothing refers to any more.
A new entry takes an id that nothing refers to (`Fresh`); that there always is
one is proved (section 5). Two fields are observations: `fetch.alone`, nothing
overlapped the update so far, and `alone` of a reader, no other chat read did.
What the entities read, and `ExactWhenAlone` and `ReadIsShown` about it, are in
`SharedEntries`, which `CoordinatorData` extends.

### LocationHistory

The buckets of one watch. `track` is the server's truth per day, `disk` the
file, `memory` the archive of each coordinator of a run of Home Assistant and
`built` the present one. `Reload` builds the next one from the file, and the
calls of the old one run on (`owner`): what they fetch goes into the old
archive, which they then save over the file. `ViewDay`, `ForceDay` and `AutoFetch` the three callers of
`async_fetch_history_day`, `Answer`/`FetchFails` the request, `StoreDay` the
merge with pruning, `Save`/`SaveFails` the store, `Midnight` the calendar.
`trouble` (overlapping fetches, midnight under a request of today), `archived`
and `lapse` are observations; `lapse` says that a write failed or an old
coordinator was at work, until the file is restored, or written by the present
one with no old one at work.

### NotificationFeed

`feed` is the backend's list; an id is a position, its `create` a second that
may repeat. `Drop`, `Fetch`, `Answer`, `Process`, `NothingUsable`, `Save` are
`_run_notifications_cycle`; `NewEntries`, `NewMark` are `plan_events`. The
events of a page are fired in one step without an `await`, so their order is
left out. `mark` has one component per coordinator, because a reload leaves a
check of the old coordinator running. `fired` (a count), `before` (the counts
when a mark was last dropped), `silent`, `dropped`, `baselined`, `mishaps` are
observations. The state that the promises to automations are about, and these
promises, are in a module of their own, `FeedEvents`, which `NotificationFeed`
extends: the proofs speak of the same definitions.

### ServiceFanOut

The body of a handler is a loop over calls, and `Body` is the record that says
which: one per account, per watch, or by the id of an alarm or silent time;
whether contacts are gated; the steps at each (`ask`, `media`, `list`, `write`,
`refresh`, `confirm`); the ways a call that is no mutation may fail; whether a
mutation is sent again. `BodyOf` lists the handlers, so that one set of actions
serves them all. `Call` resolves the chosen devices (`ResolveDevice`) to watches
of accounts. `NextAccount` is `_fan_out` with `targets`, `NextWatch` and
`ShortCircuit` are `_Account.call`, `Asked`, `Listed` and `Loaded` its reads,
`Accepted`, `Refused` and `Lost` one attempt of `_run_control_action`, `Refresh`
is `_refresh_list` with `confirm`, and `Surface` the toast or the notification.
`...Breaks` is an error that breaks the account, `...Escapes` one that leaves
the fan-out, `...Fails` one that stays with its watch. `App` is the phone app,
which may change an alarm while a body that confirms runs; the outcome of the
other bodies does not depend on the alarms. A list may come back as null, which
the client reads as empty (`Readings`). `limited`, `touched`, `verified` and
`nulled` are observations.

### EntryLifecycle

Entries with the state Home Assistant gives them, refined by where
`async_setup_entry`, `async_unload_entry` and `async_remove_entry` await. The
manager's part (a lock per entry, reloads and removals that wait for it, an
entry that is replaced by a new one with its unique id) is external and comes
with `reload` and `doomed`. `coord` is the coordinator with what it read from
the entry when it was built, `held` is `hass.data`, `services` the two groups of
domain services (`fetch_history` is never removed), `timer` and `listener` the
nightly timer and the update listener, `disk` the session store, `orphan` a
discarded coordinator whose token recovery goes on. `flow` is a user flow that
has checked its account and waits in the alias step. `unheard`, `moved` and
`late` are observations: settings saved while no listener was registered, an
entry moved to another account, a session that came back, or stayed, after the
removal.

### XploraClient

`Wire` is what may come back for a request, a body that is cut off or malformed
("garbled", an exception nothing in the client catches) included; `Parsed`, `Executed` and `Authorized`
are the three layers that make an answer or an exception of it. A poll lists
the devices and gathers one task per watch, which gathers one read per
function; a *round* is one attempt of one poll. `read` keeps the reads of every
round, because `gather` cancels nothing: `PollBreaks` hands the error over while
the other reads go on, and `DeviceStored` writes the client's record whenever
they end. `Recovered` is the second attempt after an expired token. Beside the
polls, `UserCalls` starts one call of any kind and `...Answered` says what it
makes of each answer; `copies`, `losses` and `doubt` count what the server did.

### LiveFollow

Extends `UpdateCoalescer`'s state with the sessions: `StartFollow`,
`StopFollow`, `Tick` (drop the expired, refresh the rest), `Return` (the end of
a refresh with the comparison of stamps), `RateLimited`, `Teardown`, and other
updates that share the coalescer (`OtherUpdate`). `Resolve` is the service
between looking the coordinator up and starting the session, so that a teardown
may fall in between. `UsesCoalescer` is the refinement: with
`Keys <- SUBSET Watches` every behaviour of `LiveFollow` is one of
`UpdateCoalescer`.

## 3. Runs: what they check and their bounds

| Run | Instance | Shows |
|---|---|---|
| `TokenRecovery` | a poll and a direct call, two recovery slots, two tokens, any restarts and reloads | `RetryFollowsRecovery`, `RecoveryIsLed`, `SingleFlightUntilFailure`, `DurableBeforeResume`, `CallsReturn` |
| `UpdateCoalescer` | three callers, a plain and a forced signature, two task slots | `EntryIsOwned`, `OneFetchUnlessOverrun`, `UpdatesReturn` |
| `WatchFix` | two watches, positions 0 (none) to 2 each, the poll and a forced fetch of one watch with history | `OwnFix`, `OwnAddress`, `OthersKept` |
| `CoordinatorData` | two watches, polls of both, one update of `anna`, one edit, one chat read, one fault; interval off or timed | `ExactWhenAlone`, `ReadIsShown`, `Converges` |
| `CoordinatorDataEdits` | polls and one edit, interval off, no faults | counterexample to `EditsStay` |
| `LocationHistory` | a viewer and the nightly timer, three days, one point each, retention 1, served 1, one reload between restarts | `DurableArchive`, `OwnDay`, `ServedDaysKept` |
| `LocationHistoryNightly` | the same, two days served | counterexample to `NightlyArchive` |
| `NotificationFeed` | two cycles, two categories, a page of two, three entries, two reloads or restarts | `FiredOnce`, `NothingLost`, `BaselinedByFirst` |
| `ServiceFanOut` | two accounts with two watches and one, one foreign device, two alarms, one and none, two attempts | `SuccessIsReal`, `RefusalIsReal`, `CleanIsComplete`, `NoDoomedRequest`, `CallReturns` |
| `LiveFollow` | two watches, one other caller, one tick, two task slots, sessions of up to two ticks | `TimerServesSessions`, `RateLimitAborts`, `SessionsEnd`, `UsesCoalescer` |
| `EntryLifecycle` | two entries, two accounts, a form with the timer and one the dialog refuses, four acts of users and the app | `SettingsApplied`, `OwnSession`, `UniqueAccounts`, `ServicesWhileAllLoaded`, `TimersOwned`, `RemovedLeavesNoSession` |
| `XploraClient` | two watches, one function, two rounds, two attempts, one call at a time | `VerdictIsHonest`, `FreshOnReturn` |

`TokenRecovery`, `UpdateCoalescer` and `LiveFollow` check their `TypeOK` too. It
says more than types where that is natural: that a call is not attempted a
third time (TokenRecovery), that no session outlives its deadline (LiveFollow).
The type invariants of the other modules are there for the proofs, which also lift the bounds: the theorems of section 5
hold for any instance, and a bound below only has to be large enough for TLC to
reach what the properties are about.

Why the bounds are enough:

- *TokenRecovery*: two callers give a leader and a joiner, a poll's sign-in
  against a recovery, and a stale rejection against a finished recovery. Two
  slots are needed for the parallel recoveries that follow a failure. Two tokens
  allow one rotation and, because a restart or a restored session may start
  from either, the comparison of an old and a new one; once all are issued no
  refresh succeeds and the failing branches remain. The `VIEW` leaves out what
  nothing reads any more: the last call of an idle caller, recoveries that are
  over and, after a failure, what only `DurableBeforeResume` asks.
  The proofs cover any number.
- *UpdateCoalescer*: a leader, a joiner and a third caller that overruns the
  clean-up; two slots let the old and the new task coexist. Proved for any.
- *WatchFix*: the second watch reads what the first has left behind; two
  positions give a moved watch and an unmoved one. `CONSTRAINT Alone` keeps
  fetches from overlapping: section 6 says what happens when they do. The
  `VIEW` leaves out values that the next action overwrites.
- *CoordinatorData*: one update, one edit and one read already interleave in
  every order; `Ids` is 1..6 because no more entries of one watch are ever
  referred to at once. One fault is any one failing, repeated or dying step, or
  a restart. Chat reads that overlap need a second reader, which
  `Readers = {r1, r2}` with `Intervals = {"off"}`, `MaxUpdates = 0`, `Spec` and
  `ReadIsShown` alone shows in less than a minute; the theorem is for any number.
- *LocationHistory*: three days are one archived, one pruned and one current; one
  reload (`LastBuild`) gives an old and a new coordinator that share the file.
  The `VIEW` leaves out the day of an idle caller and `archived`, which no
  action and no property of that run reads.
- *NotificationFeed*: three entries and a page of two give a full page with one
  hidden entry, and entries of the same second on two pages. To drop a mark and
  set another takes two changes of the options, hence two reloads. That an entry
  then fires a second time takes a fourth entry (`MaxEntries = 4`,
  `Kinds = {sos}`). Cycles and categories are interchangeable, so `SYMMETRY` is
  sound (the run has no liveness property); the `VIEW` leaves out the marks of
  coordinators that are gone and, after a mishap, what no property asks then. Deadlock is not checked: with the feed full and the
  reloads used up, and every category off, nothing is left to do.
- *ServiceFanOut*: two watches of one account show the short circuit, the
  second account the independence; two alarms a body that breaks between two
  mutations, none the empty list; two attempts are a first and a repeated one
  (the code makes `maxRetries + 2`).
- *EntryLifecycle*: two entries and two accounts are enough for a clash of
  accounts, a replacement and services that one entry takes from the other.
  Four acts allow a flow that is overtaken by a reconfigure, or settings, a
  reload and a removal in turn. Ids, accounts: `SYMMETRY` is sound without
  liveness. Deadlock is not checked: when the acts are used up and the entries
  rest, nothing is left to do but a restart.
- *XploraClient*: a second round is a second attempt or a later poll beside the
  abandoned tasks of the first; two watches let one fail and the other go on.
- *LiveFollow*: one tick and one other caller share a fetch or lead one each.
  `MaxStamps` bounds the rate limits met.

## 4. Fairness

- *TokenRecovery, UpdateCoalescer, LiveFollow*: weak fairness of a caller's
  progress and of each task. The event loop runs every ready callback and every
  HTTP request has a timeout, so a request ends. In `LiveFollow` also of the
  tick, which `async_call_later` runs. No fairness for users, cancellations,
  restarts or expiry, and none that chooses the good outcome: failing is a
  legitimate way to end.
- *ServiceFanOut*: weak fairness of the service body for the same reason.
- *CoordinatorData*: weak fairness of each started update, edit and read;
  strong fairness of `Poll`, because the timer is armed again after every poll
  but in the model another update may occupy the only slot just then; weak
  fairness of `Elapse`, the passing of time. Updates, edits and reads that
  users start are bounded, so "once calls and faults have ended" is what
  `Converges` is about.
- *WatchFix, LocationHistory, NotificationFeed, XploraClient*: safety only, no
  fairness. *EntryLifecycle* states fairness of Home Assistant's manager and of
  set-ups (`FairSpec`), for `ChangesTakeEffect` only.

## 5. Proofs

All proofs are checked to the last leaf and rest only on the assumptions that
the modules name (`ConstantsAssumption`, in `EntryLifecycle` also
`NoCoordinatorIsNone`, in `XploraClient` `ClientAssumption`). They state that the
constants have the obvious types: a "none" value is outside its set, bounds are
positive, an alarm belongs to one watch, a request is for at least one watch,
`loadWatchLocation`, which makes one attempt less than the others, makes one.
The one that is more than a type is of `CoordinatorData`: there are more ids than
twice the readers and one, because memory does not run out of dicts.
The theorems hold for every number of callers, tasks, signatures, watches,
alarms, days, entries and so on.
What a run checks was checked before it was proved.

**TokenRecovery_proofs.** `TypeCorrect` by one step per action.
`GateSafe` (a retry follows a recovery; an unfinished recovery has its creator)
is not inductive: whether a joiner may retry depends on the generation it saw.
`WaitersInv` adds that a waiting caller awaits a task that is running or done
and that a successful one has bumped the generation past what the caller saw,
and that a task has one leader. `SingleFlight` adds `FlightInv`: until a
failure `_token_recovery` holds the task of its only leader, so no second
recovery can start. `DurableSession` adds `IssuedInv` and `StoreInv`, which
order the token in use, the one being written and the one on disk: the reason
an older write of the same coordinator never overwrites a newer token. The disk
is part of that order only while `lastSave` says that the last write was not
lost; a lost one leaves the rest of it intact, so the next that goes well
restores it.

**UpdateCoalescer_proofs.** `EntriesOwned` and `Coalesced` from
`IInv == TypeOK /\ AwaitsTask /\ OneLeader /\ EntryIsOwned /\ RunningIsLed /\
OwnEntry`. `OwnEntry` is the point: until an overrun the entry of a leader's
signature is its own task, so popping the signature is popping the task.
`TypesKept` is the type part of the same invariant.

**Coordinator_proofs** holds the proofs of the three modules about what a
coordinator keeps: it extends `LocationHistory`, `FeedEvents` and `SharedEntries`, and has
`NotificationFeed` and `CoordinatorData` as the instances `Feed` and `Data`, whose
assumptions are hypotheses of their theorems (`Feed!ConstantsAssumption`, which
the runs of those modules evaluate). `disk` and `pc` of the feed, names that
LocationHistory has too, are called `markFile` and `step` there.

*LocationHistory.* `Durable` and `OwnDayKept` from
`IInv == TypeOK /\ OwnDays /\ FileInv`. `OwnDays` extends the claim about
buckets to the archives of all coordinators, to the file and to the requests
under way: what a caller asked for and was given is the day it will store.
`FileInv` adds to `DurableArchive` that without a lapse every caller runs on the
present coordinator, so that what is saved is its archive. `ServedKept` adds `ServedInv`: while fetches do not
overlap one caller is at work, no table holds more points of a day than were
recorded, and an answer of a served day has at least those of the bucket that it
will replace, in whichever archive, and of the file. Without a lapse a reload
and a restart change nothing because the file then equals the archive
(`RestoreServed`).

*NotificationFeed.* `NothingIsLost` is not inductive because the live mark may
come from the file, and from a page another cycle was given long ago. `LostInv`
says the same of every mark there is, in memory of any coordinator and on disk
(`SoundMarks`): whatever it covers was fired, passed by a baseline, off, or
beyond a full page. A step that makes a mark makes it of a page, so `PagesFit`
keeps that a page is the newest part of the feed as it once was, and `FeedOrder`
that seconds never go down; hence whatever the new mark covers and the old one
does not is on the page or hidden by it (`CoveredTold`). This needs no
condition: it holds through failed writes, crashes and stray cycles.
`FiresOnce` does need one. `OnceInv` says that without a mishap every cycle is of
the live coordinator, that the file is the live mark whenever nobody is writing
(so a restart loses nothing), and that whatever was fired since the last drop is
covered by the mark (`FiredPassed`); marks only move forward (`MarkAdvances`),
so it is never new again. `BaselineIsFirst` follows from `MarkIsSet` of the same
invariant: after a baseline the mark is set until it is dropped.

*CoordinatorData.* `DataTypes` rests on a counting argument: the ids held for a
watch are at most two per reader and one for the update, so `Fresh` finds a free
one (`FreshFound`), and storing an entry never overwrites one that somebody
holds (`FreshEntry`, `HeapKept`). `ReadsAreShown` from `ReadInv`: once set up,
`data` and every dict that a read kept have an entry for each watch
(`DataWhole`), and for a read that is alone (`Steady`) what it has put back is
in the entry its kept dict has, whatever update or edit replaced or wrote into
`data` meanwhile: this is the dict that the push merges in last.
`UpdatesAreExact` from `AloneInv`: as long as nothing overlaps, neither `data` nor an
entry nor the list of the server changes between the start of the update and its
store, so what the loop carried over (`Exact`) is still what is shown.

**LiveFollow_proofs.** `Coalesces`: every step is a step of `UpdateCoalescer` or
leaves its variables alone (`StepSimulation`), hence the theorems of the
coalescer hold here as well. `TimerOwned` and `RateLimitsAbort` from `IInv`,
which adds `StampOrder`: what a refresh has read is no later than the stamp and
earlier once its task met a rate limit. This is why comparing stamps finds the
limit also in a fetch that another caller leads. `TypesKept` includes that no
session outlives its deadline.

**EntryLifecycle_proofs.** `TypeInv` comes first: an entry that exists has an
account, one that is set up a coordinator. Each of the six properties is then
inductive after one addition. `LoadedIsCurrent` follows the settings from the
start of a set-up, not only once it is loaded; `SessionsStayOwn` adds what may
yet become a session (the account a coordinator was built for and the one of a
discarded coordinator); `TimersHaveOwners` that no timer is armed while a
coordinator is built; `ServicesComeBack` that a missing service always means an
entry that will register it or is not set up. `AccountsUnique` and
`RemovalIsFinal` are inductive as they stand.

**XploraClient_proofs.** `VerdictsAreHonest` is a counting argument (`CallInv`):
while a call runs the server has applied no more copies than requests were lost,
and each loss used up an attempt, so a refusal before the last attempt cannot
hide an applied copy. `ReturnsFresh` needs to know what a finished round leaves
behind (`FreshInv`): it failed, or stored all its watches, or never began its
reads. Only the tasks of a failed round can therefore still write.

**ServiceFanOut_proofs.** `BrokenIsSpared`: an account is served once, and
`broken` is set whenever it is in `limited` (`DoomInv`). `CleanMeansDone`: every
watch of the call has an outcome or its turn is still to come (`CompleteInv`).
`SuccessTold` and `RefusalTold` rest on `TurnInv`, which says where a call that
confirms is and that what is left to write is of the watch it serves. For a
success (`SuccessInv`) a watch that counts as done has its alarms on but for
those still in `list`, unless a list of it was null. A refusal (`RefusalInv`) is refuted or not when the list
is fetched; that it stays so needs `VerifiedInv`, by which nothing but the app
writes alarms of a watch after its list was fetched, and that no alarm belongs
to two watches. `ConfirmingSteps` first reduces the step relation to what such a
call can do.

**WatchFix_proofs.** `FixesStayOwn` and `AddressesFit` from
`IInv == Alone => TypeOK /\ OwnInv`. `OwnTurn` says for each place of a turn what
the shared attributes hold there, which is the argument a reader of `data_loop`
makes: `self.device` is written at the start of a turn, the label reset or taken
from the cache before it is used. `OthersAreKept` adds that the snapshot of the
only fetch at work is `data`.

Only model-checked: the liveness properties (`CallsReturn`, `UpdatesReturn`,
`CallReturns`, `SessionsEnd`, `Converges`), which are out of the prover's reach
with whatever needs ENABLED. Every invariant and every action property of a
passing run is proved. No module uses a RECURSIVE operator; no theorem needs
induction over data.

## 6. What the checks found

Two runs are counterexamples to what the repository says of itself:

- `LocationHistoryNightly`: a day that was viewed while it was today counts as
  archived after midnight, so the nightly fetch skips it and the rest of the
  day is never stored;
- `CoordinatorDataEdits`: with the default interval Off, the next plain poll
  takes an edited list back to the one from before the edit.

Four more statements do not hold. They are definitions of their modules and no
run checks them; each is violated when it is added to the configuration of its
module with the change named here.

- `NoForeignAddress` (`WatchFix`, only the poll as a request, one fix per
  watch): a watch that reports no position is shown with the address of the
  watch polled before it. `coordinator.py:1455` returns before the reset whose
  comment (1470-1474) says that it keeps the label of the previous watch out.
- `EveryAccountRuns` (`ServiceFanOut`): "the fan-out still runs `body` for the
  next account" (`services.py:684-686`), but an `UpdateFailed`
  (`coordinator.py:877-895`), or an error of `_refresh_list`, which runs outside
  `call`, leaves `_fan_out`, and the accounts after it are not served.
- `LimitAbortsPoll` (`XploraClient`, without `SYMMETRY`): letting the rate limit
  propagate "aborts the current poll cycle" because "retrying a rate-limit
  response would make the ban worse" (`exception_classes.py:101-103`), but
  `gather` (`pyxplora_api_async.py:315`) cancels nothing: reads of the aborted
  poll that wait for their next attempt still send it.
- `ChangesTakeEffect` (`EntryLifecycle`, one entry, three acts, `FairSpec`, no
  `SYMMETRY`): the update listener is registered at the end of the set-up
  (`__init__.py:154`). A change saved between the start of the coordinator and
  that line is not applied until the next reload, although the dialog says
  "Home Assistant is reloading the integration" (`strings.json:95`).

Other behaviour that the models exhibit, for which the properties therefore
carry a condition:

- *Parallel recoveries.* Once a recovery has failed, the creator of a finished
  task clears `_token_recovery` although a newer task may be there, so two or
  more recoveries may run. `SingleFlightUntilFailure` states what holds.
- *Needless refresh.* A poll's sign-in rotates the token without a new
  generation: a rejection of the old token then refreshes the new one.
- *Half-live session.* A refresh answered after a logout puts a token in use
  that has no user record (`StartCall, LeadRecovery, StartLogout, LoggedOut,
  Refreshed`); the next `init()` refuses it.
- *Overrun coalescer.* A caller that runs between the end of a fetch and its
  leader's `finally` registers a task which the leader then forgets.
- *Overlapping loops.* Fetches of different signatures share `self.device` and
  `self.location_name`; without the condition `Alone` addresses mix.
- *Unsaved session.* A write error is logged by the store and not raised.
  `_persist_session` then takes the token for stored (`coordinator.py:350-351`)
  and never writes it again, and the recovery bumps the generation: a restart
  resumes from a token that was replaced. `DurableBeforeResume` holds while the
  last write of the file was not lost.
- *Files shared with a replaced coordinator.* A reload leaves calls of the old
  coordinator running. One that ends later saves its own `_loc_history`, or the
  session of its own client, over the file that the new one has restored from:
  buckets the new one stored are gone from the file until it writes again.
  `DurableArchive` and `DurableBeforeResume` leave out that time;
  `ServedDaysKept` leaves out a restart in it.
- *Archived day wiped.* A forced fetch of a day the backend no longer serves
  replaces its bucket by an empty one; `ServedDaysKept` is about served days.
- *Replays.* A stop between the events and the end of the mark's write, or a
  check that outlives its coordinator, fires events again.
- *Dropped mark.* When every category is switched off the mark is dropped, and
  the first page after they are on again is a baseline. If an overlapping check
  was given an older page and ends after it, entries of the baseline's second
  that are not on the baseline's page count as new, those that fired before the
  drop included. `FiredOnce` therefore counts from the last drop.
- *Overlapping chat reads.* Two calls of `read_message` of one account may keep
  the same dict (`services.py:955`) and put their chats into it in the other
  order than they were fetched. `ReadIsShown` is about a read that no other
  overlaps.
- *Empty first page.* It is not a baseline: the first entry recorded after it,
  possibly an SOS, is passed in silence.
- *Backlog of a category.* Switching a category on does not replay what the
  mark has passed, but a mark dropped and re-created baselines everything.
- *Orphan timer.* A follow call that looked its coordinator up before an unload
  arms a timer on it afterwards; it runs until the session expires.
- *Stale clock.* The clock of the functions survives a restart, the lists do
  not: with the interval Off the lists stay empty until forced.
- *Bare entry.* An error in `read_message` that is none of the three it catches
  leaves the entry without status until the next poll, a poll that overlaps the
  read takes the new chats back, and an edit shown while the entry is bare is
  lost at the push.
- *Reading ends early.* A media request of `read_message` that fails leaves the
  loop without a record of the watches after it: the call may end without
  complaint, which is why `CleanIsComplete` leaves it out.
- *One alarm, several watches.* A switch by id is made in the name of the first
  target and only its list confirms a rejected no-op.
- *Answers of gateways.* An HTTP error other than 429, or a body that is no
  JSON, is an empty answer: a control action takes it for a refusal, which is
  final, although the mutation may have been applied; `sendText` raises a
  `KeyError`. The docstring of `_parse_response` (`graphql_client.py:46-55`)
  reads it as "request failed, maybe retry".
- *Null lists.* A structured error with `data: {alarms: null}` is an empty list,
  not a failure (`pyxplora_api_async.py:483-485`). A call that switches all
  alarms on then writes nothing and reports success with every alarm off, and
  the list fetched afterwards, if it is null, confirms alarms that were refused
  (`services.py:260`). `SuccessIsReal` leaves out such a watch for a call that
  switches all; for `RefusalIsReal` a null list is one that could not be fetched.
- *Garbled answers.* A body that is cut off, or malformed JSON, is an exception
  that neither `graphql_client.py:54-64` nor a retry loop catches: the call
  ends at once, although a mutation may have been applied.
- *Repeated mutations.* One whose answer was lost is sent again and may be
  applied twice; `VerdictIsHonest` bounds the copies by the losses.
- *Abandoned reads.* After a failed poll, or a first attempt, its other reads
  may write the client's record later than a newer round did; `FreshOnReturn`
  says so.
- *Shared services.* Unloading or removing one entry removes the services of
  all until some entry is set up again; `fetch_history` is never removed.
- *Late session.* A token recovery that outlives its entry writes the session
  file after the removal has cleared it.
- *Moved entry.* A reconfigure to another account keeps the stored session: the
  entry goes on with the old account until its token ends.
- *Leftovers.* The repair issue of an entry is not deleted on its removal; an
  entry removed while its unload had failed keeps its coordinator and timer.

## 7. Limits

Abstracted in every model: the text of queries and answers, logging, formatting,
translations, and the values of payloads no property tells apart. A request has
the outcomes the transport can produce: data, E000004, rate limit, no
connection, a garbled body, other error, cancellation.

Left out of the modelled parts:

- TokenRecovery: pacing and repeated attempts inside one login. The replaced
  coordinator of a reload is reduced to what it does to the server and to the
  file; its own calls are those of the model before the reload. What becomes of
  the session when an entry is removed is in EntryLifecycle.
- WatchFix: which functions are fetched, chats, the demo account.
- CoordinatorData: updates of different signatures at once (only one is in
  flight), disabled consumers of a function, edits made in the phone app.
- LocationHistory: a write under way when Home Assistant stops is on disk or
  not, never half; the sensor's bounded slice, the point limit, migration of
  the legacy file.
- NotificationFeed: payloads and device routing; the "last call" sensor.
- ServiceFanOut: what update, feed, history, follow and logout do inside the
  coordinator (the other modules); read receipts. The server is assumed to
  reject changes to alarms of watches the account does not have. A failed fetch
  of the history answers with what is cached and counts as a success, as in
  the code.
- EntryLifecycle: the migrations and sweeps of the entity registry, the stores
  other than the session, a restart amid a replacement of an entry; the forms
  offer two sets of options.
- XploraClient: the payload builders, the contents of the lists; a request and
  its wait in `loadWatchLocation` are one step.

Not modelled at all: entities, geocoder internals, helpers, the listing of days
over the websocket, the card, the demo account. Entities and helpers have no
state of their own worth a model; the demo account is a stand-in.

## 8. Plan

Done, with proofs: `TokenRecovery`, `UpdateCoalescer` and `LiveFollow` on top of
it, `LocationHistory`, `WatchFix`, `ServiceFanOut` with every service,
`EntryLifecycle`, `XploraClient`, `NotificationFeed` and `CoordinatorData`. What
is left, in order of importance:

1. An abstract single-flight specification (a call shares a running task or
   starts one; nobody is forgotten) that `UpdateCoalescer` implements up to an
   overrun and `TokenRecovery` up to a failure, with the refinements proved.
2. `CardRequests`: the card's requests in flight, its optimistic toggles and
   the late answers of an earlier selection.
3. Algorithms as operators over bounded inputs, checked against a reference
   definition: the normalisers of `const.py`, the weekday and minute encodings
   of `watch_commands.py` and `helper.py`, the migration of entity ids.
