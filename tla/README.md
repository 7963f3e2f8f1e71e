# Specifications of the capture API and its web app

TLA+ modules, TLC configurations and TLAPS proofs for this repository: a network-capture API
(`src/backend`, FastAPI on one asyncio event loop, all state in memory) and the web app that uses
it (`src/frontend`, Next.js: a server that holds the tokens and the detection feed, and screens in
browser tabs). Paths below are relative to `src/backend/src/capture_api` (API) and
`src/frontend/src` (web app). `PROJECT.json` maps every definition to the lines it models.

## 1. Inventory

### The API

| component | state it keeps | operations | interacts with |
|---|---|---|---|
| search jobs, `search/jobs.py` | `_jobs` (id to job), `_expired` (last 512 ids), `_counter`, one asyncio task per scan | `create`, `get`, `results`, `cancel`, `peek`, `reset`, the reaper every 30 s, the scan task | routes, chaos (injected failures), live socket (progress of a watched search) |
| search routes, `api/searches.py`, and idempotency, `platform/idempotency.py` | records per (family, key): fingerprint, search id, time | POST with `Idempotency-Key`, GET, results, DELETE | jobs, rate limiter, chaos; the store also serves imports and exports |
| tokens, `platform/tokens.py`, `api/auth.py`, `deps.py` | families, access and refresh tokens, revocation callbacks | login, refresh with rotation, logout, expire, revoke, sweep, reset | every route; bus and live socket through callbacks |
| limits, `platform/ratelimit.py`, `platform/login_limit.py` | sliding windows of hits per bucket and key | check, record, reset | routes, login |
| chaos, `platform/chaos.py` | profile, per-key counters | decides 503s, dropped connections, latency, failing scans | every request |
| observer, `platform/observer.py`, and report, `api/observer.py` | log of requests and streams per family; the client last seen at an address | record, stream opened and closed, 25 checks over the log | every request and stream |
| detection bus, `realtime/bus.py`, and stream, `realtime/sse.py` | ring of 1000 detections, cursor, subscriptions with a queue of 1000 | pump every 100 ms, subscribe, replay, release, close, reset | tokens (revocation), world |
| live socket, `realtime/ws.py` | one-use tickets, sockets, outbound buffer, ping state | issue, redeem, subscribe, watch, pong, restart, lagging | tokens, searches, world |
| imports and exports, `workspace/imports.py`, `workspace/exports.py` | queues of records with a phase and a deadline | create, tick, get, archive, reset | idempotency, cases, world |
| cases, hunts, bot, `workspace/*.py` | versioned documents | create, patch with `If-Match`, pin, note; the bot edits a case on a timer | each other through versions |
| cursors, grammar, filters, estimates, `search/*.py`, `api/analytics.py` | none | parse and print queries, compile filters, count, estimate, draw the graph | searches, analytics |
| world, `world/world.py`, `detections.py`, `ids.py` | blocks made on demand, the schedule of beacons, imported captures, the ledger of detections, cached packets | read rows, open an id, release detections, register imports | everything reads it |
| generation, `world/background.py`, `incident.py` | what was drawn at the start | make the block of a sensor and an hour; tell the truth of the incident | world |
| views, `api/sessions.py`, `world/pcap.py`, `flows.py`, `decode.py`, `files.py` | none | related sessions, packets, flow samples, decoded bodies, files | world |

### The web app

| component | state it keeps | operations | interacts with |
|---|---|---|---|
| results screen, `lib/search/*`, `app/(app)/search/results-table.tsx`, `search-progress.tsx` | query cache: status, pages per order; order in the address | poll, read a page, re-read the growing page, Stop, sort | search routes through the app's own handlers |
| run control, `lib/search/use-run-search.ts`, `run-control.tsx`, `query-form.tsx` | the search this screen started and its label | Run: end the old search, start another, remember it | search routes; other tabs, through the shared label |
| session store, `lib/api/session-store.ts` | token pair per session, shared refresh in flight | put, drop, token for a call, refresh after a 401 | token routes; feed |
| detection feed, `lib/detections/upstream.ts` | one stream per session, readers, resume point, grace timer | open, resume, announce, stop | event stream, session store, tabs |
| detection list, `lib/detections/use-detections.ts`, `merge.ts`, `lib/api/hold.ts` | first read in the query cache, arrivals, the answer held for everybody | mount, read, attach, merge | feed, detection routes |

### What is hard here, and what must hold

A handler of the API has no `await` between the start of its work and its answer, so each runs as
a whole; what interleaves is *between* handlers: scans suspended at every pause, the reaper, clocks,
retries, several sessions of one user, several tabs, and calls whose answer arrives late, or never,
after the world has changed. The properties that make each component correct:

- **search jobs**: the slots of a user are never exceeded and always come back; an ended search
  never changes again, whatever its task is doing; counts and progress are coherent at every await;
  ids are not recycled and never live and expired at once.
- **idempotency**: a retry never starts a twin; a replay never names a search that ought to be gone;
  a full store forgets the oldest keys first.
- **results screen**: rows shown are a prefix of the matches, never repeated, "complete" only when
  it is; "over" on the screen means over on the server; polls end.
- **run control**: a screen holds one slot, ends only its own search, and what it loses comes back.
- **tokens**: one live refresh token per family; a reused one revokes the family once, and every
  subscriber hears of it once; nothing authenticates with a revoked family.
- **detection feed**: no detection missed or repeated between resets, across ring eviction, rotation,
  re-authentication and reconnects; one connection per session; no stream outlives its family.
- **live socket**: a ticket opens one socket; a slow reader loses session frames and nothing else.
- **imports, exports**: phases in order, one at a time; an archive answers only while it exists.
- **cases, hunts**: no update is lost between the bot, users and versions; a walk through the list
  misses nothing; a tag names one document.
- **limits, observer**: no window lets more through than it says, and who waits as told gets in;
  a request is recorded once, under who made it; a check accuses exactly who passed its threshold.
- **queries**: what is read is written back as the same query; a filter selects what its parts do;
  errors stay put while one types.
- **capture**: a block is the same whoever reads it first; whatever a list shows can be opened;
  counts, estimates, graphs and warnings agree with the rows; packets add up to their session.

`PROJECT.json` lists the hazards, each at its line, with the properties that cover it.

## 2. Plan

Done: everything in section 3. The order was: the search service and its screens; the event stream
and the feed over it; tokens and the session store over them; limits and the observer; the live
socket and the workspace services; queries, the capture and what is computed from it. What is left,
in this order:

1. Proofs: the report of the observer, for logs of any length (see the end of section 5).
2. What an export archive contains, against the case it is made from.
3. A restart of the API under open screens: ids and cursors from before it (see the hazards).

## 3. Modules

| module | models | state |
|---|---|---|
| `SearchJobs` | `SearchService`, `POST /v1/searches`, `IdempotencyStore` | `jobs` every job ever made, `live` = `_jobs`, `task` = what each scan task is doing, `expired` = `_expired`, `counter` = `_counter`, `records` = the idempotency records |
| `AppendLog` | nothing in the code: the promise made to a reader of a running search | `log`, `closed`, `shown`, `ended` |
| `ResultScreen` (extends `SearchJobs`) | the results screen of one search | `status`, `sort`, `pages`, and one variable for each kind of call in flight |
| `RunScreen` (extends `SearchJobs`) | the Run button of one or more tabs | `started`, `watched`, `call` per tab |
| `DetectionStream` | the detection bus, its event streams, and what token revocation does to them | `released` = what the capture has let out, `ring`, `cursor`, `primed`, `active`, `hooks` = `_unsubscribe`, `signedIn`, and `stream`: phase, queue, last number and unread frames of every request |
| `DetectionFeed` (extends `DetectionStream`) | the upstream of one session in the web app, its tabs and its logout | `loop`, `conn`, `resumeFrom`, `stopped`, `readers`, `grace`, `session`, `tokenStale`; `start`, `announced`, `excused` are histories |
| `FeedPromise` | nothing in the code: what the feed of a session promises the tabs that read it | `latest`, `start`, `resumeFrom`, `announced`, `excused`, `stopped` |
| `TabList` (extends `FeedPromise`) | the detections a tab shows: its first read, shared between everybody, merged with what the feed announces | `slot` = what is held and in flight under the key of the read, `tab` = every tab; `overflowed` is a history |
| `TokenStore` | `TokenStore` and the routes that sign in, refresh, log out and expire | `families`, `access`, `refresh`, `watching` = the callbacks, `counter`, `ttl` |
| `SessionStore` (extends `TokenStore`) | the web app's store of token pairs, its shared refresh and its logout | `sessions`, `inflight`, `logout`; `ours` is a history |
| `Windows` | the rate limiter and the limiter of failed sign-ins | `hits`, `failures` (ages); `admitted` is a history |
| `Requests` | the way of a request through observer, chaos, authentication and answer | `flight`, `sticky`, `seq`, `log`, chaos' `profile` and `counters` |
| `ObserverReport` | the 25 checks of the client report | a log that grows: `requests`, `streams`, `now` |
| `LiveTickets` | tickets, handshakes, revocation and closing of live sockets | `tickets`, `shakes`, `hooked`, `registered`, `family` |
| `LiveTap` | what one open socket says: subscription, rows, statistics, pings, search progress, a slow client | `sub`, `queue`, `gen`, `seq`, `dropped`, `code`, the clocks |
| `Imports`, `CaptureScan` | uploads, their queue and sensors; the scanner an upload runs through | `uploads`, `jobs`, `sensors`, `keys`; `scan`, `verdict` = what the route makes of it, `uploaded` = all bytes so far, a history |
| `Exports` | bundles of a case: jobs, keys, expiry, download, a reset | `exports` every job ever made, `cleared` = how many of them a reset took, `keyed`, `downloads` |
| `Cases` | the shared cases, their editors and the bot; the walk through their list | `cases`, `notes`, `held`, `bot`; `walk` |
| `Hunts`, `Etags` | saved searches under `If-Match`; what a tag matches | `hunts`, `created`, `read` |
| `Filters` | the tree of a filter, its checks and what it selects; filter rows of the address: split, read, write | `raw`, `answer` |
| `Lql` (extends `Filters`) | the query language: tokens, parser with error positions, normal form | `text`, `parsed` |
| `CaptureStore` | the world: blocks, ids, imports, the ledger, packet cache; opening and paging sessions | `blocks`, `beacons`, `imports`, `ledger`, `pcaps`, `now`, `walk` |
| `Analytics` (extends `CaptureStore`) | histogram, pivot, graph, estimate and warnings over rows | operators only |
| `Scenario` | the staged incident and its truth | `draw`, `schedule`, `truth` |
| `Background` | the passes that make a block of ordinary traffic | `making`, `made` |
| `PcapWriter` | a session's packets, one segment at a time | `stage`, `ahead`, `flow`, `left` |
| `SessionViews` | samples of a session over time; what a reader is shown of a body | `asked`, `samples`; `shown` |
| `SearchJobsProofs`, `DetectionFeedProofs`, `TokenStoreProofs`, `TabListProofs` | theorems about the module they are named after; `SearchJobsProofs` also those about `RunScreen` and `ResultScreen`, `DetectionFeedProofs` those about `DetectionStream`, `TokenStoreProofs` those about `SessionStore` | |
| `PlatformProofs` | theorems about `Windows` and `Requests` | |
| `ServicesProofs` | theorems about `LiveTickets`, `Hunts`, `Exports` and `Imports` | |
| `WorkspaceProofs` | theorems about `Cases`, the walk through their list, the names of `Hunts`, and `LiveTap`, each by itself and as parts of `MCServices` | |
| `EvidenceProofs` | theorems about `CaptureScan`, `PcapWriter` and `CaptureStore` | |
| `MC...` | what TLC needs to instantiate a module | |

Components compose where they interact: the screens contain the search service, the feed contains
the event stream, the session store contains the token store, and `Analytics` and the views read the
capture. Modules that do not touch each other's state share a run but not a behaviour:
`MCDetectionStream`, `MCSessionStore`, `MCPlatform`, `MCServices` and `MCEvidence` start with one part, let only its
actions happen and leave the variables of the others alone, so that each part is checked in full and
no product of independent states is built.

**SearchJobs.** One action per way a request ends (`RefuseMismatch` 422, `Replay` 200,
`FailBeforeCommit` 503, `RefuseSlots` 429, `Create` 202 or a 503 after the commit), `Get`, `Delete`
and their not-found answers, `ResetState`, `Reap`, `Tick`, and the scan task cut at its awaits
(`TaskStart`, `TaskStep`, `TaskDone`, `TaskCancelled`). `get`, `create` and `cancel` reap before
anything else, so reaping is part of those actions; `peek`, which a replay uses, does not. What
abstraction does: a body is one of a few values (its fingerprint), rows are a count, a row matches
or does not, time is a number of ticks since a search was read or a key stored. `jobs` keeps a job
after it leaves `_jobs`, because its task still holds it. `age` in a job is read by
properties only. Rate limits, warnings, estimates and the rows themselves
are left out; the rate limiter and validation only remove behaviours that come before `create_search`
touches anything modelled.

**ResultScreen.** Every call is sent, served and heard, or lost, in separate steps, and the service
moves in between. What the query library does is modelled from how the code uses it: one call of a
query in flight; an answer is stored when it arrives even if the cache was written meanwhile; an
abort drops it. `ServeStatus`, `ServePage`, `ServeTail` and `ServeCancel` contain the whole server
action. Polling cadence is left out: a poll may happen at any time it is allowed to.

**RunScreen.** A body is its own label, as the label is a hash of the body. `EndOld` is `endSearch`,
which swallows every failure; a POST may fail before it arrives, before the commit, after it, or
have its answer lost; `Reload` forgets the references and keeps the address.

**DetectionStream.** A detection is its number; the sensors a family sees are a set of numbers. A
stream is cut where its generator can be suspended: after the dependencies ran (`Connect`), in the
yield of the opening comment (`Begin`), in a later yield (`sending`) and in `Subscription.next`
(`waiting`). Every step contains the refresh of the bus its code makes; in `Begin` the capture may
let out one more detection between its two refreshes. Between two suspensions the checks at the top
of the loop run in their order (`EndRevoked`, `EndReauth`, `EndRotate`, `Deliver`/`Wait`);
`DeliverLast` is the stream that was woken by a push and closed before it ran. The frame of a
`reauth` and the end after it are one step. The admin reset empties the bus and then the tokens, in
one handler. What a family sees of a ring or a queue is `Those`, a selection in the order of the
sequence, written as a function so that it can be reasoned about; an `ASSUME` in `MCDetectionStream`
lets TLC compare it with `SelectSeq`.

**DetectionFeed.** The loop of `upstream.ts` opens, reads, pauses and opens again; `Cut` and
`OpenFails` are its error paths, `Halts` is `stop()`. Each frame is heard in a step of its own, and a
connection the feed has dropped lives on at the server until `ClientGone`. Delays have no length.
Logout is its three steps, since a tab may attach in between. `ExpireTokens` is the administrator's
expiry, after which the token in the session store looks fresh and is not.

**FeedPromise, TabList.** `FeedPromise` is the feed without streams: it starts somewhere, announces in
order, jumps only over what a reset declares or a full queue took, and catches up until it is stopped.
`DetectionFeed` implements it (`FeedKeepsItsPromise`, with the detections the capture has let out for
`latest` and those lost in queues added to `excused`), so `TabList` is built on it rather than on the
streams. The first read goes through `holdRead`: an answer held for its window is given at once, and
one read in flight serves everybody who asks, whoever they are; `ServeSeed` is the API's `backfill` for
the user who asked first. An answer may have been given before the tab asked, so arrivals may come
before it, after it, or twice. `since` is what the feed knew when the tab attached; leaving the screen
loses what arrived and keeps the first read in the query cache until that forgets it.

**TokenStore, SessionStore.** Token *t* is the *t*-th pair that was minted, since random strings do
not repeat; family ids come from a counter that a reset takes back, so they do. Time is the age of a
family and the time an access token has left. `Login` sweeps first, as the code does. A refresh that
is refused for age burns the token all the same; one that was used before revokes the family and
runs its callbacks. `SessionStore` cuts a call at its awaits: the refresh is sent, served and heard,
or its answer is lost, and calls, logout and `dropSession` come in between; `Others` are clients
that present any token the web app was not given. `logout` of a session says how far it came: the
family is revoked first, or that fails, and the store is emptied either way.

**Windows, Requests, ObserverReport.** A hit is its age. `Requests` has one request in a few phases
(delayed, faulted, answered, recorded); the family is decided when the record is written, from the
answer or from who was last seen at that client. The report is a set of operators on a context (the
log and the present), as a check reads the whole log whenever it is asked for; the state machine
only grows the log, so that every log of a kind of traffic up to its bound is tried.

**LiveTickets, LiveTap.** `serve()` lets go at `accept()`, after the ticket is spent and before the
socket asks to be told of its family's end; that gap is two actions. `LiveTap` has one action for a
client frame, one for a round of the produce loop, one for a frame that leaves the queue.

**Imports, CaptureScan, Exports.** Uploads overlap because they are read in parts; what follows the
last part is one action. Jobs move on at every poll and every GET. The scanner is fed chunks of any
size; a `Turn` is one round of its loop, and a call takes `Turns` of them, more than it can need, since
a turn that finds nothing to do changes nothing. Where the records of a file begin is a recursive
function, `Place`, and what the file says in one go is read off it. An export is built from the case as it is when its job becomes ready; a download takes the
archive when the first part of its body is asked for.

**Cases, Hunts.** Every handler is one action; an editor holds a copy with its tag and
saves it later. The bot catches up after a jump of the clock.

**Filters, Lql.** A text is a sequence of characters, where a keyword is one of them.
The parser is a recursive descent that returns what it read, where it stopped, or an error with its
place. These modules use recursive operators and are left to TLC.

**CaptureStore, Analytics.** A block is made when somebody first reads it and kept; the schedule of
beacons is drawn up as far as anybody has read, and an outage takes the sessions of a sensor away.
What chance decides is a constant, so "the same for whoever asks first" can be said at all. A schedule
is drawn up by a recursive function over as many gaps as can be needed, and a block is in order by the
place of each draft among all of them, so both can be reasoned about; `CaptureAssumption` says that a
minute has ordinals for the drafts of its hour and the beacons in it (2^20 in the code). `Analytics`
is the histogram, the pivot, the graph, the estimate and the warnings of a search over those rows;
its windows, buckets and refusals are those of the routes.

**Scenario, Background.** `Scenario` instantiates the capture with the times of the incident and
lets every draw of its stages happen; uploads last as long as was drawn for each, so one that began
earlier may end later. `Background` makes a block in passes: the marks of detections, the false leads,
the backups, the vendor check-ins and the seeded files, one chance at a time; then the sessions of the
incident (`Staged`) are added, those in an outage of the sensor (`SensorOutages`) leave, a seeded file
perhaps among them, and what strays is moved into the hour. So `SeededFilesAreThere` promises the file
only where no outage touches its hour, which is always so for the trap file: only the branch has one.

**PcapWriter, SessionViews.** A conversation of segments with sequence numbers modulo
`SeqSpan` (2^32 in the code), acknowledgements and times, at most `MaxPackets`, and of datagrams, which
are not numbered. That a step is at least a microsecond and a row lasts at least a millisecond is why
no more than 1000 packets may be asked for (the code keeps 256); `PcapAssumption` says so. The samples of a
session, whichever buckets are chosen and however they weigh; and what a role is shown of a body,
with the old decoder and without.

## 4. Runs

| run | question | bound |
|---|---|---|
| `SearchSlots` | do slots, expired ids and new ids stay apart, do tasks follow their searches, and do retries with one key and two bodies find their search and never the dead, for two users of whom one has two sessions? | 2 searches, 1 slot, 1 remembered id, TTLs of 2 ticks; the bodies are symmetric |
| `SearchScan` | are counts, endings and progress right at every await, does every scan end and every unread slot come back? | 1 search of up to 7 rows, 3 steps, idle after 2 ticks |
| `ResultReading` | is paging with a tail, two orders, Stop and lost answers the same as reading an append-only log, is a screen that says "over" right, and does its poll end? | up to 3 rows, pages of 2 |
| `RunTabs` | when nothing fails, is every slot held by a search that some tab remembers and will end? | 2 tabs, 2 queries, 3 searches; tabs and queries are symmetric |
| `RunFaults` | when everything may fail, does what the screen forgot come back, and in which order are keys forgotten? | 1 tab, 2 queries, a store of 1 key |
| `Streams` | does a detection ever fall between head, replay and queue, and is a signed-in family told of a revocation, for streams that open, hang up, expire and overflow at every await? Apart from that: has the list a tab shows a hole it does not tell of? | 2 streams of 1 family, 3 detections of which it sees 2, a ring of 2, a queue of 1; the streams are symmetric. Lists: 3 detections, 2 users who see 3 and 1 of them, 1 tab, a first list of 1, a list of 2 |
| `Feed` | are detections announced once, in order, without an undeclared hole, and in the end; is that the promise the list of a tab relies on? | 2 detections, a ring and a queue of 1, one stream at a time, 1 tab, 1 failure |
| `Sessions` | does a token that was refused stay refused, do lives stay bounded, does sweeping take only what is spent, and does the web app ever present a burnt token or bring a session back? Apart from that: does the report decide what its thresholds say, over every log? | 2 families, 3 pairs of tokens, a life of 2 ticks, 1 browser session; logs of 3 records with gaps up to 2 |
| `Platform` | do windows let no more through than they say, and who waits as told; is every request recorded once, in order, under who made it, and does it end? | 2 buckets of which one computes its delay, 1 tracked caller; 2 requests at a time, 3 in all, 2 sessions behind one client, a log of 2 |
| `Services` | is a ticket spent once and no socket of a revoked family left open; is a slow client told what it lost; is no edit lost, no case missed, no tag ambiguous; is one import made of two uploads and one bundle given to all? | 2 tickets and 2 handshakes; a queue of 2 and 2 client frames; 3 cases and 2 edits; 2 owners with 2 hunts; 2 uploads; 2 exports |
| `Evidence` | does what is read, counted, estimated, drawn, written and hidden agree with the query and the rows, whoever asked before and however the input was cut? | queries of 5 phrases, rows of 8 characters; 2 sensors, 2 imports, hours of 4 units over 14; 12 packets; 4 samples; uploads of 8 bytes; 3 hours of background; 32 draws of the incident |
| `FeedStopped` | the promise of one live feed per session (section 6) | 1 tab, 1 stream |

A run checks few properties, and most of them are conjunctions of parts that say one thing each, are
stated one by one in their module with a comment, and have a mutant of the code that breaks them:

| run | property | parts |
|---|---|---|
| `SearchSlots` | `TypeOK`, `SlotBound`, `IdsNeverReused`, `ScansFollowJobs` | |
| | `AnswersAreRight` | `ExpiredIsGone`, `KeyFindsItsSearch`, `ReplayIsAlive` |
| `SearchScan` | `CountsAgree`, `FinishedIsFinal` | |
| | `ScansProgress` | `PercentNeverDrops`, `EveryScanEnds`, `AbandonedSlotFreed` |
| `ResultReading` | `ScreenIsRight` | `ScreenTypeOK`, `PagesJoinUp`, `OverMeansOver` |
| | `ReadsALog`, `PollingEnds` | |
| `RunTabs` | `TabsKeepTheirSlots` | `RunTypeOK`, `EverySlotHasItsScreen`, `NoTwin` |
| `RunFaults` | `ForgottenInOrder`, `LeakedSlotComesBack` | |
| `Streams` | `StreamsAreWhole` | `StreamTypeOK`, `NothingBetween`, `WireInOrder` |
| | `ListsAreWhole` | `ListTypeOK`, `NothingIsSkipped`, `ListHasNoHole` |
| | `RingIsContiguous`, `HooksCover` | |
| `Feed` | `FeedIsWhole` | `FeedTypeOK`, `AnnouncedInOrder`, `NothingMissed` |
| | `FeedKeepsItsPromise` | the steps of `FeedPromise`, `CatchesUp` |
| `Sessions` | `TokenSafety` | `TokenTypeOK`, `OneLiveRefresh`, `LifeIsBounded`, `NobodyWaitsForTheDead` |
| | `TokensStaySpent` | `RefusedStaysRefused`, `SweptIsSpent` |
| | `SessionSafety` | `SessionTypeOK`, `StoreHoldsTheNewest`, `NeverPresentsBurnt`, `LoggedOutIsOut` |
| | `ReportIsFair` | `ThresholdsHold`, `SinceOnlyForgives`, `OffencesStick` |
| `Platform` | `WindowsHold` | `WindowsTypeOK`, `LimitsHold`, `WaitingIsEnough` |
| | `RecordsAreRight` | `RequestsTypeOK`, `RecordsBelong`, `RecordsInOrder` |
| | `EveryRequestEnds` | |
| `Services` | `TicketSafety` | `LiveTypeOK`, `OneHandshake`, `NoneIsLeftOpen` |
| | `TapTellsAll` | `TapTypeOK`, `DropsAreTold`, `SessionsAreBounded`, `AckComesFirst`, `RowsOnce` |
| | `ImportSafety` | `ImportTypeOK`, `OneImportPerCapture`, `SensorAsAnnounced` |
| | `ExportSafety` | `ExportTypeOK`, `OneBundle`, `ReplaysFindTheirJob` |
| | `DocumentsHold` | of cases `CaseTypeOK`, `BotKeepsPace`, `TitlesAreTaken`, `NoLostEdit`, `NotesStay`; of their list `PagesTypeOK`, `WalkMissesNothing`; of hunts `HuntTypeOK`, `NamesAreTaken` |
| | `TagsNameHunts`, `EndedIsClosed` | |
| `Evidence` | `CaptureIsOne` | `BlocksDontDependOnOrder`, `PcapIsOfTheRow` |
| | `RowsAddUp` | `LedgerIsWhole`, `RelatedOnce`, `EveryListedRowOpens`, `HistogramAddsUp`, `BlindTimesAreTold`, `EstimateFits`, `GraphAddsUp`, `SamplesAddUp`, `SamplesFitTheSession`, `RedactionIsExact` |
| | `PacketsAsListed` | `StreamsReassemble`, `BytesAsListed`, `PacketsFitTheSession` |
| | `TrafficIsWhole` | `VendorKeepsTime`, `DetectionsAreNamedOnce`, `SeededFilesAreThere`, `TruthIsInTheCapture` |
| | `QueriesHold` | `NormalFormReadsBack`, `RowReadsBack`, `RowMeansItsValues`, `ErrorsStay` |
| | `ScanReadsTheFile` | |

Why the bounds are enough: a slot conflict needs one search more than the slots, hence 2 with 1
slot; evicting a remembered id needs two expiries with room for one; a twin needs two searches of
one key, and TTLs of 2 ticks tell "stored earlier" from "stored now" and from "too old". Seven rows in
three steps give chunks that do not divide the window; 0 to 7 rows give empty windows, windows of
fewer rows than steps, and exact multiples. Three rows in pages of two reach a full first page, a
partial second one, and the growth of both. A ring of 2 and 3 detections give a resume point inside
the ring, at its edge and too old for it; a queue of 1 overflows at the second detection nobody took;
two streams are enough for one to leave, end or be cut while another of its family needs the hook.
In `Feed` a ring and a queue of 1 give a replay, a reset frame and an overflow with two detections;
with one stream at a time the server has to notice a dead connection before the next one opens
(`Streams` covers two at once). A first list of 1 leaves out an older detection the user may see, a
list of 2 pushes one out when the third arrives, and a second user who sees one detection is enough
to be given, or to give, a list that is not the reader's own. `RunTabs` has one search more than tabs and one slot
more than tabs, so a leak would be a state and not a refusal. In `SearchSlots` and `RunTabs`
`MaxTotal` is 0, since rows do not matter to keys or slots; injected failures are off where nothing
distinguishes a failed search from a finished one.

In `Sessions` three pairs of tokens are a login and two rotations, or two logins and one, so that a
burnt token and its successor are held at once; two families are one that was revoked and one with
its id after a reset. Reports need three records: a first, one that resets a check, and the offence.
In `Platform` two requests are enough to overlap, and three to push a record out of a log of two; limits
of 1 and 2 in windows of 2 and 5 ticks with 2 ticks to the second tell rounding up from down. In
`Services` names are one word in either case of letters, and with outer spaces, so that a name meets
itself, its other case, and the one with spaces both ways round. A second ticket and a second handshake
are one to confuse the first with; a queue of 2 overflows at the third frame; two imports of one digest
need two uploads, and a third capture is too large and a fourth is none. In `Evidence` the branch is out
for a part of the hour of its seeded file, with a download before it and one in it; an outage lies inside
one hour and at the edge of a lagging sensor's window, beacons cross from one block into the next, and
imports are registered, cleared and registered again with the same ids; 12 packets of 2 bytes fill up
within an exchange as well as within the padding, and numbers wrap at 16. The incident has units of ten
minutes over three days, and its beacons come every 5 to 7 of them, so that a schedule drawn up past its
end has some eighty. A byte of an upload may be cut off anywhere in a header of 3.

**Fairness.** `FairSpec` assumes that the loop runs tasks that are ready (weak fairness of each
scan), that time passes, and that the reaper keeps waking: it is a task of `lifespan` that runs for
as long as the service does (jobs.py:442-459). No request is fair. `ScreenFairSpec` assumes the
tab stays open and that the network does not lose every poll for ever (strong fairness of serving
and hearing one); what the user does, and reads of rows, are not fair. `RunFairSpec` assumes only the
clock and the reaper. `FeedFairSpec` assumes that the API's event loop does something of what is
ready (the pump, a stream, noticing a dead connection), which is less than each of them being fair,
and that the loop of the feed runs. The server may rotate and tokens expire as often as they like;
failures are finite. `RequestsFairness` assumes that a request under way is not suspended for ever;
`LiveFairness` that the tasks of a socket run. Nobody has to sign in, ask, leave or be revoked.
`Sessions`, `Services` and `Evidence` turn deadlock checking off, because their parts really stop: a
closed socket does nothing more, a body that was shown is shown, and clocks, versions and texts end
at their bounds. In the other runs the clock always moves, and so does the feed's server.

## 5. Proofs

Each theorem holds for every value of the constants that the module's named assumption allows: any
number of users, sessions, searches, families, tokens, streams, tickets, hunts, and every limit.

| module | theorem | property |
|---|---|---|
| `SearchJobsProofs` | `TypeCorrect` | `TypeOK` |
| | `SlotsAreBounded` | `SlotBound` |
| | `ScansFollow` | `ScansFollowJobs` |
| | `IdsAreUnique` | `IdsNeverReused` |
| | `CountsAlwaysAgree` | `CountsAgree` |
| | `FinishedStaysFinal` | `FinishedIsFinal` |
| | `ProgressNeverDrops` | `PercentNeverDrops` of `ScansProgress` |
| | `KeysForgottenInOrder` | `ForgottenInOrder` |
| | `ExpiryIsOrderly` | `ExpiredIsGone` and `ReplayIsAlive` of `AnswersAreRight` |
| | `AnswersStayRight`, for a store of keys with room for all | `AnswersAreRight` |
| | `EverySlotIsHeld`, the same and no call that fails | `TabsKeepTheirSlots` |
| | `ScreensAreRight` | `ScreenIsRight` |
| | `PagingReadsALog` | `ReadsALog`, the refinement of `AppendLog` |
| `DetectionFeedProofs` | `RingHasNoHole` | `RingIsContiguous` |
| | `HooksAreThere` | `HooksCover` |
| | `NothingIsLost` | `StreamsAreWhole` |
| | `NoHoleUntold` | `FeedIsWhole` |
| | `FeedDoesAsPromised` | `FeedKeepsItsPromise`, all of it but that the feed catches up |
| `TabListProofs` | `ListsStayWhole` | `ListsAreWhole` |
| `TokenStoreProofs` | `TokensAreTyped` | `TokenTypeOK` |
| | `OneIsLive` | `OneLiveRefresh` |
| | `LivesAreBounded` | `LifeIsBounded` |
| | `NobodyIsForgotten` | `NobodyWaitsForTheDead` |
| | `TokensAreSafe` | `TokenSafety`, the four above together |
| | `RefusedForEver` | `RefusedStaysRefused` |
| | `TheSweptAreSpent` | `SweptIsSpent` |
| | `TheSpentStaySpent` | `TokensStaySpent`, the last two together |
| | `SessionsAreSafe` | `SessionSafety` |
| `PlatformProofs` | `BudgetsHold` | `WindowsHold` |
| | `LogsAreRight` | `RecordsAreRight` |
| `ServicesProofs` | `SocketsAreTyped` | `LiveTypeOK` |
| | `TicketsAreSpent` | `OneHandshake` |
| | `RevocationReachesSockets` | `NoneIsLeftOpen` |
| | `TicketsAreSafe` | `TicketSafety`, the three above together |
| | `HuntsAreTyped` | `HuntTypeOK` |
| | `TagsAreNames` | `TagsNameHunts` |
| | `ExportsAreSafe` | `ExportSafety` |
| | `ImportsAreSafe` | `ImportSafety` |
| `WorkspaceProofs` | `CasesHold` | the parts of `DocumentsHold` about cases |
| | `PagesShowAll` | those about their list |
| | `HuntNamesHold` | those about hunts |
| | `DocumentsAreHeld` | `DocumentsHold`, the three above together |
| | `TapIsWhole` | the parts of `TapTellsAll`, of the tap alone |
| | `TapOfServices` | `TapTellsAll`, in the composition |
| `EvidenceProofs` | `ScanIsOneReading` | `ScanReadsTheFile` |
| | `PacketsAreAsListed` | `PacketsAsListed` |
| | `CaptureIsTheSame` | `CaptureIsOne` |

**The search service.** None of its properties is inductive alone. `SlotBound` survives a `Create`
only because the check counts what the reaping inside the same handler leaves, and because the new id
is not yet live, which is `IdsNeverReused`; `FinishedIsFinal` needs that the task of a finished search
is never ready or suspended normally, and that a cancellation on its way belongs to a search that is
already cancelled, which is `ScansFollowJobs`; and that one needs that a search leaving `_jobs` is
unfinished exactly when `Abort` ends it. The inductive invariant `IInv` is therefore the conjunction
of `TypeOK`, `CountsAgree`, `IdsNeverReused`, `ScansFollowJobs`, `SlotBound` and `ExpiredNotLive` (an
expired id is not live). The step proof does not go through the dozen actions for each conjunct: every
action is first shown to be one of a few *summaries* (searches retire, one is born, one task takes a
leg, or only times and records change), and each conjunct is preserved by each summary.
That a percentage never drops is a step property under the same invariant: a leg that does not end its
scan either begins at 0 or leaves the window as it was, and what is not created yet counts nothing.

What a key is answered with needs more, `AInv`: ids are remembered as expired once and never more of
them than fit; a record that can still be replayed is no younger than its search is idle
(`ReplayIsYoung`), so the search it names has not been reaped while `KeyTTL <= IdleTTL`; and what is
remembered under the key of a live search is no older than that search (`KeyIsNoOlder`). With these
`ExpiredIsGone`, `ReplayIsAlive` and `ForgottenInOrder` hold whatever the sizes. `KeyFindsItsSearch`
does not: a store that is full forgets the key of a live search, and then a retry starts a twin. It is
proved under `RoomForAll` (there are no more pairs of family and key than the store holds), which is
how `SearchSlots` checks it; what a full store does is `KeysForgottenInOrder`.

**The Run button.** Every step of `RunScreen` takes a step of `SearchJobs` or leaves it alone
(`RunIsNext`), so all the above carries over. `ScreensOK` adds that all live searches are of the one
user (`AllAreMine`), that a screen has let go of its search by the time its POST is out (`LetGo`), and
`EverySlotHasItsScreen` itself. That no retry starts a twin follows from `KeyFindsItsSearch`: two live
searches under one key would both be the one that the key finds.
Both hypotheses of the theorem are those of the run `RunTabs`: with `Faults = {}` no call fails,
which is what the property is about (what a failure leaks, `RunFaults` checks), and with `RoomForAll`
no key of a live search is forgotten.

**The results screen.** Its steps are steps of `SearchJobs` too (`ScreenIsNext`). What the service may
do to a search that was started is one fact, `Moves`: matches only grow, an end is final, and who left
the dict stays out of it, with an end. Under it everything that was true when it was answered is still
true when it is heard, and that is what `ScreenInv` says: a word on its way or on the screen holds
(`TruthIsTold`), a page on its way or in a list ends no later than the matches do, and is the end only
of a finished search (`Truthful`). The other half is why two reads cannot disturb each other: a read of
the next page is out only while the list is empty or its last page has a cursor, and starts where that
page ends (`PageFits`); the tail is read only while the last page has neither a cursor nor the end,
and finds no less in it (`TailFits`); so never both (`BothNeverOut`). The refinement then needs that
the rows of a list without a hole add up to the place after its last page (`RowsAddUp`). Each step is a
`Write` or a `Read` of the log, or leaves it alone. `ScreenConstants` asks for `MaxSearches > 0`: the
bound must leave room for the one search.

**The event stream.** The ring and the hooks have invariants of their own, since neither reads the
other's variables. `RingInv` adds to the ring having no hole that a bus that was not primed since its
last reset is empty and counts from 0: the first refresh after a reset fills the ring from the start,
and would otherwise leave what it held before. One lemma says what a refresh up to any time makes of
the ring, and five actions are that. `HooksInv` adds that a request listens only between `Begin` and
its end, and that the hook of a family that is signed in was never spent; without the first, hanging
up before the generator started, which forgets nothing, would seem to leave a hook behind. Its steps
are those in which nobody's listening changes, one request stops, or one begins.

That nothing is lost is an invariant of each request by itself (`Sound`). A request is *in step* with
the bus up to a number when what it was sent, what it still holds, what a full queue took and what it
was told a reset skipped are together all its family sees up to there, and the queue holds nothing
twice or out of order. `Sound` adds that numbers on the wire ascend and end with the last one sent, and
that nothing is sent before `Begin`. `Begin` establishes it because the ring has no hole (`RingInv`):
the replay takes over exactly where the queue begins. A refresh pushes the same numbers to every
listener, so one lemma on a pushed queue covers every step that refreshes. What a selection holds
(`Those`) is shown from the definition of its recursive function by induction on a set of numbers, as
a set of naturals that holds 0 and the successor of each member holds them all.

**The feed.** That the feed misses nothing depends on what is still on its way to it. `FeedInv` says, of
the connection it reads, that it is *on line* (`OnLine`): read from the front, the wire leads from the
last number the feed knows of to the last one the stream counts as sent (`Leads`), each frame
announcing the next wanted number or declaring where the numbers go on; and behind that the queue goes
on without a hole (`Tidy`). To this it adds `RingInv`, `HooksInv` and `WholeInv` of the streams, that
nobody knows of more than was released, and that what was announced since the start, with what is
excused, is all the family sees up to there (`History`). Its proof has two halves. Whatever the server
does leaves a connection on line (the `Carries` lemmas, one for each action of `DetectionStream`), also
a request the feed has left behind; and each frame the feed hears takes it to the next number (the
`IsHeard` lemmas). A request that resumes is on line from the moment its `Begin` joins ring and queue:
that is why `Sound` of the streams is proved for any resume point and not just for one that the
stream gave out.

The refinement follows step by step: with `latest` mapped to what is released and `excused` to what the
feed was told of or its queue dropped, a step of the world is a `Release`, the first frame `Starts` the
feed, a detection is an `Announce` of the next number that is not excused, a reset frame a `Declare`,
leaving for good is `StopForGood`, a logout `Forget`, and everything else stutters (`PromiseStep`).
`PromiseSpec` is this and `CatchesUp`; the latter is liveness and stays with the run. `FeedConstants`
says that no request is named like the absence of one (a variable that holds `null` holds no
connection), which the proof needs to tell a feed that reads from one that does not.

**Tokens.** `IInv` adds `CounterCovers` (no family has an id the counter has yet to give) to the four
safety properties: a login would otherwise overwrite a family whose tokens are still out.
`RefusedStaysRefused` and `SweptIsSpent` follow from it step by step: what was refused is of a family
that is revoked or gone, is spent, or has no time left, and no action takes any of that back.

**The session store.** Every step of the web app is a step of `TokenStore` or leaves it alone, so
`IInv` and what is refused for ever carry over. `SInv` adds that a session holds the newest pair it was
given, that what it holds or waits for was given to it (`PairsAreOurs`), that all it was given is of one
family (`OneFamily`) and given to a session that signed in (`SignedInOnly`), and that the family of a
session whose logout reached the API is revoked (`OutIsRevoked`). The web app never presents a burnt
token because a pair is Unburnt while it is in the store or on its way, and only the session it was
given to presents it.

**The list of a tab.** That there is no hole is not inductive: whether a detection is missing depends
on what was pushed out of the list before. `IInv` of `TabListProofs` says instead that every answer,
wherever it is kept, has all its reader may see but what is older than all its rows (`AnswersAreTrue`);
that whatever the feed went by since a tab attached has arrived there, has as many newer ones above it
as a list is long, was taken by a full queue, or lies behind a notice (`TabsFollow`); and that nothing
ahead of the feed is excused but what a queue took (`FeedIsPlain`). Cutting a list twice is cutting it
once, because what is cut off has enough above it and keeps it (`LeftOutIsOlder`, `CutStaysCut`); those
two facts on cardinalities rest on a finite set of numbers having a greatest. The theorem is about any
feed that keeps the promise, and `Feed` checks that the code's does.

**Limits.** That a bucket lets through no more than its limit is a statement about calls that are
long gone from `_hits` if `_window` forgot the key. `WInv` therefore says that what was admitted and
still counts is exactly what is left of the window when the too old are dropped, whether the window is
kept or forgotten (`Counted`), that ages fall along a window (`Falls`), and `LimitsHold`. Forgetting
an idle key keeps it because its last hit is older than every window (`ForgottenCountsNot`), ageing
because dropping, ageing and dropping again is ageing and dropping once (`AgedPruned`). The delay is
right because a full window stays full exactly as long as its oldest hit counts (`FullForAsLong`) and
rounding up to whole seconds is the least number of seconds that covers what is left (`SecondsCover`).

**Records.** `RInv` adds to `RecordsAreRight` that no record has a number still to be given, and that
an answered request has a status. The ring drops from the front only, so every record in the new ring
is an old one, moved, or the new one; which has the highest number.

**Sockets.** `LInv` adds `SpentForGood`: a ticket that let a handshake in is in no store any more.
`NoneIsLeftOpen` is inductive with it because `Open` looks at the family once more after the hook is
registered. **Hunts.** `HInv` adds what ids the counter has given out; `TagsNameHunts` is then kept
because every change of a hunt raises its version. **Exports.** That one edition of a case has one
bundle is inductive only with the ages of keys and jobs tied together: `IInv` adds that a job that is
ready holds an archive no older than when it was asked for (`JobsAreTrue`), that a key which is still
good is as old as its job (`KeysKeepUp`), and that whoever downloads was given the archive of the job
named (`BundlesAreTheJobs`). All three speak of jobs since the last reset only (`cleared`).
**Imports.** The sensor of an import is promised when the job is made and numbered when it is done,
by two modules that do not know of each other. `PInv` says why they agree: the jobs that are ready are
the first ones, as many as there are sensors, in the order of the sensors (`SensorsAreFirstJobs`), and
each was promised its own place (`NumberedAsMade`). A tick finishes the jobs that follow, up to the
first that is not done (`FinishInOrder`), and a reset empties jobs, sensors and keys together.

**Cases and their list.** That no edit is lost is a statement about two moments, the read and the save.
`CInv` ties them together: what an editor holds is no newer than its case, and is the same as the case
where the version is the same (`HoldersKnow`), so a save under the tag that was read replaces exactly
what was read; every edit, the bot's too, raises the version. Notes stay because nothing but an addition
writes them, and their ids name one note because no note of one case has an id of another or one that
is still to be given (`NotesApart`). What the bot does at a jump of the clock is a recursive function;
each of its edits is paid for with an interval of the time that went by (`BotInTime`). Titles
are compared stripped and stored as they came: what is stored with spaces around it never equals what
is asked for. So the code keeps two titles apart unless the stored one has outer spaces (`KeptApart`),
and that, for titles of every kind, is what is checked and proved, likewise for the names of hunts
(`FreeNames` is the lemma: a name that clashes with none is kept apart from each, in both
directions). Of titles with outer spaces nothing is promised; section 6 says what happens. `TitlesAreNames`
and `HuntNamesAreNames` only say that a name is a word in some case with or without such spaces. A walk
misses nothing since cases come in at the front of the list and none leaves but at a reset: `PagesInv`
says that what lies behind the cursor, counted from the end of the list, has been seen.

**The live tap.** Almost every action is some frames put into the send queue and then some taken out, so
most of the proof is about one operation on the queue and its counters: a buffer stays good
(`GoodBuffer`) when a frame is put in, dropped, announced as lost, or sent. Good means that the sequence
number is what was said plus what is still to be told (`DropsAreTold`), that the queue holds no more
sessions than it may, and that the generations of what was said and waits ascend, each behind its ack
(`GoodSaid`). A round of the loop that finds many rows is that operation repeated. What a client was
shown is the rows between the start of its subscription and its cursor (`SubGoesOn`): a round moves the
cursor to the last row it took, and with the frame of statistics it has taken all that are visible. Rows in order are
the one ascending sequence of a finite set of pairs (`Listing`), so showing a part and then the rest is
showing the whole.

**The scanner.** `OnItsWay` says what the scanner knows in each state: in its head it still holds all it
was given; among the records it has read the times of the first *k*, its buffer is the file from a place
on, and that place is where record *k* begins, less what it has yet to skip; when it stopped at a record
that is too long, the file has one. Bytes that arrive extend the file, and where its records begin does
not change for those that were there (`Place` of a longer file). One turn keeps it on its way; each turn
that does something makes buffer and state smaller by a measure (`Distance`) which is below `Turns`, so
after them it waits (`Waits`), and a scanner that waits knows all that can be read from the file so far.

**Packets.** A conversation is good (`GoodFlow`) when packets are stamped at even steps, what was sent is
counted, and the number each side comes to next is its first number plus all it has taken (`Expected`),
modulo `SeqSpan`. A segment keeps that, whether the writer is full or not, so every action does, being
segments one behind the other: a message is cut into chunks which add up to it, and each chunk is a
segment and its acknowledgement. How many bytes there are is an account over the stages (`WritingInv`):
what was said (`told`) and what is ahead make what the exchange asks, then what was said and what is left
to fill in make the goal, and a writer that is not full has sent all that was told (`Accounted`). That
times fit is a bound on a division: a full capture takes `MaxPackets` steps, each at most the duration
over `MaxPackets`, or one microsecond, which is where the assumption on `MaxPackets` is needed.

**The capture.** Two readers leave different schedules of beacons behind, and blocks are made with
whichever is there. The schedules that come up (`Drawn`, the least set that has none and goes on one
beacon at a time) are ascending, at least the shortest gap apart, and begin alike: of two, the shorter is
the beginning of the longer (`DrawnIsOne`), in what fires too. So two that are drawn up past the end of an
hour have the same beacons in it (`PastAlike`), and a block made with either is the one a first reader
finds (`BuiltIsFresh`); `Load` draws the schedule past every block it makes, in one go (`LoadKeeps`).
That packets kept for an id are of the one session that has it rests on ids: the places of drafts are one
to one with their ranks, so the rows of a minute have different ordinals and no two rows of a block one id
(`FinalisedDiffer`), which needs that an hour has room for so many beacons only (`DueAreFew`); and the id
of a built-in sensor is looked for in one block (`BlockOfIdIs`), whatever is imported, because imports
have indexes and names of their own (`ImportsApart`). `CaptureInv` says of packets only that their row is
one of the block a first reader finds and has been visible (`Kept`), which no import, reset or tick undoes.

Recursive functions have no properties until it is shown that they exist. Both modules do that once
(`RecursionExists`, from a set of lengths for which there is such a function, by `Counting`), for the
edits of the bot, the rounds of the tap, the turns of the scanner, places of records, sums of bytes and
the drawing up of beacons.

Only model-checked: everything else the runs list, for three reasons.

- Liveness is out of the prover's reach: `EveryScanEnds` and `AbandonedSlotFreed` of `ScansProgress`,
  `PollingEnds`, `LeakedSlotComesBack`, `CatchesUp`, `EveryRequestEnds`, `EndedIsClosed`.
- `QueriesHold`, `RowsAddUp` and `TrafficIsWhole` are about what recursive operators and folds
  compute (the parser, normal forms, the ledger, sums over rows, samples, redaction), and tlapm does without its
  SMT backend where such operators are declared; what they compute for every input would be an induction
  over data.
- `ReportIsFair` is not proved yet. It is about 22 checks over a log of any length, one of which takes a
  median of sorted gaps (`SortSeq`), and for arbitrary constants it needs one thing more to be told apart
  in the log than the run needs: a replayed answer that names a search which is deleted by then.

## 6. Where the code and its own words differ

One is a run that ends in a counterexample.

- `FeedStopped`: upstream.ts:14 promises one live feed per signed-in session; the feed that stopped
  after its last reader left stays in the map (upstream.ts:205), so a tab opened later in the same
  session is attached to a feed that never starts again.

Noticed while modelling. Of the web app:

- The tail stops being read when the status says "done" (use-result-tail.ts:61), so rows matched in
  the last leg may never be read, and a search whose only matches come then is shown as "No sessions
  matched" (results-table.tsx:184).
- search-state.ts:58 tells the user to run a discarded search again; Run with the unchanged query
  answers with the dead search without asking the server (use-run-search.ts:32), and likewise after Stop.
- An order kept from an earlier search asks, after the end, with a cursor of the running order
  (use-results.ts:19 says a cursor belongs to its order) and is refused; `results()` refuses another
  order for a search that failed (jobs.py:355) although api/searches.py:247 asks only that it is
  finished, and the screen offers the order.
- Stop writes the cache without cancelling the poll, so a reply in flight can put the screen back to
  running until the next poll (use-cancel-search.ts:12 says it cannot).
- A second tab with the same query is answered with the first tab's search and later deletes it
  (use-run-search.ts:21 says only a job this screen started may be deleted); two POSTs that fail after
  the commit leave two slots held although use-run-search.ts:14 means to avoid that.
- A 401 for a token an administrator expired stops the feed of a session that is signed in, although
  upstream.ts:209 expects the next open to come back under a live token.
- A refresh heard after `dropSession` puts the session back into the store.
- The first read of a tab and its stream need not overlap: the read may be an answer up to 5 s old, and
  detections released between it and the moment the feed starts or the tab attaches are in neither
  list. `ListHasNoHole` is therefore about tabs whose lists overlap.
- The first read is held under one key for all sessions (capture/detections/route.ts:16), so users with
  different sensors may be given each other's list.
- Leaving the screen loses what arrived, and coming back within the cache's five minutes shows the old
  first read without it, though use-detections.ts:36 says reading again would be asking for what the
  stream delivers already.
- What a full queue drops is told to nobody: the bus counts it, and no frame says so.

Of the API's streams, sockets and tokens:

- api/detections.py:75 says a stream ends when its family is revoked; of two streams that were
  authorised before a revocation and begin after it, the second finds the spent entry the first left
  in `_unsubscribe` (bus.py:161), registers nothing, and goes on until its token expires or it rotates.
- Tickets of the live socket survive an admin reset (api/live.py:32), which begins family ids again.
- A socket that is closed for a missing pong may have that ping still queued behind other frames, and
  a "lagging" frame carries the new generation for drops of the old one.
- The horizon of a sweep uses the lifetime that is set now, not the one a token was minted with.

Of the observer:

- The check for abandoned searches pairs every creation with the next without comparing ids or
  replays (api/observer.py:212), and keeps only the last DELETE (:203).
- The subscription check accuses a socket that has just been opened (:446); the retry check compares
  the times at which records ended; the minimal-patch check compares with the last answer even if that
  was an error; records without a token go to whoever was last seen at that address.

Of the workspace:

- A second queued import is never seen "indexing" (api/imports.py:134), as `_free_mono` is never
  assigned; a capture shorter than a magic number is never refused; imports older than the retention
  become sensors without visible sessions.
- A download answers 200 before it takes the archive (exports.py:281), which a poll may have dropped.
- Export ids are given again after an admin reset, which takes the counter back (exports.py), so a link
  kept from before it may name another bundle.
- Note id `note_00010001` is that of a seeded note and of the 10001st that is written.
- Names and titles are compared stripped but stored as they came (hunts.py:78, cases.py:161), so
  `" x"` can be created twice, and `"x"` after it: a name stored with outer spaces is not taken.
  `NamesAreTaken` and `TitlesAreTaken` promise no more than that, and the run has such names.

Of queries and the capture:

- The result of LQL parsing is not checked against the limits of depth and conditions that
  `POST /searches` enforces; an error of the tokenizer further on hides an earlier syntax error; a
  filter row of one empty value does not read back; `f = ""` can match where `has f` does not; a pivot
  builds its condition unguarded (api/analytics.py:139).
- `sensors=a,a` is not made unique, so histogram and estimate count a sensor twice.
- A vendor check-in may end before it starts (background.py:862), which gives a negative
  `duration_ms`; a GET answered 401 that becomes the carrier of a file is given status 200 while its
  summary still says 401; marking a DNS tunnel rewrites the name asked for and not the summary; the
  odd-named file may be given to an hour whose sessions the outage removes.
- The published schema marks every header value as sensitive (world/schemas.py) while `_redact` hides
  those of authorization and cookies in HTTP only.
- Packet retention is counted from the epoch and not the clock; opening an id from the future builds
  its block, in a cache without a limit; ids of imported sessions are given again after a reset, and a
  cursor from before it is still accepted.
- A warning that a sensor lags starts at a time that is still visible, and may begin before the window.

## 7. Not modelled

Left out for good: what reads constant tables and has no state (sensors, meta, health, enrichment),
the command line, and the rendering of screens. Of the generated capture the catalogues of hosts, names
and profiles (`world/network.py`, `tls_profiles.py`, `catalog.py`, `schemas.py`) and the bytes of each
protocol (`decode.py` and `pcap.py` beyond what section 3 names) are data without control: a row is what
the models tell apart, and chance is a nondeterministic choice. Passwords, roles beyond what a role may
read, CORS, wording and formatting are not modelled. The contents of an export archive are planned
(section 2). The process keeps nothing on disk, so there is no crash recovery
inside the API; what a restart does to open screens is in the plan.
