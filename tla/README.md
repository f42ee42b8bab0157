# A verification development for multiplayer_launcher

TLA+ modules, TLC configurations and TLAPS proofs for the matchmaker of this
repository, the programs around it and the scripts that patch another one. Paths are relative to `src/`.

## 1. The system

`matchmaking_server.py` is a Flask application: game servers and players
register, log in, send heartbeats and list the live game servers over HTTP. Its
state is in a storage instance (`matchmaker_storage.py`), in memory or in an
SQLite file, and in module-level counters. Flask's development server gives
every request its own thread; a daemon thread runs the maintenance loop. Around
it are programs that talk to it: a game server that sends heartbeats
(`tools/fake_game_server.py`), the player's launcher (`launcher_core.py`,
`multiplayer_launcher.py`) which lists servers and spawns the game
(`game_engine/`), a page that polls the event log (`templates/admin/index.html`),
and, next to it, a greeting server, its clients and its probe
(`tools/greet_server.py`, `tools/fake_prelauncher.py`, `tools/probe_greeter.py`).
Apart from all of these, four scripts of `multiplayer_launcher/` splice panel code
into the files of another repository.

| component | state | operations | what makes it correct |
|---|---|---|---|
| storage (`matchmaker_storage.py`) | users, tokens, servers; the SQLite file | `add_user`, `get_user`, `add_token`, `get_token_username`, `upsert_server`, `list_live_servers`, `purge_stale_servers`, `checkpoint_wal`, `reset` | a name is created once; SQLite rows survive a crash; a listing is the rows inside the window |
| handlers (`matchmaking_server.py`) | locals of each request thread; Prometheus counters and gauge | register, login, heartbeat, servers | answers are never contradicted by the tables; no request hangs; counters account for every row |
| maintenance loop | its next step, its clock reading, the stop event | checkpoint, purge, wait | stale rows go, live rows stay, as long as the thread is alive; it dies of its first report (section 5) |
| event log (`matchmaking_server.py:99-170`, `templates/admin/index.html`) | the per-process file; the page's `lastSince` | append, read since, poll | every event is shown once |
| game server (`tools/fake_game_server.py`) | token, consecutive failures, next beat | register-or-login, heartbeat loop | a running server stays listed |
| saved servers (`launcher_core.SavedDB`) | the JSON file of saved servers and its temporary file | construct, save, remove | a crash leaves a whole file; an alias that was saved is there |
| launcher window (`multiplayer_launcher.py`) | token, server list, game process | apply URL, login, refresh (worker thread), launch, stop | the list shown is of the current matchmaker; at most one game |
| engine shim (`game_engine/`) | the child process | spawn, forward signals, exit code | the engine's exit code is the shim's |
| greeting (`tools/greet_server.py`, `tools/fake_prelauncher.py`) | the bytes received so far, one connection each | accept, read, validate, answer, close | the verdict is on the whole handshake, however it was cut; every connection is closed |
| probe (`tools/probe_greeter.py`, `tools/probe_common.py`) | the listeners left, the bytes read, the reports | enumerate, connect, listen, nudge, tag | each listener is probed once; a tag says what was read, and when |
| splicing (`multiplayer_launcher/*phase5*.py`) | three files and a test file, replaced one by one | find the sentinels or the anchor, cut, insert | one block per file, the user's code kept, whatever the order of the scripts |
| `tools/_validator_smoke.py` | one scenario at a time | connect, send, half-close, judge | each scenario gets the verdict it names |
| other smoke drivers, CI scripts, tests | none of their own | start the others, compare output | not modelled |

Components meet in four ways: HTTP requests (launcher, game server, page to
handlers), shared tables (handlers, maintenance thread, other processes on the
same SQLite file), a file (event log, saved servers), and child processes.

What is hard here: a handler is several storage calls, each locked, with
nothing locked in between; clock readings are taken before the lock they are
used under; the process can die between a commit and an answer; the maintenance
loop deletes rows other threads are about to read; a heartbeat its sender gave up
may still be stored, over a newer stamp too; refresh threads and Tk callbacks interleave with clicks; a
handshake is a byte stream that arrives in pieces; a script may be killed, or fail to
write, between two files. PROJECT.json lists each such hazard at its
line.

## 2. The modules

```
AccountService  <--implements--  Matchmaker  =  RequestHandlers + Maintenance
                                                        \         /
                                                     MatchmakerStorage
EventLog
SavedMap  <--implements--  SavedStore
LocalStack  =  GameServer + Launcher
Probe  -->  Greeter  -->  Handshake
PatchScripts

MatchmakerProofs --> DirectoryProofs, AccountProofs     EventLogProofs     SavedStoreProofs
StackProofs     GreeterProofs     PatchProofs
MCMatchmaker    MCEventLog        MCSavedStore    MCGreeter    MCPatch
```

**MatchmakerStorage** - `matchmaker_storage.py`. A storage method runs under the
instance's lock, so within a process it is one atomic operator on the tables
`users`, `tokens`, `servers` (total functions, `None` for an absent key).
`Backend` selects the two classes where they differ: the window's boundary
(`IsLive`), the moment a malformed player count is refused (`UpsertRaises`,
`ListingRaises`), what a new process finds (`reopen`).

**RequestHandlers** - the handlers of `matchmaking_server.py`. `pc[h]` is the
next step of thread h; a step is one storage call, one clock reading or the
reply, because nothing is locked between them.

| handler | steps |
|---|---|
| register | `ArriveRegister`, `AddUser`, `Reply` |
| login | `ArriveLogin`, `GetUser`, `IssueToken`, `Reply` |
| heartbeat | `ArriveHeartbeat`, `Authenticate`, `ReadClock`, `UpsertServer`, `Reply` |
| servers | `ArriveServers`, `ReadClock`, `ListServers`, `Publish`, `Reply` |

`acked`, `granted`, `beats` and `stale` record what clients have been told; they
are history and guard nothing but the choice of a token, which the random
source never draws twice. `floor[h]` is history too: the oldest stamp that may still
be stored after heartbeat h has arrived, its own or that of another heartbeat of the
server which has read its clock and waits for the storage lock. `beats` takes it
over when h is answered.

**Maintenance** - `run_maintenance_loop`, one action per call it makes, and the
way it is started: `Starter = "main"` passes `on_purge`, as
`matchmaking_server.main` does, `"harness"` does not, as the tests. A cycle ends
either in `EndCycle`, with nothing to report, or in `ReportCycle`: after a fault or a
deleted row both branches write to `sys.stderr`, the module does not import `sys`
(`matchmaker_storage.py:25-30`, 435, 442), and the `NameError` ends the thread.

**Matchmaker** - the process: handlers, loop, clock, `Crash` between any two
steps, `Restart`. Properties of the whole are here.

**AccountService** - what a client may rely on: register, login and heartbeat
take effect atomically between call and answer; a crash drops the calls, and on
the in-memory backend the tables. `Matchmaker!Service` maps a thread's `req` and
`pc` to the abstract call: pending until the handler has decided its answer.

**EventLog** - `_log_event`, `_read_recent_events`, `/api/logs` and `pollLogs` of
the admin page. A writer stamps and then, in another step, appends; stamps that
wait for the lock are appended in any order. A poll is
sent with the page's `lastSince`, answered, shown or lost; several may be in
flight, as `setInterval` does not wait for the fetch.

**SavedStore** - `launcher_core.SavedDB` at the grain of its system calls: read
(which decides the new map), open-and-truncate, write, rename. Files are POSIX:
an open descriptor follows its file through a rename (`Renamed`), a write over
another text may leave its tail (`Written`). On Windows a rename of a file that
is open elsewhere fails instead, which is not modelled. `overlapping` says
whether the user ever lets two launchers write at the same time.

**SavedMap** - the map SavedStore implements where they do not: every change
takes effect at one moment or not at all.

**GameServer** - `tools/fake_game_server.py` from its wait for health to its exit,
one action per thing that can happen to it: `WaitForHealth`, `RegisterThenLogin`,
`BindUdp`, `SendBeat`, `BeatEnds`, `BeatTimesOut`, `Wake`, `Signal`, `Kill`,
`SleepRaises`. The other side is the matchmaker as AccountService describes it,
reduced to one server: whether it knows the token and how old the row is.
A beat is `StampBeat` (the token is checked and the clock read, `matchmaking_server.py:277-296`),
then `AnswerBeat` (the lock is taken, the row stored) or `FailBeat`, and ticks may pass
in between, so the row is as old as the stamp when it is stored. A beat the client gave
up on (`GiveUp`) goes on at the matchmaker: unstamped in `late`, stamped in
`lateStamps`, whose stamps age. `StampLate` and `StoreLate` take it on at any later
time, in any order, and a late one may put an older stamp over a newer. Time is counted
in ticks.

**Launcher** - the buttons of `multiplayer_launcher.py` as handlers that run one at
a time, the refresh thread as four steps (`ReadClient`, `Answered` or `CallFails`,
`PostResult` twice), the callbacks it posts (`RunCallback`), and the engines
(`game_engine/game_stub.py`) that `Launch` starts. The thread reads
`self.client` when it gets to run, not when it is started. `raced` records that two
refreshes overlapped; it guards nothing.

**LocalStack** - the two together, with `Lists` as the one place they meet: what
`GET /api/servers` answers is what GameServer's row says at that moment.

**Handshake** - the pure part of `tools/greet_server.py`: `validate_handshake` with
its magic, length prefix, version and token, over bytes; and the catalogue of
`tools/_validator_smoke.py`.

**Greeter** - the server's process, one connection's handler, the wire, and two of
its clients. Each direction is a stream: `sent`, how much of it has `arrived` and
how much was `taken`; a FIN arrives after the bytes, a reset may overtake them.
`paused` records that `read_handshake` ended by its idle pause although more was to
come.

**Probe** - `tools/probe_greeter.py` over the listeners of a process: one of them
may be a greet_server (the same actions as in Greeter), the others are external
peers that speak, close, reset or lose datagrams as they like. The model has one
connection's wire at a time, so `NextListener` waits for the server's handler of the last
connection to close; the probe goes on at once, but that handler can only meet the
socket the probe has closed. `list_listeners` is
the sorted sequence of the endpoints that listen (`Found`), each of them once. A
socket table is any sequence of connections (`ProbeAssumption`).

**PatchScripts** - the four scripts over files that are sequences of tokens: the
user's code, the statement that binds `app`, a line end, an anchor, a sentinel, a payload. A script computes or
writes exactly in the order of the source: the splice reads and splices all three
files before it writes one, the EOF splice goes file by file. A write may raise
(`WriteFails`, and in re-anchoring and fallback the disjunct "raised") and `Kill` comes
between any two writes; a file is whole in either case, and the `.tmp` file that may be
left is read by no script; `runs` are bounded. `Texts` says what a file may hold before any
script has run: any text of its user's, for the proofs; those of `MCPatch`, for TLC.

## 3. What the runs check

| run | instance | what it shows |
|---|---|---|
| `mm_accounts` | 3 threads, 2 names, 2 passwords, 2 tokens, SQLite, 1 crash | `SessionsHaveAccounts`: a token never names an unknown user, though login reads and stores in separate calls. `PromisesKept`: no answer is contradicted later, across a restart too. `CountersAgree`: tables = inherited + counted + about to be counted |
| `mm_refinement` | 2 threads, all four endpoints, in-memory, 1 crash | `ImplementsAccountService` |
| `mm_directory` | 2 threads, heartbeat and servers, overlapping heartbeats of one server, purge loop, clock to 3, SQLite, 1 crash | `AckedServerListed`, `PurgeSparesInFlight`, `ListingNeverFails` |
| `mm_liveness` | 1 thread, purge loop with a storage fault and a crash | `EveryRequestAnswered`, and `StaleRowsPurgedWhileAlive`: a row past the window goes unless the thread has died or returned, under fairness |
| `mm_main_purge` (violation) | the loop as `main` starts it | `StaleRowsPurged` fails: the thread dies of a `TypeError` |
| `log_poll` | up to 5 writers at once, 5 events, 2 overlapping polls, limit 1, a failed poll or a restart | `NothingShownComesBack`, `SinceNeverRetreats`, `ShownOrOvertaken` (liveness) |
| `log_tie` (violation) | one poll at a time, no burst | `NoneOvertaken` fails: lines of the millisecond already seen, or written late, are never shown |
| `saved_store` | 2 launchers that may or may not overlap, 2 aliases, 2 ids, 1 death | `NeverTorn`, `LoneChangesKept`, `ImplementsSavedMap` |
| `saved_race` (violation) | 2 launchers that write at once | `AtomicWrites` fails: the temporary file's name is shared |
| `local_stack` | a game server's whole life with 1 fault and 1 matchmaker restart under a window's first refresh; or a busy window (5 clicks, 1 of them a second refresh, 2 threads, 2 games, 2 URLs) over a server that has just stopped and may have a heartbeat under way | `ListedWhileBeatsLand`, `LostTokenStaysLost`, `RunningServerStaysListed`, `ExitedServerLeaves` of the server; `LoneRefreshShowsCurrent`, `StopReachesLatest`, `WindowSettles` of the window; `NoGhostServer` of both |
| `greeter` | prelauncher, the 11 scenarios, and the probe over 4 socket tables | `VerdictOnWholePayload`, `ScenarioVerdicts`, `ListenersProbedOnce`, `TagTellsTruth`, `EveryWaitEnds` |
| `phase5` | 192 umbrellas with files, anchors or line ends missing, and `app` bound first, late or never; 4 runs of any scripts, each of which may fail to write or be killed | `OneBlock`, `UserCodeKept`, `RefusedRunChangesNothing`, `RerunAddsOnlyLineEnds`, `ImportableUnlessReanchored`, `ServedWhenRun` |

These conditions in the properties are the code's, not conveniences:

- *`Prompt(h)`*: `/api/servers` reads the clock before the storage lock. A
  listing that then stalls for longer than the difference of the two windows
  can lose a row of its own window to the purge; within that grace period it
  cannot (`PurgeSparesInFlight`).
- *`floor`* (in `AckedServerListed`): a heartbeat's stamp, too, is read before the
  lock, so of two heartbeats of one server in flight the older stamp may be
  stored last; the game server sends the next while one it gave up is still in
  flight. The window of an answered heartbeat therefore counts from the oldest stamp
  that was waiting for the lock when it arrived, and from its own arrival if none was.
- *"while alive"* (in `StaleRowsPurgedWhileAlive`): a loop that has deleted a row or met
  a fault is dead (`ReportCycle`), so the promise is about the rows an alive loop finds.
- *`e \notin Recent`* (in `ShownOrOvertaken`): a line with `4 * Limit` others behind it is
  not read any more; with stamps out of file order it may get there before the page has
  moved past its stamp. The run has five events for a window of four.
- *`ListingNeverFails` is SQLite's*: `InMemoryStorage`, which only the tests
  select, accepts a player count `int()` rejects and then fails every listing.
- *`Covered`* (in `ListedWhileBeatsLand`): the loop sleeps after a beat has ended, so
  a period is the sleep and the request. With the defaults (25 s, 10 s, 60 s) one
  missed beat is bridged if requests are quick, none if they may last their
  timeout. `fresh` ends when a late beat stores an older stamp than the row has, and
  begins again with the next beat that lands.
- *`~raced`* (in `LoneRefreshShowsCurrent` and `NoGhostServer`): the answers of two
  refreshes in flight are shown in the order they end, so the list of the URL that
  was left may be the one that stays.
- *`durable`* (in `RunningServerStaysListed`): in memory the token is gone with the
  process, and the loop never logs in again (`LostTokenStaysLost`).
- *`~paused`* (in `VerdictOnWholePayload`): a client slower than
  `--handshake-idle` is judged on what has arrived.
- *`AppFirst`* (in `ImportableUnlessReanchored`): the block's `@app.route` needs `app`, so
  only a `server.py` that binds it before the call that runs the server can become
  importable; in an empty one the block raises `NameError`.
- *`~reanchored`* (in `ImportableUnlessReanchored`) and *`~tail`* (in `ServedWhenRun`):
  see the findings.

`ShownOrOvertaken` says "unless `lastSince` has reached its stamp" for the reason
`log_tie` shows: the strict comparison that keeps the boundary event from coming
back also drops its siblings, and a burst beyond the limit is trimmed from the
old end, after which the page moves past what was trimmed.

### Bounds

- *Clock*: `MaxTime` 3 with windows 1 and 2 (`mm_directory`), 4 with 1 and 3
  (`mm_liveness`), let a row be inside the listing window, between the windows and
  beyond both, and leave a tick for a loop cycle. Where the clock stands still, `WaitReturns` lets intervals end all the
  same, so the loop never stops because of the bound. The accounts runs need no
  clock (0). The actual 60 s and 300 s enter only through `60 < 300`
  (`StorageAssumption`).
- *Threads*: two suffice for each hazard between two handlers or a handler and
  the loop; `mm_accounts` has three, so that a register, a login of the name and
  a second register overlap.
- *Tokens*: `LoginsInFlight < Cardinality(Unissued)` keeps a login from starting
  when the finite set has no token left for it.
- *Crashes, faults, failed polls*: one of each, but for the stack; `MaxCrashes`, `MaxFaults`,
  `MaxRestarts` name them; in EventLog `MaxFaults` bounds failed polls and restarts
  together. Two crashes differ from one only in
  what `inherited` counts.
- *Log*: limit 1, hence a window of four lines, and five events, all of which may be
  stamped before one is written (`MaxPending` 5): bursts exceed the limit and the
  window, in any order of stamps; 367,631 states.
- *Stack*: `HeartbeatS` 2, `Timeout` 1 and `TTL` 8 make `Covered` true of 0 and of 1
  missed beat and false of 2; one fault and one restart can both be misses, so both
  sides of the bound are visited; 533,918 states. The product of a full server and a busy window is too large, so a
  behaviour has one or the other (`StackInit`); what the two share, the list and its
  late heartbeats, is in both. One refresh beside the first makes them race.
- *Handshake*: payloads that end inside the magic, maxima of 2 (which cuts) and
  4096 (which never does); every split of the stream is a path. Tables with
  duplicates, connections, both families, and both filters.
- *Scripts*: the umbrellas are the tests' own, and those with an anchor missing, in
  front or twice, without a last line end, empty, with `app` bound late or never, or with
  a file missing; 1,039,188 states. Four runs are every ordered choice of the four scripts; most
  interactions (splice over EOF splice over re-anchoring, a kill and its repair)
  need three.
- `InitWithSession` starts the server-table runs in the state one registration
  and one login lead to.
- Symmetry is over threads, tokens, names, passwords, aliases and ids, which
  only appear in equalities, and only in runs without liveness properties.

### Fairness

`Fairness` of Matchmaker: each thread's next step (the kernel schedules runnable
threads, and no storage lock is held across steps), the loop's own steps, the
clock, and the restart of a dead process by its operator. Nothing is assumed of
clients, crashes or faults. `FairSpec` of EventLog: the page keeps polling
(`setInterval` never ends), an answered poll is shown, and the server answers;
failures stay possible, bounded in number. `StackFairness`: the game server's
process runs, the matchmaker answers what reaches it and is restarted, time
passes; Tk runs posted callbacks and a refresh thread runs on, since the client's
requests have a timeout. Nothing is assumed of clicks, signals, faults or games.
`Fairness` of Probe: asyncio runs the handler, whose reads are bounded by
`--handshake-idle`, and the probe's waits have deadlines. Nothing is assumed of the
network, the prelauncher, the peers or the smoke driver, whose wait for the log
line is a blocking read and may last for ever.

### Mutants

Each property of a passing run has a mutant: an operator next to a definition,
such as `Purge_early` next to `Purge`, that is the definition with a plausible
bug. With the mutant in the definition's place, TLC finds the property violated
in the same run.

## 4. What is proved

All for any finite number of threads or launchers, any windows with the
listing's the shorter, either backend, any heartbeat period and timeout, any
payloads, socket tables and listeners, any texts of the users' files, and any
bounds; the assumptions on the constants (`StorageAssumption` and the others) are the
only premises, but for `Durable` where stated.

| theorem | statement | inductive invariant |
|---|---|---|
| `TypeCorrect` | `Spec => []TypeOK` | `TypeOK /\ Shape` |
| `SessionsHaveAccountsAlways`, `PromisesKeptAlways` | the two invariants | `AccountInv` |
| `PurgeSparesInFlightAlways` | the action property | `TimesInv` |
| `CountersAgreeAlways` | the invariant | `CountInv` |
| `AckedServerListedAlways` | the action property | `DirectoryInv` |
| `ListingNeverFailsOnSqlite` | `Durable` implies the invariant | `ListingInv` |
| `ImplementsAccountServiceAlways` | `Spec => ImplementsAccountService` | `ServiceInv` |
| `EventLogTypeCorrect`, `NothingShownComesBackAlways`, `SinceNeverRetreatsEver` | of EventLog | `PollInv` |
| `SavedStoreTypeCorrect`, `LoneChangesKeptAlways`, `NeverTornEver`, `ImplementsSavedMapAlways` | of SavedStore | `StoreInv` |
| `StackTypes`, `StopReachesLatestGame` | type and window of LocalStack | `WindowInv` |
| `BeatsKeepListed`, `LostTokens` | of the game server | `ServerInv` |
| `LoneRefreshIsCurrent`, `NoGhosts` | of LocalStack | `WindowInv`, `LoneRefresh`, `GoneStays` |
| `VerdictIsOnTheWhole` | `VerdictOnWholePayload` of Probe | `HandshakeInv` |
| `CatalogueHolds` | `ScenarioVerdicts` of Probe | `ScenarioInv` with `HandshakeInv` |
| `ProbeTypeCorrect` | `Spec => []TypeOK` of Probe | `TypeInv` |
| `EachListenerOnce` | `ListenersProbedOnce` | `Queue` |
| `TagsTellTruth` | the action property `TagTellsTruth` | `TypeInv`, `Exchange` |
| `PatchTypeCorrect`, `AtMostOneBlock`, `UserCodeStays`, `RefusedRunsChangeNothing`, `RerunsSettle`, `FallbackRepairs`, `RoutesBeforeMain` | `PatchTypeOK` and the six other invariants of PatchScripts | `PatchInv` |

The arguments:

- `Shape` relates a thread's step to its request (a thread at "issue" serves a
  login with a name and a password); without it the tables' types are not
  inductive, as the next step writes what the request holds.
- `Learned` is the heart of `AccountInv`: what a handler read in one storage call
  still holds at the next. At "issue" the user has the given password, and before
  the reply "created" and "granted" are true of the tables. It is inductive since
  users and tokens are only ever added to (`StoreGrows`, `MaintainGrows`), or all
  lost together with the handlers (`reopen` on the in-memory backend).
- `TimesInv`: no thread holds a clock reading from the future. With it, a purge's
  cut-off is at most `clock - MAINTENANCE_PURGE_TTL_SEC`, so a row inside a
  prompt listing's window is not beyond the purge's (`RowsLeaveByPurge`).
- `DirectoryInv` says that the row of an acknowledged heartbeat is at least as
  recent as `beats[s]`, or out of the purge's window and gone. What makes it inductive
  is `floor`: no heartbeat that has read its clock has a stamp older than the floor of
  another in flight (`FloorHolds`) or than `beats[s]` (`BeatFits`), so whichever is
  stored last, the row is not older than what was promised.
- `ServiceInv` adds `SessionOpen`: a heartbeat past its check holds a live token,
  so the abstract heartbeat may take effect at `UpsertServer`. The linearization
  points are `AddUser`; `GetUser` when it refuses, else `IssueToken`;
  `Authenticate` when it refuses, else `UpsertServer`. One lemma per handler maps
  its steps (`RegisterStep`, `LoginStep`, `HeartbeatStep`, ...).
- `PollInv`: all that was shown lies at or below `lastSince`; a poll's `since` is a
  bound of what had been shown when it was sent, and its answer lies above.
- `StoreInv`: a launcher that writes alone owns the temporary file at every step,
  and the map it read is still the file's. A launcher that begins takes `alone`
  from the others, and one that is writing finds nobody else alone; without
  overlap everyone that writes is alone.
- `CountInv`: a row is added to a table in the step that adds its thread to
  `Uncounted`, and counted in the step that takes it out (`UncountedStep`), so the
  two cardinalities move together. `DownIsIdle` is what a restart needs: nobody is
  left to be counted when `inherited` is read.
- `ListingInv`: on SQLite a row is converted before it is stored, so no row in the
  table is malformed (`RowsConvert`), whoever lists it.
- `ServerInv`: `AgeWithin` bounds the row's age by what the loop has spent since
  the last store: a full period for each miss and the part of the current one that
  `timer` has counted (`Slack`), and the stamp's own age while the beat waits for the lock.
  A late beat with an older stamp ends `fresh` and with it the claim. `TimersBounded` and `NothingBeforeLoop` (no row, no
  late beat, no miss before the first beat) make it inductive; `RowNeedsToken` says
  a lost token means a lost row.
- `WindowInv`: the handle is the last game.
- `LoneRefresh` follows the one refresh through its steps while `~raced`: what it
  has read is the current URL, what it has posted comes from it, and the queue holds
  its callbacks and no other's. `GoneStays`: `gone` means that the server has exited and
  its row is outside the window; a late beat may still be stored, and one that lists the
  server again ends `gone` in the same step, so no answer of a refresh under way with
  `gone` true ever held it.
- `HandshakeInv`: the payload is a prefix of what the client wrote, and that is a
  prefix of the plan (`PayloadIsPrefix`); at the end of the stream or at the maximum
  it is the whole of it, cut at the maximum (`PayloadAtEnd`). `ServerSide` and
  `ClientSide` tie each process's step to the wire: nothing is written after a
  close, and a client that stopped early was reset, so the server reads no end.
- `ScenarioInv`: what the driver sends and the flags it starts the server with are
  one entry of its table. `ScenarioAnswers` works out the validator's verdict on every
  entry, so with `HandshakeInv` the verdict on the whole payload is the one the entry
  names.
- `TypeInv`: the probe and the validator read bytes that were written. `WireOK`
  bounds what has arrived by what was sent and what was taken by what has arrived;
  `Probing` says that while the probe is at a listener the list is not empty.
- `Queue`: the listeners reported and those left are the list cut in two, except
  between two of them. A sorted list of the endpoints exists
  (`SortedListExists`); as the order is strict it repeats none, and being as long as
  the set it leaves none out (`ListIsSorted`).
- `Exchange` ties what the probe has read to the window it is in: nothing is written
  to a peer before the nudge, a `greet_server` says nothing before its validator has
  accepted the nudge, and what is read in the first window was sent unprompted.
- `PatchInv` has four parts. `TextInv` gives every file its `Shape`: plain text
  around at most one block, a line end behind it (`Parted`), and for `server.py`,
  until a script has moved the block, no `main` in front of it. It is what the
  scripts' searches need, since a sentinel then has one place (`ABlock`, `NoBlock`);
  and a line end must follow the block, or the EOF splice's stripping of `init.lua`,
  whose sentinels include theirs, would cut a token of the user's (`Stripped`).
  `Going` says of a running splice which files it has written (`Holds`), that it can
  write the rest, and that a repetition has changed only line ends; `Gone` says what
  a run that ended well leaves, and of a splice that was stopped which first files it had written
  (`FirstFilesLeft`, `StoppedRun`). What the scripts leave of `app` in front of the block
  is part of their lemmas (`AppStays`, `StripKeepsApp`). One lemma per script says what it makes of one text
  (`SpliceEffect`, `EofEffect`, `ReanchorEffect`, `FallbackEffect`): its shape, what
  it keeps, and that a second time changes line ends at most. They rest on lemmas
  about the recursive filter (`OnlyConcat`: what is kept of two texts in a row is
  what is kept of each) and about the first place of a token (`FirstAfter`,
  `FirstBefore`), proved by the least number at which they would fail, as an
  induction theorem with an operator parameter is out of the provers' reach.

Model-checked only: the liveness properties (`EveryRequestAnswered`,
`StaleRowsPurgedWhileAlive`, `ShownOrOvertaken`, `RunningServerStaysListed`,
`ExitedServerLeaves`, `WindowSettles`, `EveryWaitEnds`), since fairness and ENABLED
are beyond the prover. Every other property of a passing run is a theorem.

## 5. Findings

- `main` passes `on_purge` to `run_maintenance_loop`, which does not take it: no
  row is ever purged (`mm_main_purge`). With the argument gone the thread would still
  die of its first report: `matchmaker_storage.py` does not import `sys` (25-30), so the
  first deleted row (435) or the first fault (442) raises `NameError` out of the loop,
  whose docstring says "The function never raises" (425). The passing runs go through
  this (`ReportCycle`).
- Timestamps of the log are neither unique nor in file order, so `since` polling
  can miss lines the comment says it cannot (`log_tie`).
- `SavedDB`'s writes are atomic for one launcher at a time only (`saved_race`).

Other places where the code and its words, or its words and the models, part. The
passing runs go through them; the properties say what holds nevertheless.

- The game server never logs in again. After a restart on the in-memory backend its
  heartbeats get 401 for ever (`LostTokenStaysLost`).
- `fake_game_server.py:369` may compute a negative sleep when the clock passes the
  end between the test and the subtraction; `time.sleep` raises and the server dies
  (`SleepRaises`).
- The launcher's failure callback (`multiplayer_launcher.py:211`) reads the except
  clause's variable after it is unbound: it raises `NameError` in Tk's loop and the
  status line keeps its text (`RunCallback`).
- Apply URL keeps the token of the old matchmaker, and the list until the refresh
  ends; Launch then pairs one with the other.
- A second Launch forgets the first engine: Stop reaches the last one only
  (`StopReachesLatest`).
- `greet_server.py:286-289` and the line logged at 358-360 say the connection stays
  open after a response; the `finally` clause closes it (`EveryWaitEnds`).
- The probe tags a TCP listener that spoke "silent" when it runs with `--no-nudge`
  (`probe_greeter.py:382`), nudges a peer that has closed, and tags "post-nudge" a
  greeting that comes between the window's end and the nudge.
- `_validator_smoke.py:265-267` tests its deadline between blocking reads.
- `_xb_reanchor_phase5.py:221-225` looks for and adds a backslash and an n instead
  of a line end. Each run leaves a stray line, after which `server.py` cannot be
  imported; no script removes it, though the usage of
  `multiplayer_launcher/README.md:29-35` ends with this script. So it is not
  idempotent, as the others are (`ImportableUnlessReanchored`, `RerunAddsOnlyLineEnds`),
  although its docstring (lines 3-5) says "Idempotent" and "no-op".
- A splice, an EOF splice or a re-anchoring after the login fallback drops the
  fallback with the block it sits in.
- After the EOF splice or the re-anchoring the block is behind the call that runs
  the server, and a later splice leaves it there (`ServedWhenRun` and its `~tail`),
  though the docstring of `_xb_splice_phase5.py` says "just before" it.

## 6. Not modelled

Within the modelled components: SQLite errors in handlers other than a
conversion's (the loop's faults are modelled); a wall clock that steps back;
JSON bodies whose fields are not strings or numbers; the latency histogram and
the counters of refusals; which of two overlapping listings sets the gauge last;
`reset()`, which only the tests call; two matchmaker processes on one database
file; reuse of a process id by the event log; `limit=0` of the log's reader, which
no page sends; power loss, which may reorder a file's write and its rename. Of the
launcher: Register, which changes only the status line, and `config.json`, which is
written whole by one button. Of the greet server: hexdumps and logs. Of the probe:
the search for the process and the rendering of bytes. Of the scripts: their
printed summaries, the temporary file a failing write leaves, and other writers of the
same files.

Other components: the panel code between the sentinels is Python, HTML and Lua of
another repository's server, of which only what the scripts look for is known. The
smoke drivers and CI scripts but one start programs in sequence and compare their
output; the tests were read for what they expect.

## 7. Plan

Done, the most important behaviour first: Matchmaker with its accounts refinement
and directory; EventLog; SavedStore and SavedMap; GameServer and Launcher and their
composition; the handshake and the probe; the patch scripts; and the proofs of
section 4.

What could come next:

1. SharedDatabase: two matchmaker processes on one SQLite file, where `add_user`'s
   select and insert and `reset`'s three deletes are separate transactions, with
   `PromisesKept` over both processes' answers.
2. The gauge's order, as a step of its own in `Publish`.
3. For each liveness property, the safety half of its argument as a theorem: the
   step that fairness forces is possible, and none undoes what it has reached.
