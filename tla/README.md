# OpenQuick: verification project

TLA+ models of OpenQuick, TLC configurations that check them on small instances,
and theorems about them checked by TLAPS.

OpenQuick publishes small web sites on a host of one's own. `quick` (C, in `src/`)
is the command line and terminal program of the person who publishes; `quickd`
(Go, in `server/`) runs on the host, serves the sites, and offers each site
documents, uploads, realtime channels and an AI gateway; the JavaScript SDK
(`sdk/js`) is what the pages of a site use of it. Paths below are relative to the
repository.

Contents: [1 The system](#1-the-system) ·
[2 Modules](#2-the-modules) · [3 Runs](#3-the-runs) · [4 Proofs](#4-the-proofs) ·
[5 Disagreements with the documentation](#5-where-code-and-documentation-disagree) ·
[6 Not modelled](#6-what-is-not-modelled) · [7 Plan](#7-plan) · [8 How to run](#8-how-to-run)

## 1 The system

### 1.1 Parts, state and interactions

| Part | Source | State it keeps | Operations |
|---|---|---|---|
| Release directory | `server/internal/deploy/deploy.go`, `server/cmd/quickd/main.go` | `sites/<site>/{.incoming,releases,current,previous,deploy.lock}`, catalog rows of sites and deploys | `quickd deploy prepare, activate, rollback, cleanup`, retention, collection of old uploads, `sites public` |
| Deploy session | `src/core/ops.c`, `src/cli/commands_deploy.c`, `server/internal/static/static.go` (portal) | position in `quick_op_deploy_execute`, cancel flag, local deployment record | prepare, confirm, transfer, activate, clean up, record |
| Document API | `server/internal/api/handler.go`, `server/internal/store/store.go` | the table `documents` | create, read, put, patch, delete, list, each with If-Match where it applies |
| Site life cycle | `deploy.go` (DeleteSite, RestoreSite, PurgeArchive), `uploads/uploads.go` | `sites/<site>`, `uploads/<site>`, `.trash/sites/*`, rows of sites and uploads | delete, restore, purge, upload, delete upload |
| Realtime hub | `server/internal/realtime/hub.go` | seats per site, client list, one send queue and one channel set per connection | Serve (reader and writer goroutines), subscribe, unsubscribe, publish |
| SDK realtime client | `sdk/js/src/index.ts` | the socket, the callbacks, the wanted channels, the queued publishes, the reconnect timer | on, its unsubscribe function, subscribe, publish, reconnect |
| Host install | `ops.c` (`quick_op_serve_install`), `install/systemd/openquick.service` | binary, two configuration files and unit on the host, systemd's view, the backup under `/tmp` | sixteen remote commands, the rollback script |
| Process runner | `src/core/process.c` | one child process, its pipes, the cancel flag | run, capture, kill on cancel |
| Static serving, site routing | `static.go`, `sites.go` | none of its own (reads `current`) | resolve, serve, preview, dev proxy |
| Rate limiting | `ratelimit.go`, `store.go` (AI quota) | a window per key; a counter per day | allow |
| AI gateway, warehouse | `api/ai.go`, `api/warehouse.go` | an audit row per request | proxy |
| Identity, developer tokens | `identity/*.go` | key cache, tokens | identify, issue, revoke |
| Profiles, site configuration | `profile_config.c`, `site_config.c` | `config.json` of the user, `quick.json` of a directory | load, look up, upsert, write |
| Other configuration | `config.go`, `config.c`, `config_json.c` | files | load, validate |
| Deploy plan | `deploy_plan.c` | `.quick/deployments`, `.quickignore` | resolve profile, site and host from options, environment and files; ignore rules |
| Command line | `src/main.c`, `src/cli/*.c`, `ops.c` | the manifests of past deploys | parse and dispatch, delete, restore, rollback, public, domain, list, deploy, dry run |
| Doctor | `ops.c` (`quick_op_doctor`), `commands_doctor.c`, `tui_screen_doctor.c` | a temporary directory and a diagnostic site | local, remote and deep checks |
| Terminal UI | `src/tui/*.c` | menus, guided setup, profiles in memory, development server, signal | screens over the same operations |
| Rendering | `src/surface`, `src/components`, `src/style` | none | draw |

How they interact:

- `quick` starts one ssh per remote command; each starts a `quickd` process of its
  own. Two sessions, two operators and the HTTP portal therefore meet only in the
  file system, in `deploy.lock` (flock) and in the SQLite catalog.
- A local ssh and the remote command it started end independently: a killed ssh or
  a lost connection tells nothing about the command.
- The server process shares the catalog and the directories with those commands. An
  HTTP request is a goroutine; a WebSocket is two, and `Hub.mu` serialises the hub.
- Document handlers publish an event on `db:<collection>` through the hub after their
  statement committed. The SDK's client turns these into callbacks of the page.
- Several `quick` processes share the profile file, `quick.json` and `.quick` of a
  directory without a lock; each reads them when its operation starts, and an operation
  that asks for a confirmation reads them again when it is called the second time.
- The terminal UI is one process that waits in dialogs; a signal only sets a flag, and
  the dialogs look at it. Long operations get the flag as their cancel flag.
- In a page, one task runs at a time, but the client calls the application back in
  the middle of its methods (`setState`), and the application may call in again.

### 1.2 What is hard, and what makes each part correct

The complete list, each at its line, is `hazards` in `PROJECT.json`. In short:

- **Release directory.** A command can die between any two of rename, symlink swap,
  second swap, catalog write and removal of old releases; removal is not atomic;
  retention orders by modification times, which a rollback does not change and a
  removal does; cleanup and `sites public` take no lock. Correct is: `current` never
  dangles and names a complete release, a rollback finds a whole target, the catalog
  agrees with the links once a command reaches its end, and every session ends.
- **Deploy session.** Cancellation, a failing transfer and a dying client meet remote
  commands that go on. Correct is the promise of `docs/user/quick-deploy.md:121`: a
  browser sees the previous complete release or the next one.
- **Documents.** The handlers read, decide, write and read again in several
  statements. Correct is: a conditional write replaces only what the client named,
  patches merge, answers and events tell what was committed.
- **Site life cycle.** Two directories and a row change one after the other, without
  a lock, with an undo on the way. Correct is: nothing is lost or duplicated.
- **Realtime hub.** Two goroutines and the publishers share one queue that is closed at
  the end; seats are taken before the upgrade. Correct is: exact seats, no send on a
  closed queue, order, no missed event, no goroutine left waiting.
- **Realtime client.** Reentrant callbacks, a timer, late socket events. Correct is:
  callbacks stay as long as they are wanted, channels are subscribed to again,
  publishes go out once and in order, and a broken connection comes back.
- **Commands.** A line is read by a table-driven check and again, option by option, by
  the handler; what is destructive asks, and is called again. Correct is: a host carries
  out what the line says, once, on the host it names and with the user's word; what was
  deleted can be asked back; a dry run says what the next deploy will do; a diagnostic
  deploy leaves nothing behind unsaid.
- **Terminal UI.** Questions in any order with forms that outlive a try, three copies of
  the profiles (file, memory, form), menus that are searched and resized, a signal at any
  time. Correct is: what is saved is what was verified, a save changes one profile, no
  second install over a half finished one, the highlight is on the screen, and every
  screen ends after a signal.
- **Host install.** Partial failure of a long script over an unreliable channel, and a
  service that restarts by itself meanwhile. Correct is: a backup is there whenever it
  is needed, and what the result reports is what happened.

## 2 The modules

    AtomicPublish            what publishing promises (abstract)
        ^ implemented by
    DeploySession            quick deploy sessions and portal uploads
        | EXTENDS                                          <- DeploySessionProofs
    HostDeploy               the release directory of a site   (proofs about both)
    DocumentRegister         one document as an atomic object (abstract)
        ^ implemented by
    Documents                one document under requests       <- DocumentsProofs
    SiteLifecycle            delete, restore, purge, uploads   <- SiteLifecycleProofs
    SiteFeed                 what realtime promises a page (abstract)
        ^ implemented by
    RealtimeHub              the server's end of realtime      <- RealtimeHubProofs
    RealtimeClient           the page's end of realtime        <- RealtimeClientProofs
    ServeInstall             installing quickd on a host       <- ServeInstallProofs

    ProfileConfig            config.json, quick.json and the deploy plan (operators)
      ^             ^
    TuiApp        Invocation            the terminal process / a command line
      ^   ^             ^
    Onboarding  Settings  SiteAdmin     guided setup, settings / commands on sites
      ^                       ^
    DeployFlow              DeployCommand      the deploy screen / quick deploy
      ^       Menu            ^
      |         ^           Doctor      the doctor, from a shell or the screen
      |         |             ^
    FrontEnd (also Settings)  Commands  the terminal front end / processes of a shell
                                              <- FrontEndProofs, CommandsProofs

`MC*` modules hold the model values and functions of the runs. `map` in
`PROJECT.json` gives the source lines of every definition. Definitions named
`X_Something` are variants of `X` with a plausible bug; each property is checked to
fail with at least one of them, so no property holds whatever the code does.

### 2.1 HostDeploy

One site. An action is a step another process can observe: a rename, a symlink swap
(`ln` to a temporary name and rename), a catalog statement, the removal of part of a
tree. A directory is `none`, `partial`, `whole`, `torn` (a removal took files) or
`empty`. `act[d]`, `roll[o]`, `sweep[d]` and `toggle[t]` are the program counters and
local variables of activate, rollback, cleanup and `sites public`.

| Code | Actions |
|---|---|
| `Prepare` | PrepareStage, PrepareRow |
| transfer (rsync, scp, zip) into `.incoming` | Receive, Age |
| `Activate` under `deploy.lock` | ActivateBegin, Lock, Check, Public, Hash, Manifest, Rename, Swap, Shift, Record, Done, Refuse, Crash |
| `pruneReleases` | PrunePick, PruneTear, PruneDrop, PruneDone |
| collection of uploads older than 24 hours | GcTear, GcDrop |
| `Rollback` | RollbackBegin, Lock, Verify, Swap, Shift, Record, Refuse, Crash |
| `CleanupIncoming` (no lock) | SweepBegin, SweepTear, SweepDone, SweepAbort |
| `quickd sites public` (no lock) | PublicResolve, PublicScan, PublicSet, PublicOff |

`older` is the order of modification times, changed by every operation that writes in
a directory. `attested` is what the tree held when its content hash was taken, and so
`Verified` is what a rollback's verification computes. `os.RemoveAll` works through
directory descriptors: a cleanup that opened a tree goes on emptying it after a rename
(`SweepTear` acts on whichever place the tree is at), and only the last `rmdir`, by
path, misses it (`SweepDone`).

In this module callers are arbitrary; anything may be activated or cleaned up at any
time. `DeploySession` restricts them to what `quick` and the portal do.

### 2.2 DeploySession and AtomicPublish

`quick_op_deploy_execute` as one program counter per session, over HostDeploy's
actions: PrepareRead, SessionPrepare, PrepareReturns and PrepareFails, SessionReceive,
TransferReturns and TransferFails, SessionActivate, ActivateReturns, RecordLocally,
CleanupBegin and CleanupReturns. `Interrupt` is Ctrl-C in the terminal UI (the cancel
flag, looked at where the code looks); `ClientDies` is Ctrl-C in the CLI, which passes
no flag. `ActivateDetached` is a local ssh that ends while the remote activate goes on;
the constant `Interruptible` says for which sessions that can happen. It cannot for a
portal upload, whose handler waits for `Activate`.

`AtomicPublish` is the promise: one complete release is live, is replaced in one step
by another complete one, and is not removed while it is live. The refinement maps
`live` to `current` and `shelf` to the whole releases.

Assumption: a session takes less than 24 hours, so that the collection of old uploads
only meets what a finished session left.

### 2.3 Documents and DocumentRegister

One document and a set of requests. Each handler is a sequence of SQL statements with
a program counter: Post; Begin, Read; then WriteAnyway and ReadBack without If-Match,
or Swap (one transaction) and SwapFails with it; Publish. `Cancelled` is the client
that leaves, whose context cancels the next statement. A revision is the stamp of the
write it names; the code hashes `updated_at`, unique at nanosecond resolution, with the
data. Data is the set of requests whose fields it holds, which tells merged from lost.
`feed` is what goes to the hub, in order of publication. `Swallows` names the two
branches that lose the error of a conditional write (section 5).

`DocumentRegister` is what clients may rely on, with one step per request: it takes effect
at one moment between arrival and answer, once or not at all, with If-Match only on the
revision it names, and it is refused only where the reason holds at that moment. Where the
code does less the abstract object says so: a patch without If-Match looks first and
writes later (`Look`), a write without If-Match looks again before it answers
(`LooksAgain`), and a conditional PUT or DELETE that took no effect may be told that it
did (`Pretend`, section 5). The mapping takes a request's state from the program counter
and from `applied`; of what handlers read only the base of such a patch remains.

### 2.4 SiteLifecycle

The two directories, the archives, the row and the rows of uploads, and one program
counter per operator, deploy and upload. DeleteLook, DeleteSiteDir, DeleteUploads,
DeleteSweep, DeleteRow; RestoreLook, RestoreMove, RestoreUploads, RestoreRecord,
RestoreTidy and, after a failure, UndoUploads and UndoSite; PurgeOpen, PurgeRemove;
`Die` at every step. Deploys appear as what makes the site anew: prepare makes the
directory (DeployMake), again for its staging directory (DeployStage), and the row
(DeployRow); activate makes it once more for its lock file (DeployLock) and, when it is
deleted under its hands, for `releases` (DeployLate), publishes (DeploySwap) and records
(DeployRecord); DeployFails is an error at any of these steps, after which what was made
stays. `made` are the directories so far and `linked` those with a `current`. An upload is
admitted where there is a `current` (UploadAdmit), and is then a file and a row.

The initial state chooses, once and for all, whether this is a history in which everything
happens `alone` (nothing starts before the rest has ended, and no command dies, though
deploys and restores may fail), because the two kinds of property need different worlds:
the place of a directory is safe whatever overlaps, the agreement of directories and rows
is not (a deploy that a delete overlaps can leave a row without a directory) and the code
does not claim it.

### 2.5 RealtimeHub and SiteFeed

`Serve` per connection: Reserve, Accept or AcceptFails, the frames of the peer
(FrameSubscribe, FrameUnsubscribe, FramePublish, FrameRejected), Reply, the writer
(WriterTakes, WriterWrites, WriterFails, WriterStops), ReadFails, then the deferred
calls Remove and Release; HandlerPublish is a document handler. What `Hub.mu` protects
is one action, writes to the connection are separate actions. The websocket library is
external: it closes the connection when a write fails or times out, so that both
goroutines notice. The peer is modelled by what it got (`got`) and what it was last
told of each channel (`heard`); `due` is everything ever queued for it. What a goroutine
waits for is named (`ReadEnds`, `EventWaits`, `WriteEnds`, `Cancelled`, `WriterEnded`) and
is the guard of the steps that end the waiting.

`SiteFeed` is what a page may rely on: the events of the channels it is subscribed to, of
its own site and no other, in one order, none twice, first come first served; an event
that finds no room for a peer is not owed to it. The mapping takes `wants` from the
channel sets and `owed` from the writer's hand and the queue behind it.

### 2.6 RealtimeClient

One page's `RealtimeClient`. Tasks start when `stack` is empty; when a method calls
`setState` the rest of it is pushed on `stack` and any call of the application (On,
Off, CollectionSubscribe, Publish) may come before `Continue` pops it. The maps and
sets that `on` creates and its closure keeps are named after the `on` that made them,
which tells a stale set from a current one. The socket has the four `readyState`s and
null; Opened, Closing, Closed, CloseEvent, TimerFires are the browser's events. A frame
sent on a connection is in `heard` (subscriptions of this connection) or `sent`
(publishes). `Again` are the callbacks whose unsubscribe function may be called again,
which works on the map and the set of then; `Disturbed` are the channels on which that has
happened. `ClearTimer` is `clearReconnectTimer`.

### 2.7 ServeInstall

The sixteen remote commands are a table (`After`), each of which succeeds, fails with
no, part or all of its effect, or is left running by a killed ssh and takes effect
later (`LateCommand`) or never. `StopsBefore` is the check of the cancel flag at the
beginning of a phase. The rollback script runs on the host step by step, also when
the client has gone. `proc` is what the running service was started from; it may fall
over and be restarted by systemd at any time (ServiceFalls, ServiceReturns). `onPath`
is whether it executes the very file that is to be replaced: a copy onto it then fails
(ETXTBSY).

Assumptions: systemctl does what the rollback script asks of it (its file copies may
fail, and the script notes that); one installer at a time. No liveness is claimed: a remote command
can hang.

### 2.8 FrontEnd and the modules below it

One terminal process. `at` is the dialog or loop it is in, and each action is one
dialog with everything the code does between its answer and the next dialog.

- `ProfileConfig` has no state: what a profile file or a `quick.json` means (`Loaded`,
  `LoadFails`, `Find`, `Upserted`, `Full`), what a save can leave (`Write`: the new
  content, or after an error the old one, half of the new one, or nothing: the file is
  truncated and rewritten in place; `Lost` are the last two) and
  `Resolve`, which is `quick_deploy_plan_resolve` with its sources in order.
- `TuiApp`: terminal, signal handlers, `Modal` (a dialog that returns "dismissed" once a
  signal has come), the profiles in memory, the scaffold of `quick init`, the development
  server child.
- `Onboarding`: `Transition` is the table of `quick_onboarding_transition`; the local
  quickstart (Local*) and the host screens (Host*) follow it. An install ends in one of
  `InstallResults`, the ends of ServeInstall as the screen can tell them apart: done,
  refused or cancelled before any change (with residue of a cleanup or without), rolled
  back, or left half done. A rollback always reports residue (ops.c:4821), the users and
  directories it does not remove and the backup, so `RetryIsSafe`, which asks for none, is
  never true after one. `partial` remembers what the failed install left on the host.
- `Settings`: profiles edited in memory (`mem`), written on request, the unsaved
  decision, and `quick.json` of the directory (`draft`).
- `DeployFlow`: the questions, the plan, up to three attempts. An attempt is one step
  with the outcomes that the screen can tell apart; `Others` is another deployer.
- `Menu`: a menu as a record and a function per key, search, click and resize. The mouse
  works during a search as at any other time.
- `FrontEnd`: `tui_run_app`, its three dashboards, new site, serve, preview, and the
  composition. `MaxTrips` bounds how many screens are opened.

Assumptions: HOME is set, so that the profile file has a path (without one
`quick_op_serve_write_profile` reports success and writes nothing); a write that fails is
noticed at the latest when the file is closed (errors of `fputs` before that are not looked
at); `quick.json` is looked for in the directory and its parent, and the directories
given are the working directory and its children.

### 2.9 Commands and the modules below it

Up to three `quick` processes of a shell at once, on two hosts, with an editor that
changes files or `.quickignore`, and `quick.json` changing under them.

- `Invocation`: tokens in three readings, as the code has them: `Stripped` (args.c),
  `Validate` (commands.c) and `Value`, `Flag`, `Word` (the handlers). `Meant` is the
  reference: one reading from left to right. The handlers differ from it where an
  option is given another option as its value, which `Plain` sets apart. What runs over
  the tokens of a line (`Strips`, `Walks`) is a recursive function, with its step
  (`WalkOver`) by itself.
- `SiteAdmin`: delete, restore, rollback, public, domain, list and the sites screen.
  `Call` is an operation of `ops.c` up to its first word to a host, `Fetch` the status
  read before a confirmation, `Ask` the confirmation, after which `Call` resolves
  everything anew, `Send` the request with its four outcomes (carried out or not,
  answered or not). The host's part is one step (`Delete`, `Restore`, ...); SiteLifecycle
  and HostDeploy have its steps. `PathOf` gives archive paths their parts, so that sites
  whose names are prefixes of each other can be confused. `HostKeeps` is what a host can
  be when the commands start; `Archives` bounds the paths that a delete can make.
- `DeployCommand`: the dry run against the recorded manifest, and deploy as Build,
  Prepare, AskOverwrite, Transfer, Activate, RecordSuccess. `live` and `exact` remember
  what the last release of a profile holds and whether the record can be right.
- `Doctor`: the checks' order, cancellation, and the deep check with what each failure
  leaves on the host; `HostActivates` is an activate whose ssh is gone.
- `Commands`: `main`, the handlers, the processes.

## 3 The runs

All runs end in minutes. Counts are distinct states.

| Run | Specification | Instance | States | What it shows |
|---|---|---|---|---|
| `host_releases` | HostDeploy | 3 deploys, 1 rollback, Retain = 1, cleanup of one, which may also be overdue | 3.4M | links, catalog, rollback under crashes and an unlocked cleanup |
| `sessions` | DeploySession, fair | 2 sessions of two people, one ssh may detach, a toggle, an overdue upload | 233k | AtomicPublish is implemented, damage stays with its own release; sessions end |
| `detached_cleanup` | DeploySession | as above | – | counterexample, section 5 |
| `documents` | Documents | 4 requests of any method, with and without If-Match | 166k | patches, events, what is left in the end; DocumentRegister is implemented |
| `conflict` | Documents | 3 requests | – | counterexample, section 5 |
| `lifecycle` | SiteLifecycle | 2 operators, 2 deploys that may fail, 3 directories, 1 upload, 2 archives; overlapping and dying, or one at a time | 1.6M | no directory is lost or duplicated, uploads leave the disk only by a purge or by a delete that finds no directory; one at a time, uploads survive and the catalog agrees |
| `realtime_hub` | RealtimeHub | 3 connections for 2 seats, queue of 1, 2 events of two sites | 714k | seats, queues, no missed event, nobody stuck, broken connections leave; SiteFeed is implemented |
| `serve_install` | ServeInstall | no constants | 2.2M | recoverable, truthful, the service is the right one |
| `realtime_client` | RealtimeClient, fair | 3 callbacks on one channel (2 events), the function of one called again, 2 publishes, 2 breaks | 620k | callbacks, resubscription, order, the timer, reconnection |
| `front_end` | FrontEnd, fair | 5 starting points, 2 profiles, 2 directories, one screen with any answers, any keys and mouse events in the menu, one kind of signal | 315k | what is saved, retried, highlighted; every screen ends after a signal |
| `host_retry` | FrontEnd | as above, both signals | – | counterexample, section 5 |
| `commands` | Commands | every line of up to 3 chunks for one command at a time, 9 crowds of up to 3 processes, 3 starts | 215k | commands do what they say, deletes can be undone, the deep check cleans up, dry runs are exact |

### 3.1 Properties, one by one

The type invariants of the modules with proofs are theorems (section 4) and are not
checked again by TLC. Nor are five properties that follow from others of the same run:
OthersStayWhole from PublishesAtomically, ConditionalExact and AnswersTrue from
RegisterKept, DeliveredInOrder from FeedKept, RestoreDiscardsNothing from TreesKept and
OnlySweepLoses. They are theorems as well.

*HostDeploy.* `CurrentExists`: the link never dangles. `CatalogAgrees`: after
RecordDeploy the catalog's last deploy is `current`, although earlier commands died
half way. `PreviousUsable`: after a successful activate `previous` names another
release that is there, or nothing.
`CurrentTornOnlyBySweep`: the served
release loses files only to a cleanup of its own id. `RollbackIntact`: what a rollback
publishes is what was activated, or a cleanup of it ran between verification and swap.

*DeploySession.* `CurrentWhole` and `PublishesAtomically`: see 2.2. `OthersStayWhole`:
with detached sessions only their own releases can be damaged. `SessionsEnd`: a session
that started ends.

*Documents.* `ConditionalExact`: at the moment a conditional request changes the row it
has the revision the client named. `AckedPatchesKept`: as long as all patches are
conditional and nobody puts, an acknowledged field stays. `AnswersTrue`: success is a
commit, conflict is none. `EventsTrue`: an event carries a version the row had.
`FinalAnnounced`: when all is done, the version that stayed, or the removal, is among
the events. That it is the *last* event does not hold (publication follows no order),
and no document says so. `RegisterKept`: the handlers implement `DocumentRegister`, so
whatever the order of their statements, clients see each request act at one moment.

*SiteLifecycle.* `TreesKept`, `UploadsKept`, `CatalogAgrees`, `RestoreDiscardsNothing`:
see 2.4. `CatalogAgrees` says that a listed site has its directory and that a directory
with a `current` is listed; a directory that is neither is what a prepare leaves that
fails before its EnsureSite succeeded (`deploy.go:336`), so the row and the directory do
not simply go together. `UploadsKept` and `CatalogAgrees` are about histories that are
`alone`: a
delete that dies between its two renames is not resumed by running it again
(`deploy.go:372` archives the uploads only together with the directory), and without
the condition TLC shows the uploads deleted by the retry. `OnlySweepLoses` says what is
left without it: whatever overlaps, fails or dies, an upload that was answered leaves the
disk only when it is purged, or by a delete that found no site directory.

*RealtimeHub.* `SeatsExact`: a site's count is the number of its requests inside Serve.
`ListedIsOpen`: who is on the client list has an open queue. `DeliveredInOrder`: what was
queued for a peer is received, in the writer's hand or in the queue, in this order.
`NothingMissed`: a peer that was told "subscribed" and has room gets every later event.
`FeedKept`: the hub implements `SiteFeed`. `NeverStuck`: until a broken connection has left,
what one of its goroutines waits for is there. `LeavesSoon`: every step of theirs brings it
nearer to giving its seat back, and nothing that publishers or other connections do takes
it further away; `StepsLeft` is at most eight.

*RealtimeClient.* `ListenersKept`: a callback is reached from `on` to its unsubscribe
function and not afterwards. `Resubscribed`: on an open connection every channel
somebody listens to has been asked for. Both except channels where an unsubscribe
function was called twice, which can end a subscription of now (`Disturbed`, section 5);
that it never touches another channel is part of what they say. `PublishedInOrder`:
publishes go out once, in order, and none stays behind on an open connection.
`PublisherHears`: who listens to a channel and publishes on it is subscribed first.
`Rearmed`: between two tasks, work without a socket has a timer that will make one.
`Reconnects`: as long as there is something to do, a connection comes.

*FrontEnd.* `SavedIsVerified`: a profile that the screen calls verified is, field by
field, the one the doctor was given, as long as no failed save has spoilt the file before,
and the host in it is the one that was reached, unless QUICK_REMOTE names another.
`PersistsTheCandidate` says the first without its condition, as the code's comment does,
and is violated (section 5). `NoRetryOverPartial`: once an install has changed
the host and failed, the form does not open again in that visit, over a half installed host
or over what a rollback leaves, and the host is never called unchanged; a half installed
one is never called restored. `SavesOneProfile`: no save carries along
edits of another profile that were discarded or left in memory, from a file that is whole
to one that is. `HighlightShown`: after
any key or mouse event the highlight is on a row that exists and is drawn. It comes to one
that cannot be chosen only when a search ends whose hits the mouse has moved it among, and
stays there only until it is moved, which is not what the user's guide has (section 5).
`SignalEnds`: after a signal the process ends, whatever dialog it is in.

*Commands.* `DoneAsAsked`: what hosts carry out for a process is at most one thing, the
one its line asks for when each token is read at its place, on the host of the profile
it names, with `--yes` or the typed name where a confirmation is due; a process that
refused never reached a host, and one that says ok did. `Undoable`: the archive of a
delete is accepted by restore for that site and no other. `DoctorCleansUp`: an ended deep
check has removed its directory, is "ok" only when its site is gone, and says so when the
site stays. `DryRunExact`: a dry run names exactly the files in which the directory
differs from the last release of the profile, if that one was recorded from files that
had not changed meanwhile. With `--no-delete` it only names those that are added and
changed: the next release drops the others all the same, and the dry run does not say so
(section 5). On a line with an option for another one's value
`--no-delete` may be read otherwise than it was meant, so what a dry run says of removed
files is only stated for the others (`Plain`).

*ServeInstall.* `Recoverable`: while the host differs from what it was there is a
complete backup. `RestoredOrTold`: an install that did not complete left the files as
they were or reports a failed rollback; only files of commands left running may differ.
`ServiceRestored`: after a reported rollback the service runs from the old files, or
not at all. `CompletedIsNew`: after a reported success everything is new, and no
process of the old installation goes on.

### 3.2 Bounds and why they are enough

- *host_releases*: with Retain = 1 a third deploy is needed for pruning while a rollback
  has made an older release current; both are there. `d2` and `d3` are interchangeable,
  `d1` is not (it is the one that is swept). Two rollbacks add nothing to one that may
  crash and be followed by a deploy, as both hold the lock from verification to record.
- *sessions*: two sessions meet in every pair of steps; a third would meet the same
  lock. One upload outlives 24 hours and may be swept, the other is dynamic and meets
  the toggle. Symmetry is off (liveness).
- *documents*: the longest pattern is a read, a foreign write, a foreign removal and a
  new creation: three requests besides the victim.
- *lifecycle*: two archives and the live place hold at most three directories, so there
  are three; they let an archive be restored onto a site made anew, and a name that is
  taken be met. Two operators race for one archive, two deploys for one directory. One
  upload and a directory without files are what two restores of uploads can mix up.
  Operators, deploys, trees, archives and uploads are told apart only by their sets, hence
  the symmetry.
- *realtime_hub*: three requests compete for two seats; a queue of one is full after one
  event, with another in the writer's hands; two frames are a subscribe and an
  unsubscribe or a publish. Document handlers publish on a second site too.
- *realtime_client*: three callbacks are two for one event and one for another; the one
  whose function is called again shares its event with one and its channel with both. Two
  publishes show order; two breaks show a break while the first one is being repaired. That
  channels do not disturb each other is left to the proofs.
- *front_end*: screens share the profile file, the memory and the directory, and each
  reloads the file when it opens; one screen after any start therefore meets every file
  the previous one can leave, and the starts are those files. The signal is SIGTERM:
  SIGINT differs only in the code that `tui_run_app` returns. In the menu one trip is
  enough because opening it forgets the last one; 4 rows scroll, 12 do not. A search has one
  letter: `e` is in most labels, so that the mouse can go far down the hits, `v` in one or two
  of each dashboard, `z` in none.
- *commands*: three chunks are a word, an option with its value and one more of any kind,
  which is where words and values can be mistaken; tokens are strings, and every token is
  also a site's and a profile's name. The crowds pair what can meet: delete with restore
  (asked and not), two deletes with a deploy, two rollbacks with a toggle, the screen with
  the shell, a deploy with dry runs. One edit may fall anywhere. The profile file does not
  change: handlers read it once.
- *serve_install*: the state space is finite without bounds. `Init` covers every subset
  of the four files that an earlier install may have left.

`CHECK_DEADLOCK FALSE` is set where the inputs are bounded: when every deploy, request,
operator or connection of the instance has had its turn the system really has nothing
left to do. Waiting that should not last is what SessionsEnd, NeverStuck, LeavesSoon,
Rearmed, Reconnects and SignalEnds are for.

### 3.3 Fairness

- DeploySession: weak fairness per command on the host, for commands that were started
  (a process the kernel schedules runs to its end), and for the local side. Crashes,
  cleanups and new commands are not owed, nobody has to press Ctrl-C, and a transfer is
  owed an end, not success. Weak fairness of the lock step suffices, because each holder
  is owed its own steps and commands are finitely many.
- FrontEnd: once a signal has come the process goes on by itself, since no dialog waits
  for the user then (`~Attentive /\ Process`); nothing is assumed of the user before.
  A signal in the instant between `tui_interrupted()` and `wgetch` (tui.c:1000) is only
  seen at the next key, which the model takes as pressed.
- RealtimeClient: callbacks return, a handshake or a closing handshake ends (with
  success or failure), the close event is delivered, timers fire. Nothing is assumed of
  the application.
- The other specifications state no fairness; their properties are safety. In the hub
  `NeverStuck` and `LeavesSoon` take the place of liveness: a broken connection can always
  go on, and is at most eight steps of its own from `gone`.

## 4 The proofs

TLAPS proves the following for all values of the constants that satisfy the
assumptions named in the modules.

| Module | Theorem | States |
|---|---|---|
| DeploySessionProofs | TypeCorrect, LockOwnership, CurrentNeverDangles, ServedReleaseKept, CatalogFollowsCurrent, RollbackStaysPossible, RollbackPublishesVerified | TypeOK, LockOwned, CurrentExists, CurrentTornOnlyBySweep, CatalogAgrees, PreviousUsable, RollbackIntact |
| | SessionsUseTheHost, SessionTypeCorrect, ServedWhole, PortalServesWhole, SessionsPublishAtomically | HostDeploy's Spec, SessionTypeOK, OthersStayWhole, CurrentWhole, PublishesAtomically |
| DocumentsProofs | TypeCorrect, ConditionalWritesExact, AnswersAreTrue, EventsAreTrue, NoLostUpdate, LastVersionAnnounced, DocumentIsRegister | TypeOK, ConditionalExact, AnswersTrue, EventsTrue, AckedPatchesKept, FinalAnnounced, RegisterKept |
| SiteLifecycleProofs | TypeCorrect, NoTreeLost, RestoreLosesNothing, OnlySweepLosesUploads | TypeOK, TreesKept, RestoreDiscardsNothing, OnlySweepLoses |
| | SerialUploadsKept, SerialCatalogAgrees | UploadsKept, CatalogAgrees |
| RealtimeHubProofs | TypeCorrect, SeatLimit, NoSendOnClosedQueue, Fifo, SubscribersMissNothing, NobodyStuck, BrokenLeaveSoon, HubKeepsFeed | TypeOK, SeatsExact, ListedIsOpen, DeliveredInOrder, NothingMissed, NeverStuck, LeavesSoon, FeedKept |
| ServeInstallProofs | TypeCorrect, HostRecoverable, RestoredOrReported, CompletedReplacedAll, RollbackRestoresService | TypeOK, Recoverable, RestoredOrTold, CompletedIsNew, ServiceRestored |
| RealtimeClientProofs | PublishesKeepOrder, CallbacksKept, SubscribedAgain, PublishersHear, AlwaysRearmed | PublishedInOrder, ListenersKept, Resubscribed, PublisherHears, Rearmed |
| CommandsProofs | ReadingsAgree | the handlers' reading of a line is `Meant` |
| | DeepCheckCleansUp, DoesAsAsked, DeletesAreUndoable, DryRunsTell | DoctorCleansUp, DoneAsAsked, Undoable, DryRunExact |
| FrontEndProofs | VerifiedIsSaved, OneProfileSaved, NoRetry, MenusShown | SavedIsVerified, SavesOneProfile, NoRetryOverPartial, HighlightShown |

The arguments:

- **HostDeploy.** `CurrentExists` is not inductive: pruning removes releases. `IInv` adds
  that exactly the holder is between lock and unlock (`LockOwned`), that the target of a
  swap exists (`SwapTargetExists`), that `current` is not among the doomed
  (`CurrentNotDoomed`) and that nothing is doomed outside pruning
  (`DoomedWhilePruning`). With the lock, the choice of the doomed cannot be overtaken by
  a swap; cleanups never remove a release's directory, only its contents. `QInv` adds
  what the holder of the lock has published so far (`Published`: the link, then the
  catalog), that its own release cannot be what it leaves in `previous`
  (`PreviousLeft`), and that the target a rollback verified is as it was or is being
  swept (`TargetIntact`); CatalogAgrees, PreviousUsable and RollbackIntact follow.
- **DeploySession.** Every step of a session is a step of HostDeploy or leaves the host
  alone (`SessionsUseTheHost`), so IInv and QInv hold. For a session whose ssh cannot
  detach, `Guarded` ties its upload and its release to where it is: nobody sweeps it, it
  is not overdue, it is complete once the transfer has answered and when it was hashed.
  With `TargetWhole` for rollbacks and OthersStayWhole itself this is `WInv`. The
  refinement of AtomicPublish then goes step by step: only the two swaps change `live`,
  to a release that is whole, and only a transfer's end, pruning and cleanups change the
  shelf, never the live one. There is no hypothesis on `Interruptible`: its sessions'
  releases count as complete in the mapping, as they do for TLC.
- **Documents.** A handler reaches its transaction with the version whose revision the
  client named (`SeenMatches`), and the transaction compares that version with the row.
  `AInv` adds that a commit counts its request, that row and answers are in the history
  and that the feed only has finished publishers. AckedPatchesKept needs that the row
  holds the field of *every* committed write, acknowledged or not (`FieldsKept`), because
  a patch merges with the version it read and only commits over that version.
  FinalAnnounced needs to know at every moment who has told of the row as it is or is
  about to (`Told`): a later commit takes the duty over from an earlier one. The refinement
  of DocumentRegister goes action by action. A transaction compares whole versions and the
  abstract object revisions, so `VInv` adds that a revision tells the version
  (`StampTells`), that what a handler has read is in the history (`SeenSoFar`), and that
  only writes without If-Match read again (`ReadsBack`).
- **SiteLifecycle.** `TreesKept` needs to know who has a directory in hand: archives in
  use are named and distinct (`ArchivesNamed`, `FreshEmpty`), only their owner fills
  them (`FillsAlone`, `RestoresAlone`), and a restore that took the site out has an
  empty box (`SiteTakenOut`, `UploadsTakenOut`); together `CInv`. `PInv` is the place of
  each tree: not made and nowhere, or made and in one place, and only a tree that was made
  has a `current`. A rename fails when its target is there, which is what keeps two trees
  apart, and a directory is made only where there is none. UploadsKept and CatalogAgrees
  are about histories that are `alone`; outside of them they do not hold (section 3.1).
  `UInv` says at each step of the one command under
  way where the site, its uploads and its row are (`CommandAt`), which is what an undo in
  the middle of a restore relies on, what a deploy knows of the row by then (`DeployAt`), and
  that they agree when nobody is at work (`InStep`, which adds to CatalogAgrees that there
  are no uploads without a directory).
  OnlySweepLoses needs none of this: a command moves uploads only to where there are none
  (`EInv`), because only its owner fills an archive (`FillsAlone`) and a restore that took
  the uploads out left an empty box (`UploadsTakenOut`).
- **RealtimeHub.** `SeatsExact` counts the members of a finite set: each step moves at
  most one connection in or out. `ListedIsOpen` follows from Remove taking the client
  off the list in the step that closes its queue, under the mutex. Order: the queue is
  written only at its end and read only at its head, and only while open.
  `NothingMissed` needs that an acknowledged subscription is in `client.channels` until
  the client's own unsubscribe is being answered. NeverStuck needs that a connection has
  both goroutines while it is open or closing (`WriterStarted`); LeavesSoon is then a case
  per action. The refinement of SiteFeed goes step by step: a publish appends to the queue
  of some subscribers, and a write that succeeds delivers what the writer holds, which is
  at most one event (`HandOne`) and the oldest that is owed.
- **ServeInstall.** `BInv` says in which phases the backup is complete, that a command
  left running is one of the phases passed (`LateOnes`) and which side of the first
  mutation the result records (`Sides`). `RInv` adds how far the rollback script has
  restored the files (`RestoredSoFar`) and that its status is what was reported
  (`Verdict`). `CInv` follows the script forward: which files are new, whether systemd has
  read the unit and what a running process was started from when the client gets to each
  command (`NewAt`), a restart in between by systemd included. `SInv` follows the rollback
  backward: what has become of the service at each of its steps as long as no step
  failed and no command was left running (`ServiceSoFar`).
- **RealtimeClient.** The invariants speak of the stack, because a state callback may call
  the client in the middle of a method. `Sending`: a method that waits and will send finds
  the socket it was called for. Order (`OrderInv`): each publish is in one place, sent,
  queued or in the frame of a call that waits (`OnePlace`, `OneFrame`), those whose call
  found nothing waiting never get lost (`NoneLost`) and keep their order within and
  between the places (`InOrder`). The registry (`Registry`): what an unsubscribe function
  holds in its closure is what `on()` would find today, unless the channel is disturbed
  (`OnIsFound`), a callback is in no other set (`InOneSet`), and a map is of one channel for
  ever (`MapsOfChannels`), which is why a second call of a function cannot reach another
  channel. Subscriptions: what is listened to is in `channelSince` (`Wanted`), and on an
  open socket that has been sent or is about to be (`AllHeard`). The timer (`Armed`):
  work without a socket has the timer or a waiting frame that will set it; between two tasks
  no frame waits, which is Rearmed. The theorems hold for every set `Again`.
- **Command lines.** A line has any length, so the lemmas about the walk over it are
  inductions. A set of naturals that is not empty has a least element (`LeastNatural`,
  from the well-founded order of finite sets), and so there is a least place at which the
  walk, the stripped line or the n-th word would be wrong, and the step to it is one
  application of `WalkOver`. `AcceptedWalk` then says what the table-driven check leaves:
  every option before `--` is one of the table, and has its value. On such a line, with no
  option for a value, the handlers' own search finds what the walk finds (`ReadingsAgree`).
- **Commands, the doctor.** What a doctor may have made depends on where its process is
  (`Good` in `DoctorInv`): nothing before the deep check and in every other command
  (`Clean`), nothing live until the activate has been asked for (`Unpublished`), anything
  until the delete is answered, and after it only what the result names (`Told`). An
  activate whose ssh is gone may finish after the end: where the delete failed that is
  told, and where it did not, nothing is left to activate. The processes of one shell touch
  no other's doctor, so one process is followed at a time (`OneMoves`).
- **Commands, what is carried out.** DoneAsAsked only looks at the end; `Inv` follows each
  process on its way there. `Goes`: the request is the one its handler made of the line,
  with at most the confirmation added, a confirmation is the name that was typed, and a
  process that sends was not due another question. `PlanHas`: the plan names a host and a
  label, and the ones that were asked for (`Fits`); both are needed because the second call
  after a confirmation resolves everything anew. `Results`: nothing has been done, or one
  thing, at the end, and it is what the handler asked for (`Did`). `NothingToDo`: who says
  ok without having done anything had nothing to do. `SameKeeps` shows that no step of
  another process, of the editor or of `quick.json` disturbs this. `ReadingsAgree` turns
  what the handler read into what the line says (`AskedIsRequested`, `DidAsAsked`).
- **Commands, undo.** `HostsInv` says that whatever is in a trash has the name that a
  delete made of its site; such a name tells the site, because the last of its parts is the
  time (`NameTellsSite`).
- **Commands, dry runs.** `DataInv`: where `exact` says so, the record of a profile holds
  what its last release holds. It needs that the files an upload sent are the ones that
  will be listed again for the record as long as nothing was edited since, and that a
  record of one's own release is not taken for somebody else's (`live[n].by`).
- **FrontEnd.** Sixty actions share a handful of variables, so `Inv` speaks of few screens,
  and the steps are sorted by what they can disturb (`Quiet`, `HostMoves`, `HostSaves`,
  `SectionMoves`). `HostFresh`: the host screens have in memory what is in the file, unless
  a failed save has spoilt it. `CandidateIs`: where a profile is about to be saved, the
  candidate is the form as a save to that memory would leave it (`CandidateIsWritten`), and
  a doctor that succeeded has resolved its plan to the form's host (`PlanReaches`); so what
  is saved as verified is the candidate. `PanelOf`: in the profiles section only the profile
  of the panel differs from the file, which is why a write from there changes no other. A
  write of the host screens starts from the file itself. `PartialKept`: where a failed install
  has changed the host, the model of an install flow has recorded that, and residue if it
  was rolled back, which is what `host_retry_is_safe` looks at, and no screen that could
  try again is open.
- **Menus.** `MenuOk`: without a search every item is visible, with one no more than those,
  and the highlight is on a row that is there (or the first, when nothing is found). So it
  is on a row that is there also after the search, which keeps its number; `Strays` says
  when that one cannot be chosen: only where it was so before, or where the search ends
  with another hit highlighted than the first, because the first item of every dashboard
  can be chosen. Every key and mouse event keeps both (`KeyedOk`), and drawing moves the top
  row to where the highlighted one is seen (`InView`, `ShownOk`). The hits of a search are
  counted like the words of a line (`NthPlace`).

What stays with TLC is liveness: `SessionsEnd`, `Reconnects` and `SignalEnds`, which are
out of this prover's reach. Every other property of a passing run is a theorem.

None of the modules declares a RECURSIVE operator, so all can be proved about.

The assumptions on constants are facts about names and data, not about behaviour: every
token can be the name of a site or of a profile (`CrowdAssumption`), a label can be put
together again from its words (`PathAssumption`), a version is its size and its hash
(`VersionAssumption`), a file that cannot be read is no configuration and a profile is no
empty string (`FileAssumption`), a menu has a row (`FrontEndAssumption`), and the files and
hosts at the start are ones the program writes (`WorldAssumption`). TLC evaluates them on
every run.

## 5 Where code and documentation disagree

Each of the first three is shown by a run of its own, which TLC ends with a counterexample;
the last two are written into the models and into the properties they limit.

1. `src/core/ops.c:1658` (run `detached_cleanup`). `docs/user/quick-deploy.md:121`: "a
   browser sees either the previous complete release or the next complete release". When
   the ssh of an activate is killed by Ctrl-C in the terminal UI or loses its
   connection, `quick` runs `quickd deploy cleanup` while the activate may still run.
   `CleanupIncoming` takes no lock, so it can empty the tree while or after it is hashed,
   renamed and published. `sessions` shows the damage stays with that release.
2. `server/internal/api/handler.go:314` and `:392` (run `conflict`).
   `docs/user/sdk.md:133`: stale revisions fail with status 409 and code
   `revision_mismatch`. PUT and DELETE declare a second `err` (`current, err :=`,
   `old, err :=`), so the error of the conditional write in the inner block is not the one
   tested after it: the handler publishes an event and answers with success although
   nothing was written. The document itself is safe (`ConditionalExact`).
3. `src/tui/tui_screen_host.c:896` (run `host_retry`). The comment at line 837: "Connect
   (no install): verify an in-memory candidate before persisting". The candidate is made of
   the profiles in memory, the profile that is saved is made of the file, and
   `quick_op_serve_write_profile` does not mind that the file may not load (`ops.c:5661`).
   After a save that failed half way, "Edit the settings and try again?" does not reload
   the profiles: the doctor checks the profile with the base_url and base_domain of before,
   the profile is saved without them and without the other profiles, and the screen says
   that it was saved and verified. `SavedIsVerified` states what holds otherwise.
4. `server/internal/deploy/deploy.go:311` (`Transfer`, which does not look at the flag).
   `docs/user/quick-deploy.md:16` and `docs/design/WORKFLOW.md:214`: "`quick deploy --no-delete` # do not mirror deletions
   into the release". Every deploy is sent into a staging directory of its own that is
   empty at first; `--link-dest` only saves the transfer of files that are sent, and
   leaving out rsync's `--delete` has nothing to act on (`WORKFLOW.md:313` itself notes
   that `--delete` is about the staging directory). A file that is not in the output
   directory any more is therefore gone from the next release with the flag as without
   it, while the dry run of such a line names no file as deleted
   (`src/cli/commands_deploy.c:661`). `DryRunExact` states what dry runs tell otherwise.

5. `src/tui/tui_menu_model.c:108` (the exception that `HighlightShown` makes).
   `docs/user/tui.md:28`: "`Enter` selects the highlighted item", and `src/tui/tui_menu.h:53` of separators: "navigation
   skips silently". During a search the wheel and clicks move the highlight among the hits,
   since `tui_show_menu` (`tui_menu.c:724`) calls `menu_handle_mouse` without looking at the
   search. Esc, or a backspace to an empty query, makes all items visible again, and
   `menu_state_apply_filter` returns before it would look for a row that can be chosen: the
   number of the row stays. It can be a separator's, where Enter only beeps, or another
   item's than the one that was highlighted. `HighlightShown` states what holds otherwise.

Not counted as disagreements, because no document promises otherwise, but met while
modelling and kept in the models as they are:

- a retried delete that loses uploads (`deploy.go:372`), a restore that does not bring
  back the rows of uploads, domains or the public flag (`store.go:428`), a purge that has
  opened an archive that is being restored (`deploy.go:493`);
- a prepare that fails after it made the site's directory leaves one that no row lists
  (`deploy.go:336`), and an activate that comes after a delete makes a new directory with
  nothing in it but `deploy.lock` (`deploy.go:782`), which then is in the way of a restore
  (`deploy.go:405`);
- `sites public` overtaken by a deploy (`main.go:555`), and the overwrite confirmation
  that is stale when the upload is activated (`deploy.go:294`);
- a rollback is recorded as deployed by `rollback:<name>` (`deploy.go:574`) and a restore
  by `restore`, so that the next deploy of the same user asks whether to overwrite
  somebody else's site (`ops.c:1105`);
- a rollback whose answer is lost and that is tried again toggles back;
- a confirmed call that goes to another host, when `quick.json` changed while the
  question was open (`ops.c:2029`);
- an option's value that is itself an option is also taken as a flag
  (`commands_openquick.c:34`): `rollback --to --yes` needs no confirmation, but its
  release is refused (`ops.c:2178`);
- the profile that an install writes replaces a file that could not be parsed
  (`ops.c:5661`), also where nothing was verified;
- the terminal's doctor drops what an interrupted run found out, "cleanup failed"
  included (`tui_screen_doctor.c:199`); the shell's doctor is killed by Ctrl-C and leaves
  its directory and its site;
- deploys of the terminal UI write no manifest, and manifests are kept per profile, so
  that a dry run after them compares with an older deploy (`commands_deploy.c:405`);
- a retry after an install that was rolled back is never offered, because the rollback
  always reports residue (`ops.c:4821`, `tui_screen_host.c:649`); an install cancelled
  before any change says "Nothing changed." also when a cleanup has left residue
  (`tui_screen_host.c:572`);
- a rollback of the installer that cannot replace the binary of a running service and
  therefore reports failure (`ops.c:4779`);
- an unsubscribe function called twice that removes other callbacks (`index.ts:505`), an
  `open()` that never returns on a closing socket (`index.ts:549`), callbacks that stay
  registered after a failed `subscribe()` (`index.ts:764`), an identity promise that
  stays rejected (`index.ts:434`);
- a rejected subscribe whose error does not name the channel (`hub.go:88`), pragmas set
  on one connection of the pool (`store.go:203`), times compared as text
  (`store.go:352`), a release pruned between resolving and opening (`static.go:804`).

## 6 What is not modelled

- *Static serving and routing*: read-only functions of a request; the one race (a
  release pruned between resolving `current` and opening a file) is a hazard.
- *HTTP pipeline* besides the document writes: same-origin check, limits, filters,
  cursors, upload routes.
- *Rate limiting, AI gateway, warehouse, identity*: one request, one answer; the windows
  and the quota are planned.
- *Configuration of quickd, output settings, zip import, manifest and signatures*:
  functions of their input. In HostDeploy hashing and signature are abstracted to whether
  the tree is the one that was hashed. JSON text is abstracted to its fields, or Malformed.
- *Command line*: the JSON request on stdin, `config show`, `opencli`, help and completion
  only print; `init`, `open` and `serve` of a shell call operations that FrontEnd and
  ServeInstall model. A path or an archive given to `quick deploy` is left out, as are
  options that only change output.
- *Terminal UI*: drawing, key decoding, toasts, help and the host statistics. In FrontEnd
  the sites and doctor screens are trips that come back; Commands has their operations.
- *Doctor*: what a single check looks at is a free choice of its result.
- *ignore patterns*: rsync's; a rule hides a file or does not.
- *Examples, editor extension, repository automation, the curspan tool*: not part of
  the running system.
- Times are an order, names and contents are model values, SQLite's statements are
  atomic and fail as a whole.

## 7 Plan

In order of weight; each with the modules it needs and what is to be shown.

1. **Static serving** composed with HostDeploy: a request that resolved a release while
   two or more deploys prune; previews, `current` of a site being deleted.
2. **HTTP pipeline**: uploads with limits and quotas, body limits, listing with cursors
   (times as RFC 3339 text that does not sort as time), as an algorithm against a
   reference definition.
3. **Rate limits and quota**: fixed windows under a clock that crosses a boundary, the
   AI counter's transaction.
4. **Configuration of quickd** and the headless JSON request: one request, the same
   dispatch as a command line.
5. **Identity**: the key cache with concurrent refreshes, token expiry; the SDK's
   identity promise and its AI stream parser.

Abstract specifications worth adding: a log per channel that hub and client together
implement (SiteFeed is the hub's half), and a release directory as a switch between
releases, as an operator sees it.

## 8 How to run

    tlc -workers 2 -config MCHostReleases.cfg MCHostDeploy.tla
    tlapm DeploySessionProofs.tla

`runs` in `PROJECT.json` lists each configuration with its module. The three runs marked
as counterexamples end with an error trace.
