# A TLA+ model of xoa-proxy

xoa-proxy is a small HTTP service in the control domain of a hypervisor host. XAPI's
`VM.import` asks it for `/image.xva?src=<url>`; it fetches the image over HTTP or
HTTPS, decompresses it if need be, and streams the plain image back. It runs on
demand: systemd holds the listening socket, the first connection starts the process,
and the process leaves after 60 seconds without work.

The data path is a straight line. What is hard is *when things end*: a request may be
given up at any await, the counter that keeps the process alive and the lock that
admits one import are both released by destructors, an idle timer races new requests,
a shutdown races all of them, and the socket outlives every process. Around it stand an
RPM whose scriptlets replace a running service, and a workflow that publishes the RPMs. That
is what the modules model, check and prove about.

## The system

| part | code | state | operations |
|---|---|---|---|
| activity counter, idle timer | `src/src/lifecycle.rs` 43-128 | a `usize` in a watch channel; RAII guards; where the idle future is suspended | `enter`, guard `Drop`, `idle`, `track`, `ActiveBody` |
| image handler, import lock | `src/src/handler.rs`, `stream.rs`, `error.rs`, `state.rs` | `import_lock`; the stage of each request | validate, probe, `try_lock_owned`, fetch, stream, drop |
| service | `src/src/main.rs`, `packaging/xoa-proxy.{service,socket}` | the process; its connections; was the signal seen | accept, read, serve, idle exit, signal, drain, crash, restart |
| detection and pipeline | `handler.rs` 63-133, `stream.rs` 54-253 | the format and the bytes of one import | extension, HEAD probe, client choice, gunzip, count |
| startup | `main.rs` 50-117, `config.rs`, `lifecycle.rs` 20-41 | environment variables, the clock | open the log, `Config::load`, build clients, `listener`, arm the timer |
| package upgrade | `SPECS/xoa-proxy.spec`, `ci/fixtures/xoa-proxy-0.1.2.spec` | enabled and active units, owner of port 9001 | `%post`, `%preun`, `%postun` of two packages |
| package site | `pages/build-site.sh`, `pages-repo.yml` | promotion record, releases, the runs of the workflow, the deployed site | trigger, read the record, build, deploy |
| logging, CI benchmark | `main.rs` 52-70, logrotate, `ci/` | none that the program reads | |

How they interact: `track` wraps the router, so a request enters the counter before
the handler runs; the handler's response, with the import lock inside its body, is
wrapped in an `ActiveBody` that owns the counter's guard; hyper drops that body when
it is written out or the client is gone. The idle future watches the counter through
the channel and ends `axum::serve`'s shutdown future, which every connection's task
watches in turn. systemd starts the process when something is queued on the socket and
restarts it when it fails.

What makes each part correct:

- counter: never leaks, never underflows; the timer neither fires under a request nor
  misses the end of the last one;
- handler: one import at a time; the lock is free again on every way out; 409 means
  busy;
- service: the three views of a request (connection, counter, handler) agree, no process
  stops while it owes an answer, an unused one stops and so does one that was told to, a
  queued client is served;
- detection and pipeline: the bytes relayed are the image, decompressed exactly once;
  a transfer cut short does not look complete; certificates are checked at every hop;
- startup: a listener comes from exactly one place; every idle window works;
- upgrade: no import is interrupted, the endpoint is handed over and is up at the end;
- site: it never goes back, ends up as the promotion record's, and keeps what hosts may still
  ask for.

## Modules

Names follow the source. The runtime is `current_thread`, so nothing runs between two
awaits: one action is the code from one await to the next. Definitions whose comment
begins with "mutant" are faulty variants of the definition below them. They take no
part in the specification; each is a bug the property it is paired with in
`PROJECT.json` does catch.

**`Activity`** is lifecycle.rs. `guards` is the set of live `ActiveRequest` values and
`active` the number in the channel; that they agree is a theorem, not a definition.
`changed` is the receiver's version against the channel's. `Look` is one round of the
loop in `idle` up to the await it suspends at; `Subscribe`, `Wake` and `Expire` are the
polls. `elapsed` is the timer. `quiet` is a history variable: how long it has really
been since a guard was alive. Time is `Tick`; both clocks stop counting at
`IdleTimeout`, the only value the code compares with. Polls and ticks interleave freely,
so the timer may be due while a send has not been seen: that is the race `biased`
decides.

**`ImageHandler`** is `handle_image_xva` with `fetch_xva_stream` and the drop of the
body. `pc` is the await a request stands at: `probing` (HEAD), `fetching` (upstream
GET), `streaming` and `replying` (the body is being written). `lock` is the *set* of
requests that own an `OwnedMutexGuard`, so that mutual exclusion is something to show.
What the upstream and the client do is a choice. `FetchAnswered` includes the HEAD
request on the proxy itself: axum runs the GET handler and strips the body, which drops
the guard.

A method other than GET and HEAD is answered 405 by axum's router, inside the counter and
without the handler; for the lock it is the 404 of `Start` under another number.

**`ImportPipeline`** is the data side of one import: the choice of client, `detect_format` and the
pipeline of `fetch_xva_stream`. A request and an upstream are records chosen in `Init`: where
`src` points, what its path ends with, `verify_ssl`; whether the body is packed and how much of
it is in the first gzip member, whether its end is marked (Content-Length, chunks) or is the
close of the connection, what the headers claim, the two statuses. The image is `Blocks` blocks.
The upstream is an actor of its own: it sends blocks (`Supply`), ends its body, or breaks off
anywhere; the pipeline follows behind, and what is handed to the client is a sequence of blocks,
each plain or packed. The stages are those of `ImageHandler`, which has them for many requests
with the lock; this module has one request and the bytes. An answer below 400 that is not the
file (`"other"`, a 3xx without a Location) is relayed and counted like any other; its blocks are
not the image's. From the libraries it takes:

- hyper reports a loss of the connection as an error where the end of the body is marked; where
  it is not, the loss may pass for the end (over HTTP/1, the only version the features in
  `Cargo.toml` include);
- `GzipDecoder` is done at the end of one member and reads no further (async-compression's
  default), fails on an input that ends before, and on what is not gzip;
- an error in the body closes the client's connection;
- reqwest follows redirects, to any host, with the client it was called on; giving up after ten
  is one of the failures.

**`XoaProxy`** composes `Activity` and `ImageHandler` on its own variables (`Act`, `Hnd`) and adds the
process, the connections and systemd. A connection is `queued` in the socket's backlog,
`open` (accepted, unread), `head` (partly read), `serving`, `kept` (keep-alive), `away`,
or `cut` (closed by the process unread). Clients write their request as they connect.
`activated` is chosen once: socket or standalone mode.

What it takes from outside the repository (axum 0.7, hyper 1, systemd):

- `axum::serve` polls the shutdown future in a task of its own; the accept loop is a
  `select!` over accept and that signal without `biased`, so a connection may still be
  accepted after the signal; it then drops the listener and waits for all connections;
- each connection's task, on the signal, calls hyper's `graceful_shutdown`: a connection
  from which nothing was read is closed, an idle keep-alive one too, any other finishes
  its request with keep-alive off (`told`);
- hyper drops the handler or the body when the client disconnects, and sets no timeout
  on reading a request head;
- reqwest sets no timeout unless asked, and the code does not ask;
- systemd watches the socket only while the service is down; the backlog survives the
  process. A SIGTERM that comes before the handlers are installed kills the process; the
  model counts it as a crash.

`Forget` is the end of a process's memory; `Exit` and `Crash` include it.

Two simplifications. `Release` drops the handler's body and the counter's guard in one action, as
no await lies between them; the order of the two drops cannot be seen. And axum strips the body of
a reply to a HEAD request outside `track`, so the counter's guard goes when the reply is built, while
the model keeps such a request counted until its reply is written. In the code the idle window
thus opens a little earlier; a shutdown that it leads to still finishes the reply.

**`ImportService`** is abstract: what a client may rely on, with nothing of how. A server is up,
down or restarting; a client is away, waiting, cut off, asking, importing, refused or answered.
At most one imports; a refusal needs one that does; a server stops only when it owes nobody an
answer; on demand it starts only for somebody who waits. `ImageHandler` implements it with a
server that is always up, `XoaProxy` with `demand <- activated` and each client's phase read off
its connection and the stage of its request (`Seen`, `Phase`). The mapping says where the
atomic step is: an import is admitted where `try_lock_owned` succeeds, not where its bytes
begin.

**`Startup`** is `main` until its shutdown future first waits, over every environment a process can
find. A numeric variable is the number it spells, -1 for none; `PortMax`, `SecondsMax` and
`ClockMax` are the widths of `u16`, of `u64` and of the seconds in an `Instant`. `XoaProxy` takes from
it that `activated` is fixed and `IdleTimeout` positive. The panic of `Instant::now() + timeout`
is a step of `Arm`: it ends the task in which axum polls the future, the server takes that for the
signal, and drains. (`Cargo.toml` leaves panics unwinding.)

**`Upgrade`** runs the scriptlets of `SPECS/xoa-proxy.spec`, as a list of systemctl commands in rpm's
order, against the two units. `from` is what was installed: nothing, the always-on package of
`ci/fixtures` ("legacy"), or this one. Each command is a step, so the service may crash, exit, be
started by a connection or be stopped by an administrator between any two. It takes from outside
the repository:

- rpm runs the new %post, then the old %preun and %postun;
- systemd refuses to start a socket whose service is running or on its way down; `is-active`
  says no to a service that is deactivating or waits for its restart; `try-restart` leaves alone
  one that is inactive or deactivating; `stop` and `try-restart` wait for their job;
- `Requires=` and `After=` pull the socket in when the service starts, and stop the service
  before the socket;
- a stop that outlasts `TimeoutStopSec` (90 seconds unless the unit says otherwise) kills.

A service that drains may still begin an import: a request accepted before the signal takes the
lock when its probe is answered (`ImportBegins`).

**`PagesPublish`** is the workflow and the script together. `record` is stable.json, `run` what each
run has read and built, `queued` the run that waits for the concurrency group, `site` what is
deployed. `cached`, `owed` and `lost` are history variables: what any host may have seen listed,
whether something happened since the last trigger, and whether a waiting run was cancelled by
one that does nothing. A release stands for its RPM; that names differ is what the run number in
`Release:` is for. The life of a release in the record (`Successors`) belongs to prod/promote, which
is not in this repository. From GitHub it takes that a workflow's run joins its concurrency group
before its jobs' conditions are looked at, that a group lets one run in and keeps one
waiting, and that the newest to wait cancels the one before.

**`MCActivity`, `MCImageHandler`, `MCImportPipeline`, `MCXoaProxy`, `MCStartup`, `MCUpgrade`,
`MCPagesPublish`** are the instances for TLC. **`ActivityProofs`, `ImageHandlerProofs`,
`ImportPipelineProofs`, `XoaProxyProofs`, `StartupProofs`, `UpgradeProofs`, `PagesPublishProofs`** hold
the theorems.

*How the modules fit together.* Each of the three service modules is shown to be a refinement of
what the others take it for. `ImportPipeline` implements `ImageHandler` for a single connection
(`ImplementsHandler`): `eof` and `broken` are the body dropped, with the guard that rode in it, so
that moving data is stuttering and nothing is retried under the lock. The lock of that mapping is a
function of the stage; that the guard really follows the stages is `LockIsHeldByImports`. `ImageHandler` and `XoaProxy`
implement `ImportService`. `XoaProxy`, when activated, implements `Upgrade` as it stands between two
transactions (`ImplementsUnit`): what the scriptlets are checked against is a service that starts,
imports, exits and crashes as the real one does. To that view a SIGTERM is nothing and the exit that
follows it the same as an idle one; the stops that `Upgrade` has beside it are its own.

## Runs

| run | cfg | what it shows |
|---|---|---|
| activity | MCActivity | 4 requests, window 4: the count is exact; `idle` returns only after a full quiet window, and does return when requests stop |
| image_handler | MCImageHandler | 4 requests: the lock follows the import on every path, one import at a time, 409 only when busy; the handler implements `ImportService` |
| import_pipeline | MCImportPipeline | 3 blocks, every request and upstream: certificates checked at every hop unless waived, the file relayed plain and in order, a loss never taken for the end (but of an undelimited raw file); the pipeline implements `ImageHandler` |
| startup | MCStartup | every environment, windows up to past the clock's end: the listener is the one asked for, the window the one configured |
| service | MCXoaProxy | 3 clients, window 2, both modes: the composed safety properties; the service implements `ImportService` and, when activated, the service of `Upgrade` |
| liveness | MCXoaProxyLive | 2 clients, window 2: an unused activated process stops; given upstreams and clients that go on, one that was told to stop does, nobody is stranded on the socket and every request read comes to an end |
| upgrade | MCUpgrade | every installation, upgrade and removal, against everything the service may do meanwhile: the socket takes over, a removal is final, no import is killed for a scriptlet, the port always has a listener or one that is due |
| pages | MCPagesPublish | 2 runs, 3 releases, 3 records: the site never goes back, keeps what it listed, and ends up as the record's |
| probe_before_lock | MCProbeBeforeLock | a violation: a busy proxy may make a newcomer wait for a HEAD probe |
| probe_status | MCProbeStatus | a violation: a HEAD probe refused with an error status decides the format |
| accepted_cut | MCXoaProxyCut | a violation: an accepted, unread connection is closed by a shutdown |
| huge_window | MCHugeWindow | a violation: a huge idle window stops the process at once |

*Bounds.* A connection carries one request at a time, so the number of connections is
the number of concurrent requests. No rule of the code counts connections or tells them
apart: the counter only distinguishes zero from more, the lock free from taken. Two
requests show every conflict; the third and fourth add a bystander to it. Two
ticks separate "armed", "running" and "due"; four leave room for a request to come and go
inside a window. Three blocks put the end of the first gzip member, what has been sent, what has
been read and every loss before, at and after each other. The number of processes, crashes and requests is not bounded: the state
space is finite without it. The safety run permutes connections (`Symmetry`); the
temporal runs do not. Of the widths of `Startup` only their order matters, and `SecondsMax` lies
past `ClockMax` as it does in Rust. `Upgrade` has no parameters: its run is its whole state
space (the administrator stops the service once). `PagesPublish` is bounded by `Releases`,
`Generations` and `Days`; three records let a release be promoted, then replaced or withdrawn, and
with a page of two and one candidate kept, the oldest of three releases is past both.

*Deadlock* is checked in `Activity` and `ImageHandler`. The service runs switch it off: a
standalone process that was told to stop is down for good; so do the pipeline's, where the one
import ends, and those of startup and upgrade, which come to an end too.

*Fairness.* `SystemFairness` is what the runtime and systemd owe: a woken task is polled, a
due timer fires, a queued connection starts the service, a closed signal is seen.
`Accept` is strong because axum's `select!` picks at random among ready branches: it may
prefer the signal, but not each time for ever. (It also rules out a process that fails at every
start before it accepts; a unit that cannot start serves nobody.) Nothing is fair that only a
client, an upstream or an operator can do. `EnvironmentFairness` is no part of the
specification: it is the premise of three properties (`ShutdownEnds`, `NoStrandedConnection`,
`ServiceFinishes`), that upstreams answer and clients read, or go. The code has no timeout, so this
is an assumption about the world; without it one stalled upstream keeps a process that was told
to stop draining, and everybody queued behind it waiting. `ImageHandler` and `ImportPipeline` assume
no fairness: that an import ends is up to others.

*The four violations* are disagreements between the code and its words.

- `src/src/state.rs:22` promises a second request an immediate 409; the lock is tried after the
  HEAD probe.
- `src/README.md:50` promises that a shutdown drains accepted connections; hyper closes those it
  has not read from. It needs no operator: the idle timer does it to a client that arrives as
  the window ends.
- `src/src/error.rs:24` counts a 4xx or 5xx answer among the failures of a probe; the code looks at
  its headers all the same. The test for it passes because the GET that follows fails as well.
- `src/README.md:68` takes any positive number of seconds as the window; one whose end is no
  `Instant` panics, and the process stops at once.

*Known exceptions.* Four more disagreements are written into the properties, as premises without
which they do not hold, or follow from the definitions:

- `src/src/stream.rs:196` calls what it refuses a non-2xx status; a 3xx without a Location passes
  and is relayed (`RelaysTheImage` and `CleanEndIsComplete` speak of answers that are the file).
- `src/README.md:42` says the RPM starts the socket; not when the old service has been stopped and
  still drains an import (`SocketTakesOver` assumes `stopped = "no"`).
- `pages-repo.yml:5` says stable is exactly stable.json; a run for a failed build cancels the run
  that was to publish it, and publishes nothing (`SettledSiteIsTheRecord` assumes `~lost`).
- `src/README.md:142` says only the five newest releases are published and can be gone back to;
  stable follows the record, and superseded releases are left out of it (`Tree`).

Two more limits are not against any word of the repository, and are premises of `CleanEndIsComplete`:
a raw file whose end is not marked looks whole when it was cut, and of a gzip file only the first
member is relayed.

## Theorems

All are for every set of connections and of runs, every positive `IdleTimeout` (`IdleTimeoutAssumption`,
`IdleWindow`: config.rs drops a zero), every positive number of blocks (`BlocksAssumption`), all widths and
defaults of `Startup` (`Widths`) and all bounds of `PagesPublish` (`Bounds`: natural numbers, and room for the first
record). `Upgrade` has no parameters, but its run and its proof are independent of each other.

- `ActivityProofs`. `TypeOK` and `ActiveCountsGuards` are inductive together: that the
  counter stays a natural number when a guard drops needs it to be a cardinality.
  `WindowIsQuiet` is inductive on top of them: only `Look` enters the window, with a zero
  counter and hence no guard; every request step raises `changed`. `IdleMeansIdle` follows:
  `Expire` needs `~changed` and a full timer, and the timer never runs ahead of `quiet`.
- `ImageHandlerProofs`. `AtMostOneImport` is about imports, `try_lock_owned` about guards;
  `LockIsHeldByImports` ties them, and `LockInv` is their conjunction with the types. The
  way out of each stage is one use of `KeepsLockInv`. `ConflictIsReal` adds that a refusal
  finds a guard, and its owner is another request.
- `ImportPipelineProofs`. `IInv` has a part for each concern: the format has been right since
  detection (`FormatInv`), one client serves the request and only the lax one has heard everybody
  (`PeerInv`), the pipeline stays behind the upstream and ends only where framing or decoder say so
  (`DataInv`). The steps fall into four kinds, each with its lemma: of the handler, of the upstream,
  a block relayed, the end. `PlainAppend` is the one fact about sequences. For `EndMeansWhole` a
  raw file needs the framing (the end is marked, so what was supplied is everything) and a gzip
  file needs only the decoder.
- `XoaProxyProofs`. `ComponentSteps`: a step of the service is a step of both components, or
  `Forget`. So their invariants, proved once, hold across all processes. `IInv` adds
  `ServingIsTracked` and that a process that is not up has accepted nothing, which is needed
  where `Exit` and `Crash` forget the requests. From it: types, tracking, `LockIsTracked`,
  `IdleStopIsQuiet`; and that the handler's two promises hold for the service as a whole, over all its processes (`OneImportEver`,
  `RefusalsAreReal`).
- `HandlerServes` and `ServiceServes`: both modules implement `ImportService`. Each step maps to a
  step of it or to a stutter. For the handler the argument is `LockInv`: the lock is free exactly
  when nobody imports, so `try_lock_owned` decides as `Admit` and `Refuse` do. For the service,
  `StepIsTurn` shows that what one connection does is a turn of one client, `StepIsHangUp` that
  connections lost or closed unread are hung up on, and `StepIsHidden` that polls, ticks and
  signals are not seen; `Exit` is a `Stop` by `IInv`, since no accepted connection means no phase
  that is owed an answer.
- `PipelineIsHandled` and `ServiceIsUnit`: the other two refinements. The first needs no invariant,
  the stage alone says what the handler holds. The second needs `IInv` at one place: an `Exit` is an
  `IdleExit` of `Upgrade`, which asks that no import be under way, because no accepted connection
  means no request and no request means no lock.
- `StartupProofs`. Types come first: they bound the port and the window by their widths.
  `WindowInv` says that the configuration, once loaded, holds the window wanted and that the
  deadline is that far from a moment after the start; both theorems follow from it and from what
  `Listen` chose. `WindowIsPositive` discharges the assumption `Activity` and `XoaProxy` make of their
  window (`IdleTimeoutAssumption`, `IdleWindow`).
- `UpgradeProofs`. `SocketTakesOver` and `RemovalIsFinal` speak of the end of a script, so the
  invariant has an assertion for each place in each script: what has been achieved when these
  commands are left (`Install3`, `Legacy6`, `Remove4`, and so on, by the number of commands to go). In
  an upgrade from the legacy package, say, between the test of %post and the restart of %postun
  (and with no administrator about) the socket listens, or a service that runs stands for it: its
  restart brings the socket up.
  `UnitInv` holds at every place: no socket before its unit is loaded, nothing but an
  administrator or a removal stops a service, and a socket waits to stop only behind a service.
  Without it a service on its way down could be the scripts' own, and `Kill` could be laid to them.
  `ScriptStep` takes the script one command on, `ServiceStep` shows that no step of the service
  disturbs the place it is at; together they are the induction. `UpgradeKeepsTheEndpoint` needs of it
  that an upgrade has no stop among its commands, and that a service on its way down for good was
  stopped by an administrator.
- `PagesPublishProofs`. `Follows` says what can have become of an older record, and is transitive.
  The invariant: a run under way has a record that the present one follows and that knows every
  release ever listed; it is the only one; if nothing is owed, its record is the present one.
  So what it deploys is newer than the site, has all that hosts may ask for, and settles it.
  `TypeCorrect` includes that testing holds at most `Keep` releases (`NewestIsBounded`): the oldest of
  the newest has fewer than `Keep` above it (`LeastMember`), and the others are among those.

Only model-checked: the liveness properties (`IdleReturns`, `IdleExit`, `ShutdownEnds`,
`NoStrandedConnection`, `ServiceFinishes`), since fairness and ENABLED are beyond the prover, and the
violations. Every other property of the runs is also a theorem.

## Plan

Written: all modules above, and the theorems for all their safety properties. What could be added is
smaller: the scriptlets on a downgrade, and the advisories of `updateinfo.jq`.

## Not modelled

Logging and logrotate, the benchmark, the CI drivers, the RPM build and its signing, the signing and
assembly of the site, the advisories (`updateinfo.jq`) and the HTML index: pure output or build
steps on which no decision of the program depends. Inside the modelled parts: the text of
requests and replies, the TLS protocol, the sizes of blocks, the length of the systemd backlog, the start limits of
systemd, and the digests and file names of releases beyond their being distinct.
