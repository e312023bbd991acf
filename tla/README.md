# TLA+ verification of gluetun

Gluetun is a VPN client that runs as the gateway of a container. Its Go
program is a dozen long-running loops (VPN, DNS, server list updater, proxies,
port forwarding, public IP, health) which start, stop and restart one another
over unbuffered channels, under a few mutexes, while a control server, a
dashboard and the shutdown sequence act on all of them. What goes wrong in such
a program is a matter of order, of what is left by a step that failed, and of
what survives a crash; this project models that. Paths below are relative to
`src/`.

1. [Inventory](#1-inventory)
2. [Plan](#2-plan)
3. [What is modelled](#3-what-is-modelled)
4. [What the runs check](#4-what-the-runs-check)
5. [Fairness and timing](#5-fairness-and-timing)
6. [What is proved](#6-what-is-proved)
7. [Where code and documents disagree](#7-where-code-and-documents-disagree)
8. [What is not modelled](#8-what-is-not-modelled)

## 1. Inventory

For each component: its state, its operations, the components it touches, and
the module that models it (none: section 8 says why).

| component | state | operations | interacts with | module |
|---|---|---|---|---|
| `internal/loopstate` | `status`, `statusMu`, `loopMu` | `ApplyStatus`, `SetStatus`, `GetStatus`, `Lock`, `Unlock` | start, running, stop, stopped channels of a loop (VPN, DNS, HTTP proxy) | `LoopState`, `LoopStatus` |
| `internal/vpn` `Run` | the loop's place, `userTrigger`, `backoffTime`, runner, `vpnCtx` | setup, launch, report, stop, restart, crash, exit | runners by `waitError` and `tunnelReady`; callers by the four channels | `VPNLoop` |
| `internal/vpn` `onTunnelUp`, `cleanup` | `healthDone`, `versionInfo` | start and undo what a connection needs | DNS, health checker, public IP, port forwarding, firewall | `TunnelUp` |
| `internal/openvpn`, `internal/wireguard`, `internal/amneziawg`, `internal/cleanup` | child process or device, links, routes, rules | `Run` | `waitError`, `tunnelReady`, netlink | `TunnelDevice`, `VPNLoop` |
| `internal/dns` | server, filter, `userTrigger` | `Run`, `RunRestartTicker`, `updateFiles` | callers, ticker, `/etc/resolv.conf` | `DNSLoop` |
| `internal/updater` | `status`, `loopLock`, `statusMu`, `periodMu` | `Run`, `RunRestartTicker`, `SetStatus`, `SetSettings`, `UpdateServers` | storage, providers | `UpdaterLoop`, `ProviderUpdate` |
| `internal/httpproxy` | server, status | `Run`, `SetSettings` | callers | `HTTPProxyLoop` |
| `internal/shadowsocks` | server, `stableTimer`, status | `Run`, `SetStatus`, `SetSettings` | callers | `ShadowsocksLoop` |
| `internal/socks5` | server, listener, UDP associations | `Start`, `Stop`, crash and restart | main | `Socks5Server`, `UDPAssociations` |
| `internal/portforward` | `settings`, `service`; in the service `ports`, two mutexes, the keep-port goroutine | `UpdateWith`, `Start`, `Stop`, `SetPortsForwarded` | VPN loop, firewall, provider | `PortForward` |
| `internal/publicip` | `ipData`, `settings`, the file | `RunOnce`, `UpdateWith`, `ClearData`, `Stop` | VPN loop, control server | `PublicIPLoop` |
| `internal/publicip/api` | fetchers, ban times | `FetchInfo`, `UpdateFetchers` | services of the Internet | `Fetchers` |
| `internal/healthcheck` | configuration, timers, last error | `SetConfig`, `Start`, `Stop` | VPN loop, health server | `HealthChecker` |
| `internal/firewall`, `internal/restrictednet` | `enabled`, `vpnConnection`, `vpnIntf`, ports, subnets, redirections | `SetEnabled`, `SetVPNConnection`, `SetAllowedPort`, `RedirectPort`, `SetOutboundSubnets`, exceptions for an exchange | the kernel's rule tables | `Firewall` |
| `internal/routing`, `internal/subnet` | `outboundSubnets` | `Setup`, `SetOutboundRoutes`, `AddLocalRules`, `TearDown` | netlink | `Routing` |
| `internal/pmtud` | tests in flight | search for the path MTU | `onTunnelUp` | `PathMTU` |
| `internal/provider/*`, `internal/natpmp` | leases, keep-alive timers, sessions | `FetchServers`, `GetConnection`, `PortForward`, `KeepPortForward` | port forwarding, updater, VPN setup | `ProviderUpdate`, `ServerChoice`, `PIAPortForward`, `ProtonPortForward`, `ProtonLogin` |
| `internal/storage`, `internal/models` | merged server lists, files, manifest | `SetServers`, `FilterServers`, flush | updater, VPN setup | `ServerStorage`, `ServerChoice` |
| `internal/configuration/settings` | every setting | `Read`, `SetDefaults`, `Validate`, `Copy`, `OverrideWith` | every component | `Settings` |
| `internal/server` | handlers, roles | control routes, auth middleware | every loop | `ControlServer`, `Settings`, `VPNLoop` |
| `internal/dashboard` | `lastSnapshot`, subscribers, operation lock, sessions, profiles, history | polling, requests, events | the control server, over HTTP | `SnapshotStreams`, `EngineWatch`, `VPNOperations`, `DashboardStores`, `DashboardAccess` |
| `cmd/gluetun` | groups of goroutines | start-up, ordered shutdown | everything | `Program` |
| `internal/boringpoll`, `internal/netlink`, `internal/command`, `internal/cli`, ... | | | | none |

What is hard, and what correct means:

- **loopstate and the VPN loop.** An unbuffered rendezvous in both directions
  between any number of callers and one loop, under a mutex the loop sometimes
  takes too; a caller whose context ends; a runner that fails, exits or signals
  at any time. Correct: the status tells the truth (stopped means down, a
  transient status has someone settling it), only one connection exists, only a
  request ends "stopped", every call returns or waits in a known way.
- **onTunnelUp and cleanup.** Goroutines of successive connections overlap; each
  service is started under one context and cleared under another. Correct: once
  a stop is confirmed nothing of the connection is left running.
- **DNS and updater.** Two routines (loop and ticker) on one state, a timer that
  may not be running. Correct: as for the VPN loop; the timer follows the period.
- **proxies.** The same rendezvous, with variations. Correct: stop, start, crash
  and shutdown compose in any order.
- **port forwarding.** A request-response loop around a service with two mutexes
  and a goroutine that cleans up after itself. Correct: what is open in the
  firewall is what `ports` says; every update is answered.
- **public IP, health.** `RunOnce` against `Stop`, `Start` against `Stop`.
  Correct: every request is answered, no data of a previous connection stays.
- **firewall, routing, devices.** Each operation is several changes of the
  kernel any of which may fail, and a killed program leaves what it made.
  Correct: nothing leaves but through the VPN, and what ended holds up nothing
  that comes after it.
- **providers, storage.** Names that do not resolve, lists cut short, a login
  that is challenged, files truncated by a crash. Correct: no list of unusable
  or too few servers replaces a good one.
- **settings.** Fields named one by one in five functions; requests that overlap.
  Correct: what was accepted is what runs.
- **dashboard.** A poll, an operation lock, subscribers with bounded buffers, and
  files. Correct: one operation at a time, a subscriber ends up with the last
  state, what was acknowledged survives.

The hazards, each at its line and with the properties that watch it, are in
`PROJECT.json`.

## 2. Plan

The most central behaviour first. Each module is parameterised by CONSTANTS,
has one action per operation or step, and uses no RECURSIVE operator, so that it
can be proved about. All of these are written and checked:

| | modules | content | theorems |
|---|---|---|---|
| A | `LoopState`, `LoopStatus`, `VPNLoop` | `ApplyStatus`, `Run`, the abstract status | types, stopped means down and stays so, one connection, fresh outcome, refinement |
| B | `TunnelUp` | overlapping connections | types, one checker, watched checks, nothing left, DNS settled |
| C | `DNSLoop`, `UpdaterLoop`, `HTTPProxyLoop`, `ShadowsocksLoop`, `PublicIPLoop`, `HealthChecker`, `Program` in `Services` | the other loops and `main` | types, stopped means down, one at a time, the timer, the panic, what is shown, the order of `main` |
| D | `PortForward` | loop and service, with liveness | types, open ports are forwarded, forwarding follows the tunnel |
| E | `Firewall`, `Routing`, `TunnelDevice`, `PathMTU`, `Socks5Server`, `UDPAssociations` in `Network` | the kernel and the network | types, the kill switch, nothing is left, the MTU |
| F | `Fetchers`, `ProviderUpdate`, `ServerStorage`, `ServerChoice`, `PIAPortForward`, `ProtonPortForward`, `Settings`, `ProtonLogin` in `Providers` | data on its way into the program | types, settings, leases, the lists of servers, bans and the vote |
| G | `SnapshotStreams`, `EngineWatch`, `VPNOperations`, `DashboardStores`, `DashboardAccess`, `ControlServer` in `Dashboard` | the user's side | streams, engine, operations, files, access |

Every invariant that a run checks is proved, but for `BlockedOnlyIfWedged`, which is
out of the prover's reach (section 6). What is left to model is in section 8.

## 3. What is modelled

### `LoopState`: `internal/loopstate` from the callers' side

`status`, `loopMu` (its holder) and, for each caller, its place in `ApplyStatus`
(`pc`), what it still has to ask (`op`; a health restart is a stop and then a
start), the outcome it holds (`result`) and whether its context is cancelled.
`Refuse`, `AcceptRunning` and `AcceptStopped` are the code from the lock to the
end of the first switch; `SendStart`, `ReceiveRunning`, `SendStop` and
`ReceiveStopped` are the caller's half of the four channel operations;
`EnterSelect` is the instruction between the send on `start` and the receive,
which matters because the loop drops a report nobody is receiving; `GiveUp` is
the cancelled context; `Finish` publishes and unlocks. Channels are unbuffered,
so each channel operation is one joint step of two goroutines, conjoined in the
module of the loop: `VPNLoop`, `DNSLoop` and `HTTPProxyLoop` all extend it.

### `VPNLoop`: `Run`, its runner, its callers

`loop` is the place of `Run` (and of `waitForError`, `signalOrSetStatus`,
`logAndWait` inside it), `userTrigger` the field, `report` the status about to
be reported, `runner` the life of the runner goroutine together with
`waitError` (`closed` after the loop closed the channel), `vpnCancelled`
whether `vpnCtx` is cancelled, `monitoring` the health monitors at work,
`shutdown` the progress of the shutdown sequence. One action per case of each
select and per blocking statement. `Callers` are the start-up goroutine of
`cmd/gluetun/main.go`, control server handlers and health monitors.

### `LoopStatus`: what the status promises

One owner at a time moves the status from stopped to starting to running or
crashed, or from running to stopping to stopped; between calls the loop may
only crash and retry. `VPNLoop` implements it by the mapping of `loopMu` to the
owner (`RefinesLoopStatus`), as long as no context is cancelled, no caller is
preempted for 100ms between two instructions and the runner does not exit with
code 0.

### `TunnelUp`: what a connection starts and leaves

Each element of `Ups` is one `onTunnelUp` call with its `vpnCtx` (`live` while it
is not cancelled), its place (`up`) and the place of its `collectHealthErrors`
(`watch`). `healthDone` names the call whose channel the field holds, `awaited`
the channel each call took from it. Of the services only what `onTunnelUp` and
`cleanup` do to them is kept: the port opened in the firewall, the DNS status
(as `ApplyStatus` moves it), whether the public IP is known, whether port
forwarding runs, and of the health checker whose periodic checks run
(`checking`), whose `Stop` stops (`stopper`) and whether it has addresses
(`targets`). The VPN loop is reduced to its status and to the four places of
`cleanup`; `restartVPN` is a stop and a start against it. `Ups` is the number of
calls that may overlap. `CleanupOverlaps = FALSE` is the ordinary case of a
connection that outlives its `onTunnelUp`.

### `PortForward`

The run goroutine of the loop (`loop`, `answering`, the retry timer `retry`), the
callers of `UpdateWith`, the service with its two mutexes (`lock`), the keep-port
goroutine (`keep`) and its crash report, the handler that sets ports (with the
service it read, which an update may have replaced) and the stop in `main`. Ports
are pairs of an internal and an external port; of the firewall the allowed ports
are kept, of the file its presence.

### Four bundles of independent parts

`Services`, `Dashboard`, `Network` and `Providers` each instantiate several
modules that share no state with one another. A behaviour is one of them,
chosen by `part` in `Init`; the others rest in one of their initial states. One
run then checks them all, over the sum of their state spaces rather than over a
product that would say nothing more. Each part keeps its state in one record
(`dns`, `updater`, `rt`, `store`, ...), is a complete specification of its own
(`Init`, `Next`, `Spec`), and states its properties in its own module, in words
and as formulas; the bundle joins those that make the same promise.

`Services`:

- `DNSLoop` - `Run`, the restart ticker with its timer, callers of `ApplyStatus`
  whose context is that of a connection, `SetSettings`, leaks and failures.
- `UpdaterLoop` - loop, ticker, the goroutine that updates, `SetStatus` with
  `statusMu`, `loopLock` and `periodMu`.
- `HTTPProxyLoop` - `LoopState` with this loop's half of the four channels.
- `ShadowsocksLoop` - its own rendezvous, the stable timer, the channel it
  closes twice.
- `PublicIPLoop` - each request's place, the address held, on file, and found.
- `HealthChecker` - the routine of periodic checks with its tries, the fall back
  from ICMP to DNS, the two-sided handover of results, what the server shows.
- `Program` - `_main` in its order: which start may fail, what runs, the groups
  of the shutdown with their times, the grace period, the exit code.

`Dashboard`:

- `SnapshotStreams` - the coordinator's snapshot, its subscribers' channels of
  bounded size, the operation lock; snapshots are numbers.
- `EngineWatch` - what `Refresh` makes of four answers, none of which may come,
  from an engine that goes on in between; traffic counters that start again.
- `VPNOperations` - a profile switch or a restart as the requests it makes of the
  engine, each of which may end early while the engine goes on.
- `DashboardStores` - profiles and history in memory, temporary file and file,
  under failing writes, crashes and restarts.
- `DashboardAccess` - the token bucket of each client and its eviction, the
  sessions with their expiry, a middleware that checks before the handler acts.
- `ControlServer` - roles and checkers of a request, the dispatch of every route
  of v0 and v1, and the one or two calls a handler makes.

`Network`:

- `Firewall` - the fields of `Config` against the kernel's rules as a bag; every
  iptables call may fail, and is undone as a whole (`runIptables` restores).
- `Routing` - rules and routes for inbound traffic, outbound subnets and local
  networks, over runs of the program that fail, end, or are killed.
- `TunnelDevice` - device, addresses, routes, rule and goroutines of a runner,
  each step of which may fail, and the cleanups in their order.
- `PathMTU` - ICMP against one address after the other, then TCP, in rounds of
  concurrent tests each of which may be lost or answered twice.
- `Socks5Server`, `UDPAssociations` - the loop and server with the three select
  races around a crash, and the routes of the UDP router.

`Providers`:

- `Fetchers` - concurrent calls of the resilient fetcher, bans, the vote.
- `ProviderUpdate` - every provider's `FetchServers` as a sequence of steps
  (`list`, `resolve`, `filter`, ...) with its minimum ratios, and the parallel
  resolution with its failure counts.
- `ServerStorage` - lists in the program, in memory and on file, the manifest,
  the old format, crashes between truncation and write, new releases.
- `ServerChoice` - the filter, and the pool a connection is picked from.
- `PIAPortForward`, `ProtonPortForward` - leases over time: save, bind and
  announce; map twice, map again, lose packets, lose the port.
- `Settings` - each field of each structure by what `Read`,
  `SetDefaults`, `Validate`, `Copy` and `OverrideWith` do with it; a behaviour
  follows one field from the environment through overlapping PATCH requests.
- `ProtonLogin` - the requests of a login, the session, tokens and scopes they
  need, and the human verification that may interrupt each.

## 4. What the runs check

| run | question | bounds |
|---|---|---|
| `vpn_safety` | does the status tell the truth, is there one connection, does a stop stay | 3 callers, 2 requests, 2 faults, 1 health restart, shutdown, preemption, late signals |
| `vpn_live` | does every call return and `Run` end, except in the waits named in `Wedged`; do crashes recover | 1 request, 1 fault, 1 health restart, shutdown, preemption, late signals, exits with code 0 |
| `vpn_refines` | is `LoopStatus` implemented | 2 requests, 2 faults, 2 health restarts |
| `tunnel_serial` | does a stop leave nothing behind, and is the DNS status settled, when connections outlive their `onTunnelUp` | 3 calls, 2 requests, 2 faults |
| `tunnel_overlap` | does `healthDone` keep the checks of overlapping connections apart, and do the goroutines of an ended connection end | 3 calls, 1 request, 1 fault |
| `portforward` | are open ports the forwarded ones, and is every update answered | 3 updates, 2 sets by hand, 2 faults; internal ports 1 and 2 mapped to 1 and 3, a user's port 4 |
| `services` | does each loop keep its status true, and is every way to wait for ever named; does the program start and end in order | 2 or 3 requests and 1 or 2 faults per loop, one change of period, 3 connections |
| `dashboard` | do streams, operations, files and sessions stay right when requests end early and the program crashes | 2 operations, 3 or 4 refreshes, 4 changes, 2 crashes, 2 file faults |
| `network` | is the kill switch exact, is nothing left, is the MTU carried | 2 faults or losses per part, 3 runners, 2 runs of the program |
| `providers` | are settings, servers and ports what was asked for, whatever fails | 3 hosts, 3 places of which two countries are alike, 4 picks, 1 or 2 crashes and faults per part |
| `vpn_crash_deadlock`, `providers_asked` | the disagreements of section 7 | the least that shows the first; those of `providers` |

`MaxRequests`, `MaxFaults`, `MaxHeals` and the like cap what the environment does
and nothing else: the loops' retries, reports and the callers' steps are
unbounded. Two faults let a second failure hit the recovery from the first, and
two requests let one queue behind another. Time is a small counter where
expiry matters (`MaxTime`, `PIATime`, `PMPTime`, `FetchTime`), long enough for
everything to expire once and be renewed. `CHECK_DEADLOCK` is off where the
environment's budget can be spent: an established connection then has nothing to
do, and the program ends. Blocking is what the liveness properties and
`BlockedOnlyIfWedged` are about.

Three calls of `onTunnelUp` let one of an ended connection meet that of the next
while a third waits; one connection signals once (`MaxSignals`), since OpenVPN
signals again only when it reconnects by itself.

`EveryCallReturnsOrWedges`, `CallsReturnOrWedge` and `BlockedOnlyIfWedged` say
that the list of waits in `Wedged` of each module is complete: nothing else can
block for ever. The lists are facts about the code, and are read out in section 7.
`BlockedOnlyIfWedged` is an invariant: some step of the goroutines is enabled,
or a named wait has occurred, or nothing is asked and all that was stopped has
ended.

The sizes of `PathMTU` (24 for the device's, 4 for the least) are small numbers with the
order and the distances that matter; the servers' MSS include the values at each
boundary of the computed bounds (1, 7, 16, 22, 26). The providers of `PortForward`
assign one port mapped to itself, or also one mapped to another.
The catalogue of `ServerChoice` has servers of both VPN types, of two countries,
with one to three addresses of both families.

## 5. Fairness and timing

A goroutine that can run does run: weak fairness of each step of the loop, of
the callers and of a cancelled runner. A step that waits for `loopMu` has
strong fairness, since Go's `sync.Mutex` hands the lock to a waiter after 1ms.
`select` chooses at random among the ready cases, so each case of the main
select has fairness of its own. Nothing makes a connection succeed or fail, a
request arrive or the program stop. In `PortForward` likewise: weak fairness of
the steps of the loop, of the keep-port goroutine and of a caller whose context
ended, strong fairness of what waits for a mutex the service's two goroutines
share or is one of several ready cases of the loop's select.
In `TunnelUp`, `cleanup` and the next connection are weakly fair; a call of
`onTunnelUp` and its `collectHealthErrors` wait for channels that may be ready
only now and then and are strongly fair.

The parts of the bundles are checked for safety; that they get on is stated
without fairness, by `BlockedOnlyIfWedged`.

`CallersSettled` is the one timing assumption of `VPNLoop`: the 100ms of `waitForError` and
the backoff of at least 15s outlast the few instructions a caller runs between
two channel operations. `MayPreempt` drops it where it matters to a report that
comes at once (a setup that fails immediately). `TunnelDevice` assumes that the
next runner starts after the clean up of the one before, which the backoff and
`onTunnelUp` make very likely and nothing makes certain.

## 6. What is proved

`VPNLoopProofs`, for any callers, monitors and bounds, with preemption, late
signals and shutdown allowed:

- `TypeCorrect`: `Spec => []TypeOK`;
- `StoppedIsDown`: `Spec => []StoppedMeansDown`, a status "stopped" means that
  the runner has ended and the loop waits;
- `SingleConnection`: `Spec => OneConnection`, no runner is launched while
  another is alive;
- `StoppedStaysStopped`: `Spec => StaysStopped`, nothing but a request that is
  accepted ends "stopped": whoever publishes anything else is a call under way
  (`CallInv`) or a loop that does not wait (`StoppedMeansDown`);
- `TransientStatusIsOwned`: `Spec => []TransientIsOwned`;
- `OutcomeIsFresh`: `Spec => []FreshOutcome`, what a call is about to publish is
  still what the loop is in.

All assume `~MayExitCleanly`: an OpenVPN process that exits with code
0 in its first 100ms makes `waitForError` close `waitError` without a crash,
after which "stopped" can be published and undone.

None of them is inductive alone. `IInv` adds who holds `loopMu` at which
place (`LockInv`), which place of the loop a call at a given place may meet
(`CallInv`: a caller at `awaitStopped` pairs with the stop case, one that
received "running" leaves the loop in its select) and what the runner can be
doing at each place of the loop (`ConnectionInv`). `CallInv` needs `LockInv`
to know that two callers are never between accept and publish, and
`StoppedMeansDown` needs `CallInv` because the status is published by the
caller, several steps after the loop confirmed. There is one lemma per group of
actions (`LoopStepIInv`, `RunnerStepIInv`, `CallerIInv`, `EnvironmentIInv`). The last two
theorems need `OutcomeInv` on top of it: a call that carries "crashed" to the
status may meet the loop in its setup only when the loop is about to return.

`VPNLoopProofs` also proves `Refinement`, `Spec => RefinesLoopStatus`, for an
`Undisturbed` program (no cancelled context, no preempted caller, no clean
exit). `RInv` adds to `IInv` why the status is what the abstract step expects:
a call under way keeps the status transient (`CallStatusInv`), a loop on its way
to a report either answers a caller that waits for it or has published the crash
(`ReportInv`), and "running" is published exactly around the select
(`RunningInv`). With `MayPreempt` the second fails: a dropped report leaves the
caller, and the status, waiting for ever.

`TunnelUpProofs`, for any number of overlapping calls, with `RestartVPN` and one
ready signal per connection:

- `EveryCheckIsWatched`: `Spec => []ChecksAreWatched`;
- `ChecksOfOneConnection`: `Spec => []OneChecker`.

The argument: only one connection is live (`LiveInv`), and with `RestartVPN`
only its `onTunnelUp` starts the checker; so `healthDone` does not change between
its read and the start, the channel it waited for is that of the only checks
that can still run (`AwaitInv`), and `Stop` always stops the checks of the call
that makes it (`WatchInv`). Both assumptions are needed: with restarts disabled
the startup check of an ended connection starts the checker all the same, and
with two ready signals two calls read the same `healthDone`; with
`RestartVPN = FALSE`, or `MaxSignals = 2`, in `TunnelUp_overlap.cfg` TLC refutes
`OneChecker`.

When connections outlive their `onTunnelUp` (`~CleanupOverlaps`), also

- `NothingLeftBehind`: `Spec => []NothingLeft`;
- `DNSIsSettled`: `Spec => []DNSStatusSettles`.

Whoever is at work is then on a live connection of a running loop, so each
service is up no longer than the step of `cleanup` that ends it (`ServicesInv`).

`PortForwardProofs`, for any assignments of ports and any bounds, from
`PortForwardConstants` alone:

- `PortsAreTyped`: `Spec => []TypeOK`;
- `ForwardingFollowsTheTunnel`: `Spec => []PortsFollowTheTunnel`;
- `OpenIsForwarded`: `Spec => []OpenPortsAreForwarded`.

`PlaceInv` ties the places of `run`, of the keep-alive and of the lock together: a
keep-alive that reported its crash is waited for by the stop that follows, so that
there is none at the next start. `PortInv` adds the ports: a provider's are empty
at a start, because a stop that fails ends the loop. `OpenIsForwarded` needs that
too, since a start replaces `ports` without closing what they name; and
`LeftByCleanup`, the fact that blocking the external ports leaves open only
internal ports that were mapped to others.

`TunnelUpIsTyped` (`Spec => []TypeOK`) needs none of these assumptions: the fields the
calls share hold a channel of one of them, however many connections overlap.

`ServicesProofs`, `DashboardProofs`, `NetworkProofs` and `ProvidersProofs` are about the bundles. A step
of one part leaves the others as they are, so `Spec` of a bundle implies `Spec` of each
part; each part then has an inductive invariant of its own, and a property of the
bundle follows from those of the parts it joins. The assumptions are those of the
modules, which every run evaluates: sizes are natural numbers, names of different
things differ, and the sets of routes, subnets, addresses and servers the proofs
count are finite.

`ServicesProofs`, for any callers, bounds and faults:

- `ServicesAreTyped`: `Spec => []TypeOK`;
- `StoppedServicesAreDown`: `Spec => []StoppedMeansDown`;
- `OneOfEachAtATime`: `Spec => []OneAtATime`;
- `DNSTimerFollowsPeriod`: `Spec => []TimerFollowsPeriod`;
- `PanicNeedsAStop`: `Spec => []PanicsOnlyAfterStop`;
- `ShownOutsideIsTrue`: `Spec => []WhatIsShownIsTrue`;
- `MainEndsInOrder`: `Spec => []ProgramEndsInOrder`.

`DNSLoop` and `HTTPProxyLoop` are told by the same calls of `ApplyStatus`
(`CallersInv`: who holds `loopMu`, and which call waits for which answer); what
differs is which place of the loop such a call may meet (`DNSShape`, `HTTPShape`).
`UpdaterInv` and `SSInv` say who holds which lock and what the loop still has
running at each of its places, `HealthInv` the same of the routine that checks and of
the handover of its result. `IPInv` adds that what the loop found is what it keeps
unless `ClearData` came in between. `MainInv` is about what `_main` has started: who is
up is stopped by name or in a group (`ServicesInv`), the error returned is that of a
program that was told to end (`ResultInv`), and if no slow stop takes more than its
share, the groups before the current one have spent no more than theirs (`TimeInv`).

`DashboardProofs`, for any clients, streams, profiles, roles and bounds:

- `StreamsAreRight`: `Spec => []StreamsEndUpRight`;
- `EngineIsTold`: `Spec => []EngineIsToldRight`;
- `OperationsWin`: `Spec => []LastOperationWins`;
- `WhatIsAcknowledgedIsSaved`: `Spec => []AcknowledgedIsSaved`;
- `AccessIsLimitedByRules`: `Spec => []AccessIsLimited`.

Each needs a link between what was read and what is so by now: a refresh that saw an
operation that is over will be followed by the notification of its end (`IdleInv`); what
the counter gained since it was read was carried since (`TrafficInv`); what an answered
request knows of the engine is true unless an earlier request took effect in between
(`AnswerInv`); the temporary file is renamed only when it holds what a client was told
(`SavedInv`); a bucket with tokens left has allowed that much less than a full one and
what refilled it (`BucketInv`); a loop that does not run is asked to be stopped or about
to be started (`RestartInv`).

`NetworkProofs`, for any routes, devices, subnets, servers, paths and associations, and
however much fails:

- `NetworkIsTyped`: `Spec => []TypeOK`;
- `FirewallIsExact`: `Spec => []KillSwitchIsExact`;
- `RunsLeaveNothingBehind`: `Spec => []NothingIsLeft`;
- `SearchFindsThePath`: `Spec => []MTUIsCarried`.

`FireInv` counts. The state in memory asks for a number of copies of each rule
(`ExpectedOf`); the kernel never has fewer, and what it has in excess (`Extra`, a set of
copies) grows by no more than the failures of a step account for: one each, but for
a connection or a subnet that was added for some of the routes only, which may leave
one copy for all routes but one. It needs that a port of an interface is redirected
to one other at most, since a redirection is removed by the rules of the one it
conflicts with. An operation of several calls (`SetVPNConnection`) is proved as the
sequence of these. `RtInv` tells what this run made from what a run before it
left, and what `TearDown` may find after each failure. `DevInv` says that what is there is what
a clean up still to be done removes, over the three orders in which the devices are
made. `SocksInv` gives what listens at each pair of places of the loop and the
server, `UInv` that each endpoint leads to one open association, and that those which
wait for their client do so once. `MTUInv` says that, unless a packet was lost, the size
the path carries stays among those still to tell apart: `TestsAre` and `NarrowIs` are about the sizes a round
tests and what it leaves of them.

`ProvidersProofs`, for any services, places, hosts, servers, selections, ports, fields
and bounds, and however much crashes, fails or is lost:

- `ProvidersAreTyped`: `Spec => []TypeOK`;
- `SettingsSurvive`: `Spec => []SettingsAreKept`;
- `PortsAreStable`: `Spec => []PortsStayForwarded`;
- `ServersOutlive`: `Spec => []ServersAreUsed`;
- `FetchersStayFair`: `Spec => []FetchersAreFair`.

`SettingsInv` follows a request that patches: its copy is what it saw, then that with
its own change, so that what it publishes loses no more than what another request
published in between. `PIAInv` says that the file is whole while data is at work that
was read from it, or was written to it, and that the data is what was saved until the
server refuses it. `PMPInv` says
when the last round of requests began and that each port not in `todo` is mapped for
the lifetime from then on. `UpdInv` gives what each step of a provider has made sure of
and the later steps keep (`Progress`). `LoginInv` ties the session and token of the
client to those issued last, and each error to the request that may fail in that way.
`StoreInv` is about crashes: what would be read at the next start (`Source`: the files, if
a manifest is there that is not empty, else the old file) is no older than what was told and has its marks
(`Carries`), unless the manifest was caught empty; it needs the order in which files and manifest
are written (`Writing`). `ChoiceInv` says that the last picks are the last ones of the
pool in turn (`InTurn`), and for a single server that the pool has the same order at
every pick. `FetchInv` says that each refusal is remembered, by the time of the ban of a
service of the same name and token, as long as it counts (`IsRemembered`). The vote is
proved from its definition: the first members of groups exist and are unique, by
induction (`FirstsExist`), no answer is in two groups (`GroupsAreApart`), and a place
that more than half tell keeps its majority in what a filter leaves (`MajorityStays`).

The proofs changed two properties. `AllPortsAreForwarded` is restated: two ports
may have become one when more packets were lost in a round than a mapping lives through,
which the bounds of the run never reached. So is `MajorityWins`: likeness is not transitive,
so that the name returned may be like a third one that is like the
majority's (`Near`). `ServerChoice` and `Fetchers` say what the loops over servers and
answers make (an order of the pool, the first members of groups) where they used to
compute it, and TLC finds the same states of the choice.

What stays with TLC: liveness (`EveryCallReturnsOrWedges`, `CrashRecovers`,
`CallsReturnOrWedge`, `EndedConnectionsLetGo`), and `BlockedOnlyIfWedged`, which says that a
step is enabled (ENABLED is not within the prover's reach). The modules and the constants
of the theorems are the ones the runs use.

## 7. Where code and documents disagree

Two are runs that TLC refutes; `PROJECT.json` quotes the lines.

- `CrashIsPublished` (`vpn_crash_deadlock`): `vpn/run.go:115` takes `loopMu` in
  the crash case while `ApplyStatus(Stopped)` holds it and waits for `Run` to
  receive from `stop`.
- `AllAreAsked` (`providers_asked`): `publicip/api/resilient.go:120` indexes the
  fetchers by how many were started, so that the first banned one hides the rest.

The others are facts of the models that passing runs rest on: each is a wait
listed in `Wedged`, an exception a property names, or a constant that has to be
set for a property to hold. They follow by component.

**VPN** (`Wedged` in `VPNLoop`, `MayExitCleanly`, `CleanupOverlaps`).
- `StopMeetsSignal`: the stop case waits for the runner, which waits for
  somebody to receive `tunnelReady` (`vpn/run.go:106`).
- `ExitAfterStop`: after a stop, shutdown waits for the error of a runner that
  has ended (`vpn/run.go:98`).
- `StopAbandoned`: a stop is confirmed with no alternative to a caller whose context
  may have ended (`vpn/run.go:109`).
- `ReportLost`: `signalOrSetStatus` drops a report also when its caller is only
  about to receive it (`vpn/helpers.go:46`).
- A health restart that queued behind a stop, or is between its own stop and start
  when a user stops, starts the VPN the user stopped: to `StaysStopped` it is a
  request like another.
- With `MayExitCleanly` the closed `waitError` crashes and reconnects a stopped
  VPN (`vpn/helpers.go:28`): `StaysStopped` is refuted.
- With `CleanupOverlaps` an `onTunnelUp` that outlives its connection starts port
  forwarding after `cleanup` stopped it (`vpn/tunnelup.go:138`), leaves the DNS
  status at "starting" (`vpn/tunnelup.go:82`), and its startup check, which fails
  because it was cancelled, restarts the VPN the user stopped.

**Other loops** (`Wedged` of each module).
- DNS: an update of the settings drains a timer that was never started
  (`dns/ticker.go:39`); a crash published without `loopMu` can overwrite what
  `ApplyStatus` publishes (`dns/run.go:96`).
- Updater: the report of a run the ticker started has no receiver
  (`updater/loop/loop.go:112`); the goroutine sends its error while stop waits
  for it (`:104`); `loopLock` is taken while holding `statusMu` (`state.go:44`);
  after the loop has returned the ticker's start is never received (`:169`).
- HTTP proxy: enabled at start-up, its first report has no receiver
  (`httpproxy/run.go:33`).
- Shadowsocks: a start after a stop, or a shutdown after a stop, closes a closed
  channel (`shadowsocks/loop.go:126`); the stable timer is drained twice (`:142`).
- Port forwarding: when the previous service does not stop, `UpdateWith` is never
  answered (`portforward/loop.go:119`); a crashed keep-alive and `Stop` wait for
  one another (`service/start.go:84`).
- Public IP: the answer to an update that `Stop` sent away (`publicip/loop.go:113`).
- SOCKS5: a server that reports its crash to a loop that chose its context
  (`socks5/loop.go:65`).

**Kernel.** `RedirectPort` with destination port 0 adds a redirection to port 0
while the firewall is enabled (`firewall/redirect.go:61`), where its comment says
that none is added (`redirect.go:11`; `ZeroClearsRedirection` of `Firewall` states
it and no run checks it). A command that failed leaves rules nothing removes
again: `NothingElseIsAllowed` counts them against the failures. After a `Setup` that failed, `TearDown` stops
at the first route `Setup` had not come to and leaves the rest; an outbound
subnet whose rule could not be added leaves its route; local rules are never
removed; the removal of outbound routes tries those of the other family too. The
MTU search over TCP takes its maximum from the MSS of the server also when that is
beyond the one it was asked for, and panics when that MSS is next to nothing
(`PanicsOnTinyMSS` says how small).

**Data from outside.** The vote of `Fetchers` counts names that differ in one
letter as one (Iran, Iraq): `MajorityWins` holds only up to that. In the parallel
resolver the ratio is never reached as an error because the count cuts the list
first; Airvpn expects ten servers of each host and makes six, so that its minimum is
met by servers it does not make (`EnoughServersAreKept` excepts it). `connection.go:50`
shuffles the servers before each pick, and the same servers in another order are
another pool, so that the pool is not cycled through as `pick.go:76` says
(`PoolIsCycled` of `ServerChoice` states it, no run checks it, and
`PicksAreWanted` asks it of a single server). `getMostRecentStableTag` pages for
ever when no tag matches.

**Settings.** `PortForwarding.Copy` and `OverrideWith` leave out `PortsCount`
(`portforward.go:121`); `Iptables.read` overwrites what `FIREWALL_DEBUG` set
(`iptables.go:58`); the unknown regions of NordVPN are dropped; `pprof.New` reads
rates nothing defaults; `Health.copy` and `Wireguard.copy` share memory with
their original; the timeouts of the HTTP proxy, `AddBlockedHosts` and
`ProtonTOTPCode` are never read; `setupAmneziaWg` is given the interface of the
Wireguard settings; a list of allowed IPs that becomes empty becomes 0.0.0.0/0;
a VPN type that a request changes may not match its selection; two requests that
overlap lose one of their patches (`server/vpn.go:118`). `Settings` lists
each as the field that is not in the set it ought to be in.

**Control server.** With a query, as `apikey.go:32` uses one, a request is
authorised by its path but dispatched by its URI: all routes but
`/v1/portforward` refuse it. `/version` of v0 is behind a prefix that never
matches; `Role.Validate` panics on a route without a space; the restarts of v0
drop errors; `setStatus` of OpenVPN selects it without validation.

**main.** A control or pprof server that cannot listen never reports ready, and
`_main` waits for it for ever before the VPN is started (`main.go:513`, `:386`);
a signal then ends in the grace period and exit code 1. A loop that crashes ends
the program with code 0. The stops of other services have no timeout. A start
that fails returns without stopping what was started. `ProgramEndsInOrder` states
what is left to rely on.

**Dashboard.** The "automatic rollback" of `docs/api.md:153` is nowhere in the code:
a switch whose request fails or ends early leaves what the engine made of it, and
a call that outlives its request overtakes the next operation. `LastOperationWins`
excepts those. A filter that a later selection does not name stays (`Override`).

## 8. What is not modelled

Of no module:

- *boring poll*: its list of URLs is always empty in this fork, `Start` returns at
  once.
- *netlink*, *command*, *mod*, *tun*, *alpine*: thin wrappers around the operating
  system.
- *cli*: commands that run once and end. *version*, *format*, *constants*: tables
  and texts. *devrun*, *ci*: tools of the developers.
- *dashboard front end*: a page that renders what the API answers, in TypeScript.

Of the components that `PROJECT.json` calls "partly": the bytes of every protocol
(SOCKS5 handshake, DNS and ICMP packets, NAT-PMP, each provider's API), files'
formats and texts, the values of settings with their ranges, the configuration
of OpenVPN, Markdown lists, the up and down commands, the version message. They
are data or I/O and decide no order. The ports of PrivateVPN and Perfect Privacy
are single calls with no state. The kernel, the VPN servers, OpenVPN and the
libraries are the environment.

Not composed: the bundles keep loops apart which in the program meet only through
calls that each waits for. Where two do meet with consequences - the VPN loop with
DNS, health, public IP and port forwarding - `TunnelUp` has them all, each by the
interface its own module details.

Some exported operations have no caller in the program today (`SetSettings` of
updater, DNS, HTTP proxy and Shadowsocks, `Settings.OverrideWith`); they are
modelled with the callers their locks are made for.
