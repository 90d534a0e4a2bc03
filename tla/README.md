# Formal models of vibepods

TLA+ models of `vibepods-daemon`, of `vibepods-cli` and of the AACP client
library both are built on, the TLC runs that check them on small instances, and
theorems about them that TLAPS checks for every value of the constants. Paths are relative to the
repository; `main.cpp` is `linux/src/cli/main.cpp`, `core.cpp` is
`linux/src/core/airpods_core_client.cpp`.

## 1. The system

| Part | State | Operations | Interacts with |
| --- | --- | --- | --- |
| AACP client (`core.cpp`) | `socket_`, `protocolReady_`, `state_`, `battery_`, `earDetection_` | `connectToDevice`, `disconnectFromDevice`, the set commands, four socket handlers, `parseData` | its owner, by direct Qt signals; the device, by packets |
| Daemon (`main.cpp:1398-2100`) | selection, BlueZ view, last known state, one pending command, timers | BlueZ poll, slots of the client's signals, `processControlRequest`, timers, SIGUSR1, shutdown | client, BlueZ (blocking D-Bus call), CLI processes (local socket), state file |
| State file (`main.cpp:1972-2070`) | one JSON object | replaced atomically by `QSaveFile` | consumers such as Waybar |
| Battery (`battery.hpp`) | level and status per component, primary and secondary pod | `parsePacket` | `parseData`, `batteryValue` |
| Ear detection (`eardetection.hpp`) | two statuses | `parseData` | client, daemon |
| CLI as client of the daemon (`main.cpp:485-545`, `646-693`) | a connection | send, wait, give up | daemon |
| CLI on its own (`main.cpp:865-1265`) | confirmation flags, timers, its own AACP client | one status, mode or CA command | device |
| CLI connect and disconnect (`main.cpp:103-257`, `695-860`) | none | `bluetoothctl`, `pactl` | BlueZ, the sound server |
| Signals (`main.cpp:1345-1396`, `2161-2196`) | a self-pipe | SIGUSR1, SIGINT, SIGTERM | daemon |

What is hard in it:

* The daemon runs one event loop, so a slot never interleaves with another. The
  order in which the loop serves sockets, timers, CLI requests, D-Bus answers
  and single-shot timers is open, and several callbacks were armed for a command
  that may be over when they run.
* A client signal runs the daemon's slot inside the call that caused it. A
  write that fails inside `processControlRequest` finishes the pending command
  before `processControlRequest` goes on as if it were pending.
* One pending command serves all CLI processes. It has to be freed whatever the
  device, the link and the CLI do.
* The client object outlives its sockets. What it remembers of one session, and
  the `disconnected` of a socket it already let go of, meet the next session.
* BlueZ, the selected device and the session are three views of the same thing
  that change at different times.
* The state file outlives the process.
* The CLI on its own is a second owner of the client, with four ways to send its
  command, timers that are never stopped, and exit calls that a later exit in
  the same round of the loop overwrites.
* `parseData` takes what one `readAll` returns for one packet.
* Every BlueZ poll abandons a connection attempt that is under way.
* Signal handlers nest, write to a blocking pipe and run before and after the
  event loop does.

What makes each part correct: the client is ready only on a connected socket
whose own handshake was answered, and keeps what the device said; a pending
command has one owner, its timers, its session and its device; a request always
ends; `ok` means the state asked for; the file is what the daemon would answer
now, and is harmless after a shutdown; a level that is shown was reported; exit
code 0 of the CLI means what it says, its command goes out once, and it ends unless it
waits for its user; a device that is there gets a session in bounded time; a signal neither skips the
cleanup nor is lost.

## 2. Modules

| Module | Role |
| --- | --- |
| `AirPodsCoreClient` | the client: an operator per method and per socket handler, and `ClientSpec`, which drives it alone |
| `VibepodsDaemon` | the daemon on top of it, its environment, the properties, the fairness |
| `RequestReply` | abstract: what a CLI process is promised on the control socket; `VibepodsDaemon` implements it |
| `VibepodsCli` | one run of `vibepods-cli`, on top of the client |
| `AacpPackets` | the packets on bytes, and the functions that read values out of them |
| `PacketStream` | `parseData` fed by `readAll`; it implements `ClientSpec` |
| `Dialling` | `syncBluezState` and the client, with time |
| `SignalPipe` | handler, pipe, notifier and `aboutToQuit` |
| `Battery` | `parsePacket`, the packets that reach it, what the file shows of it |
| `MC...` | values of the constants for TLC, one for each of the above that is run |
| `AirPodsCoreClientProofs`, `PacketStreamProofs`, `BatteryProofs`, `DiallingProofs`, `SignalPipeProofs`, `VibepodsCliProofs` | theorems about these modules |
| `VibepodsDaemonProofs` | type correctness of the daemon, the slot and the session invariant and the properties they give, the daemon as owner of its client |
| `VibepodsDaemonPromises` | the refinement of `RequestReply`, the state file, `--mac` |

Who builds on whom: `VibepodsDaemon`, `VibepodsCli`, `PacketStream` and
`Dialling` extend `AirPodsCoreClient` and use its handlers unchanged, each as
another owner or another view of it; that each of them is one is a theorem (section 4).
`PacketStream` closes the gap below the
client, `SignalPipe` the one between the kernel and the daemon's `RefreshNow`
and `Quit`.

Operators marked "a faulty variant" are what a plausible bug would make of the
definition that follows. They are in no next-state relation: each shows that a
property fails when the code is changed that way.

### How the model corresponds to the code

*Client.* `sock` is `socket_` with the state of the Qt socket; `setup` is a
history of the set-up packets written on this socket. `late` stands for a
socket that was closed with bytes still queued and whose `disconnected` comes
from the event loop afterwards. `CloseKinds` chooses between a signal emitted
by `close()` ("sync"), a late one, and none at all ("silent": `deleteLater`
wins). The device is external: it answers a set-up packet it was sent, and
reports once it has the handshake.

*Bytes.* A packet is a sequence of bytes. An element of `wire` is what one `readAll` will
return: a packet joins the one before it when it is written (`Sends`), if it reaches the
socket before that one is read. With its bytes an element keeps how many packets they are,
which kinds of value these tell, and all that the device had told by then, so that the
client's record can be compared with it. `Mute` holds the packets that tell nothing the client
keeps: values out of range, cut short, unknown, metadata, battery. `Silent` says so in the
layout of the packets, without the client's own functions.
Reads one past the end of a `QByteArray` give its terminator; a mode passes
through a signed `char`, as in `parseMode`.

*Daemon.* An action is a whole callback: the client's operator, conjoined with
what the daemon's slot does in the same call. `slot` collects the
`pending*_` fields, `timers` the pending timers that are active, `snapDelays`
and `caDelays` count the `QTimer::singleShot` callbacks still to come, which
nothing cancels. `conn` is a CLI's end of its connection. `phase` is "sync"
between the end of `start()`'s first write, or of a `refreshNow` that could not
ask for a snapshot, and the `syncBluezState` that follows in the same callback;
BlueZ may change and CLI processes may connect there, the daemon does nothing
else. A crash keeps the file and BlueZ and nothing more.

*Synchronisation.* `SyncBluezState` is all of `syncBluezState`: the choice of the
device, the four places that drop the session (`SessionUnwanted`), the dial, the
slots of `disconnected` and `errorOccurred` that these run, and the write.

*Request and reply.* In `RequestReply` the daemon is a process that is up or
not, a record and the connections. `Promise` in `VibepodsDaemon` maps the phase to
`up` and the cached mode and CA value of a ready session to the record, and hides
slot, timers, BlueZ and file.

*CLI.* `stage` is how far `main` has come: each blocking call (the daemon, a D-Bus
query, `bluetoothctl`, the user's choice) is a step, and BlueZ may change between two of them. In
the event loop each slot and each timer is an action. `cli` holds the `bool` locals
as a set of flags, the running timers and the exit code. A set exit code stops the
sockets but not the timers that are due in the same round, as Qt does it;
`Dial` comes before `exec`, where an exit is lost and only the flag stays.

*Dialling.* `Tick` passes time, handlers take none. `poll` and `age` are the
time to the next poll and since the attempt or the wait for a reply began;
`quiet` is the time since anything got in the way. SIGUSR1 runs `syncBluezState` when no
snapshot can be asked for, or when its packet cannot be written. Reports are left out.

*Signals.* `pending` is the kernel's, one instance of each signal; `handlers` is the
stack of handlers that have interrupted the daemon's main thread. `at` follows `main`
from before `installSignalHandlers` through the loop and the three steps of
`aboutToQuit`. Quitting lets the rest of the bytes of a read be served.

*Abstractions.* Names, models, levels, time stamps and texts are left out;
`last_error` is "is there one". A device stands for its own name. The writes of
one handler succeed or fail together and the last one counts. `updated_at` is left
out, so a write that only moves the time stamp changes nothing here. Timers have
no durations (except in `Dialling`): a running timer may fire at any moment, which includes
every order the real durations allow. Requests that cannot be parsed, that name an unknown
command or an invalid value are one kind, "other": each is refused, on whichever
path.

## 3. Runs

| Run | Question | Properties |
| --- | --- | --- |
| `client` | When does the client count as ready? Two devices, failing writes, late signals, calls at any time | `ClientTypeOK`, `ReadyImpliesSocket`, `ReadyAfterHandshake` |
| `packets` | Does the client keep what the device tells it, byte for byte? Reports of every kind, values out of range, packets cut short, two packets in one read | `StreamTypeOK`, `RecordIsReport`, `ImplementsClient` |
| `battery` | Which levels can be shown? Packets broken at each place, in both pod orders, with repeated, unnamed and absent components, wrong counts, a size that is not dispatched | `BatteryTypeOK`, `ShownWasReported`, `LastLevelKept` |
| `daemon_ipc` | Two CLI processes against one command slot, with a session that comes and goes and writes that fail | `TypeOK`, `OneOwner`, `SlotTimers`, `PendingHasSession`, `FileFresh`, `OkMatchesCache`, `KeepsPromise` |
| `daemon_selection` | Two devices that appear, connect, disconnect and vanish, failing queries, SIGUSR1, dials that fail at once | `CommandForTarget`, `SessionForTarget`, `FileFresh` |
| `daemon_configured` | The same with `--mac`, on a bus that answers | `PersistentSession`, `FileFresh` |
| `daemon_file` | Ear reports, periodic snapshots, shutdown, crash, restart | `CleanExitFile`, `FileFresh`, `EarsRemembered` |
| `daemon_live` | Does everything end? Under fairness, with restarts | `EveryRequestAnswered`, `SlotFreed` |
| `daemon_bus_fault` | What does a failing D-Bus query do to a session? | `ReadySessionKept`, violated |
| `cli` | What do the exit code and the output of one `vibepods-cli` promise? Every command, with and without daemon | `CliTypeOK`, `ZeroMeansConfirmed`, `StatusSettled`, `OneStatusObject`, `FatalExitsNine`, `SentOnce`, `DisconnectVerified`, `Terminates` |
| `dialling` | How long until there is a session? | `DiallingTypeOK`, `ReadyInTime` |
| `signals` | What can a signal do, whenever it hits? | `SignalTypeOK`, `EndsClean`, `CleanupLast`, `QuitHonoured` |

`FileFresh` appears in four runs because each has writes the others cannot reach:
reports, socket errors and selection, late signals with a configured address, and
the first write of a restarted process.

`daemon_bus_fault` shows a disagreement between documentation and code. The
repository's README says the daemon keeps a persistent session open; a
`GetManagedObjects` call that fails reads as a list without AirPods
(`main.cpp:273-276`), and the daemon closes the session of a device that BlueZ
still has connected. The run shows it for a session whose handshake is done.

Some properties name an exception, and the runs reach it. These are the places where
the code does less than one might expect:

* `RecordIsReport`: packets that one `readAll` takes together are taken for the first of
  them, or for none (`core.cpp:246`). What the client is wrong about then stays wrong until a
  report of that kind is read alone.
* `ReadyInTime`: a set-up packet that could not be written leaves a connected socket that
  never gets ready and that no poll dials again (`core.cpp:104`). A features reply that `parseData` loses
  behind a report of the same read (`core.cpp:246`) would have the same effect; the property
  assumes that every reply is read on its own and within `ReplyTime`.
* `CleanExitFile`: when a session is closed with bytes still queued, its `disconnected` is yet to come
  at the last write of `cleanup` (`main.cpp:1552-1568`). `protocolReady_` is then still set, and the
  mode and CA of that session stay in the file (`main.cpp:2006`).
* `ImplementsClient`: a CA packet that ends behind its header takes its value from what was read
  together with it, so CA may become a value no report told.
* `Terminates`: `connect` without `--mac` waits for the user as long as it takes (`main.cpp:738`).
* `ZeroMeansConfirmed`: a new client starts with "Off" and CA off on record, which the
  first report of anything confirms. `OkMatchesCache` has the same limit in the daemon.
* `OneStatusObject`: a settle timer due in the round of the timeout prints a second object.
* `DisconnectVerified`: a query that fails reads as "disconnected".
* `QuitHonoured`: a full pipe blocks the handler and with it the process.

### Bounds

* One or two devices: the selection and the session can disagree on at most the
  old and the new one, and `disconnect` needs one that fails before one that succeeds.
* Two CLI processes where the slot is the subject: one owns it, the other is
  refused, leaves, or asks next. They are interchangeable in the safety run
  (symmetry); the liveness run uses none.
* `StatusPollLimit` and `PollLimit` are 1 or 2 for the six and eight snapshots of a status
  request. The first, a middle and the last poll exist with 2; the theorems hold for any limit.
* `MaxDelayed` = 1: a CLI process starts only while no single shot is outstanding.
  One accepted command can still add one, and a CA command that follows a mode
  command meets the other's. This bounds the environment, not the daemon; the
  theorems do not depend on it.
* Two noise control modes, "Off" as the initial value and "Adaptive" as the target
  and the mode CA needs; both CA values where CA is the subject.
* `MaxWire` = 2: two packets read together are the case that matters, since
  `parseData` looks at the header of the first packet of a read and at the size of the whole; a
  second packet already makes it too long, a third adds nothing new. The run has two
  of the four modes, one ear report and one of the hearing aid, both of CA in both layouts, seven
  packets that tell nothing, and one device, whose sockets close at once or late; the theorems cover all reports, every such packet and any
  number of packets in a read.
* `MaxRaised` = 5, `Capacity` = 3, `Chunk` = 2 (64 KiB and 32 in the code): a read can hold
  a refresh behind a quit, bytes can be left over for the next read, and the pipe can fill up.
* `PollInterval` = 5, `DialTime` = 4, `ReplyTime` = 2: an attempt takes all but one unit of the
  interval, and attempt and replies outlast it, so that a poll falls into each phase of
  setting up. The theorem covers every other choice.
* `Signals` limits which of SIGUSR1, quit and kill a run of the daemon sends; a crash at every
  point in every run would only repeat the initial state.

### Fairness

`EveryRequestAnswered` and `SlotFreed` assume: the callback that is in
`syncBluezState` goes on (D-Bus calls have a timeout), a loop that was told to quit
ends, and the six-second timer and each pending request are served if they are ready
again and again (strong fairness: between two readinesses the loop may be inside
`syncBluezState`). Qt's loop serves ready timers and sockets in every iteration.
Nothing is assumed
of the device, of BlueZ, or of CLI processes, and no other timer has to fire.

`Terminates` assumes that `main` goes on from every blocking call that has a time limit
(`Limited`), that the `--timeout` timer fires, and that a loop told to exit ends. The one call
without a limit is the `readLine` of `connect` without `--mac`: `Pick` has no fairness.
`sendDaemonRequest` limits each wait, not the whole reply (`main.cpp:515-529`); that a daemon does not
send a line without end in small pieces is assumed of it, and the repository's writes
its answer at once. No other timer and nothing of the device is needed.

`QuitHonoured` assumes that the kernel delivers a pending signal, that a handler that
can write does, that `main` goes on, and that the loop gets to the pipe and to its own
end although other slots are ready as well (strong fairness, as those are busy in
between). The run has `CHECK_DEADLOCK FALSE`: a daemon that has ended, or one that
is stuck, does stop.

`ReadyInTime` needs no fairness: time cannot pass beyond the limits of an attempt and a
reply. That an attempt takes less than the poll interval (`PollSlowerThanDial`) is an
assumption about the device: the interval is five seconds by default and may be
set to one. Without it the property fails, as every poll abandons the attempt of the one
before. `ReplyTime` assumes that a device that is sent a set-up packet answers it, and that the
answer is read alone.

## 4. Proofs

Assumptions: `ClientAssumption`, `DaemonAssumption`, `CliAssumption`, `BatteryAssumption`,
`DiallingAssumption`, `StreamAssumption` and `SignalAssumption` say what the constants are;
`MuteAssumption` says that no packet of the device is shorter than the six bytes of the features
reply, and that those of `Mute` are silent;
`ListAssumption` and `FirstAssumption` say that any nonempty set of devices has a first one in
BlueZ's order, which holds as BlueZ returns a finite list; `PollSlowerThanDial` is above. TLC
evaluates all of them in the runs. What a single theorem assumes beyond that is in its
statement.

**Client.** `ClientTypeCorrect`. `ReadyNeedsHandshake` goes by `SetupInOrder`: the set-up packets
of a socket are written in order, which `ReadyAfterHandshake` alone does not say.
`ReadyBelongsToSocket` assumes `"silent" \notin CloseKinds`; with it, `ReadyImpliesSocket` is false.

**Owners of the client.** `ReadyNeedsHandshake` is about `ClientSpec`, in which an owner may call anything
at any time. It says something of the programs because each of them is such an owner:

* `DaemonRunsClient`: every callback of the daemon changes the client by one step of `ClientNext` or
  not at all. `SyncBluezState`, which drops one session and dials the next in one callback,
  has a lemma of its own (`SyncDrivesClient`). A restart is the one exception, the initial state again.
* `CliImplementsClient`: `Spec => ClientSpec` for `vibepods-cli`. It needs that `main` has a device in hand
  when it dials (`InHand`), or it would be the empty address.
* `DiallingImplementsClient`: the same for the polls with time.
* `StreamImplementsClient`: the same for the client on bytes.

`DaemonReadyAfterHandshake`, `CliReadyAfterHandshake`, `DialledReadyAfterHandshake` and
`BytesReadyAfterHandshake` carry `ReadyAfterHandshake` over. For the CLI and for dialling, which
close sockets with a signal at once, `"sync" \in CloseKinds` is assumed, as `ClientSpec` must allow the same.

**Bytes.** `StreamTypeCorrect` holds for any bytes: no range check of `parseData` is missing. The other three
rest on `StreamInvariant`: `Spec => []StreamInv`. `RecordIsReport` compares the record with what was told,
and nothing in it says what the bytes on their way have to do with that; so `WireOK` says of each
element of `wire` that, when it is a single packet, `Values` finds in it exactly what it tells, and that
it tells nothing else anew; that no element is shorter than six bytes, and two packets together are not shorter than
twelve, so that joined packets do not have the exact size of an ear, mode or CA event packet; and
that a features reply is only on its way when features were requested. `InSession` says that bytes are only on their
way in an open session. The lemmas below it parse every packet of the device once.

* `RecordFollowsReports`: `Spec => RecordIsReport`, its box part from `StreamInv`.
* `StreamImplementsClient`: `Spec => ImplementsClient`, assuming `CaReports = BOOLEAN`. The assumption is needed: a
  conversational awareness packet that ends behind its header takes its value from the first byte of
  the packet read with it (a handshake reply begins with 1, "on"), whatever the device may report.

**Battery.** `BatteryTypeCorrect`, `ShownCorrect`, `LevelsKept`.

**Daemon.**

* `TypeCorrect`: by groups of variables, with one lemma for each helper that several handlers use.
* `SlotInvariant`: `Spec => []SlotInv`. `OneOwner` alone is not inductive: to show
  that starting a command takes nobody's reply away one needs that an empty slot has no
  owner, and that in turn needs the timers to match. `SlotInv` is their
  conjunction. The argument follows the three things a handler can do to the slot: leave
  it, clear it with a reply to its owner, fill it when it was empty; the failing
  status request, which leaves
  a poll timer armed behind an empty slot, is a fourth.
  `ReplyHasOneOwner` and `TimersFollowSlot` follow.
* `SessionInvariant`: `Spec => []SessionInv`, assuming
  `CloseKinds \subseteq {"sync", "late"}`. `PendingHasSession` needs `ReadyImpliesSocket`
  (or a command could be accepted on a protocol that is ready without socket) and that
  a connected socket
  has no older `disconnected` to come (or that one would end its command's session unnoticed);
  `CommandForTarget` needs `SessionForTarget`, since the
  command's device is the session's. The assumption is necessary: with "silent",
  `disconnectFromDevice` leaves `protocolReady_` set, and a command stays pending
  without a session until its timer ends it. `PendingOnItsSession`, `CommandsReachTarget` and
  `SessionWithTarget` follow.
* `DaemonKeepsPromise`: `Spec => KeepsPromise`, the refinement of `RequestReply`, under the same
  assumption. Initial states map to initial states; each action maps to one of
  `Ask`, `Leave`, `Done`, `Start`, `Ends`, `Serve`, or to a stutter. Needed beside both invariants:
  the slot agrees with the request its owner sent (`SlotMatches`), or an `ok` could
  confirm another value than was asked for, and idle connections carry no request (`IdleClean`).
  `OkOnRecord` follows from the same invariant.
* `FileNeverBehind`: `Spec => []FileFresh`, when writes succeed. `FreshInv` adds what the file shows in
  every phase in which the daemon runs, that a device seen connected is the selected one, and
  that a session has an address; each handler then either writes, or changes nothing
  the file shows.
* `EarsInMemory`; `CleanExit` (writes that succeed, as one that fails leaves what was there; it follows
  from `SessionInv`, whose `ReadyImpliesSocket` says that after the socket is closed the protocol is only
  ready while a `disconnected` is to come); `SessionPersists` (a
  configured address and a bus that answers: `daemon_bus_fault` shows that the second is needed).

**Dialling.** `SessionInTime`: for every poll interval longer than an attempt and every
reply time. The invariant `Progress` bounds `quiet` in each stage of setting up: no attempt, by
what is left of the interval; an attempt, by its age, or by the interval plus its age when
SIGUSR1 began it too late for the poll to let it finish; each reply, by the sum so far.

**Signals.** `NoSignalSkipsCleanup` and `NothingServedAfterCleanup`, by `OnTheWay`: what has been
done when `main` is where it is. They hold for any capacity and any number of signals.

**CLI.** `CliTypeCorrect` carries that the device `disconnect` checks is one it took on.
`CliInvariant` is the conjunction of six parts, each kept on its own: `Before` (nothing has
happened before the loop), `Printing`, `Reaching` (after a fatal error only the timeout is left),
`Sending`, `Confirming`, `Settling`. `ObjectPrintedOnce`, `UnreachableExitsNine`,
`CommandSentOnce`, `SuccessIsConfirmed` and `PrintedIsSettled` follow; `DisconnectionsVerified` has an
invariant of its own (`Accounting`), and so has `TimeoutStaysArmed`.

Only model-checked: `EveryRequestAnswered`, `SlotFreed`, `Terminates` and `QuitHonoured`, as liveness
under fairness is out of the prover's reach. The safety they rest on is proved where the code has a timer for it: a
pending command has its six-second timer (`TimersFollowSlot`), the CLI in its loop its timeout
(`TimeoutStaysArmed`). That every assumption above can be met is shown by the runs, which
reach the states in question under it.

## 5. Not modelled

* Audio routing after `connect` (`main.cpp:149-257`): it runs `pactl` and prints; no state and no exit
  code depends on it.
* Argument parsing, help, JSON layout and wording, logging, build files.
* `rename`, the hearing aid's setter, names and models: data no decision depends on.
* `parseEncryptedPacket`, `getComponentStatus`, `overrideEarDetectionStatus`, and the commands of
  `airpods_packets.h` the client does not use: no caller in the repository.
* Two daemons at once: the second fails to listen on the control socket, warns and goes on
  (`main.cpp:1588`). A single one without CLI processes is part of the model; the two would meet
  only in BlueZ, the device and the file.
* A client that sends further bytes after its request (`main.cpp:1601`): the repository's CLI does not.
* Durations other than those of dialling.
* Signals other than SIGUSR1, SIGINT, SIGTERM and a kill, such as SIGHUP: the daemon installs no handler for
  them, and one that ends it is a crash of `VibepodsDaemon`.
* Level bytes above 100 (`battery.hpp:104`), and state kept from one device to the next
  (`core.cpp:33`): see the plan.

## 6. Plan

Done: the client alone and on bytes, the daemon with its abstract specification, the CLI, dialling,
signals, battery levels, theorems for every safety and every action property, the two refinements, and
that the owners of the client use it as its own specification says.

What could follow:

1. A history of what each device reported, for values that are shown or confirmed from an earlier
   device or session (`core.cpp:33`, `main.cpp:1749`).
2. Files that could not be written: for how long the file may be wrong, under fairness of the
   reports (`main.cpp:2064`).
3. Two daemons on one state file.
4. Theorems that put the levels together: that the daemon on bytes keeps its promise, and that a signal in
   `SignalPipe` is the `RefreshNow` or `Quit` of `VibepodsDaemon`.
5. What liveness rests on beyond the timers: that a request which was sent stays with the daemon until it is
   answered or the process ends (`EveryRequestAnswered`).

## 7. Running

    tlc -config MCDaemonIpc.cfg MCVibepodsDaemon
    tlc -config MCVibepodsCli.cfg MCVibepodsCli
    tlapm VibepodsDaemonPromises.tla

Each run of section 3 is listed with its module and configuration in `PROJECT.json`, as are
the faulty variants, the source lines of every definition and the hazards the
properties are about.
