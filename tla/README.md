# Formal model of conboard

conboard turns a small Linux board into a programmable input hub: it reads MIDI
controllers, keyboards, mice and joysticks, matches each event against the rules
of a profile (a json file), and emits HID reports to a computer over USB, or
feedback to the device. A web console shows what happens and edits the profiles.

This directory holds TLA+ models of the concurrent and distributed core, the TLC
runs that check them on small instances, and TLAPS proofs for every instance.
`PROJECT.json` lists components, runs, mutants, the source lines behind each
definition, findings, hazards and theorems.

## 1. Inventory

| part | state it keeps | operations | interacts with |
|---|---|---|---|
| **device engine** `LowLevel/Common/src/deviceEngine.cpp` | output queue, `modes`, `CurrentMode`, log stream, `stop` | startEngine, stopEngine, report, enqueue, changeMode, out_func, coms_handler, Reload, outFile, outStop | readers call it; owns a `zmq_coms` |
| **process main loop** `runDevice.hpp` | `g_stop` | open retry, spin, Stop | engine |
| **evdev reader** `evdevDevice.cpp`, `holdGen`, `evMatch` | fd, `holdState` per key | in_func, processEvent, runRules, serviceHolds | engine |
| **MIDI reader** `midithread.cpp`, `midiMap`, `midiPortMatch` | ALSA handles, SysEx buffer | in_func, processInput, processSysex, emitNative | engine, ALSA |
| **HID output** `oActions.cpp` | one report | keyboard_send, oMouse, oJoystick | USB gadget device |
| **handler communication** `zmq_coms.cpp` | `unique_number`, report queue, three REQ sockets | registration, heartbeat, dispatch, th_io, die | engine; dispatcher over TCP |
| **dispatcher** `LowLevel/dispatcher` | `devices`, `last_ping`, `commands`, `LastAction`, `LastActions`, `/ws` clients | th_unique_number, th_heart_beat, th_io, Post*Command, Get*, user_handler | handlers (ZeroMQ REP), console and backend (HTTP, websocket) |
| **launcher** `LowLevel/launcher`, `launcherMatch`, `deviceDetect`, `event_handler.sh` | systemd units, `/tmp/temp.vars` | create_json, stop_device, replay at boot | udev, systemd, profiles |
| **profile parser** `jsonParser`, `keyParser`, `keyNumber` | header, modes | Reload, ProcessMainBody, ProcessHeader | engine, launcher |
| **backend deploy** `backend/src/deploy.cpp` | profiles on disk, units | deploy, undeploy, reload | udev trigger, systemd |
| **backend CRUD** `backend/generated`, `backend/src` | a database | create, list, update, remove per table | console |
| **console** `frontend/console` | boards, their ids, tombstones | load and seeding, save, create, copy, remove; Monitor, RuleEditor | backend, `/ws` |
| **HMI** `LowLevel/HMI` | screen stack, encoder and button state, simulated controls | quadrature, debounce, pollLoop, Shell, sim_server | backend REST, SPI panel |
| **screen** `LowLevel/screen` | as the engine | a legacy copy of engine and MIDI reader | dispatcher |

A key press travels reader → rules → output queue → executor → HID. On the way
the reader reports it: report queue → th_io → dispatcher slot → `/ws` → console.
A command travels console → backend → `POST /iocommand` → `commands` → answer to
the next heartbeat → coms_handler → Reload, outFile or outStop. A profile travels
console → database → deploy → file → udev trigger → launcher → unit → handler.

What is hard: four threads share an engine under one lock that covers part of
its state; a stop must end all of them although one sleeps in an output and
another waits for the dispatcher; every request is a ZeroMQ REQ that can time
out while it is still going to be served; the dispatcher forgets everything when
it restarts; its maps are read without their lock; reports are dropped by
policy; hotplug events race through a shared file, and through unit files the
backend deletes; rule loops run on over rules that a rule has just replaced; a
save is a DELETE and a POST with client-made ids and no transaction. What makes
each part right:

* *engine*: outputs in order, once, whole; nothing of the old rules after a
  reload's flush; Stop ends, and ends clean.
* *communication and dispatcher*: an id names one process; an answer is read by
  who asked; a command runs at most once, in order, at its addressee; a report
  is recorded at most once; nobody blocks for ever on an absent peer; the
  console converges to the last action.
* *launcher and deploy*: when events stop, each connected device with a profile
  has its one handler, running the profile deployed last, and nothing else runs.
* *readers*: a hold fires when and as often as its rule says; a message is cut
  where it ends and the reader is in step again after a broken one.
* *library*: a board never shows another one's rules, what was saved is stored,
  what was deleted stays deleted.

## 2. Modules

| module | models | proofs | refines |
|---|---|---|---|
| `OutputStream` | what an engine promises about outputs | | |
| `DeviceEngine` | engine, reader skeleton, main loop: one handler process | `DeviceEngineProofs` | `OutputStream` |
| `Mailbox` | what the dispatcher promises about commands | | |
| `CommandLeg` | registration, heartbeats, commands, roster: handlers and dispatcher | `CommandLegProofs` | `Mailbox` |
| `ReportLeg` | reports: handler queue and th_io, dispatcher th_io, slot, map, `/ws` | `ReportLegProofs` | |
| `Hotplug` | udev, `event_handler.sh`, launcher, units, the node a handler opens, deploy and undeploy | `HotplugProofs` | |
| `HoldReader` | the evdev reader: events, rules, holds, mode changes | `HoldReaderProofs` | |
| `MidiReader` | the MIDI reader: from bytes to messages | `MidiReaderProofs` | |
| `Library` | the console's profiles and the database behind them | `LibraryProofs` | |
| `MC*` | instances for TLC | | |

`Hotplug` composes launcher, backend and handlers, the two legs compose handlers
and dispatcher, `Library` composes console and backend. What joins modules
otherwise is an assumption and a guarantee. `DeviceEngine` takes `heartbeat()`
and `die()` to return (`Heartbeat`, `JoinComs`), which are `HeartbeatReturns` and
`DieReturns` of the legs. A handler process is one step in `Hotplug` and all of
`DeviceEngine`; the readers' `in_func` is a skeleton in `DeviceEngine` and all of
`HoldReader` and `MidiReader`, which leave the threads out: what they share with
other threads is the queue and the mode vector, which `DeviceEngine` has. The two
legs are separate because they share no state the properties can tell apart:
each has its own socket, thread and map, and the uuid a report carries is fixed
once registration is over (`Unregistered` in `ReportLeg`).

### DeviceEngine

One program counter per thread: `mpc` (constructor, `runDevice`, `Stop`), `rpc`
(`in_func` of either reader), `opc` (`out_func`), `cpc` (`coms_handler`). A step
is what a thread does between two points where others can see it: a whole
critical section when nothing inside it is shared without the lock, smaller
steps where something is. Reload takes the lock, flushes, parses mode by mode
and runs the header: `ReloadClear`, `ParseMode`, `ParseDone`, `ReloadHeader`; the
lock is held from the first to the last, so it is derived from `cpc`
(`LockFree`). changeMode takes no lock: the scan (`rpc = "scan"`) may see the
vector being rebuilt, which `torn` records, and then everything that the
undefined behaviour can produce is an outcome (`ChangeModeTorn`: stay, copy a
mode of any parse, die). The rule loop itself goes on over rules that changeMode
replaced: `StaleRules` is the death of the process, the other outcomes are
those of `RuleMatches`. stopEngine tests the log flag, closes the stream and
clears the flag in three steps without the lock. Two threads in the stream at
once (`StreamRace`), and a write to the MIDI port that the reader has closed
(`WriteAfterClose`), do what either thread does alone or kill the process
(`RaceKills`). One call of stopEngine is modelled: those of the destructors find
nothing left to join. An output ends: a write that blocks for ever is left out,
and with it a Stop that waits for it.

Data: an output is `"hid"` or `"native"`, a batch is its number and the outputs
left, a mode is its index and the version of the profile it was parsed from. A
version may fail to parse (no modes). Which rule matches which event is a
choice. `heartbeat()` returns any command at any time.

### CommandLeg and ReportLeg

A handler's socket is a number that no request in flight carries; replacing the
socket after a timeout takes a new number, and an answer to an old one is thrown
away (`Answered`), as ZeroMQ does. A request whose sender has given up stays in
`hbWire`, `unWire` or `wire` and may be served later. While the dispatcher is
down a request that was never transmitted is lost with its socket. The REP side
takes requests of different peers in any order; a handler whose socket was
replaced is a new peer, so its old request may be served after its new one. A
crash empties all the maps of the dispatcher and may lose what its sockets had
received. `devices.count` without `lock_devices` may miss a key while
th_unique_number inserts one (`Count`). A refused connection, a zmq error or a
failed send to a connected peer are left out: `connect()` on loopback and
`send()` to an open socket do not fail. The number of HTTP requests in flight
does not matter: PostIOCommand is one critical section.

`fresh` stands for `last_ping` being younger than `HeartbeatLiveWindowSec`; only
heartbeats refresh it in the model (the io leg also does in the code, which
keeps more senders alive). `ReportLeg` leaves `last_ping` out. A client that
opens `/ws` is sent the map and is up to date when the next action is streamed.

### Hotplug

Who moves: the user and the kernel (`Plug`, `Unplug`, `Enumerate`, `Reboot`), one
udev event handler per port (`Dump`, `ReadVars`, `MatchProfile`, `StartUnit`,
`StopDevice`), each handler process (`Open`, `GiveUp`) and the backend, which has
one thread (`DeployWrite`, `DeployRename` or `RenameFails`, `DeployReload`,
`UndeployProfile`, `UndeployScan`, `UndeployStop`, `UndeployRm`). udev keeps the
events of one device in order and runs those of different devices at the same
time; all of them write the one `/tmp/temp.vars`, so `temp` is what was written
last and `mixed` records that a launcher read another event's variables. Unit
files outlive a stop, a reboot and, when a launcher writes them again, an
undeploy; `mishap` records what befell a unit, so that a property can say which
mishap excuses it.

Folded into one step: a launcher that reads a half-written `temp.vars` misses its
event as one that finds another's does; the listing of profiles and units is
read with the variables; a unit is written and restarted at once; stop_device
stops all its units at once. Left out: names with a dash, dummy profiles, the
`-r` scan (retired), a second class of devices and systemd's cached `ExecStart`.

A deploy writes the profile to `<file>.tmp` and renames it. The launcher lists
every file with ".json" in its name (`Listed`), so between the two steps, and after
a reboot between them, it finds the temporary file too, and may write a unit for
it, which names a file that is gone after the rename; `Astray` is what `InForce`
says of such a unit. A file that is not complete does not parse and counts as not
there. A profile's text is a number (`rev`); a deploy takes one that no file and no
handler has (`Unused`), which tells it from them without a counter.

A handler reads its profile when it looks for its node. One for evdev devices
takes the node under its port, else one whose name the profile declares, else any
of its class, and if there is none it reads nothing from then on: `EvdevDevice`
does not override `isReady`, so `runDevice` does not try again. One for MIDI devices
(`Midi`) takes a port of its name only, and tries again for a bounded time, so it may
find one or give up. Such a handler reads `"none"`; one whose device was unplugged
keeps a descriptor that is `"dead"`.

A deploy looks for the file with the profile's tags and writes over it, so a
profile keeps its file when its name changes, and its old unit, which has the old
name, goes on running; a deploy that finds no such file writes to the one named
after the device, even if another device's profile is in it. Units are found by
name, so after that they no longer tell whose they are: `clashed` collects these
names. A unit is `late` when it is started for a profile that was removed, or
renamed, after the launcher had read it, or for a temporary file.

### HoldReader

One thread and the kernel. A read takes the kernel's buffer (`Poll`), each event
is tracked (`ProcessEvent`) and run through the rules (`RunRule`, `ChangeMode`,
`RulesDone`), then every hold rule is tried (`ServiceHold`), which runs the rules
again for a synthetic event. Instead of times the model keeps ages up to the
longest delay of a rule; `late` is the time since the reader looked at its clock.
A kernel buffer that overflows is replaced by SYN_DROPPED and the newest event.
changeMode assigns the vector the loops run over: while the new rules fit its
capacity (`room`) the iterators stay valid and the loop goes on in the new rules;
otherwise the loop ends or the process dies; that it reads rules which were freed
and fires one of those is an outcome left out. A read takes all of the kernel's
buffer, in the code at most 64 events, and the rest in the next round. `fired`,
`since`, `once` and `skewed` are histories. `OncePerPress` and the delay in
`InTime` are about keys that have one hold rule per mode (`Alone`) and no hold
event that went on in another mode (`skewed`); what happens to the others is in
section 5.

### MidiReader

A byte keeps the message it belongs to and its place in it. The device sends
packets of up to three bytes, a read takes what the driver holds, up to the size
of the buffer: `ReadMore`, `ReadEnd`, `Abandon`, `ReadSignal` are the ways a read
ends. A SysEx message may lack its end (`"cut"`). The thread's ways out are in
`DeviceEngine`.

### Library

An operation of the console (`flows`) is a sequence of requests, a step for each
request and each answer; nothing in the page keeps operations from overlapping.
`heap` is the page's Board objects, `boards` what the rail shows and `boardIds` the
parallel array of ids; a save works on the object of its click and writes the id
to the position of its click. The backend serves one request at a time and has
no transactions: `Create` inserts the row and then the mode, and a key conflict
ends it in between. The other child tables get their ids as the mode table does
and are folded into it. Not modelled: which board is selected, a second tab,
React's double effects in development, the display of the save state. A reload of
the page drops its requests in flight; that the backend serves one of them after
the reloaded page has read the tables is left out.

## 3. Runs

Every property has a mutant: a changed definition, kept beside the original,
with which TLC finds the property violated.

| run | expects | shows |
|---|---|---|
| `EngineSafety` | pass | evdev; `Ordered`, `Accounted`: batches executed in order, once, none lost but by a flush; `NothingQueuedInReload`; `LogLostToOutstopOnly`: report()'s unlocked test of the flag is safe against stopEngine; `StoppedClean` |
| `EngineLive` | pass | MIDI; refinement of `OutputStream` with its progress, `StopCompletes` |
| `EngineModeRace` | violation | changeMode during a Reload stays in the old mode although every version has the new one |
| `CommandSafety` | pass | `OneOwner`, `AnswersMatch`, refinement of `Mailbox` |
| `CommandLive` | pass | `HeartbeatReturns`, `PendingIsFetched`, `StaysInRoster` |
| `ReportSafety` | pass | `RecordedOnce`, `OutOfOrderOnlyLate`, `QueueIsNewest`, `StreamFresh` |
| `ReportLive` | pass | `DieReturns`, `ReportLeaves`, `SlotIsEmptied` |
| `Hotplug` | pass | `InForce`, `StoppedWhenGone`, `UndeployIsComplete`, `OneReader`, and `CatchesUp`: settled with all in force again and again |
| `HotplugMove` | violation | a device with a serial number, moved to another port, has its handler bound to the port it left |
| `Library` | pass | `Linked`, `SavedIsStored`, `StaysDeleted` |
| `HoldReader` | pass | `OncePerPress`, `InTime`, `HoldFires` |
| `MidiReader` | pass | `SpacedIsHanded`, `OnlyMessages` |

### Bounds, and why they are enough

* **Engine**: three profile versions (two modes, one mode, none) give every way a
  reload can change what changeMode looks for. Two batches let one wait while
  the other executes, which is what an order or a loss needs; two outputs per
  batch let a stop come between them. One event per read() suffices because
  events of a burst only meet through the queue. Reloads, edits, logs are not
  bounded.
* **CommandSafety**: two handlers, two starts, so two handlers at once or one that
  restarts; two commands (one waits, one is refused or follows); one crash. Two
  socket numbers per handler: the one in use and one abandoned; with none left
  the handler waits with its timeout until an abandoned request was served.
  Handlers are symmetric; no liveness is checked there.
* **CommandLive**: one handler and its successor, one command, one crash.
* **ReportSafety**: a queue of two and four reports, so it overflows twice; three
  socket numbers, so two given-up reports can be in flight; one crash; two
  clients, symmetric.
* **ReportLive**: two handlers and a history of one, so that the map overflows;
  one report each, so a handler's queue does not overflow there; one crash.
* **Hotplug**: two ports and two devices of one model, one with a serial number,
  so units are keyed either way, a port changes its device and a device its
  port; a profile that may be deployed under either of two names, one of an evdev
  and one of a MIDI device, and none at the start. Three acts (plug in, deploy,
  undeploy, reboot) in any order, unplugging not counted: two can race in the
  launcher and the third come after. There are 1.2 million states.
  `HotplugMove` needs two, and a profile that is installed.
* **Library**: a bundled name and another; two operations at once, three in all;
  one edit, one lost request or answer, one reload of the page.
* **HoldReader**: two keys, one the kernel repeats, held together; two modes that
  change into each other by a hold and by a release, with fewer rules in one
  than in the other, so that iterators run past the end; delays of one and two
  ticks; a kernel buffer of two.
* **MidiReader**: lengths just below, at and above the signal, the read and the
  cap; three messages, so that one broken, one in its wake and one after it.

Bounds are guards on environment actions (a rule matching, a start, a post, a
report, a crash, a user's act) and never on what a thread must do. Key presses in
`HoldReader` are not bounded.

`CHECK_DEADLOCK FALSE` stands in the runs of `Hotplug`, `Library`, `HoldReader` and
`MidiReader`: with the acts, operations or messages used up, or after the death of
the process, the system rests. In the others nothing may stop.

### Fairness

* Threads are scheduled: weak fairness for each thread of an engine, each handler
  and each thread of the dispatcher. A pending poll timeout is one of Poll's
  outcomes and no event has to come.
* `OutPop` is strongly fair: the executor competes for the mutex with a coms
  thread that sleeps 200 ms without it in every round and a reader that sleeps
  in poll().
* Receiving is strongly fair per handler: a ZeroMQ REP socket takes requests from
  its peers in turn, so a handler whose requests keep coming is served although
  each of them may be given up or lost in a crash.
* The service manager restarts the dispatcher (`Restart=on-failure`).
* `Hotplug`: the kernel enumerates devices, launchers run, handlers open or give
  up, the backend ends its request. One weak fairness condition for all of it
  (`Reaction`): some process goes on while one of them can, which is less than the
  scheduling of each; what they have to do between two acts is finite.
* `HoldReader`: time passes and the reader's thread runs.
* Crashes, exits, stops, posts, clients, edits, keys and other acts of users are
  never fair.

## 4. Proofs

Seven modules prove theorems for every value of the constants; each assumes only
the named ASSUME of the module it is about. Where an invariant that a run checks
is not inductive, the conjunction in the last column is.

| module | theorem | property | inductive with |
|---|---|---|---|
| `DeviceEngineProofs` | `TypeCorrect`, `CleanStop` | `TypeOK`, `StoppedClean` | `OutLocal`, `Lifecycle` |
| | `OutputsInOrder`, `NoBatchLost` | `Ordered`, `Accounted` | each other |
| | `ReloadExcludesEnqueue` | `NothingQueuedInReload` | |
| | `LogSafe` | `LogLostToOutstopOnly` | `LogFlag` |
| | `KeepsPromise` | the engine implements the safety part of `OutputStream` (`AbsSafe`) | |
| `CommandLegProofs` | `Typing`, `Owned`, `Matched` | `TypeOK`, `OneOwner`, `AnswersMatch` | `Counted`, `Prepared`, `Commanded`, `Issued`, `NewIds`, `OwnSocket`, `InTurn` |
| | `Implements` | `ImplementsMailbox` | |
| `ReportLegProofs` | `Typing`, `NewestKept`, `Once`, `OrderKept`, `Fresh` | `TypeOK`, `QueueIsNewest`, `RecordedOnce`, `OutOfOrderOnlyLate`, `StreamFresh` | `Bounds`, `Apart`, `OwnSocket`, `Awaited`, `Overtaken`, `Quiet` |
| `LibraryProofs` | `NeverMixed` | `Linked` | `Tables`, `FlowsSound` |
| | `Typing`, `Removal`, `Saved` | `TypeOK`, `StaysDeleted`, `SavedIsStored` | `Alone`, `GoneInv`, `Paired`, `Told`, `Good` (`Fit`, `Brings`, `InPlace`, `Sent`, `Current`) |
| `HoldReaderProofs` | `Typing`, `Single`, `Timely` | `TypeOK`, `OncePerPress`, `InTime` | `BatchWanted`, `Unfired`, `Noted`; `InStep`, `Aged`, `Synthetic`, `Matched` |
| `MidiReaderProofs` | `Bounded` | `TypeOK`: the SysEx buffer stays within its cap | `InFlight` |
| | `Clean`, `Delivered` | `OnlyMessages`, `SpacedIsHanded` | `Lengths`, `Ordered`, `Buffer`, `Underway`, `HandedOn` |
| `HotplugProofs` | `Typing`, `NotDoubled` | `TypeOK`, `OneReader` | `UsbInv` (`InTurn`, `AtWork`, `Matched`), `UnitInv` (`Backed`, `OwnNode`, `Tied`, `OneDevice`) |
| | `Undeployed` | `UndeployIsComplete` | `UndeployInv` (`Undone`, `Covers`, `Orphans`) |
| | `Enforced`, `Stopped` | `InForce`, `StoppedWhenGone` | `ForceInv` (`Files`, `Served`) |

**DeviceEngine.** Three layers. `TypeInv == TypeOK /\ OutLocal /\ Lifecycle` is
inductive; `TypeOK` alone is not: that `executed` holds batch numbers needs
`OutLocal` (out_func has a batch in hand exactly while it executes), and that a
stopped engine has no batch in hand needs `Lifecycle` (which threads exist at
each point of main, and that they are joined before it goes on). `QueueInv` is
inductive relative to it: a new batch goes behind all others because no number
above `submitted` was ever used, and a popped batch is in one place only because
numbers in the queue are distinct. `NothingQueuedInReload` needs that enqueue
takes the lock; `LogLostToOutstopOnly` follows from `LogFlag` and from `Lifecycle`
(the reader is joined before stopEngine closes the log). For the refinement, every
action is shown to be `Submit`, `Flush`, `Take`, `Emit`, an end, or a stutter of
`OutputStream` (`Phase`, `PhaseSteps`, `PromiseStep`).

**CommandLeg.** A new id is new because every id generated answers a registration
that a start has sent (`Counted`: those under way and those answered are no more
than the starts), and because one on its way to its handler is nobody's yet
(`NewIds`). An answer finds who asked because a socket carries one request at a
time, the one its handler waits for (`OwnSocket`). Commands of one id move on in
the order they were posted, from the slot to the answer, to the socket, to
coms_handler (`InTurn`): so a command is in one place, and for the refinement
posting, fetching, delivering and losing it are steps of `Mailbox` while
everything else stutters (`PostKeeps`, `TakeFetches`, `SendDelivers`,
`ReceiveArrives`).

**ReportLeg.** A report that was sent is on the wire, in the dispatcher's hands or
in the history, and in one of them only (`Apart`), which gives `RecordedOnce`; what
is on the wire is awaited or was given up (`Awaited`), so what was overtaken was
given up (`Overtaken`), which gives `OutOfOrderOnlyLate`; that th_io takes reports
in order and numbers never come back is `Bounds`. `StreamFresh` needs that a
dispatcher that is down has neither clients nor an action (`Quiet`).

**Library.** The maxima an operation has read never exceed the tables (`FlowsSound`):
modes are never deleted, so an id that is not in use when a POST arrives is the
next one, no row links it yet, and the mode is written with the row's name. The
other two are about a page whose operations have not overlapped: then at most one
is in progress (`Alone`), and the board it works on is still where the click found
it (`InPlace`). What it has sent is stored, under an id that no shown board has
(`Sent`), what it has listed is stored (`Current`), and no board is shown twice
(`Paired`): so the ids that the page holds lead to the rows of their boards
(`Told`), which gives `SavedIsStored`. `Removal` holds through overlaps too: a name
gone for good has a tombstone (`GoneInv`), and no operation in progress would show
or store it (`Brings`). A removal needs `~crossed` to be for good, as a second
operation may still hold the name. That the backend lists its rows in the order of
their ids presumes that there is such an order; for a finite set of ids it follows
by least counterexample (`WellFoundedInduction`).

**HoldReader.** While a key is down and due has not noted its hold_once, no match
was made (`Unfired`); a hold event on its way to a hold_once rule was noted and has
met no rule (`Noted`), and it meets one only because the key has no other hold
rule in the mode. `BatchWanted` keeps the kernel's own repeats out. For `InTime`:
from what the reader believes of a key, through the events it has still to handle,
the key goes down and up in turn and ends as the kernel holds it (`InStep`), so a
key that is down for the reader is held, or its release is to come; its ages are
not above that of the press (`Aged`); a hold event is made when all events of the
read are handled, and of a rule that is old enough (`Synthetic`), which is then the
only one it can match (`Matched`).

**MidiReader.** The bytes that were sent and not handed on are those of the buffer,
of the driver and of the wire, in this order (`Stream`). Each is in its place: the
rest of its message comes right behind it, and all later messages behind that
(`Ordered`). The buffer is the beginning of a message without its end (`Buffer`), so
the first end a read finds is that message's own, and what is handed on is whole
(`Clean`). A message that was sent apart is all of the stream, or the stream has
nothing of it left and it was handed on (`Underway`): a broken message before it
had to be gone when it was sent, which leaves the reader in step (`Delivered`).

**Hotplug.** udev runs the events of a port in turn, and from each of them follows
what comes behind: before another device's add there is a remove, and behind a
remove the add of the device that is there now (`InTurn`); what a launcher does
belongs to its event unless `mixed` (`AtWork`). So a handler of a port is of its
device, or is stopped before another one's is started (`Tied`), and two of one port
are one unit (`OneDevice`), which gives `OneReader` and `StoppedWhenGone`. For
undeploy: a handler runs under the name of a profile, was started late, or is among
the units that the request at work still has to stop (`Covers`); the name being
undeployed is no profile's (`Undone`). For `InForce`: a profile that is due for a
device is in place (`InPlace`: its handler has read the profile's file as it is now,
or will, `Obeys`), or there is something that will put it in place: the request that
will trigger it, an add in the queue, or a launcher that has not passed the profile
yet and whose list has no unit that was removed since (`Pending`). Looking for this
invariant showed that a rename breaks the properties as they were first stated,
and why; the model had no second name for a profile. It is also why they except
names that clashed. A deploy's temporary file is excepted in the same place: a unit
whose name did not clash names the profile's own file (`Files`) unless it names a
temporary one (`Astray`).

With TLC only: all liveness (fairness and ENABLED are out of the proof system's
reach), and with it the progress of `OutputStream`. Every safety property of a
passing run is a theorem.

## 5. Where code and documents disagree

Two runs state what a comment says and show that the code does not do it:
`EngineModeRace` (deviceEngine.hpp:70) and `HotplugMove` (launcher main.cpp:189). In
the latter a unit that is listed is restarted as it is, with the `-d` of the port
it was written for. Further divergences and weaknesses met while modelling, plain
from the code and not given a run:

*Engine and readers*
* The MIDI reader closes the output handle of the port when it leaves, under an
  executor that may be writing to it, now or later (midithread.cpp:274).
* stopEngine closes the log while the coms thread may be opening or closing it, and
  outStop while report() may be writing to it (deviceEngine.cpp:45, 63, 190).
* A hold and a hold_once rule on one key: the synthetic event of either matches
  both, so hold_once fires again and again ("fire once", holdGen.hpp:19).
* A hold event whose rule changes the mode goes on in the new mode's rules.
* SYN_DROPPED is skipped with the packet boundaries: a release lost in the
  overflow leaves the key held. So does an unplugged device: its holds go on
  until the unit is stopped, while poll returns at once.
* A press in a mode without a hold rule for the key is not tracked: a later mode
  that has one does not hold.
* A MIDI read that holds two messages is dropped as a whole, and a message of one
  or two bytes is completed from the buffer of the read before (midithread.cpp:257).

*Dispatcher*
* `commands.insert` (dispatcher.cpp:371, 398) drops a second command posted before
  the next heartbeat, and the answer is still `result: 1` (INTERFACE.md:133). The
  abstract `Mailbox` has it as `Discard`.
* A command given to a handler whose socket timed out is lost (dispatcher.cpp:259).
* A restarted dispatcher never learns of the handlers that run (dispatcher.cpp:250).
* `LastActions.insert` keeps the first action of a device, not the last (:164); at
  its limit the map erases `end()` and the process aborts (:167).
* `change_mode` (INTERFACE.md:138) is not among the commands coms_handler knows.
* `explode` (zmq_coms.cpp:213) strips all spaces, so the `file` command's own
  example, with a space in the path (INTERFACE.md:136), names another file.
* Registration is tried once (zmq_coms.cpp:171): a handler that times out on it has
  no id for good; every handler without an id shares the key "" in the map.
* An action of a sender without a record is recorded (comment dispatcher.cpp:118).
* The slot for the last action is polled every 10 ms: an action that another one
  follows faster is never streamed (INTERFACE.md:159).

*Launcher and deploy*
* "Atomic write: temp + rename." (deploy.cpp:139): the temporary file is
  `<name>.json.tmp`, in the directory that the launcher lists, and the launcher takes
  any name with ".json" in it (launcher main.cpp:337). A launcher that runs between
  write and rename may write a unit with `-x …/<name>.json.tmp`. That unit is listed
  from then on and restarted as it is (433-437), although the file is gone: the
  handler never has the profile, until an undeploy removes the unit. A crash between
  the two leaves the file, which later launchers match and no undeploy removes, until
  the next deploy to that file renames it.
* An evdev handler that starts before its node exists reads nothing until its unit
  is restarted: the retry of runDevice.hpp:59 asks `isReady`, which only the MIDI
  device overrides.
* Two events at once read one device's variables twice and the other's never
  (event_handler.sh); launcher.service:12-14 has every replayed add spawn its
  handler.
* The dummy profile is written for every profile that does not match, although
  another one does (launcher main.cpp:320-322).
* A profile that is deployed under a new name leaves the unit of the old one
  running, and an undeploy then looks for units of the new name only: two handlers
  of different names read one device (deploy.cpp:130). A deploy to a file named
  after the device overwrites another device's profile that is in it.
* The prefix `<base>-` of an undeploy also covers the units of a device whose name
  begins with it and a dash (deploy.cpp:241).

*Library*
* Two saves, or two quick deletions of rules, read the same maxima: the second
  POST fails between row and mode, and a board without modes is left
  (client.ts:79-80). The same maxima let a new board reuse an id the page still
  holds for another (App.tsx:150).
* A copy shows the clone of the click but stores the source's rules at the time
  of the request. Overlapping removals take the wrong board off the rail; a save
  that overlaps a removal brings its row back. The offline list has no ids: a
  save of it makes duplicates, and a removal leaves the row.

## 6. Plan

1. Done: engine, command and report legs, hotplug and deploy, readers, library.
2. HMI: `Quadrature` and `Debounce` against reference definitions, the queue of
   `sim_server` and the screen stack.
3. Proofs: done for every safety property of the runs. Left: an abstract
   specification of what `Hotplug` and `Library` promise, with the steps that
   implement it, and the proofs about the modules of item 2.

## 7. Not modelled

The meaning of rules, key codes and profiles, thresholds and positions of axes
(conversions no property is about); HID reports, SPI and pixels; the update
requests and the other tables of the generated CRUD; Monitor and RuleEditor;
authentication; installation scripts. Of the dispatcher: the orderly shutdown,
`/config`, and the echo of what a `/ws` client sends. Of the engine: three threads
writing to one ALSA handle without a lock, which is decided inside ALSA. The HMI's
input functions are sequential and unit-tested, its threads share one queue.
`screen` is a legacy copy of the engine.

Most of the repository's source lines are not this program's: json.hpp,
rapidjson, rapidxml, zmq.hpp, the CRUD and protobuf code the generator wrote
(one pattern per table; the board and mode tables stand for it in `Library`). They
are about nine lines in ten, so the share of all lines that the map covers stays
small whatever is modelled; the core named in section 1 is what the map is about.
