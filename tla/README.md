# Colony.Pico: TLA+ models of its storage, data model, messaging and thermostat

Colony.Pico is an embedded C++ framework (`Cpl`, the Colony class library) with a
thermostat application (`Storm`) on top. This directory models the parts of it
that are hard to test: what survives a power failure, what happens when threads
meet, what timers and state machines do in sequences nobody wrote down. Source paths
below are relative to the repository's own `src/` directory (`Cpl/...` is `src/Cpl/...` of the repository).

## 1. Inventory

| Part | State | Operations | Interacts with | Hard behaviour | What makes it correct |
|---|---|---|---|---|---|
| `Cpl/Persistent/MirroredChunk` | two copies on the media; transaction id, length, current region | `start`, `loadData`, `updateData` (update, erase), `stop` | records (`Payload`), `RegionMedia`, the global work buffer | power fails between or inside writes; a media access fails; a new firmware's record has another length | the record is stored atomically and never lost |
| `Cpl/Persistent/RecordServer` | its records, open or not | open, close; runs its records' operations | one thread per server; all share `g_workBuffer_` | two servers run side by side | records do not disturb each other |
| `Cpl/Persistent/CrcChunk`, `IndexedEntryRecord`, `IndexRecord`, `IndexedEntryServer` | a ring of entries and an index record | add, get latest/next/previous, clear, verify at start | mirrored index record, CRC chunk | power fails between index and entry; markers go stale as the ring turns | the newest entry is found; no entry is seen twice or out of order |
| `Cpl/Dm` model points | value, valid, locked, sequence number, idle subscribers | write, invalidate, touch, import, lock, copy, attach, detach, read-and-sync | any thread writes; subscribers live in one thread each | writers against event loops; attach and detach inside callbacks; rollover | every settled change reaches every subscriber; no fatal error |
| `Cpl/Dm/EventLoop`, `Cpl/System/EventLoop` | event flags, semaphore, pending notifications | wait, dispatch flags, timers, one notification per turn | writers, ISRs, timers, mailboxes | lost wake-ups; unlocked flag updates from ISRs on two cores | nothing pending is slept over |
| `Cpl/System` timers | delta list of counters | start, stop, tick, expire | event loops | start and stop inside expirations; late ticks | a timer expires once, not early |
| `Cpl/Itc` | mailbox FIFO per thread | post, postSync, process, return | threads' semaphores | synchronous calls in a cycle; stray signals | every message is returned once; no deadlock |
| `Cpl/Dm/Persistent/Record` | settling timer, subscriptions | start, stop, data changed, expired, flush, erase | model points, timers, chunk | change during start-up; timer state after the maximum delay | a settled change is saved in bounded time |
| `Cpl/System/PeriodicScheduler` | interval markers | process | event loops | slippage | no interval is run twice |
| `Storm/Component`, `Equipment`, `Stage` | model points, stage machines | periodic algorithms | data model | stage transitions; event queue of eight; forced-off counters | no short cycling; relays follow the mode |
| `Cpl/Container`, `Io`, `Text`, `TShell`, `Json`, `Logging`, `MApp`, `Memory`, `Math`, `Type`, `Checksum`, `Driver`, `Bsp` | - | libraries, I/O, parsing, hardware, vendored code | - | - | unit tests; not modelled |

## 2. Modules

| Module | Stands for |
|---|---|
| `AtomicRecord` | the abstract promise: a stored record changes in one step |
| `MirroredChunk` | `MirroredChunk.cpp`, one action per media access |
| `RecordServers` | two mirrored records, one or two `RecordServer` threads, one `g_workBuffer_` |
| `IndexedEntry` | `IndexedEntryRecord.cpp`, `CrcChunk.cpp` and the index record |
| `ModelPoint` | `ModelPointCommon_.cpp`, the subscription state machine, `Cpl/Dm/EventLoop.cpp` and the wait of `Cpl/System/EventLoop.cpp` |
| `Alarms` | the abstract promise of timers |
| `TimerManager` | `TimerManager.cpp` and `Timer.cpp`, one action per step of the walk over the list |
| `DmRecord` | `Cpl/Dm/Persistent/Record.cpp`, over `TimerManager`'s operators |
| `Mailbox` | `Cpl/Itc`, and the event flags and the stop of `Cpl/System/EventLoop.cpp` |
| `Thermostat` | the stages, equipment and components of `Storm`, in the order of `Algorithm::expired()` |
| `...Proofs` | the theorems about the module of that name (section 5) |
| `MC...` | model values and constants for TLC |

How they compose: `RecordServers` instantiates `MirroredChunk` twice; `DmRecord`
instantiates `TimerManager` and takes from `MirroredChunk` that a write is atomic,
from `ModelPoint` that a change is notified; `IndexedEntry` takes from
`MirroredChunk` that its index record is the old or the new one. `MirroredChunk`
refines `AtomicRecord`, `TimerManager` refines `Alarms`.

Operators whose comment begins with "Faulty:" are plausible mistakes in the code
next to them. Nothing uses them; each is put in the place of the operator it
precedes to see that a property notices.

### MirroredChunk

`media` is the two regions, each a copy of four fields. `m_transId`, `m_dataLen`,
`m_currentRegion` and `g_workBuffer` keep their names. `pc` says which statement
the record server's thread has reached: `ReadA`, `ReadB`, `Select` are
`loadData()`; `UpdateData` is `updateData()` up to its first write; `WriteTransId`,
`WriteDataLen`, `WritePayload`, `WriteCrc` are its four writes, run for each of the
two copies (`NextCopy`, `EndOfCopy`).

- A payload is an opaque value with a length. The CRC is ideal: it is the triple
  it was computed over; a half-written payload is `Torn`, which passes no CRC. So the
  model says nothing of CRC collisions.
- Reading a copy leaves its payload in the work buffer. When the length field is
  blank, half written or another record's, as much of the payload is read as that
  length covers: all, a part or nothing (`BytesRead`). A read that fails does the same.
- `PowerFail` can happen before, during and after every write, and during loads.
  RAM is lost. `Write` can fail and can leave its field half written
  (`MaxWriteFaults`), a read can fail (`MaxReadFaults`).
- `Start(len)` may be a firmware with another record length. `UpdateData` gives
  `getData()` the `m_dataLen` bytes the code gives it.
- The 64-bit id does not wrap; `MaxTransId` bounds it for TLC only.
- External: `RegionMedia::write()` (`Write`, `HalfWritten`) and the power supply.

### RecordServers

Two instances of `MirroredChunk`, with members and regions of their own and one
`g_workBuffer`. With `Servers = 1` an operation of one record runs to its end
before another begins, as in one thread; with `Servers = 2` they interleave.

### ModelPoint

Per model point: `value`, `valid`, `locked`, `seqNum`, `subscribers`. Per
subscriber: `state`, `point`, `subSeq`. Per event loop: `pending`, `signaled` (the
semaphore), `pc`, `skip` (`skipWait`), and the locals of
`processChangeNotifications()`. `version` and `seen` are history variables: they
count changes without rolling over.

- Locks. An operation under the model database's mutex is one action, except that
  `processChangeNotifications()` of a writer hands out one notification per action
  (`NotifyNext`, the mutex held: `notifying`), because event loops take
  subscribers off their lists under the global lock only.
  `copyDataAndStateFrom()` and `readAndSync()` take the mutex twice and are two
  actions each (`CopyTest`, then `CopyInvalid` or `CopyData`; `SyncRead`/`SyncAttach`).
- A subscriber is attached, detached and notified in its own loop's thread
  (`NotificationApi_.h`), in handlers (`pc = "events"`) and in callbacks
  (`pc = "callback"`). It is detached from one model point before it is attached to
  another; doing both inside its own callback is `SwitchInCallback`.
- `fatal` is `FatalError`: a change handed to a subscriber that is not idle, a
  second insertion into a list, a notification for a subscriber without a point.
- Bounds: `MaxChanges` per model point, `MaxOps` attach and detach calls per loop.
  `SeqMax` (65535 in the code) is small, and the initial number is arbitrary, so
  that the rollover happens. `MaxLag` is an assumption: while a callback runs, or
  between a read and the attach that uses its number, fewer than `SeqMax` changes
  are made. With `MaxLag = SeqMax`, `IdleIsCurrent` fails: a full turn of the
  number goes unnoticed.
- Left out: JSON and text conversion, export, the stop of the loop, event flags
  and timers (they only make the loop turn, as the timeout does).

### IndexedEntry

`slots` is the entry region, `index` the index record in the media, `latest` is
`m_latestOffset` with `m_latestTimestamp`; an entry is its index value, 0 a slot
whose CRC is wrong. `AddIndex`, `AddEntryBegin`, `AddEntryEnd` are `addEntry()`
(the index record is written *before* the entry), `Start` is `start()` with
`verifyIndex()`, `ClearBegin`..`ClearFails` are `clearAllEntries()`. The readers
(`getLatest()`, `getNext()`, `getPrevious()`, `getByBufferIndex()`) change nothing
and are operators. Power fails between any two writes, and `start()` may find the
index record lost.

- A *fault* (`Fault`, `MaxFaults` of them) is a failing write, or an entry whose
  payload has no data: `addEntry()` has moved the head by the time that
  `CrcChunk::updateData()` finds out, and the slot keeps its old entry
  (`AddEntryNothing`).
- After a failing write `CrcChunk` goes on writing, so a failed add leaves an invalid
  slot or a valid new entry (`AddEntryFails`).
- `recent`, `acked` and `failed` are history. Left out: entry contents, the region's
  byte layout.

### TimerManager

`tm` holds `m_counters`, `m_pendingAttach` and the counts; `timeMark`, `timeNow`
and the `msec` that `tick()` still has to consume keep their names. `pc` is where
the event loop's thread is. `Start` and `Stop` are calls of handlers and of
callbacks (`InTickCall`), `Expire` is one turn of the inner loop of `tick()`. The
clock runs modulo `Wrap` at any point; `MaxLag` is the assumption that the loop
calls `processTimers()` at least that often, which the wait's timeout gives.
`armed`, `left` and `due` are history; `Alarms` is instantiated with them.

### DmRecord

The thread of a record server with its records, whose timers are on one list.
`stored` says whether the chunk holds the points' "current" values, "old" ones or
"none". `Change` is another thread's write, also while `start()` runs; `DataChanged`
is the callback `dataChanged()`, split into the branches of the code (`ChangedDefer`,
`ChangedWriteNow`); `ProcessTimers` ends in `expired()`; `Flush`, `Erase`, `Stop` and
`PowerFail` are bounded by `MaxRequests`. `NewMarker` keeps the code's test
`Timer::count() == 0` as it is.

`updateNVRAM()` drops the result of `updateData()`. So each write of `UpdateNVRAM` may
be refused or fail, and leaves the old contents or none; there is no second attempt
before the next change or a timer that still runs. The history variable `lost` holds
the records in that state, and those whose only changes came while `start()` ran
(`Record.cpp:105` takes them as known). `misread` holds the records whose timer ran
with a count of 0 when another change came (section 4).

### Mailbox

Per server: `mbox`, the loop's semaphore `signaled`, `m_run`, `m_events`, what it
has `captured`, its `pc` and the message in hand. Per thread: its own semaphore
`tsema`, and where it is inside `post()` (`signalTo`) and `postSync()` (`waitsFor`).
Queueing a message and signalling the loop are two actions, as in the code, where
only the first is under the lock. So are the two statements of
`SyncReturnHandler::rts()`: `ReturnSync` marks the message as returned, `SignalWaiter`
signals the thread that waits for it (`waiter`). Handlers may post, raise flags and stop servers
before their message is returned. `IsrRead`/`IsrWrite` are the unlocked
read-modify-write of `su_notifyEvents()`; with `TwoCores = FALSE` no thread runs in
between. A message is posted again only when its poster has it back.

### Thermostat

One thread. `pc` is the component that runs next in the interval, `calls` what a
Control still has to ask of its stages, `stack` the stages inside
`generateEvent()`. `st`, `queue`, `nextStage`, `prevStage`, `supplemented`, `args`
are a stage's state machine and members; each case of `Fsm::processEvent()` is an
action (`SwitchOn` ... `OffMode`, `Ignored`) with the actions of `Basic.cpp` it
calls. `Call` is a StageApi call, `StageLogic` one of `singleStage()`,
`secondStage()`, `thirdStage()`.

- Inputs are arbitrary in every interval: temperatures as the load (`PvValues`,
  limited by the configured stages), `userMode`, equipment, sensor failures.
- A time unit is an interval; all components run in lockstep (`Base.cpp`). Times
  are ages, which stop at the value beyond which no comparison tells them apart.
- `requestModeToOff()` leaves `m_args` pointing to the `Args_T` of an earlier
  `Control::execute()`, on a stack frame that is gone: undefined behaviour. In the
  build that place is the `Args_T` of the `execute()` that runs now, as
  `Algorithm::expired()` calls all Controls from one frame and nothing else is alive
  there. The values are those of the Control that is running, so they are whole; that
  they may be another unit's is why `Check` has either outcome. What is written through
  the pointer is the displayed length of the cycle and `abortOnOffCycle = false`: a flag
  that `ControlActive` has still to choose, or that nobody reads any more.
- `FanControl` runs between the Controls and the relays and forces the indoor fan off
  while one of its inputs is not valid; stages set the fan only when they change, so
  the compressor may run without it from then on. `fanCut` remembers that.
- `abort` and `defeated` are the white box commands of the console
  (`abortOnOffCycle`, `defeatEquipMinOffTime`), set in any interval. `defeated` says
  that a unit which had not rested was released by the second one.
- `Pi` is any load up to the configured stages, or, while it is frozen, the load it had,
  which may be more.
- `MpEquipmentConfig::validate()` leaves a heat pump without stages, so the paths
  for it cannot be reached and are left out.
- Left out: PI arithmetic, the output of a continuous fan, `AirFilterMonitor`, alarms
  that only display.

### Fairness

- `ModelPoint`: a writer that holds the mutex finishes, a started copy or
  synchronisation finishes, handlers and callbacks return and each event loop
  keeps running. This is what a preemptive scheduler with terminating handlers
  gives. The wait is *not* assumed to time out, so `Settles` does not depend on it.
- `Mailbox`: weak fairness of posters and interrupts in the middle of a call,
  strong fairness of a loop's steps: a handler that makes call after call returns
  in the end. No wait has to time out.
- `TimerManager`: time goes on and the loop keeps calling `processTimers()`.
- `DmRecord`: time goes on; strong fairness of `ProcessTimers` and `Notify`, since
  each turn of the loop runs the timers, a message and a notification, and none
  can push another out; `start()` returns.
- `Thermostat`: the one thread runs.

Nobody is obliged to write, attach, post, start a timer or change an input.

## 3. Runs

| Run | Checks | Shows |
|---|---|---|
| `MirroredChunk_power` | `TypeOK`, `GoodCopyWhileWriting`, `CopyInv`, `NeverLost`, `AtomicSpec` | power failing anywhere in loads and updates (erases run to their end): atomic, never lost |
| `MirroredChunk_faults` | `TrueMeansStored`, `DeliveredWhenCopiesAgree` | with four failed writes and a failed read, "true" means stored, unless the first copy kept an id that is no lower; a load delivers the newest contents when the copies agree, or when B is newest and was read |
| `MirroredChunk_load` | `DeliveredIsStored`, violated | finding 1 |
| `RecordServers_one` | `OwnContents`, `BothAtomic` | records of one server share the buffer safely |
| `RecordServers_two` | `OwnContents`, violated | finding 2 |
| `IndexedEntry_ring` | `InStep`, `Kept`, `LatestIsNewest`, `Traversal`, `BufferIndex`, `NoReuse` | acknowledged entries are kept, found and read in order through power failures, failed writes and entries without data |
| `ModelPoint_threads` | `TypeOK`, `NoFatal`, `OnItsList`, `IdleIsCurrent`, `NoLostWakeup`, `Settles` | two subscriber threads and any number of writers |
| `ModelPoint_points` | `NoFatal` | two model points, data, locks, copies, imports, a subscriber moving between them |
| `TimerManager_walk` | `CountsAddUp`, `NoneMissed`, `AlarmSpec`, `GoesOff` | timers started and stopped inside callbacks, over a wrapping clock |
| `DmRecord_save` | `NotForgotten`, `WaitBound`, `Saved` | two records on one timer list, through failing writes, flush, erase, stop and power failure: no change is forgotten unless its write fails, none waits too long and the storage catches up, unless the timer's count was misread |
| `Mailbox_calls` | `OneOwner`, `NoLostWakeup`, `EventsExact`, `Answered` | nested synchronous calls, asynchronous requests, event flags and a stop |
| `Thermostat_stages` | `NoFatal`, `OneActive`, `OutputsMatch`, `ForcedOff`, `MinOffTime`, `MinOnTime`, `Completes` | no assertion, no short cycling, no stray output, for any inputs |

In `IndexedEntry`, `TimerManager`, `DmRecord`, `Mailbox` and `Thermostat`, `TypeOK` is a
conjunct of the invariant listed first.

Bounds.
- `MirroredChunk`: four updates (`MaxTransId = 8`) let a record be written,
  overwritten, interrupted, recovered and interrupted again, in either region,
  with two record lengths. With faults two updates (`MaxTransId = 4`) and four failing
  writes let a region keep a stale id that is as high as the new one.
- `ModelPoint`: two changes and two calls per thread let a change fall in each gap
  of attach, callback, synchronisation and detach, and the number roll over.
- `IndexedEntry`: four slots and index values up to 9 turn the ring twice. Two
  faults are fewer than N - 1 = 3, the condition of `NoReuse`.
- `TimerManager`: three timers are the fewest with one before, one after and one
  moving; durations of 0 to 2 and a lag of 2 let one tick expire several.
- `DmRecord`: two records are the fewest whose timers can end together. With delays of
  1 and a loop that may be one tick late, a change finds its timer running within the
  maximum delay, or after it, or with a count of 0. Any number of writes fails; one
  request, of any kind, is made in a behaviour. The safety properties are proved for all values.
- `Mailbox`: each kind of message once; a server that calls and is called; two
  flags, so that one can be lost while the other is kept.
- `Thermostat`: three heating stages, all that are supported, and cooling. Loads
  fall below, between and above the thresholds of each stage; minimum times are
  two intervals, so that they can be cut. The fan's inputs are not valid, a cycle is
  aborted or the minimum off time defeated in any intervals.

## 4. Findings

1. **A load can deliver the wrong copy** (`MirroredChunk_load`). `loadData()`
   reads A, then B, into the one work buffer, and pushes that buffer whichever
   it selects (`MirroredChunk.cpp:82-102`). In the run power fails inside the write of
   B's payload while A holds the newer, good copy; the next load selects A and delivers
   the half-written payload of B. `MirroredChunk.h:26-29` promises a good previous copy.
   `DeliveredWhenCopiesAgree` is what does hold.
2. **Two record servers disturb each other** (`RecordServers_two`). All chunks use the
   one `g_workBuffer_` without a lock, and a copy's CRC is computed over what the buffer
   holds by then. In the run the second server loads a blank record while the first
   updates, and the first record is stored with the bytes of that blank region under a
   good CRC; interleaved updates store one record's contents in the other in the same
   way. `Cpl/Persistent/README.txt:26-27` allows more than one server.

What other values of the constants show. Each line is an assumption of a passing
run and what fails without it.

| Set | Fails | Because |
|---|---|---|
| `PowerFailsInErase = TRUE` | `AtomicSpec` of `MirroredChunk` | an erase cut short leaves remains over which ids restart at 0; a later interrupted update can complete an old copy (`MirroredChunk.cpp:149`) |
| `TrueMeansStored` without its condition on the id | itself, with four failed writes | the writes of the first copy fail and its stale id is no lower: the call returns true, as `result =` (`:152`) forgets the first copy, and the next load finds the old contents |
| `MaxWriteFaults = 1` | `NeverLost` | after a failed second copy the next update starts with the good one (`:143`) |
| `SwitchInCallback = TRUE` | `NoFatal` of `ModelPoint` | the loop completes the callback on the model point the subscriber has left (`Dm/EventLoop.cpp:72`) |
| `MaxLag = SeqMax` | `IdleIsCurrent` | a full turn of the sequence number goes unnoticed |
| `StartEarly = TRUE` | `CountsAddUp` of `TimerManager` | `m_timeNow` is 0 until the first `processTimers()`: the timer expires late (`TimerManager.cpp:196`) |
| `WaitBound`, `Saved` without `misread` | themselves, with two records | `dataChanged()` takes `Timer::count() == 0` for "not running" (`Record.cpp:247-249`), but the count is relative to the timer before it: a record whose timer ends together with another's has a count of 0 while it runs. The marker moves to the later change, the maximum delay (`Record.h:178`) starts again, and points that go on changing are never saved |
| `NotForgotten`, `Saved` without `lost` | themselves | a failed write is not tried again (`Record.cpp:274-282`); a change between load and subscription is taken as known (`Record.cpp:105`) |
| `TwoCores = TRUE` | `EventsExact` | the global lock of the RP2040 holds off interrupts of its own core only (`System/EventLoop.cpp:179`); nothing in the repository calls `su_notifyEvents()` yet |
| synchronous messages in a cycle | `Answered` | both servers wait (`Itc/Mailbox.cpp:44`) |
| `MaxFaults >= N - 1` | `NoReuse` | failed writes, or entries without data, and a power failure take the ring back to old index values |
| `Traversal` without `faults = 0` | itself | the slots that failed adds have skipped keep old entries, from which `getNext()` jumps over newer ones |
| `MinOffTime` with `MinUnitOff` for `LeastOff` | itself, when `MinOff < MinUnitOff` | the user's minimum off time has no lower limit (`Type/ComfortConfig.cpp:20-45`), and after a short off cycle the stage itself switches its unit on |
| `MinOffTime` without `defeated`; `OutputsMatch` without `fanCut` | themselves | `defeatEquipMinOffTime` releases a unit at once (`IndoorHeating.cpp:112`); `FanControl.cpp:63-72` |

Seen while modelling, without a property: a record that a new firmware has
lengthened is never written, as the stored length caps `getData()`
(`MirroredChunk.cpp:123`); a copy of a model point tests and copies under two
locks (`ModelPointCommon_.cpp:150`); `importData()` changes a locked model point;
when the first region refuses every write of an erase, `result =`
(`MirroredChunk.cpp:152`) forgets it; `Record::stop()` leaves its timer running, and
a stopped timer keeps its count, so that the next change is written at once
(`Record.cpp:116`, `:257`); an erase is undone by a pending settling timer; a flush
writes even where `resetData()` said not to; `areActiveTimers()` returns the opposite
(`TimerManager.cpp:38`); a message posted to a stopped server is never processed;
`getLatest()` is false after a failed entry write although older entries exist
(`IndexedEntryRecord.cpp:107`); `isTransitioningFromLowerStage()` reports the other
transition (`Basic.cpp:319`); `Pi` computes its maximum sum error once (`Pi.cpp:132`);
`IdtSelection::start()` resets `m_critical` without giving its count back.

## 5. Proofs

TLAPS checks eight modules of theorems, each for every value of the constants that
satisfies the named assumptions: any number of records, points, subscribers, timers,
messages or entries, and any number of failures.

| Module | Theorem: property | Assumes |
|---|---|---|
| `MirroredChunkProofs` | `TypeCorrect`: `TypeOK`; `TrueIsStored`: `TrueMeansStored`; `DeliveredIfAgreed`: `DeliveredWhenCopiesAgree` | - (any faults) |
| | `CopiesSafe`: `CopyInv`; `GoodCopy`: `GoodCopyWhileWriting`; `RecordNeverLost`: `NeverLost`; `ImplementsAtomicRecord`: `AtomicSpec` | `PowerFailuresOnly` |
| `RecordServersProofs` | `OwnContentsAlways`: `OwnContents` | `Servers = 1` |
| | `BothAtomicAlways`: `BothAtomic` | `Servers = 1`, `PowerFailuresOnly` |
| `IndexedEntryProofs` | `InStepAlways`, `KeptAlways`, `LatestIsNewestAlways`, `BufferIndexAlways`, `TraversalAlways`: the property of that name | - |
| | `NoReuseAlways`: `NoReuse` | `MaxFaults < N - 1` |
| `ModelPointProofs` | `TypeCorrect`: `TypeOK`; `NoLostWakeupAlways`: `NoLostWakeup` | - |
| | `OnItsListAlways`: `OnItsList`; `NoFatalAlways`: `NoFatal` | `~SwitchInCallback` |
| | `IdleIsCurrentAlways`: `IdleIsCurrent` | `~SwitchInCallback`, `MaxLag < SeqMax` |
| `TimerManagerProofs` | `CountsAddUpAlways`, `NoneMissedAlways`; `ImplementsAlarms`: `AlarmSpec` | `~StartEarly` |
| `DmRecordProofs` | `NotForgottenAlways`: `NotForgotten`; `WaitBoundAlways`: `WaitBound` | - (any number of records, any failing writes) |
| `MailboxProofs` | `OneOwnerAlways`: `OneOwner`; `NoLostWakeupAlways`: `NoLostWakeup` | - |
| | `EventsExactOnOneCore`: `EventsExact` | `~TwoCores` |
| `ThermostatProofs` | `NoFatalAlways`, `OneActiveAlways`, `OutputsMatchAlways`, `ForcedOffAlways`, `MinOnTimeAlways`, `MinOffTimeAlways`: the property of that name | - |

The table of section 4 shows that each assumption in the last column is needed. The
assumptions on the constants themselves (`PayloadAssumption`, `EntryAssumption`,
`TimerAssumption` and so on) say that sets are sets of the right things, that marks
such as `None` or `Off` are not among the values they stand beside, and that the
clock does not come round between two turns of a loop (`MaxLag < Wrap`).

**MirroredChunk.** `NeverLost` is not inductive: to know that a half-written copy is
harmless one has to know that the other is whole, and that the old CRC in the copy
being written does not fit the id just written over it. `CopyInv` therefore says,
phase by phase, which copy is the newest (`WritingInv`), what has been written so
far (`Progress`), what an erase has already destroyed (`ErasingInv`), and that
every CRC on the media is for an id no higher than that of the newest whole copy
(`CrcsNotAhead`), while the id being written is higher. The lemma `DamageOlder`
says that a write to the older copy leaves the stored contents alone, `CrcStep`
that only the CRC of the first copy changes them; the refinement follows, the
commit point being that CRC (for an erase, the id of the second copy).
With media faults `CopyInv` does not hold. `TrueIsStored` rests on `ResultInv`
instead (while no write of the copy under way has failed, the media holds what has
been written of it), `DeliveredIfAgreed` on `LoadInv` (what the buffer holds after each
read, with or without an error, and that a CRC fits only payloads of its own length). The
proof of
`TrueMeansStored` failed at first: it had no condition on the first copy's id, and TLC
then found the counterexample, which takes four failing writes (section 4).

**RecordServers.** The composition is proved from the theorems about one chunk, not
again. No lemma about a chunk assumes anything of the work buffer while the chunk is
not working (`ChunkOK` types it in the middle of an update only). `SharedStep` says
that a step in which others use the buffer (`BufferUsed`) keeps a chunk's invariants
and is a stutter of `AtomicRecord`; `StepOf1` and `StepOf2` say that with one server
every step is, for each record, one of its own or such a step. With two servers they
are false, and so is `OwnContents` (`RecordServers_two`).

**IndexedEntry.** `RingInv`: each valid slot holds an index value that belongs there
(`InStep`), the index record is not behind the entries (`IndexAhead`), and index values
run ahead of an acknowledged entry by no more than the attempts made since
(`RecentInv`), which is why N - 1 attempts never reach its slot. `HeadInv`, `FullInv`,
`NewestInv` and `WindowInv` add what the four readers and `NoReuse` need. What
`scanAllEntries()` and the readers' walks compute is argued from a least
counterexample (`LeastNatural`).

**ModelPoint.** `ListInv`: besides `OnItsList` it says where each loop is with the
subscriber it has taken off its list (`LoopInv`), which point a subscriber in its
callback belongs to (`PointInv`) and that an attach begun by `readAndSync()` is still
legal when it happens (`SyncInv`). Each operation is shown to move one subscriber and
to put it where its new state says (`Placed`). `IdleInv` adds `SeqInv`: the sequence
number a callback or a synchronisation holds tells every change since from none
(`Fresh`), because fewer than `SeqMax` have happened.

**TimerManager.** `ListInv` says that the counts are the differences of the times
left, with the ticks not yet consumed and the lag of the clock (`Gaps`); `ClockInv`
says how those three relate in each phase of `processTimers()`, `DueInv` where the due
timers are. The sums of the list, a recursive function, are shown equal to those
differences by a least counterexample. `Detach` and `AddToActiveList` have a lemma
each: they leave the deadlines of all other timers alone.

**DmRecord.** It uses the lemmas of `TimerManagerProofs` through an `INSTANCE`.
`SaveInv` adds to `NotForgotten` what holds while `start()` runs, and that no timer is
on the list twice. `WaitInv` says that a change which waits has a running timer, and that
the record's marker is at least as old as the wait, unless the count was misread;
`EndInv` that each running timer ends before its marker is older than the longest wait.
When a timer ends is the sum of the counts up to it, for which `EndInv` has a witness
(`D`), so that the number of records does not matter.

**Mailbox.** `OneOwner` says that a message is in one place only; the invariant
(`InPlace`, `SyncWaits`, `HandlesOne`) says which one, by its direction, and that a
thread which was signalled, or is about to be, waits for a message that nobody has any
more (`Signalled`). `WakeInv`
covers the window between queueing a message and signalling the loop.

**Thermostat.** Any load values and any times; the number of heating stages
is one to three, as in the code. The invariant has four layers, each inductive with those
before it.

- `ShapeInv` (for `NoFatal`): a stage's queue and the stack are never arbitrary. Outside
  `generateEvent()` every queue is empty and every stage in one of four states
  (`Settled`); inside it, the stage at the top is at rest with at most one event, or
  between two states with one or two (`Running`), and at most one other stage waits
  below it (`Above`). A stage that is not off has its `Args_T`; one that supports another
  knows it (`ArgsOf`, `LinkOf`). That a queue holds at most two events is why seven
  places are enough.
- `ModeInv` (for `OneActive`, `OutputsMatch`): until the Control of a former mode has run
  its stages may be on (`ToCome`), and until that of the new one has run the outputs may
  be the old ones (`Fresh`, `Resetting`). From there on the stages of the unit in use
  form a chain (`Chain`): each supports the next or is the active one. The fan follows the
  compressor except where `FanControl` has cut it (`FanOk`).
- `OnInv` (for `MinOnTime`): the age of a stage's on cycle is not ahead of the time that
  its relay has been on, so that an `OnTimeExpired` or an `ExcessCapacity` that waits in
  its queue has its reason, also when it is taken after other events.
- `OffInv` (for `MinOffTime`): the same for the off cycle of a unit's first stage and
  `unitOff`. A unit goes on when the equipment releases it, after `MinUnitOff`, or when
  its stage ends an off cycle, after `Min({MinOff, 2 * K})`; the least of these is
  `LeastOff`. With the constants of `Storm/Constants.h` and the tables of `DutyCycle` that
  is the unit's own minimum (300 s or less), as long as the user's minimum off time is no
  shorter (section 4).

`StageEffects` says what any turn of `generateEvent()` does to a stage's times, output and
queue, in six cases (a cycle begins, pauses, stops, is supported, is passed by, goes on);
the last two layers are proved from it and not from the eleven transitions.

Only model-checked: liveness (`Settles`, `GoesOff`, `Saved`, `Answered`, `Completes`),
which is out of the prover's reach under fairness. Every other property of a passing run
is proved.

## 6. Not modelled

`Cpl/System/PeriodicScheduler` (a loop over interval markers in one thread),
`_simtick` (test support), the typed model points of `Cpl/Dm/Mp` and
`Storm/Dm` (conversion to and from text over the modelled `ModelPointCommon_`),
`AirFilterMonitor`, `PiPreProcess` and the arithmetic of `Pi` (floating
point in a single thread), `Io`, `Text`, `TShell`, `Json`, `Logging`, `MApp`, `Memory`,
`Driver` and `Bsp` (I/O, parsing, hardware), and everything under `xsrc/`, which is
vendored.

## 7. Plan

All of the modules planned at the start are written, and every safety property of a
passing run is proved. What could follow:

1. The three hazards of PROJECT.json that no property covers, each with the reason noted
   there: short reads of the media, the copy of a model point that is not atomic, and timers
   started before the first tick.
2. `Cpl::System::PeriodicScheduler`, through which nothing modelled here runs.
