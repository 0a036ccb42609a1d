# Verification of segatools

Segatools runs arcade games on a PC. It is a set of DLLs that are injected into
the game's process, hook the Windows API there, and answer in place of the
hardware: serial boards, USB boards, card readers, printers. The modules here
model the parts with state and concurrency; TLC checks them on small instances,
and TLAPS proves the most important results for every value of the constants.

## 1. The system

### How a call reaches a device

A game calls `CreateFile`, `ReadFile`, `WriteFile`, `DeviceIoControl` on some
game thread. The hook library (a git submodule, not in this tree) wraps the call
in an *IRP* and passes it along a chain of handlers. Each device's handler
recognises its own handle and otherwise passes the IRP on
(`iohook_invoke_next`). A serial device owns a `uart`, also from the library: a
`WriteFile` appends to `uart.written`, a `ReadFile` takes from `uart.readable`,
and the handler decodes the former and encodes replies into the latter. Input
comes from an *IO DLL* (a DLL that users may replace, `chuniio`, `aimeio`, ...),
which may have threads of its own that call back into the device. Three kinds of
threads meet in a device: game threads, the IO DLL's threads, and the worker of
`util/async.c`. A fourth, the network API's, only presses buttons.

### Components

State, operations and what makes each correct. *Modules* says where it is
modelled; section 7 has the reasons for what is not.

| Component (source) | State | Operations | What makes it correct | Modules |
|---|---|---|---|---|
| Overlapped I/O worker (`util/async.c`) | one-slot mailbox (`task`, `irp`), `stop`, `thread`, a lock, two condition variables | `async_submit`, the worker's loop, `async_fini` | each accepted request runs once and is finished, in order; no wake is lost; the OVERLAPPED is not used once a game that waits for its event has it back | `Overlapped`, `Async`, `AsyncProofs` |
| Touch slider (`chunihook/slider.c`, `chusanhook/slider.c`, `board/slider-frame.c`) with the slider half of `chuniio/chuniio.c` | `slider_lock`, the uart's two buffers; thread handle and stop flag of the DLL | commands, replies, `slider_start`, `slider_stop`, callback | frames stay whole; after `slider_stop` no callback; a scan whose start did not fail reports; no deadlock between stop and callback | `Slider`, `SliderProofs` |
| JVS port, bus and cracker (`amex/jvs.c`, `jvs/`), type 3 board (`board/io3.c`) | handle, chain root, response buffer; each board's address | open, close, sense, transact; RESET, ASSIGN_ADDR, reports | addresses from the tail, one board each; all reports of a packet or an error | `Jvs`, `JvsProofs` |
| Type 4 board (`board/io4.c`, `chusanhook/io4.c`) with the coin half of `chuniio/chuniio.c` and the buttons of `api/api.c` | status, coin debounce flag and counter, hand position, three button flags | overlapped read, write, poll, packets | every read completes; no coin twice; counts go forward; status of the read's own time | `Io4`, `Io4Proofs` |
| SG card reader (`board/sg-*.c`, `aimeio/aimeio.c`, `iccard/`) | start result, present flags and numbers, emulated cards; the card files | open, close, commands of two boards, poll, block reads | DLL started once and first; one reply to each frame, from the board it is addressed to; one card per poll; the card stays the same | `SgReader`, `SgReaderProofs` |
| Card printer and RFID boards (`printer/`, `board/rfid-*.c`) | printer's page and job state, consumables in a file, card memory and its file | about 60 API calls, RFID commands | a card's data reaches the file of that card; counters survive a crash that does not meet their file empty; a scan finds each card once | `Cards`, `CardsProofs` |
| LED boards (`board/led1509306*.c`, `chunihook/`, `chusanhook/led1509306.c`) | the lock that is copied, replies on or off, the uart's buffers | serial commands | one reply each while replies are on, in order, as long as the handler has one thread at a time | `LedBoards` |
| Frame formats (`board/slider-frame.c`, `led1509306-frame.c`, `rfid-frame.c`, `sg-frame.c`, `jvs/jvs-frame.c`) | the bytes written and not yet decoded | sync, unstuff, accept or reject, encode | what one end encodes the other decodes, in any division into writes | `Frames` |
| VFD (`board/vfd*.c`) | encoding, buffer | serial commands, texts to the API | texts in their encoding, sent once each and in order; replies within their room | `Vfd` |
| Banapass reader (`namco/bngrw.c`) | scan thread, its time limit, busy flag, card number | init, request, cancel, finish | busy tells whether a scan goes on; scans end; a card that no packet overwrites under the copy is whole and given once; no use of a freed buffer | `BngRw`, `BngRwProofs` |
| Other Namco boards (`namco/`) | none that lasts | serial commands, keychip calls | one reply each | start-up in `StartUp` |
| Network API (`api/`) | button flags, card flags and numbers, sockets | UDP packets | a button or a card takes effect once | buttons in `Io4`, cards in `BngRw` |
| Amex devices (`amex/ds.c`, `eeprom.c`, `gpio.c`, `sram.c`, `nvram.c`) | one handle each, the two files, the buttons of the API | open, close, sizing of the file, switches | a handler takes its own handle only; a store has its length; no thread is told of a press twice | `Amex` |
| Hook library: registry (`hooklib/reg.c`) | pushed keys, the handle of each | push, open, close, query, set | a call is answered by the key that was opened; sizes suffice | `Registry` |
| Hook library: libraries, devices (`dll.c`, `setupapi.c`) | replaced libraries, phantom devices, `cur_handle` | load, free, list, enumerate, destroy | a hook stays loaded; each device is listed once | `HookTables` |
| Hook library: paths, names (`path.c`, `dns.c`) with `platform/vfs.c`, `platform/dns.c` | path hooks, directories; host names | start-up of several processes, file calls, look-ups | directories are there; one file by all its names; no look-up leaves | `Paths`, `Names` |
| Network emulation (`platform/netenv.c`) | made-up adapter, router, pings | adapter, route and echo calls | all calls tell one story; a reply is whole when it is announced | `Network` |
| Clock (`platform/clock.c`) | configuration | time calls, setting the clock | Japanese time, out of the maintenance hours, never back | `Clock` |
| Security device (`platform/nusec.c`) | log, counts, certificates | about 15 ioctls | no record is overwritten; reads are of what was announced | `Nusec` |
| Graphics hooks (`gfxhook/`, `hooklib/gfx.c`) | functions found, objects, proxies | load, create, release, device modes | hooks lead to the system's function; objects are counted; what the replaced calls make is windowed if so configured | `Gfx` |
| Start-up of the games (`*hook/dllmain.c`), IO DLL binding (`*-dll.c`, `util/dll-bind.c`) | what is set up, bound functions | each part, in order | a game that runs has all its parts, and calls functions that are loaded | `StartUp` |
| Small devices of single games, other IO DLLs, utilities | none after start-up, or none at all | | | not modelled |

The proofs about the parts from the Amex devices down, the LED boards and the VFD
are in one module, `PlatformProofs`, which extends `Platform`, their composition.

### What is hard here

* **Threads.** The worker and the submitters share a mailbox; the worker
  publishes results without the lock; the slider's callback needs a lock that its
  joiner holds; the I/O board's poll reads globals that others write; several
  boards take the lock of a *copy* of their state.
* **Order.** Completion status before event; STOP before START; ASSIGN before
  other commands; OPEN before everything; several commands in one write.
* **Failure.** A thread that cannot be created, a full buffer in the middle of a
  frame, a card DLL that fails to start, a command that fails among others, a
  file that is missing or damaged.
* **Time.** A stop that waits for a thread; polls that straddle a key press or a
  packet; a time limit that a cancel rewrites while its thread counts it down.
* **Crashes.** The printer's counters are rewritten in place, card files are
  written in two parts, and an end of the program can come in between.

`PROJECT.json` lists these as hazards, each at its line, with the properties
that cover it or the reason why none does yet.

## 2. Modules

```
Overlapped            what overlapped I/O promises (abstract)
   ^ implemented by
Async   <- AsyncProofs        util/async.c
   | (its promise is used by)
Io4     <- Io4Proofs          board/io4.c + chusanhook/io4.c + chuniio + api
Slider  <- SliderProofs       chunihook/slider.c + chuniio + slider-frame.c
                              (and the proofs about Frames)
Jvs     <- JvsProofs          amex/jvs.c + jvs/ + board/io3.c
SgReader <- SgReaderProofs    board/sg-*.c + aimeio + iccard
Cards   <- CardsProofs        printer/printer.c + board/rfid-rw.c + rfid-file.c
BngRw   <- BngRwProofs        namco/bngrw.c + api
Platform <- PlatformProofs    parts that share no state:
   Registry, Paths, HookTables, Names, Network, Clock, Nusec, Amex,
   LedBoards, Vfd, Gfx, StartUp, Frames
MCPlatform                    Platform and Jvs, one part moving at a time
MC...                         an instance of each for TLC
```

Common conventions: an action is one handler, or the part of it between two
points where another thread can be seen; variables have the names of the C
variables where they have one; variables that the code does not have are marked
"(not in the code)" and only record history. Seeded faults (`X_Fault`, beside
the definition `X` they replace) are the mistakes each property was tried
against; they are not part of the specification.

### Overlapped and Async

`Overlapped` has `io` (what each OVERLAPPED says) and `queue` (pending requests);
a request is accepted, completed in order, retired. `Async` is `util/async.c`:

| Model | Code |
|---|---|
| `Call`, `Submit`, `FillSlot`, `SleepOnAvail`, `Resume` | a game thread in `async_submit`, up to and after its wait on `avail` |
| `CreateFails` | `_beginthreadex` returns 0: the early return that leaves the lock held (`leaked`) |
| `WorkerSleep`, `WorkerResume`, `WorkerTake`, `WakeSubmitter` | the loop's wait on `pend`, the copy out of the slot, the wake of one submitter |
| `RunTask`, `LoadEvent`, `StoreStatus`, `Signal` | the task, `InternalHigh` and the copy of `hEvent`, `Internal`, `SetEvent`: four separate steps, without the lock |
| `SpuriousWake`, `WorkerSpuriousWake` | condition variables may wake for no reason |
| `TakeBack`, `ReturnAtOnce`, `ReturnFromWait` | external: the game gets its OVERLAPPED back, at once when it sees a final status, or after waiting for its event |
| `Fini` | `async_fini` sets `stop`; the worker leaves at the top of its loop |

`PeekWithEvent` says whether a game looks at `Internal` before it waits. For such a
game a `SetEvent` may come late: after the game has taken the request back, and so
for the next one (section 4). `late` records whose event this has happened to; from
then on the game takes requests back too early, and the worker may use an OVERLAPPED
that is no longer its own. `OnlyCompleteReturned` fails with it, and
`NoUseAfterReturn` says of whom the worker's use is safe: of everybody who is not in
`late`, which stays empty when games wait. The run `async` has `PeekWithEvent` FALSE,
`async_peek` TRUE; the theorem `NoneUsedAfterReturn` is about both.

A request without an OVERLAPPED runs on the caller's thread and touches none of
the worker's state, so it is left out here.

### Slider

Two game threads write commands and read frames; up to `MaxPollers` polling
threads call back. `lock` is `slider_lock`; `written` and `readable` are the
uart's buffers, the latter in halves of frames, since a frame is encoded byte by
byte and the encoder may run out of room in the middle. The handler's loop
(`gpc = "loop"`) decodes one command at a time; `ReqAutoScanStop` gives the lock
up and goes through the steps of `chuni_io_slider_stop` (`StopCheck` ...
`StopClear`), and `Relock` takes the lock again before the reply. `PollTop`,
`CallbackLock`, `CallbackHead`, `CallbackTail` are the polling thread.
`Patient` says whether the game awaits the answer to a STOP before a START.
`_beginthreadex` may fail in `ReqAutoScanStart`: the handle stays NULL, nobody is
told, and the game's next START tries again. `scanning` is true of a scan whose start
found or created a thread and that no `slider_stop` has been called for since.

### Jvs and JvsProofs

Boards 1 .. `Length`, the first of them the head. `Send...` puts a packet on the
bus; `at` walks it down the chain (`jvs_bus_transact`), `pos` walks the commands
of the packet (`jvs_crack_request`), `out` collects the reports up to `Room`,
`hr` is the result so far. `Reset` and `AssignAddr` change `addr` and the sense
line; `Query` stands for every command with a report. `SendAssign` is guarded by
the sense line, as the master's enumeration is. A port can be closed and opened
at any time between packets, with a provider that may fail (`OpenNoBoards`).

### Io4

`Read`, `TakeReport` and the order of completion come from `Overlapped`; what is
added is the task, step by step: `Start`, `LookAtButton` for each network
button, `ClearButtons`, `LookAtCoin` (with `CoinDown` and `CoinUp`), `Finish`.
Between any two of them the coin key may go down or up (`PressCoin`,
`ReleaseCoin`), a packet may press a button (`Packet`) and a game thread may
write a command (`Write`).

### SgReader

A frame has an address and a command. The handler passes it to the reader's
`sg_req_transact` and then to the LED board's; each decodes it and looks at the
address (`NfcReplies`, `LedReplies`), and `Transact` appends what the two make of it.
Errors are replies: of an unknown command, a block out of range, a wrong length. That
there is one reply to a frame is not built in: the mutant `LedReplies_AnyAddress`
gives two.

Each IRP is one action, but for a POLL: `PollSense`, `ReadIdFile` and `Generate`
for both kinds of card, and `Answer`, with `Player` in between who saves card
files and works the scan key. Files are `NoFile`, a card, digits that are not
decimal (`NotBcd`), or too few digits (`Short`). `Populate` is the AiMe
emulator's conversion, which stops at a digit that is not decimal (`Partial`).
`asked`, `inits`, `last` and `touched` record history.

### Cards

The printing game, the scanning game thread and the end of the program.

| Model | Code |
|---|---|
| `Start`, `Crash` | `printer_hook_init` loads the counters or makes new ones; the program ends at any moment |
| `BeginSave`, `SaveWrite` | `printer_write_data`: `CREATE_ALWAYS` empties the file, `WriteFile` fills it; either may fail |
| `Open`, `Standby`, `EndPage`, `PollStandby`, `ExitCard` and `Eject` | the calls of a print and what they do to `STATUS` |
| `AskId`, `WriteStart`, `WriteBlock`, `WriteEnd` | the RFID commands of the printer (4098, 4355), or those of a writer board of its own (`"serial"`) |
| `WriteCardId`, `WriteCardData` | the two writes of `rfid_file_commit` |
| `Page`, `PageCount`, `Holo` | a picture with the RFID data behind it, and the counters |
| `ScanStart`, `ScanRead` | `rfid_req_scan`: one card file for each read |
| `WriterRead` | a read from the writer's port, which finds the reader's scan (`hFind`) |

`stage` is the game's place in a print: it sets a standby, asks for the card's ID,
starts, writes its blocks, ends, prints, and ejects; at any point it may eject or
open the printer again instead. New card IDs are taken from those that no file
has: the code draws twelve random bytes. An end of the program between the two
halves of a save leaves the counters' file empty, and `Start` then makes new
counters: the count of all pages is lost. `lost` says how many pages that were.
`pages`, `lost`, `faults`, `torn`, `got` and the fields `must` and `due` of `find`
record history. Of the statistics the model keeps
`print_count_1`, which goes with `feed_roller`, `head` and `paper`.

### BngRw

Nothing in `bngrw.c` is locked, so every load and store that another thread can
see is an action. `ThreadStep` is `BngRwReqWaitTouchThread`: `Test` and `Count`
are the two halves of `timeout == -1 || timeout-- > 0`, `Look` and `Which` the
two times that it asks for the card flags, `Copy` is `tohex`, then
`api_clear_cards`, the callback (`Found`), and `is_scanning` (`Unset`).
`BngRwReqWaitTouch` and `SetScanning` are the two halves of a request, with the
thread already running in between. `Packet`, `PacketRest` and `PacketFlag` are the
network's thread in `api_parse`. A packet stands for its card's number.

The game is one thread, and asks `BngRwIsCmdExec` before a request and before
`BngRwFin`. A packet may come at any time, also while a scan copies the number that
the flag announces: `api_parse` overwrites it, and the scan gets halves of two cards,
or a card that the next scan gets once more. `overlapped` has the scans under whose
copying a packet of their kind came, and `CardsHandedOver` is about all others.
Nothing in the repository says when a sender may send the next card, so this is a
hazard and not a finding.

### The platform: what stands in for Windows and the small boards

Each of these has names of its own (`Reg...`, `Vfs...`, `Net...`), so that
`Platform` can extend all of them. They share no state, and only meet at
start-up. `Platform` states the properties that several parts have together.

| Module | Actions | Code |
|---|---|---|
| `Registry` | `RegPushKey`, `RegOpenVirtual`, `RegOpenKey`/`RegOpenNext`, `RegCloseKey`/`RegCloseNext`, `RegQuerySize`, `RegQueryValue`/`RegQueryNext`, `RegSetValue`/`RegSetNext` | `hooklib/reg.c`; a `...Next` is the real call, after the lock has been given up |
| `Paths` | `VfsCheck`, `VfsCreate`, `VfsPush`, `VfsKill`; `PathCreateFile`, `PathCreateDirectory`, `PathRemoveDirectory` | `platform/vfs.c` makes each directory in two steps, in every process; `hooklib/path.c` translates a path by the first hook that matches |
| `HookTables` | `LibLoad`, `LibFree`/`LibFreeNext`; `DevGetClass`/`DevRecord`, `DevEnum`, `DevDetail`, `DevForget`/`DevDestroy` | `hooklib/dll.c`, `hooklib/setupapi.c` |
| `Names` | `DnsPlatform`, `DnsQuery`, `DnsGetAddrInfo`, `DnsQueryEx`/`DnsQueryExDone` | `hooklib/dns.c`, `platform/dns.c` |
| `Network` | `NetHookInit`, `NetCall`, `NetEcho`/`NetFill`/`NetSetEvent`, `NetPingSeen`, `NetTrace` | `platform/netenv.c`; answers are facts [field, value, by] |
| `Clock` | `ClockRead`, `ClockSet`, `ClockTick` | `platform/clock.c`, the arithmetic of the time warp in full, in ticks of `1/ClockHour` hour |
| `Nusec` | `NusecPut`, `NusecGetState`, `NusecGetData`, `NusecErase`, `NusecAddPlays`, `NusecPutLimit`, `NusecCertOpen`/`NusecCertRead` | `platform/nusec.c`, with the order in which the library calls the log's ioctls |
| `Amex` | `AmexOpenMemory`; `AmexOpenStore`, `AmexClear`, `AmexCreate`, `AmexResize`, `AmexPublish`, `AmexAnswer`; `AmexClose`/`AmexCloseHandle`; `AmexGetSwitches` (`AmexLook`, `AmexUnpress`), `AmexPress` | `amex/ds.c`, `gpio.c`; `eeprom.c`, `sram.c` through `nvram_open_file`, each store and load a step; a switch is looked at, and all are cleared, in separate steps |
| `LedBoards` | `LedWrite`, `LedRead`, `LedEnter`, `LedUart`, `LedDispatch`, `LedLeave` | `board/led1509306.c` and its two copies; any thread may come to any board, and `LedEnter` enters a copy of the lock, so excludes nobody (`ledMixed`) |
| `Vfd` | `VfdWrite`, `VfdDispatch`, `VfdUndefined`, `VfdRead` | `board/vfd.c`, the loop over the commands of one write; what becomes of a text on its way to the API (`VfdFates`): whole, lengthened by what lies behind its unterminated bytes, or lost |
| `Frames` | `FrameSend`, `FrameWrite`, `FrameDecodeStream`, `FrameDecodeWhole`; an encoder and a decoder for each format (`SliderFrameDecode`, ...) | the five `*-frame.c`, byte by byte, and the loops that call them; the game's end is the format's own encoder |
| `Gfx` | `GfxHookInit`, `GfxForward`, `GfxCreate`, `GfxWrap`, `GfxExhook`, `GfxCreateDevice`, `GfxCreateBoth`, `GfxRelease` | `hooklib/gfx.c`, `gfxhook/`; of the calls that make a device or a swap chain (`GfxMethods`) the hooks replace some (`GfxReplaced`), and the others make what they are asked for; the libraries and `com_proxy` are external |
| `StartUp` | `StartSkip`, `StartHook`, `StartFails`, `StartRun`; `StartLoad`, `StartVersion`, `StartBind` | twelve games' lists of parts (`StartGames`), what each does to the start when it fails, and the IO DLLs |

`clockBack`, `amexPressed`, `amexSeen` (of each thread), `nusecRead`, `ledDue`,
`ledMixed`, `vfdDisplay`, `vfdOdd`, `gfxBy` and `pathMade` record history: what was
done, and what is due. What the
hooks answer is kept only as far as a property compares it with something.

## 3. Runs

| Run | Instance | Distinct states | What it shows |
|---|---|---|---|
| `async` | 3 clients, no peeking | 146,944 | A pending request is in exactly one place, wakes are not lost, the OVERLAPPED is safe, results are complete, accepted requests finish, `Overlapped` is implemented |
| `async_peek` (violated) | 2 clients, peeking | | A late `SetEvent` makes the wait for the next request return early |
| `slider` | 2 games, 2 polling threads, 2 commands, one frame of room, patient | 86,954 | Frames are contiguous and no command stays behind (`StreamWhole`), STOP ends the callbacks and returns, a scan whose start did not fail polls and reports |
| `slider_impatient` (violated) | the same, not patient | | A START that is taken while a STOP has given up the lock is undone by that STOP |
| `jvs_chain` (violated) | 2 boards | | The second ASSIGN also reaches a board that has an address |
| `io4` | 2 readers, 1 step of the hand, 2 credits | 373,512 | Coins are not counted twice (`CoinsCounted`), counts do not go back and statuses are fresh (`ReportsTrue`), reads complete |
| `io4_credits` (violated) | 1 reader, 2 credits | | Two credits of the network before successive polls, with no key pressed: the second one's flag stays set and blocks the coin input |
| `sg_reader` | 2 cards of each kind, 2 unread replies, symmetric in the cards | 1,006,506 | The DLL is started once and first, and each frame gets the one reply that fits it from the board it is addressed to (`PortServed`), reads come from the announced card, a card that lies still stays the same |
| `sg_reader_felica` (violated) | 1 card of each kind | | An existing FeliCa file is replaced by a random number |
| `cards` | 2 cards of 2 blocks, 2 pages, 1 fault, 4 configurations, symmetric in the cards | 3,934,016 | Card files are whole (`CardsWhole`), pictures bear their own card's data, counters miss a page for each fault at most since their file was last found empty, supplies last, scans deliver each card once |
| `bngrw` | 2 requests, 2 packets, 2 cancels, time limits -1, 0 and 1 | 319,194 | Cards are whole and given once unless a packet of their kind came while they were copied (`CardsHandedOver`), the buffer is alive, the busy flag is right but for scans that end early, scans end |
| `platform` | the fifteen parts of `focus`, each with the others at rest | 1,177,781 | see below |

The names in brackets are conjunctions of a module's type invariant and
properties that go together, stated in the component's module, so that theorems
can name them too. `platform` checks, besides type correctness (`PlatformTypeOK`):

| Property | What it says |
|---|---|
| `AssignedFromTail`, `ChainServed` | JVS addresses come from the tail, one board each; answers are complete or errors |
| `RegAnsweredByKey` | a registry call is answered by the key that the thread opened, whatever handles are given out again |
| `FilesFound` | a process that goes on has all directories, though others make them at the same time or are killed half way; one file has all its names |
| `HooksLead` | a hook's library stays loaded; device lists are complete; every graphics function that is reachable leads on |
| `ToldAgrees` | network calls agree, names stay here, echo replies are whole when announced, sizes suffice, no record of the log is overwritten and reads are of what was announced |
| `ClockSkips`, `ClockForward` | maintenance hours are never told; time does not go back |
| `AmexOwnHandles` | a device's handle is its own |
| `FramesArrive` | frames arrive unchanged, however they are cut into writes |
| `BoardsServed` | LED replies come once and in order, unless the copied lock has let two threads in; VFD texts are sent once and in order, unless a command has failed or a cursor's text has ended a write; no thread is told of a press twice; graphics objects are counted, and what the replaced calls make is windowed if so configured |
| `StartedWhole` | a game that runs has all its parts, and its calls into IO DLLs are live, whichever part fails or is disabled |

Bounds, and why they are enough:

* `async`: with three clients one request is being run, one is in the slot, and
  one submitter waits for the slot; a fourth could only wait beside the third,
  and condition variables do not tell waiters apart. The proofs drop the bound.
  Deadlock is not checked: after `async_fini`, or after a failed thread creation
  has left the lock held, the worker's users really stop.
* `slider`: one thread scans, another sends other commands, and a polling thread
  that is being joined may coexist with one more. Two halves of room is the
  smallest buffer in which a frame fits, and one in which it may not. Two
  commands is the fewest of which the second waits behind the first. TLC found
  no state in which a third polling thread was wanted.
* `io4`: a second read waits in the queue behind the first; with two credits one
  can arrive from the network while the other is held on the key. One step of
  the hand makes its rise and fall visible; it interacts with nothing else.
* `sg_reader`: two cards of each kind let the player swap them; two unread replies
  are a poll's and a read's. Cards are only compared, so permuting them is sound,
  and the run has no liveness property.
* `cards`: with two cards one can be given up, or lie on the table, while the other
  is printed; two blocks tell a card that is whole from one that is not, and a
  repeated block from a new one. A full load of 3 sheets, refilled by 2 when
  fewer than 3 are left, needs a refill at the second sheet (50, 25 and 3 in the
  code); the number of holo sheets is not bounded. One fault is an end of the
  program or a failed save, anywhere; a card file may fail at any write without
  counting. The four configurations have each option on and off, with each of
  the two writers. The game really stops when it runs out of IDs, so deadlock is
  not checked. The proofs drop the bounds on pages, faults and sheets.
* `bngrw`: a second request follows, or would meet, the first; two packets are of one
  kind or of both; limits of 0 and 1 are the last two values of the count, and
  -1 is no limit. A cancel leaves 1 round (5 in the code). With every request
  used up, or a reader that is busy for good, the system stops: deadlock is not
  checked. The proofs drop these bounds.

* `platform`: `focus` names the one part that moves. No action of a part reads
  or writes another's variables (start-up only lists what it sets up), so nothing
  is lost by looking at them one at a time, and the states add up instead of
  multiplying. Parts at rest are in one of their initial states. Deadlock is not
  checked: bounded counters stop a part.
  * JVS: three boards give one in the middle, neither head nor tail; room for two
    reports and up to three commands fit, fit exactly and do not fit.
  * Registry, paths, tables, names: two threads or processes, the fewest that
    meet between a lock and the call after it; three handles, so that one can be
    given out again while two are held; keys that are virtual, real or both; one
    start that is killed and two files, enough for two names of one file and
    another; two devices behind a made-up one, for the shift of indices.
  * Clock: two ticks an hour and 60 of them, 30 hours, pass every hour of the day, the
    biased midnight and the hours of maintenance; a zone west of UTC, where the date
    differs.
    `ClockFake`'s rounding is finer in the code; the proof takes any resolution.
  * Nusec: a log of two places goes around twice with five records.
  * Amex: two threads, one store and one memory, of which there are two each with
    the same code; three handles; the file absent, too short, or right.
  * LED: a board of each kind of handler, two threads that may be at the same one,
    one reply unread. VFD: up to three commands in one write or in several, room for
    one reply, two encodings.
  * Frames: two frames of up to two payload bytes, so that a write can end within
    the first, between them or within the second; payloads that hold a sync byte,
    an escape and the byte below the sync, and ones whose checksum is a sync byte
    or an escape; noise that is shorter and longer than a frame. Bytes have their
    eight bits.
  * Start-up: all twelve games, any operation failing, any part disabled.

`Slider`, `Async`, `Io4` and `BngRw` have liveness properties and use no symmetry.

## 4. What the runs found

* `async_peek`. The comment in `async_thread_proc` (`util/async.c:159-179`)
  claims an order of stores without races against a `GetOverlappedResult` that
  reads `Internal`. But `SetEvent` comes after the status, so it can fall on the next
  request of the same OVERLAPPED and event, whose wait then returns while it is
  pending. That OVERLAPPED is taken back too early, and the memory safety that the
  comment is about is gone as well: `NoUseAfterReturn` holds only of those to whom no
  `SetEvent` has come late (theorem `NoneUsedAfterReturn`).
* `slider_impatient`. `chuniio.h` requires a polling thread after `slider_start`.
  The hook gives its lock up for the whole of `chuni_io_slider_stop`. A START that
  another thread takes from the buffer meanwhile creates its thread before the stop
  looks at the handle, and the stop ends that thread (the trace); or it finds the old
  handle and creates none. Either way the later START has left no thread when both
  are done. Games that await the acknowledgement are safe (run `slider`).
* `jvs_chain`. ASSIGN_ADDR takes any address offered while the next board has
  one already, also if this board has its own. The chains that the repository
  builds have a single I/O board, where it cannot happen.
* `io4_credits`. A credit of the network that is found while `chuni_io_coin` is still
  set is not cleared, and then acts as a key that is never released: no coin is
  counted any more. In the trace it is a second credit of the network, come before
  the poll that follows the one that counted the first, and no key is pressed; a credit that
  comes while the key is held does the same.
* `sg_reader_felica`. `felicaGen` is documented for files that do not exist; any
  unreadable file is overwritten.

Three more are in `PROJECT.json` without a run of their own:

* `platform/clock.c:233`. The time warp is documented to skip the maintenance
  period; with `timezone=0` only `GetSystemTimeAsFileTime` is warped, and the
  other calls tell times within it. `ClockSkips` is stated for `timezone=1`.
* `amex/nvram.c:22`. A second open of a store is meant to be refused; two threads
  that open it at once get past the check, and the first may be answered with a
  NULL handle. `AmexOwnHandles` holds all the same.

* `board/slider-frame.c:35`, and the same line of `led1509306-frame.c` and
  `rfid-frame.c`. The sync moves as many bytes as it skips instead of as many as
  are left: a frame behind shorter noise in the same write is destroyed.
  `FramesArrive` holds unless that has happened (`frameSlipped`), and `FramesNeverSlip`
  says when it cannot: when nothing lies between the frames.

Also seen, without a statement in the repository to compare with: an erase of the
security device's log takes everything that is in it, as `nusec.c:288` raises the
count where it would be expected to lower it, so a record that is put between the
sender's question and its erase is lost; an LED board's lock excludes nobody, and
replies of two threads' commands may be mixed up; a scan of the Banapass reader copies a number that a packet may be
writing; an end of the program while the printer's counters are being saved loses all
of them; after a command that fails the VFD runs all commands of the buffer again at every
write; texts go from the VFD to the API without a NUL; and of the calls that make a
graphics device some are replaced by nobody (`CreateDeviceEx` of gfxhook's objects,
`CreateDevice` of hooklib's, `CreateSwapChainForHwnd`), so that a game that makes its
device by one of them is not windowed. A limit that
a proof attempt brought out: `vfs_mkdir_rec` (`platform/vfs.c:267`) gives a directory
up when another process makes one of its names first, and relies on that process to
make the rest. When two configured directories have two missing names in common,
each of two processes may be on its way to the other one, and a directory is missing
when the game runs. TLC finds it with two processes; `VfsDirsAssumption` leaves it
out: directories configured as documented (`../../amfs`, `../../appdata`,
`doc/chunihook.md:40-41`) share no more than one missing name.

## 5. Fairness

* `Async`: weak fairness of the worker's step alone. Windows schedules a ready
  thread, and the tasks given to it return. Nothing is assumed of the clients,
  of spurious wakes or of `Fini`.
* `Slider`: weak fairness of each game thread inside a handler and of each
  polling thread. Taking a lock that others take again and again (`Relock`,
  `CallbackLock`) has strong fairness: critical sections are held for one
  frame, and polling threads sleep between callbacks. Nothing is assumed of the
  game: it need not write or read.
* `Io4`: weak fairness of the worker's poll, which `Async` justifies
  (`AcceptedCompletes`), and of the readers, since games poll their I/O board in
  their main loop for as long as they run. Nothing is assumed of the player, the
  network or writes.
* `BngRw`: weak fairness of each scan's thread, which never waits for another. Nothing
  is assumed of the game or the network. The bound on cancels matters: each
  gives the scan a new limit, so a game that cancels for ever would keep it going.
* `Jvs`, `SgReader`, `Cards` and the other parts of `platform` state safety only:
  their calls return by themselves, and nothing obliges the game to call.

## 6. Proofs

All theorems are for any values of the constants allowed by the `ASSUME`s of
their modules.

**AsyncProofs.** `PendingPlaced`, `CompleteReturned` and `Refinement` assume
`~PeekWithEvent`: a game that looks at `Internal` breaks them (section 4). The
invariant, `TypeCorrect`, `WakeupsKept` and `NoneUsedAfterReturn` do not; what they say
of a client holds until its event is signalled late. `PendingInOnePlace` is not
inductive: whether a wake is lost depends on who sleeps, whether the worker's
OVERLAPPED is alive depends on what the game has seen, and that on stale events.
`IInv` adds what each place of the protocol implies (`ClientInv`, `SlotInv`,
`RunInv`), that a request whose status is stored but not signalled still belongs
to a client that waits (`StoredInv`), that a signalled event stands for a
finished request (`SignalInv`), and that no pending request is forgotten
(`NobodyForgotten`). `Invariance` proves it; `TypeCorrect`, `PendingPlaced`,
`WakeupsKept` and `NoneUsedAfterReturn` follow, `CompleteReturned` is an action
property from it, and `Refinement` maps each step to one of `Overlapped` or to a
stutter. The queue of the mapping has at most two elements (`ShortQueues`), so
its head and tail are known without induction.

**SliderProofs.** Two invariants. `StreamInv`, with no assumption beyond
`Slider`'s: who decodes a command or stores half a frame has the lock (`LockHeld`),
and finds the first half last when it stores the second (`HalfStored`), so frames
are contiguous, also when the buffer fills up in the middle of one. `ScanInv`
assumes `Patient`, without which a START can be lost (run `slider_impatient`): no
START is written behind a STOP (`NoStartYet`), so while a stop waits without the
lock nothing starts, the DLL's handle is that of the only polling thread
(`OnePoller`), the wait is for that one (`Joined`), and the stop flag is up only
during a stop (`FlagInv`). A start that fails leaves everything as it was, `scanning`
included. `StreamStaysWhole`, `NoReportAfterStop` and
`StartLeavesPoller` follow, for any number of threads of either kind.

The second half of the module is about *Frames*, the bytes on the line. Assumptions:
a frame with its header and checksum fits the board's buffer, its length a byte, and
what the line adds between frames holds no sync byte, since one would start a frame
that is none and take the next one with it. `FramesAllArrive` states `FramesArrive`
for any payloads, noise, number of frames and cuts of the line into writes.

* *Induction.* What an encoder or a decoder makes of n bytes is a fold, and the
  library's induction theorem takes a predicate, which the installed provers cannot
  instantiate. `FrameInduction` derives what is needed, for a set instead of a
  predicate, from the well-foundedness of strict inclusion on finite sets;
  `FrameRunExists` and `FrameRunsAgree` say that a fold has one run.
* *One frame.* `FrameEncodedStuffs`: byte i of a frame has its place in the encoder's
  line, one byte or two, and no byte behind the first looks like a sync byte.
  `FrameDecodesLine` and `FrameWholeDecodesLine`: with each of those places a decoder
  has one byte more of the frame, and, as `FrameSpelledOf` shows of the length field
  and the checksum of each stream's format, accepts it with the last byte and not before.
  `FrameRoundTrip` puts both together. `FrameCarried` is what the line needs of it:
  whatever begins as the frame's line does decodes to the frame once all is there.
* *The line.* `FrameCutUp`: the bytes in the board's buffer and those still to write
  are, put together, cut into the frames that were not dispatched, each with
  the noise in front of it; and between calls the buffer does not hold the whole of the
  first one. A write leaves the cuts where they are (`FrameCutInTwo`); a frame sent is one cut
  more (`FrameCutLonger`); a turn of the handler's loop takes off noise in front of the
  first cut, or that and one frame (`FrameTurnTakes`, `FrameCutMoved`).
  `FrameOnePerCall` is the same for the formats that come whole. `FrameInv` joins them
  with the order of what was dispatched; it says nothing once a sync has slipped.
* `FramesNeverSlip`: a sync slips only over noise. On a line that adds nothing, and for
  `sg` and `jvs`, every frame arrives without that condition.

**JvsProofs.** Assumptions: those of `Jvs` (at least one board, bounds are
naturals). `AssignedFromTail` speaks of the time between packets. While an
ASSIGN or a RESET is on its way, boards above and below `at` differ; `AddrInv`
says how, per kind of packet, and `CrackInv` ties `at`, `pos`, `out` and the
packet together. `RepliesComplete` needs that the reports collected so far are
those of the commands executed so far (`OutInv`). `Invariance` proves the
conjunction, from which `TypeCorrect`, `TailFirst`, `AllOrError` and `ChainIsServed`
follow.

**Io4Proofs.** Assumption of `CoinsAreCounted`: none beyond `Io4`'s (finitely many
readers). `Justified`: the coins that were counted, and one more if the next look at
the key will count one, are no more than went in; a press, a tap between two looks
and a credit of the network may come to one coin together, never to more than they are.
`ReportsAreTrue`, an action property, needs that a poll reports the counter it read
and that no report has said more (`Counted`), and that the status since a read began
is known (`StatusKnown`). It assumes `MaxCredits < 256`: a report has a byte for the
counter, which comes around after 255 coins, and then does go back.

**SgReaderProofs.** No assumption beyond `SgReader`'s. `PortInv` ties the replies to the
frames that are due one, where reader and LED board each see every frame, and the
emulated cards to the latest poll that announced one, also while
its reply lies unread (`CardSetUp`). `SameCardAtNextPoll` is an action property about
two polls: `Foreseen` says what a poll comes to while nobody touches a file or the
key, `PollInv` how much of that a poll under way has found, and `LastInv` that the
last answer is what the next poll will come to, because a poll that generated a
number has left it in the file.

**CardsProofs.** Assumptions: `SuppliesAssumption` (50, 3 and 25 satisfy it), and that
the bounds are naturals. `PagesCounted` and `SuppliesLast` speak of the counters in
memory while the program runs; a restart takes them from the file, so what holds of
them has to hold of the file too, unless it is empty (`FileInv`): an end of the program
then starts a new account, with `lost` pages before it. `UsedCounts` is the
arithmetic of one sheet, `BeginSaveStep` the one place where counters and file
part. `CountsPages` and `SuppliesNeverOut` follow. For the cards, `CardInv` says at
each stage of a print what the buffer holds (`StageInv`), what each card's file can
contain, between its two writes too (`FilesInv`), that pictures bear what was
committed (`ImagesInv`), and how far a scan has come: what it delivered is what it saw,
once each and whole, and what was due at its start and seen is among it (`FindInv`,
`FramesInv`). `CardFilesStayWhole`, `PicturesMatch` and `ScansDeliver` follow, for any
number of cards, blocks, pages, and ends of the program.

**BngRwProofs.** Assumption: 0 is no request's name. `BusyTellsScan` and
`BufferAlive` hold because a scan that goes on is the latest request's and keeps
the reader busy (`AliveInv`), but for the time until that request returns, when
only it is going on (`CallInv`). `BusyInv` and `EarlyInv` say who else keeps the
reader busy: a scan that ended too early, for good. `ThreadEffect` reduces the
twelve steps of the thread to two cases. `CardsGivenOnce` has no assumption about
when packets come; it is about the scans that are not in `overlapped`. Numbers that such
scans gave differ (`GivenInv`); one that is announced is whole, and one that is
announced or coming was given by none of them (`IdInv`); a scan that has taken a
number up has it to itself (`Taken`), and has cleared it when it gives it away
(`CopyInv`).

**PlatformProofs.** One section per part but `Frames` (in SliderProofs), then the
parts together. Unless it says
otherwise, a part has no assumption beyond its module's.

* *Registry*: `RegAnsweredByKey` needs to know that a handle in the table is that of
  the thread that put it there: a handle belongs to one thread (`RegApart`), what the
  table and Windows have under it (`RegHeld`), and nobody else's handle is in the table
  (`RegTabled`), all of them also between the close's two steps. `RegSizesSuffice`: a
  size that was told is at least what is there (`RegSizeInv`).
* *Clock*: a positive number of ticks an hour, a zone between -12 and 14. The lemmas
  are the division with remainder, and the order and range of the scaled time across
  midnight. The invariant says that what the game was told is its call's answer for
  a moment that has passed; `ClockKeepsOut` and `ClockGoesForward` follow.
* *Security device*: a log with at least one place. Two records less than a whole log
  apart have places of their own, and the library never erases more than it was
  told of (`NusecSender`), without which the tail would pass the head.
* *Amex*: NULL is no handle; the names of devices are distinct. From `CreateFile` to
  the answer, and from the close to `CloseHandle`, a handle is one thread's and not the
  game's (`AmexOwned`); the share mode keeps a store from being open twice
  (`AmexOneHandle`), which is why the handle that `AmexAnswer` finds is the thread's own
  or none. `AmexKeepsSizes` follows a store from its clearing to its resizing, also
  when an open fails half way; `AmexCountsPresses` needs that a press that
  waits is new to a thread, or the thread is about to clear it (`AmexPressInv`), for each
  thread by itself, as others clear what it has not seen.
* *Network and names*: what was told is what the configuration makes true (`NetTruth`,
  with the full table),
  and an echo's reply precedes its event; names in a request are a host's or ones
  that no table has an entry for (`DnsIInv`).
* *Files*: at least one process, the options Boolean, and directories that share at
  most one missing name (section 4 has what happens otherwise). A name of a directory
  is there, or a process is still on its way to make it (`VfsIInv`): one that
  gives a directory up does so because another is ahead of it. A file is there
  exactly if it was made under some name of it (`PathIInv`).
* *Libraries and devices*: `LibIInv` says that nobody who frees has the hook's own
  module. `LibCounts` is needed for the type of the counts, which must not go below
  nought: Windows' count of a module is the number of references that all threads hold
  or are about to free, a cardinality. `DevIInv` says what a thread that is alone with
  its set was told so far (`DevAlone`, `DevToldSoFar`); it needs that `DevNone` is no class.
* *Graphics*: what a hook has found by the time it is in the game's tables
  (`GfxLinksInv`), the references of the object under way, whether it is wrapped, and how
  the device was made (`GfxCallInv`).
* *Start-up*: the twelve lists are constants of the model, and `StartGamesOrdered`
  proves of each that a part comes after the library whose functions it calls, and that
  a library that fails ends the start. `StartIInv`: the libraries of the parts that are
  done are bound, calls are of earlier parts, and a library is freed only by its own
  part, whose failure ends the start. Each operation may fail, at any part.
* *LED boards*: no assumption about who uses which board. As long as a handler has had
  one thread at a time, the one command that is being handled accounts for the
  difference between what is due and what is there (`LedStands`); once it has had two,
  which the lock of a copy does not prevent, the invariant gives the board up
  (`ledMixed`). Types hold in either case.
* *VFD*: the display is as far as it should be when the commands that are left of a
  write will have been handled (`VfdOnTheWay`), whatever becomes of each text.
* *Together*: `FilesAreFound`, `HooksLeadOn`, `WhatIsToldAgrees`, `BoardsServe` and
  `StartsWhole` are the conjunctions that the run checks. `PlatformTyped` is type
  correctness of the twelve parts but `Frames`, whose is in `FramesArrive`; most need
  a part of the invariants above, as a count, a place in a list or a number of bytes
  keeps to its range only because of what else is true.

**Model-checked only.**

* Liveness under fairness (`AcceptedCompletes`, `StopReturns`, `ReportsKeepComing`,
  `ReadsComplete`, `ScanEnds`): the prover has no rules for `ENABLED`.
* The runs that expect a violation, which are counterexamples.

`RECURSIVE` operators are not used.

## 7. What is not modelled

* Bytes, outside of `Frames`: HID descriptors, formats of replies; frames are
  whole there, or halves in `Slider`. Of `Frames`, an empty JVS frame (whose
  checksum loop runs through memory), a frame cut short, and noise longer than
  half of the buffer (which `*_frame_sync` moves from behind its end).
* The slider's and the LED strips' colours and the analog inputs: written by one
  thread, shown by another, and no decision depends on them.
* Reads without an OVERLAPPED on the I/O board (a second, synchronous poller).
* The printer's firmware, tables and paper settings, which are stored and given
  back; pictures in the directory of the card files, which a scan would offer too.
* `namco/strpcb.c`, `namco/namco-jvs-usb.c`, `namco/najv.c`, `namco/keychip.c`: each
  answers a request at once from constants; the first two lock a copy of their
  state, like the LED boards.
* `hooklib/touch.c`, which turns mouse messages into touches; `comshark.c`,
  `fdshark.c` (logging), `spike.c` (patches of one game), `dvd.c`, `window.c`.
* `platform/` calls that answer once from the configuration (`misc.c`, `pcbid.c`,
  `hwmon.c`, `amvideo.c`, `hwreset.c`): their start-up is in `StartUp`.
* Printer and RFID adapters (`printer/printer-stdcall.c`): calling conventions.
* Serial LED output, configuration reading, logging, the games' own small devices,
  IO DLLs of the other games (keys and pads to a report; force feedback).
* Stub DLLs, keys, the vendored JSON parser and web socket code.

The library that provides IRPs, uarts and hooks is not part of this tree; it
appears as `Write`, `Read` and the serialisation that the handlers' locks give.

## 8. Plan

1. *Done*: `Overlapped`, `Async`, `Slider`, `Jvs`, `Io4`, `SgReader`, `Cards`, `BngRw`
   and the parts of `Platform`; proofs of all safety properties that the runs check.
2. Proofs: `Registry` and `Amex` as implementations of an abstract table of handles; `Cards`
   as one of an abstract card store that commits whole cards.
3. `Frames` with frames cut short: which of the next ones are lost.
4. A second, synchronous poller of the I/O board; the LED half of `chuniio.c`.
5. `hooklib/touch.c` and its thread; the Namco boards that lock a copy.
