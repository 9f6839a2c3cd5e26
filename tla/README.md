# Verification of linux_learning

The repository holds a set of Linux exercises and one program that grew out of
them, `src/10_production_tool`: a test tool for production lines that shows a
button for each component under test, takes touches and UDP reports, and runs
scripts. This directory models that program and the exercises in TLA+, checks
the models with TLC and proves the main results with TLAPS.

File names below are relative to `src/10_production_tool/src` unless they start
with a numbered directory.

## Inventory

| part | state | operations | what makes it correct |
|---|---|---|---|
| ring buffer, `utils/ringbuf.c` | indexes, count, data area | push, pop | a bounded FIFO queue that uses every slot |
| input manager, `input_mgr/input_mgr.c` | device list, event ring, mutex, semaphore | register, start all devices, one thread per device, get event | the ring is used by one thread at a time; no wake-up is lost; events of a device stay in order; nothing is delivered twice |
| touch screen, `input_mgr/touch_screen` | tslib handle | read a sample into a new block | ownership of the block passes with the event |
| socket input, `input_mgr/socket` | UDP socket | allocate, receive, free on failure | the same, also on the failure path |
| main page, `ui/pages/main_page.c` | buttons, is_pressed | run the page, find the button of an event, handle it, fork a script | the screen agrees with the state and with the reports; a press runs a script once |
| command scripts, `tools/test_example.sh` | - | report percentages and ok over UDP | - |
| button component, `ui/components/button.c` | text, region, callbacks | init, default draw and press | - |
| display manager, LCD, `display_mgr` | device list, framebuffer shared by fork | fill a region, write a text, flush | a painting replaces what was there |
| configuration, `ui/pages/config.c` | table of items, a buffer and a pointer into it | parse, look up | every line becomes an item, within the table; nothing is read that was not written |
| page registry and start-up, `ui/ui_mgr.c`, `mainapp.c` | list of pages | start the managers, run the page | a failing part does not take the others with it |
| fonts, `font_mgr` | font, size | set font, rasterise through freetype | - |
| D-Bus example, `03_dbus` | mood of ten animals, changes not yet announced; each client's cache | poke, property changes, signals, clients with a cache | a call is answered once; a cache follows what is announced; a mood is changed by a poke alone |
| input examples, `04_input_touchscreen` | the read buffer, the request, readfds | blocking, non-blocking, poll, select, aio and tslib loops | an input that arrives is printed, once and in order |
| thread examples, `05_thread` | a shared line, a mutex, a semaphore or condition | hand a line from main to a thread | a line is printed whole; the last one is printed |
| network examples, `02_network` | connections, children, the receive buffer | TCP server that forks, UDP pair | what is printed is what was sent; a client is served; a child ends |
| character display, `01_lcd_show_char` | mappings, descriptors, the pen | draw built-in characters, draw with freetype | what is drawn lies in the framebuffer |
| `11_qt` | - | an empty window | - |

How the parts of the tool interact. `mainapp.c` initialises the managers, runs
the exported init functions, which register the devices, starts one thread per
device and enters the page. A device thread waits in its `get_event`, takes the
mutex, pushes a copy of the event (with a pointer to a heap block) into the one
ring, posts the semaphore and gives the mutex back. The main thread waits for
the semaphore, takes the mutex, pops, gives the mutex back and lets the page
handle the event. A press on a button with a command forks: the child runs the
script with `system()` and then *returns into the page's loop* with a copy of
the ring, the semaphore and the mutex, while the script reports its progress to
the parent's socket. Parent and children paint into the same framebuffer.

What is hard to test here: the interleavings of device threads with main, a
ring that overflows while the semaphore goes on counting, devices that start
only in part, ownership of heap blocks, forks that copy a process in the middle
of its threads' critical sections, painting by several processes, a set-up that
goes on after each failure, and a layout computed by division. In the
exercises: announcements that wait in an idle source while calls come in, a
service that ends and starts again, one buffer for many reads, a wait on a
mutex that is not held, and a server that never closes a connection. The list,
with lines, is in `PROJECT.json` under `hazards`.

## Modules

| module | models | notes |
|---|---|---|
| `RingBuf` | `ringbuf.c`, `ringbuf.h` | the ring as a record, push and pop as functions to a return value and a new ring; no variables |
| `RingBufClient` | a caller of the ring, as `test/test_ring_buf.c` | any sequence of calls |
| `BoundedFifo` | - | abstract: a sequence with a capacity |
| `InputMgr` | `input_mgr.c` with both devices | extends `RingBuf`; threads by program counters |
| `EventChannel` | - | abstract: a queue that loses only when full, whose get fails at most once per loss |
| `ProductionTool` | `main_page.c`, the painting of `display_mgr.c`, the scripts | extends `InputMgr`; the page takes the place of `Use`; forked processes and the framebuffer |
| `Layout` | `generate_buttons`, the hit test, the pixel arithmetic | operators only, with C's division |
| `ToolStartup` | `mainapp.c`, `modules.h`, `config.c`, `lcd_display.c`, the `dev_init`s, the managers' set-up | extends `Layout`; from main to the first touch, one action per step that may fail |
| `Animals` | `03_dbus`: service, generated skeleton and proxy, three clients | the main loop as one queue of tasks, the bus as a queue for each client |
| `EventReaders` | `04_input_touchscreen` | seven ways to read inputs, and the program that lists a device |
| `Handover` | `05_thread` | both hand-overs of a line |
| `Network` | `02_network` | TCP and UDP servers with their clients |
| `CharDisplay` | `01_lcd_show_char` | extends `Layout`; what is drawn as boxes of pixels |
| `Examples` | - | the four modules before, by INSTANCE: one program is started and runs alone |
| `MCInputMgr`, `MCProductionTool`, `MCToolStartup`, `MCExamples` | - | symmetry and constants for TLC |
| `RingBufLemmas`, `ArithmeticLemmas` | - | lemmas on the ring's operators; on products and quotients |
| `RingBufProofs`, `InputMgrProofs`, `ProductionToolProofs`, `ToolStartupProofs`, `AnimalsProofs`, `ExamplesProofs` | - | theorems |

State and steps. In `InputMgr` a step of a thread ends where another thread can
see a difference: a lock, a ring access, a semaphore operation, an allocation.
`pc[d]` names the place of device thread `d` in `start_listen_to_input_dev` and
`get_event`, `mpc` that of main in `inputmgr_init_all_devices` and
`inputmgr_get_event`. `ev[d]` is the thread's local event, `live` the allocated
blocks. `clock` and `delivered` are history: how many inputs each device has
read and the last one main got; no guard reads `delivered`, and `clock` only
bounds the inputs. A device whose `dev_init` or `pthread_create` fails stays
`"off"`. Events carry what they say in `val`, which in the code is behind the
pointer `data`; that this is sound is what `DataOwned` says.

In `ProductionTool`, `ppc` is the place of main in the handling of an event;
`fb` is the screen as a reader sees it: for each button the colour of its
region and the texts written since the last fill. `dismgr_draw_region` and
`dismgr_draw_text_in_region` are two steps, because forked processes share the
framebuffer. A child is a record with its own copies of the semaphore, mutex,
ring and buttons. Nobody else sees its private memory, so its whole get is one
step; it is stopped for ever if a device thread held the mutex at the fork. Its
heap is its own and is left out. The uninitialised status of a report without
one is any status. Reports on their way are a set: two equal reports in flight
are one. A touch names the button it hits, or none: that regions are disjoint
is what `OneButtonPerTouch` of `ToolStartup` says.

`ToolStartup` is where `ProductionTool` begins. The functions of the `exi_fn0`
section run in the linker's order, that is in any order. Each step of the
set-up has its failing branch, and main goes on where the code does: without a
display the page runs and draws nothing. `config.conf` is a sequence of lines of
characters, and `buf` the parser's buffer, byte by byte: `fgets` takes what fits
(`Got`) and sets an end mark, and behind the mark `buf` still holds what it held
(`Filled`) or, in the beginning, whatever was on the stack (`Unwritten`). `p` goes on
over blanks from where the line before has left it (`Runs`), which may be in the
middle of the new line or behind its end; the first word from there on is the
item's name (`Scans`). `can_be_press` and the command are not read here, they are
constants of `ProductionTool`. `opened` holds the descriptors and streams; that of
`config.conf` is closed on no path. What C leaves undefined ends the behaviour (`"undefined"`),
next to the other outcomes the build can have: a missing file, which
`fp < 0` does not notice, more lines than `configs[]` holds, a division by the
width zero or by a name of no letters. A division by zero *buttons* is one of
doubles; it gives one column.

In `Animals` everything the service does runs in one GLib main loop, whose
sources have one priority, so that incoming calls and the idle source of an
announcement are one queue. `orig[a]` is the value a pending announcement
compares with, `sound` says of which cached values the service has told, or would
tell, the truth. The bus keeps the order of messages to one client; it answers
a call whose service has gone. A watcher's blocking call takes its reply from
behind older messages. The prober is `03_client_proxy`, which reads through a
null pointer when it finds no service (`"crashed"`).

`EventReaders`, `Handover`, `Network` and `CharDisplay` have a variable `program`
that says which program of the module runs. A program of two loops that the
code writes alike is one set of actions with the differences as guards: select
consults `watching` (the descriptor is in `readfds`), poll does not; the aio
programs read through a request. The kernel's side is external: inputs are
queued, a device may be pulled out, TCP cuts and joins, UDP loses, repeats and
reorders. `pthread_cond_wait` without the mutex is undefined; glibc sets the
mutex free whoever holds it, and `Handover` does that. A line is copied and
printed in two halves, so that tearing can be seen.

## Runs

All bounds are constants: `MaxEvents` (inputs per device), `NumItemMax` (slots),
`Block` (heap blocks), `MaxForks` (processes).

| run | configuration | what it checks |
|---|---|---|
| `ring` | 3 slots, 3 items | field types, index/count agreement, refinement of `BoundedFifo`, over every sequence of calls |
| `input_mgr` | both devices, 2 slots, 4 blocks, 3 inputs each | `TypeOK`, `StartedOnce`, `MutualExclusion`, `NoLostWakeup`, `InputsInOrder`, `DataOwned`, `DeliveredOnceInOrder`, refinement of `EventChannel` |
| `page` | buttons lcd (reports) and touch_screen (manual), 2 slots, 2 inputs each | `OneText`, `ManualShown` |
| `page_live` | button lcd with its reports, 2 slots, 4 blocks, 2 inputs each, fair threads | `DeviceComesBack`, `ReportIsShown` |
| `tool` | button wifi with a command, 1 slot, 3 blocks, 2 inputs each, 1 child, forks that fail, fair threads | `PageTypeOK`, refinement of `InputMgr`, `QueuedIsDelivered` |
| `startup` | six screens; files of 0 to 21 items, and files with comments, blank lines, every kind of indent and lines up to twice the buffer | `StartupTypeOK`, `TwoLeftOpen`, `DrawsInFramebuffer`, `OneButtonPerTouch`, `ReadsWritten`, `ConfigIsRead` |
| `animals` | 2 animals, one of them a cat, a watcher, a caller, a prober, 2 calls, 2 starts | `AnimalsTypeOK`, `AnsweredOnce`, `ViewFollowsService`, `ChangesAlternate`, `MoodChangesByPoke`, `WatchersCatchUp` |
| `examples` | each program but select's: 3 inputs, 3 lines, 2 clients with 3 bytes, 1 or 2 descriptors, 4 screens | `ExamplesTypeOK`, `ReadInOrder`, `InputIsRead`, `ClosedAtEnd`, `NoTornLine`, `LastLineShown`, `PrintedAsSent`, `ClientIsServed`, `ProcessEnds`, `BoxesInFramebuffer` |
| `tool_starts_late` | button wifi, 1 child | violation of `StartNotOverResult` |
| `tool_runs_twice` | button wifi, 3 children | violation of `OneRunPerPress` |
| `animals_stale` | as `animals` | violation of `ClientReadsMood` |
| `select_timeout` | select's program, 2 inputs | violation of `InputIsRead` |

Why the bounds are enough to be interesting: with two slots and three inputs per
device the ring fills, wraps around and overflows with events of both devices.
Touches, dropped events and handled reports are never freed, so that the number
of blocks is the number of events a run has. Four are enough, with two slots, for
a report behind a touch, for two events and a third that is refused, and for one
more after the get that has failed for it. `page_live` sends reports of one kind
and no names that no button has, which take the same step as touches of nothing;
`page` has them all. The three blocks and the one slot of `tool` have the same
overflow, failing get and later event, and the press that waits in the ring while
a fork is made or fails; that two slots wrap around is for `page`, and for the
theorem that the tool implements `InputMgr` with any number of them. One press
that forks while another is queued already makes the child replay; a second child
makes the fork fail. Blocks are interchangeable, and the runs of the manager and
the page without liveness use that symmetry; `page_live` and `tool` do not.

The screens of `startup` are those that are sold and one of 128 by 64; the files
cover every number of buttons up to the full table and one more. The parser's
buffer has 16 bytes in the run instead of 100, and the long lines are cut to it:
the code compares nothing with 100, so what matters is whether a line, an indent
or a word ends before the buffer, with it, one byte behind it or far behind it,
and all of these are among the files. Two animals
with two calls are enough for a change that is taken back before it is
announced, two starts for a service that comes back. Three inputs let a buffer
be filled again twice; a receive buffer of two bytes cuts a run of three. With
one descriptor for two clients the server runs out. The screens of `examples`
are large enough and too small for what is drawn on them; the properties say
what holds on which.

Deadlock is checked in the runs of the ring and of the tool; the examples and
the D-Bus programs may end or wait for ever, and their runs do not check it. A
program in which every thread waits for an
input, for memory or for a token is idle, which is the step `Idle`. A thread
that waits for a mutex nobody gives back is not idle, so that state is still a
deadlock.

Fairness. `ToolFairness` is weak fairness of main, of each device thread's part
that does not wait for an input, and of each child's code. It says that the
scheduler runs threads that can run. Inputs, datagrams and the end of a script
are under no fairness. Weak fairness is enough for a thread that waits for the
mutex only because inputs are bounded: the pthread mutex makes no promise to a
thread that competes with an endless stream of inputs. In `Animals` the main
loops of service and watchers are fair; nobody must call, start or end anything.
In `Examples` a program goes on when it can, and so do the aio library and the
threads; nobody must type, send, connect or leave. The thread's lock in
`Handover` has strong fairness, because main takes and gives back the mutex
again and again: a mutex that is free time after time is had at last.

## Findings

- `StartNotOverResult`: the comment at `main_page.c:41` says that the colour is
  set to command start and then waits for updates from the net. It is the child
  that sets it, after the script has ended, so it covers the script's result.
- `OneRunPerPress`: the child does not exit after `system()`; it handles the
  presses that were in the ring when it was forked, so one press runs its script
  in the parent's child and again in the child's child.
- `ClientReadsMood`: the comment at `03_dbus/dbus_animal.c:318` says that the mood
  is meaningful to read on the client side. A client that loads the objects
  between a change and its idle announcement, and sees the animal change back
  before that, keeps a mood that the service never announced and will not take
  back (lines 1203-1213 announce nothing).
- `InputIsRead` under select: `readfds` and `timeout` are filled once, before the
  loop (`main_select.c:69-70`). After its first timeout select watches nothing and
  returns at once, for ever. (`main_select.c` and `main_poll.c` also write
  `event->type` for a struct, so that they do not compile as they stand; the
  model takes them to say `event.type`.)

A get may also fail after an overflow, because the semaphore is posted for a
dropped event (`input_mgr.c:26-29`). The callers ignore it; `EventChannel` says
exactly how often it can happen.

## Proofs

Every invariant and every safety property that a passing run checks, and both
refinements, are theorems too, for every value of the constants; liveness is not.
Four theorems have hypotheses beyond the assumptions on the constants, given
with them below.

**Ring.** `RingBufLemmas` proves about the ring what every user needs: push appends
to the queue, pop takes its head, and both keep the ring well formed
(`RingOK`: the write index is the read index plus the count, modulo the size).
The arithmetic of the wrap is in `ModLap`, `WrapAdd` and `SlotWraps`. `RingBufProofs`
proves for every size and item set that the ring keeps its type, that its
indexes agree with its count, and that it implements `BoundedFifo`.

**Input manager.** `InputMgrProofs` proves, for any sets of devices, ring size, heap
and bound, `TypeOK`, `StartedOnce`, `MutualExclusion`, `NoLostWakeup`,
`InputsInOrder`, `DataOwned`, `DeliveredOnceInOrder` and `ImplementsChannel`. The
inductive invariant is `SafeSoFar`: `TypeOK` with `RingOK` (`TypeOK` alone does not
say that the slots between the indexes are the queued ones), `StartedOnce` (so
that a thread is started only from `"off"` and cannot be thrown out of its
critical section), that the semaphore is zero until main has initialised it, and
`MutualExclusion`. `NoLostWakeup` and the refinement follow from how each step
changes the queue and the surplus of tokens; `InputsInOrder` and `DataOwned` are
inductive relative to it. For the latter the ring is the hard part: a push to a
ring that is full drops its event and leaves the block allocated with no owner,
and a pop makes main the owner of the oldest, so distinctness of the blocks must
be carried from slots to positions in the queue and back.

**Page and scripts.** `ProductionToolProofs` proves for any buttons, scripts and
number of processes that every behaviour of the program is one of `InputMgr`
(`ToolImplementsInputMgr`), so that all of the above holds of the parent process
however it forks. The invariant is `SafeSoFar` with `PageTypeOK`, and that a process
that is about to paint has something to paint; types are needed since what a
child reports goes back into the parent's socket.

`OneText` and `ManualShown` are proved where no press forks (`NoFork`: no button has
a command, or no fork succeeds), which is the program the run `page` checks. With
forks both fail: parent and children paint the same region in two steps each,
and one may fill between the other's fill and its text. The invariant says
what main has in hand while it paints (`TextsRight`, `ColoursRight`), that it
paints alone (`Alone`) and that a report, wherever it is between socket and page,
is one that other programs send (`AllSaid`). `OneText` needs in addition that no
button is named like a percentage.

**Start-up.** `ToolStartupProofs` proves, for every screen, every file and every size
of the parser's buffer, `StartupTypeOK`, `TwoLeftOpen`, `OneButtonPerTouch` and
`ReadsWritten`. `TwoLeftOpen` is an equation: what is open is what is in use, and
the two that stay open for good are named in it. That no
point has two buttons rests on `RegionsApart`: two buttons differ in row or column
(`SameQuotientAndRemainder`), cells that differ are a cell's size apart (`Steps`),
and a region is smaller than its cell by the gap. `ReadsWritten` is inductive but for
the first read, before which `p` has to be at the beginning (`Written`): there is
always an end mark at `p` or behind it, after each `fgets` (`EndMark`), and neither
the search for a letter nor a word goes past it (`StopsAtMark`). The invariant adds
the types of what is read and laid out, and `Order`: the framebuffer is open while
the kernel is asked about it, and nothing is read or drawn too early.

`DrawsInFramebuffer` and `ConfigIsRead` are proved for screens that are `Roomy`: at
most four times as wide as high, with at least 1.6 pixels for each button. The
first bound is needed because `generate_buttons` takes the column count from a
square root and rounds it: for a screen about 4.87 times as wide as high, one
button is drawn below the framebuffer's end. The second keeps the width from
being zero, by which the page would divide. `RegionsWithin` (each region on the
screen whose sizes it was made from) needs the square root's bounds for every
number of buttons in the table; `DisplayFirst` says that these sizes are those of
the mapped framebuffer. `ReadSoFar` relates the table to the lines read: a line
that is wanted has its item at its `Place`, and every line to come begins with as
many blanks as `p` has gone over. That is what `Indented` asks of a file, with lines
that fit into the buffer: from an indent that shrinks on, and after a line that is
read in pieces, the code does not read what is written, and what it reads then is
promised by nobody. `ReadsWhole` is about one such line and the buffer after it;
`WhyUndefined` lists all ways in which C leaves the parse or the layout undefined.

**D-Bus.** `AnimalsProofs` proves, for any animals, watchers, callers, probers,
calls and restarts of the service, `AnimalsTypeOK`, `AnsweredOnce`,
`ViewFollowsService`, `ChangesAlternate` and `MoodChangesByPoke`. The invariant `Inv` is

- `Types` and `Roles`: who may be where, and what each kind of client is sent;
- `Calls`: for each client, the calls in the main loop plus the answers in its
  inbox are one while it waits and none else; messages are counted by the
  cardinality of their places (`Count`), and each handler, the crash and each
  client's step is shown to keep the sum;
- `Sources`: an animal has one idle source exactly while `orig_value` is set, so that
  no announcement is made of nothing;
- `WatcherInv`: what a watcher knows (`Knows`). `ViewFollowsService` is not inductive:
  it says nothing of a watcher whose answer is still in its inbox, behind or in
  front of changes. `Informed` says of the inbox that the newest change of each
  animal has the mood told, that the newest owner message says whether the
  service is up, and that a snapshot in it is right together with all that comes
  besides (`Right`). `Alternates` needs `Informed`: a mood is announced only if it
  differs from the mood told, which is that of the newest change in the inbox.

`Told` (the mood, or `orig_value` while a change waits) is what makes this work: a
poke does not change it, and an announcement changes it for all watchers at
once.

**Exercises.** `ExamplesProofs` proves `ExamplesTypeOK`, `ReadInOrder`, `NoTornLine`,
`PrintedAsSent`, `ClosedAtEnd` and `BoxesInFramebuffer`. The program started is the
one that runs, so each program has its own invariant, which also holds of a
program that never starts. (`ClosedAtEnd` names what two programs leave open: the
device of `00_get_input_info` and the font of the freetype program.)

- `ThreadsInv`. `Exclusion` of main's copy and the thread's print is not inductive in
  `pthread1.c`, whose thread takes the mutex away from main. `SecondLockWaits`
  repairs it: before it prints, the thread locks the mutex a second time, and
  while main is inside it finds it taken, by main or by itself.
- `ReadersInv` counts: the inputs printed are the inputs taken, but for the one in
  the buffer of an aio program (`Counted`), and while that one waits no request
  runs (`Places`); `SetUpSoFar` says what tslib's program has opened at each step.
- `DisplayInv`: the letters lie on a grid that starts in the middle of the screen
  (`NextLetter`), so that no two share a pixel, and what is clipped or looked up in
  the font's file is within it.
- `NetInv`: a datagram, however often it is repeated and however late it comes, is a
  run that its client has sent, and what a server takes from its buffer ends
  where that run ends.

Assumptions are those stated with the constants: a ring has at least one slot,
devices, main and NULL are distinct, a device may read at least one input, the
buttons with commands and the pressable ones are buttons, `Val` is what touches
and reports can say, a percentage is neither ok nor failed, screens have a size
and a colour depth, the parser's buffer has room for a character and its end mark,
the characters with a meaning are no letters, a line of `config.conf` ends where its
newline is, and only the last may lack it, the reading programs are
those of `04_input_touchscreen`, a receive buffer has room for two units, a GB2312
code is in the code's range, and the three kinds of D-Bus clients are disjoint.

Only model-checked: all liveness (`QueuedIsDelivered`, `DeviceComesBack`,
`ReportIsShown`, `WatchersCatchUp`, `InputIsRead`, `LastLineShown`, `ClientIsServed`,
`ProcessEnds`), because the prover does no fairness. TLC checks the
inductive invariants on the instances of the runs too, but for what a datagram
is (`Datagram` quantifies over all numbers).

## Not modelled, and the plan

Every part of the repository that decides anything has a module, and every
safety property a theorem. What is left are the screen under forks, of which only
the findings and the hazards speak, and liveness for every instance.

Left out, and why:

- `inputmgr_deinit`, `dismgr_deinit` and the default press of a button: no program
  calls them, so no state of a program shows what they do.
- The size and the place of a text (`display_mgr.c:165-197`). The font is set to twice
  the size that the place is computed from, so that a short name may rise above
  its region; the glyphs are clipped at the screen's edge only, and that is what
  `DrawsInFramebuffer` takes into account.
- The other two words of an item, which `sscanf` reads after the name.
- A limit on what stays open: the stream of `config.conf`, a socket that cannot be
  bound, the font of the freetype example, the device of `00_get_input_info` and the
  connections of the TCP server are closed by nobody but the kernel. The models
  have them, and the properties name them as exceptions.
- That a child of the TCP server ends when its client's machine has vanished: the
  model has such clients, keepalive is not set, and nothing ends it.
- What no program calls of the generated D-Bus code: the asynchronous
  constructors, the flush of pending announcements, the synchronous poke. GLib's
  reference counts are GLib's.
- What is listed of a device's identity and event types by `00_get_input_info` and
  at the beginnings of the other input programs: it is printed once and decides
  nothing. With 64-bit longs `EVIOCGBIT` answers 8, which is `sizeof(evbit)`, and
  nothing is listed.
- Colours and pixel formats, rasterising by freetype, and the vendored error
  utilities of `01_lcd_show_char`.
- The display, font and button test programs, which draw once from top to bottom,
  and the window of `11_qt`, which the IDE generated.
- tslib, GLib, the bus and the kernel beyond what the code asks of them; their
  part is marked external in the map.
