# LWDP in TLA+

LWDP is a plugin framework in the manner of COM: modules carry classes, a loader
opens libraries and registers the modules in them, an object factory creates
objects by class id, and a port of the VxWorks and POSIX interfaces gives tasks,
semaphores and message queues on Windows.  This directory holds TLA+ modules of
the parts whose behaviour is hard to see in the code and hard to test, TLC
configurations that check them on small instances, and theorems that TLAPS has
checked for every instance.  Paths below are relative to `src/Lwdp/code`.

## 1. The system

| part | state | operations | talks to | hard |
|---|---|---|---|---|
| module table, `LwApiLib/Framwork/FwEntry` | `gModuleTable`, `gModuleNum`, open libraries | register, load, unload, look up | operating system's loader | error exits of a load, reloads of one id, a hand-kept counter |
| plugin loader and object factory, `PModule/PluginLoader` | `m_modules`, `m_clsmap` | load file, load, initialise, unload, unload all, create object | module table (through an object it creates itself), plugins | indices that must outlive an unload, half-done unloads, calls back into plugins |
| object templates, `h/Module`, `LwApiLib/Module` | reference counts, per-class counters, singleton, item stack | AddRef, Release, CreateObject, CanUnloadPlugin, clear | every thread that holds an interface | interleaving, double-checked creation |
| `msgQ` of the Windows port, `LwApiLib/LwApi/win32/CsOsApi.cpp` | ring, two positions | create, delete, send, receive | two tasks | no lock |
| POSIX queue of the Windows port, `.../posix/mqueue` | two linked lists, counts, a condition variable | open, close, send, receive | many threads | lost wakeups, link surgery, re-initialisation on a second open |
| semaphores, watchdogs, tasks, pipes, `CsOsApi.cpp` | pools, counts, owners | take, give, start, cancel | tasks | lost wakeups, pool races |
| Linux port and system calls, `LwApiLib/LwApi` | none | wrappers | operating system | "interlocked" operations that are not |
| log messages and log manager, `Framwork/Lwlog`, `PModule/LogMgr` | categories, appenders, levels | register, set level, print | log4cpp | partial registration |
| configuration manager, `PModule/ConfigMgr` | list of sources, XML trees | add, delete, look up | start-up, plugins | which source wins; look-ups that give up half-way |
| script manager and engine, `PModule/ScriptMgr` | variables, the tree being run | run, set, if, while, compute, break, continue | configuration, plugins | termination; break and continue told by a string that outlives a round |
| start-up, `Fw_Init`, `Fw_Start`, `Fw_Stop` in `FrameworkEntry.cpp` | how far it has come | add sources, load plugins, run the global scripts | all of the above | the order of steps that may each fail |
| Lua manager, `PModule/LuaMgr` | a Lua state | run a file | Lua | stack discipline |
| data collection tool, `PModule/DctMgr` | debug and statistic slots, windows, commands, buffer pools, a control pipe | print, pause, time, count statistics; register users, install and serve commands; accept, configure and close connections | `CsOsApi`, network, the application's tasks | four kinds of tasks on tables without a lock, orders that arrive late, counters |
| error manager, framework interface object | tables | look up, forward | | |

What makes each part correct:

* **Module table.** One entry per id; the counter is the number of entries; a
  library is open exactly while its module is entered, whichever exit a load took.
* **Loader.** A class is served by a live plugin and by the one that registered
  it; the list never refers to unmapped code; an id has one entry; its
  loops end; what it reports is what it did.
* **Object lifetime.** An object lives exactly as long as it is referred to; the
  singleton pointer never dangles; a plugin is not unloaded under a user it could have seen.
* **Queues.** Messages come out once each and in order; a full or empty queue is
  never mistaken for the other; whoever waits is woken.
* **Scripts, configuration.** A script ends if its loops do; break and continue reach
  the innermost loop and nothing else does; a look-up finds what the newest source has.
* **Data collection.** A buffer is in one place at a time; a window and the slot
  that serves it name each other; an accepted connection finds a slot, as far as the count of
  connections can be relied on; a slot that is
  given up becomes free; the totals never refuse what there is room for; a pool
  hands out no buffer twice and loses none.

The hazards, each at its line, are in `PROJECT.json`.

## 2. Modules

| module | models | stands on |
|---|---|---|
| `FrameworkEntry` | the module table | |
| `PluginLoader` | loader and object factory, composed with the table | extends `FrameworkEntry` |
| `PluginLoaderProofs` | the invariants of the table and of the loader, proved | `PluginLoader` |
| `ObjectLife` | objects and singletons of one plugin under threads | |
| `ObjectLifeProofs` | its invariants, of the singleton, the reference counts and the unloading, proved | `ObjectLife` |
| `Fifo` | abstract: a bounded queue, and when it stops being one | |
| `MsgQ` | the unlocked ring | implements `Fifo` |
| `PrioQueue` | abstract: a bounded priority queue | |
| `Mqueue` | the POSIX queue on linked lists | implements `PrioQueue` |
| `QueueProofs` | both refinements and the invariants of both queues, proved | `MsgQ`, `Mqueue` |
| `DebugWindows` | debug windows of the data collection tool: clients, printing tasks, timer, collecting task | |
| `DebugWindowsProofs` | its invariants, proved | `DebugWindows` |
| `StatWindows` | its statistic windows | |
| `StatWindowsProofs` | its invariants, proved | `StatWindows` |
| `MmlCommands` | its users, commands and their messages | |
| `MmlCommandsProofs` | its invariants, proved | `MmlCommands` |
| `BufPool` | abstract: buffers that are free or used | |
| `DataBuf` | the linked lists of free buffers and the event that guards them | implements `BufPool` |
| `DataBufProofs` | that the event keeps to one task inside, and that the lists are sound and implement a pool, proved | `DataBuf` |
| `ConfigMgr` | the configuration manager's sources and look-ups | |
| `ScriptControl` | abstract: what nesting, break and continue mean | |
| `ScriptEngine` | the script engine's recursion | implements `ScriptControl` |
| `Startup` | start and stop of the framework, composed of the two | extends `ConfigMgr`, `ScriptEngine` |
| `StartupProofs` | that look-ups find the newest and that the engine implements `ScriptControl`, proved | `Startup` |

The three modules of the data collection tool are served by the same tasks in the code, but
share no table: each has its own slots, pool and counters, so they are not
composed, and in each the other two appear only as rounds of the collecting task
in which nothing of its own happens.  An `MC...` module instantiates each module for TLC.

`DebugWindows`, `StatWindows` and `MmlCommands` take buffers from a set `free`;
`DataBuf` is what stands behind such a set, and `ImplementsPool` says that the set is
a fair picture of the linked list.  In the same way `Startup` takes loading a plugin
as an outcome, which `PluginLoader` models in full.

What could still be added: `mq_notify` and `mq_setattr` beside `Mqueue`, registration of
statistics beside `StatWindows`, the counting of messages in a pipe.

## 3. How the models correspond to the code

**FrameworkEntry.** `gModuleTable` maps slots to modules; a module object stands
for the `MODULE_ENTRY` made for it.  An entry of a library module carries the
library's handle, so "which library is open how often" is `mapped`.
`Fw_RegisteModule` and `Fw_LoadModule` share `EnterModule`: unload what has the
same id, then take the first free slot.  `Fw_LoadModule` fails at one of four exits (`Exits`): at the first nothing is open
yet, at each of the others the library is closed (`Closed`) and nothing else has
changed; the mutant `FaultClosed` is an exit that forgets to.  The two
`ASSERT_CHECK_RET` behind `++gModuleNum` (`FrameworkEntry.cpp:236`, `:238`) test that the module has
a name and a valid id; both are constants that `DEF_MODULE_INFO_BEGIN` puts into every module
(`h/Module/XModuleDefine.h:15`), so they do not fire.

**PluginLoader.** `m_modules` is a sequence of `MODULE` records, `m_clsmap` a
function.  `FindModule` and `GetPluginIndex` search from the end.  The C++ names
are kept.  Only the public operations are actions; their helpers (`RegisterPlugin`,
`ReleaseModule`, `UnloadEntry`) are parts of them.  `InitializePlugins` and
`UnloadPluginAll` call into plugins once a round, so a round is a step and `loop`
is the position; between rounds plugins create and release objects.  A call into
an unmapped library has no successor: the program faults, which is why deadlock
is not checked in this run.  `inUse` stands for the answers of `CanUnloadPlugin`,
whose making is `ObjectLife`'s matter.  The framework's interface object is a
singleton nobody gives back, hence `FwModule` stays in use from its first use.
The build modelled is the makefiles': loader linked in, `LWDP_DEBUG_MACRO` set, so
that a failed `ASSERT_CHECK_RET` returns.

**ObjectLife.** A step is one interlocked operation or one access to a shared
static.  `pc` says where each thread is in `AddRef`, `Release` or
`Cx_SingletonObject::CreateObject`; `held` is what its interface pointers hold.
The loader runs beside the threads: `unload` says how far `UnloadPlugin` has come, asking
one class after the other, then in `ClearModuleItems` (a slot at a time: the destructor's
comparison, its reset of `Instance()`, the deletion, the emptying of the slot), then
unmapping.  `late` is a history variable: the threads that got the singleton meanwhile.
A call on an instance that was deleted, a write into the array of items after
it was freed, and everything after the unmapping have no step.
The Windows build is modelled, where `Api_Interlocked...` are atomic.  A thread that
reaches `Instance()->QueryInterface` with a NULL pointer stops in `"crashed"`; that and
the unloaded plugin are the states where the run may stop (`CHECK_DEADLOCK FALSE`).

**MsgQ.** A step is one access to the shared structure: the test, the copy, each
of the two assignments that advance a position, so that the position past the end
(`CsOsApi.cpp:940`) is there to be seen until it is reset (`:943`).  Stores are seen in program order, as
on the x86 machines the port is for.  `lapped` is a history variable: a receive has read
the ring when it was empty, because it looked at that moment.  Ticks of a finite timeout
are counted; the length of a message is abstracted to "leaves the ring whether
it fits the buffer or not".  `canSend` reads the read position twice; as only the
receiver moves it, away from "full", and at most one of the two comparisons
can hold for a given write position, reading once is the same.

**Mqueue.** Everything between two changes of the mutex's holder is one step.
`msg_next` is the link of each header, 0 ends a list, as in the code.
`pthread_cond_signal` wakes any one sleeper, sender or receiver, and
`pthread_cond_wait` may also return by itself; both are external.  `abort()` and
the write through index 0 are excluded by `ListsSound`.

**DebugWindows.** `mMmlCnfg`, `WinPtr[].winNum` and the pipes are the C++ tables; a slot's
watchdog is `timer`.  `DataCollectTask` goes round: `ready` is what `select` has
reported and the round has still to deal with, so a descriptor reported before
another handler changed its slot is still dealt with afterwards, as in the code.
An application task in `MmlPrintf` has three steps, between which the slot may be
given to someone else.  Its exits: a pipe that does not take the buffer gets it back to the
pool (`DataCollectTool.cpp:984`); a text of 2048 or more leaves with it, the task suspended for ever or
gone back (`:957`), and `lost` remembers the buffer.  An order in `ctrl` takes effect when the task
reads it, not when it is sent.
`mWndConnNum` is changed by two tasks without a lock, so each change is a read and a write:
`ReadCount` and `CountConnection` of `ListenTask`, which come after its order is sent, `UserSockFail`
and `WriteUncount` of `DataCollectTask`.  Each may write over what the other wrote; `missed` is a
history variable, the increments that were lost that way.  The number of messages in a pipe is exact,
although in the code it is a counter of the same kind (see the hazards).
`UserSockFail` leaves a slot with messages in `RELEASE`, and `DealWatchPipe` ends
that.  `MmlLog` and `MmlLogPrintf` go the same way as `MmlPrintf`.

**StatWindows.** `SockId` alone says whether a slot is used.  `StatSockFail` forgets every
window but window 0, so `winNum` may go stale; `deleteconnection` on such a window
runs `StatSockFail`'s other effects once more, which drives `mStatConnNum` down
(bounded by `MinCount`).  `mStatConnNum` is read and written in steps of their own, as `mWndConnNum` is.
The two forms of `MmlStatistic` differ in when they read
`winNum`.  The pipe may refuse what they write, and a write through `winNum = -1` is taken as one
that it refuses; the buffer is then given back.

**MmlCommands.** Registration is one step a call; a served command is found and given a
buffer, counted, handed over, started, given back and uncounted.  `MsgBufNum` is changed by `DataCollectTask`,
by the users' tasks and by registration, all without a lock: a `++` or `--` reads (`ReadCount`, `ReadUncount`) and
later writes (`WriteCount`, `WriteUncount`), with whatever happens in between written over.  `strays` is a history
variable: what such a write brings back that had been taken away, and a message counted for a number whose
user has gone since the command was looked up; registration and removal set it to 0 with the count.  `MmlUnRegister` clears an
item to zeros, and 0 is also a user's number, so user 0 later removes, and
subtracts, what is empty: `TotalNum` can fall below the number of items and below
0 (bounded by `MinNum`).  Calls of a callback that was unregistered while its
message was under way are a call of a NULL pointer in the code and have no step.

**DataBuf.** `HeadPtr`, `TailPtr`, `FreeNum` are those of each `MemoryBuf`; `link` is the first
word of each buffer, which a task that has the buffer writes over (`Fill`).  `signaled` is the
auto-reset event `semMCreate` makes: `semTake` clears it, `semGive` sets it,
whoever calls.  A call is split where another task may look: at the unlocked test of
`HeadPtr`, at the event, and between the assignments to the list.  `PoolOf` is external:
callers name the pool the buffer came from.  `FreeNum` may fall behind, since a `GetDataBuf` that
passed the first test and found the list empty counts as one that took a buffer;
`MaxDrift` bounds how far it is followed.

**ConfigMgr.** A source is a name and the document behind it.  Of a document a look-up
tells apart only whether it parses, has the item, and what values the property has in it, so that
is what a document is.  A step is one source.  `GetModuleTable` and `GetModuleScript` search alike and
are one action; they differ in the code that is behind the XML query.

**ScriptEngine.** `frames` is the recursion of `scriptRunTag`, `retStr` each level's
local of that name, which the level below fills through its reference `ret_value`; a
failing level does so or does not, depending on the exit it takes (`Return`, `ReturnUnset`).
Actions of plugins succeed, fail, or are not found.  Values are figures; `inc` and `dec`
store a value the next condition reads.  The search for an `else` looks at the name of every node it passes,
and a text has none: there the program faults (`ScriptEngine.cpp:474`), which is the end, `stat = "fault"`.
`ScriptControl` is the same recursion with nothing in it but where control is and what each level has last
heard of the levels below it, a jump or nothing; the refinement mapping reads the
engine's string as that.

**Startup.** A step of `Fw_Init`, `Fw_Start` or `Fw_Stop` is one call it makes, and each
ends the function when it fails, except the look-up of a module's directory, whose result is not
asked for.  Between start and stop, plugins may add and delete sources (`ChangeSources`).

## 4. Runs

| run | checks | shows |
|---|---|---|
| `plugin_loader` | `MCPluginLoader.cfg` | the loader over the table: `UniqueModid`, `CountExact`, `LibraryBalance`, `ClsmapOwned`, `NoDangling`, `ListSound`, `OneEntry`; `RegistrantStays`, `InitReaches`; `LoopEnds` |
| `object_life` | `MCObjectLife.cfg` | `RefExact`, `NeverStuck`, `InstanceLive`, `ItemsSound`, `SingletonSafe` |
| `msgq` | `MCMsgQ.cfg` | `SlotExclusive` and `ImplementsFifo` up to a receive that reads the empty ring; `SendReturns` |
| `mqueue` | `MCMqueue.cfg` | `ListsSound`, `NwaitExact`, `ImplementsPrioQueue` |
| `mqueue_left_asleep` | `..._NoneLeftAsleep.cfg` | violated: the second of two receivers is not woken |
| `debug_windows` | `MCDebugWindows.cfg` | `WindowsMatch`, `BufferPlaces` (no buffer used twice, and none lost but to a text too long), `ConnectionFits` (up to lost increments), `ReleaseCanEnd` |
| `pause_holds` | `..._PauseHolds.cfg` | violated: a timer expiry waiting in the control pipe prints a paused window |
| `stat_windows` | `MCStatWindows.cfg` | `WindowOwned`, `BufferOnce`, `DataArrives` although window 0 goes stale |
| `mml_commands` | `MCMmlCommands.cfg` | `NamesUnique`, `BufferOnce`, `CountNotAbove` (up to lost updates and messages of an earlier user), `RoomIsUsed` |
| `installed_found` | `..._InstalledFound.cfg` | violated: an installed command is not found behind a hole |
| `data_buf` | `MCDataBuf.cfg` | `OneInside`, `ListSound`, `FreeNumNotAbove`; that the lists implement the pool (`ImplementsPool`); `PutReturns` |
| `startup` | `MCStartup.cfg` | `LookupSound` over all contents of two sources; `ImplementsControl` and `ScriptsEnd` over all scripts of three families |

Each module states its types in `TypeOK` (`MqTypeOK` in `Mqueue`, whose names `QueueProofs` puts
beside those of `MsgQ`).  It is proved for `PluginLoader`, `MsgQ`, `Mqueue`,
`DebugWindows` and `MmlCommands`; elsewhere it holds when it is added to the cfg, which leaves it
out in favour of the properties above.

The ring of `MsgQ` is not a queue without reserve: a receiver that looks between the two stores
of the sender's position finds them different in a ring that is empty, and reads a slot that was emptied
long ago; from then on its position runs ahead of the sender's.  `Fifo` therefore has a step `RunAhead`, a receive
that returns although nothing is queued, after which it promises nothing; the refinement shows that this
is the only way out of the queue, and the mapping takes the step only when the code's receiver did just that.
When the client of
statistic window 0 goes, `StatSockFail` leaves the window's number in place, although
`DataCollectTool.cpp:1463` says that a window is configured only while it is connected;
`WindowOwned` says what holds nevertheless.  The models also have these behaviours,
which no run singles out: `InitializePlugins` stops with success at the entry of
a released plugin (`Cx_PluginLoader.cpp:53`); `LoadPlugin` of a plugin that was
unloaded finds its entry and does nothing (`:136`); `UnloadPlugin` reports success
whatever `ReleaseModule` returned (`:239`); a second singleton instance that lost
the race is never freed (`Cx_Singletonobject.h:72`); objects created for other modules
do not keep a plugin from being unloaded (`Cx_Object.h:82`).

**Bounds.** `MCPluginLoader`: three linked-in modules (loader, framework, and a plugin
that also comes as a library with the same id) and three files: that library, one with
an id of its own whose class the plugin also wants, and one
which fails `CheckPlugin`; four slots for five ids, so the table fills.
The list of plugins needs no bound, an id is appended once.
`MCObjectLife`: an outside thread, one of the plugin and the loader, one object, two
instances for one slot, two references per holder: a race for the
singleton needs two threads; one instance may be cleared and the other created behind the loop;
the theorems of section 5 have any number of threads.  `MCMsgQ`: rings of two and
three slots, which let the positions meet and wrap at every distance; two
messages show an exchange; timeouts 0, 1, 2 and for ever.  `MCMqueue`: three
threads, so that two may wait for the same thing; three headers, so that a message
is linked in first, in the middle and last.
`MCDebugWindows`: two slots, one window, one buffer, pipes of one message, three
connections, one of which has to be refused; one order waits at a time; one increment gets lost
(`MissNum`; then the two tasks overlap no more), after which a connection is admitted for which there is no slot.  The second configuration has
one slot and room for two orders, since `pause_holds` needs an order behind
another.  `MCStatWindows`: two slots and two windows, because window 0 is not like
the others, one buffer, the count driven to 0 by deletions (`MinCount`): a count that is too low
admits more connections, and there are none beyond the two.  `MCMmlCommands`: two users (number 0 is
not like the others), two items (a hole before an item and one behind it), one
buffer, which is given back before its message is uncounted, so that two messages a user are counted at once, and
every limit is reached; one stray a user (`StrayNum`), enough for a message to be refused because of one that is gone.
`installed_found` has two buffers and one message a user.

`MCDataBuf`: a pool of two buffers and one of one, three tasks: two may pass the first look
at one buffer while a third puts one back; the lists take every length from none to two.
`MCStartup`: two sources with all 13 * 13 combinations of contents, added in one order,
deleted and added in any; scripts that run a loop twice over every body of at most two of
break, continue, an action, an `if` around at most two of these and an inner loop, and over
every pair of a failing tag with another, with an `if` and `else` of two, or with an inner loop.
Figures stay within 3 (`MaxFigure`).  The second family has texts among what fails, also before the `else` of an
`if` that does not hold, where the run faults.  The third has a jump in one round and a failure in the next:
the exits that leave `ret_value` alone (`ScriptEngine.cpp:188`, `:202`, `:235`) show the loop around them
what an earlier round left there, so that after a `continue` a failure is taken for
another one, and after an inner loop's `break` or `continue`, which the inner loop's end passes on, for that.
`ScriptControl` lets a level that fails say nothing, and a loop then act on what it heard last; that the
engine implements it says that a failure is taken for a jump in no other case.
A loop's body does not set the variable of its own condition to what an action returns; it need not end then.
`ScriptsEnd` takes the fault for an end.

**Fairness.** `PluginLoader`: weak fairness of the loop's step, since the thread in
it does nothing else.  `MsgQ`: weak fairness of a task inside a call, which the
scheduler gives it, and of the receiver's next call, the condition in `SendReturns`'
"while somebody receives".  `DebugWindows` and `StatWindows`: weak fairness of
`DataCollectTask`, which never ends and whose `select` returns when something is ready;
only `DataArrives` needs it.  `DataBuf`: weak fairness of a
task's steps inside a call, and strong fairness of its taking the event in `PutDataBuf`, since Windows
grants an event to a thread that waits for it when it is set again and again.  `Startup`: weak fairness
of the running script, which waits for nobody.  Nothing is assumed of clients, applications or the
timer.  The other runs use none.
Deadlock is not checked in `plugin_loader`, `object_life` and `startup`, where the system may stop: a
fault, an unloaded plugin, a start that failed or a framework that was stopped.

**Symmetry** is used where only invariants and action properties are checked.

## 5. Proofs

* `FwCorrect`: `FwSpec => []FwInv`, from `FrameworkEntryAssumption` alone.  `FwInv`
  is inductive as it stands: unique ids give that `EntryOf` has at most one slot,
  which makes the counter move by the right amount; a library is open once because
  an entry is made with one opening and dropped with one closing.
  The loader's invariant has `FwInv` as a part.
* `LoaderInitReaches`: while `InitializePlugins` goes round, everything before the entry it has come to is
  initialised (`PassedInited`), as an entry is released only outside the loop; it ends with success at the end
  of the list or at a released entry.
* `LoaderTypeCorrect`, `LoaderClsmapOwned`, `LoaderOneEntry`, `LoaderNoDangling`:
  from the invariant `IInv` (type, `FwInv`, `OneEntry`, `ClsmapOwned`, `ListSound`).
  `NoDangling` is not inductive: that a listed module is mapped follows from its being in
  the table (`ListSound`) and from `LibraryBalance`; that it stays in the table
  needs that the only steps that take out an entry release the list's entry of
  the same id, hence `OneEntry`.  `LoaderRegistrantStays` follows from the
  shape of the steps alone.
* `MsgQTypeCorrect`, `MsgQSlotExclusive`, `MsgQImplementsFifo`, from the ring's assumption alone.
  The invariant says, as long as `lapped` is FALSE, that an end that has seen room, or a message, still has it
  when it touches the slot (the other end can only have made more), that the
  announced slot holds the message, and that the buffer holds the slot's content.
  Advancing the write position is then `Append`, advancing the read position `Tail`, and the two stores of a wrap
  are one step of the queue, the first.  The receive that sets `lapped` is `RunAhead`.

* `DebugWindowsMatch`, `DebugReleaseCanEnd`: from the invariant `IInv` of `DebugWindowsProofs`, under
  `DebugWindowsAssumption`.  `WindowsMatch` is not inductive: that a closed slot is one with a
  client needs that `select` reports sockets of connected and open slots only, and that it
  stays so until their turn comes (`SlotsSound`, `SocksSound`; what an order
  does in between is summed up in `Ordered`); that a configuration finds no other
  window in the slot needs `SlotsSound`; that it names a window at all,
  `PeersSound`.  A timer expiry empties a pipe, which would break
  `ReleaseCanEnd` if a slot being released served a window: `WindowsMatch` excludes it.
* `DebugBufferPlaces`: a buffer is counted once because no two positions of pipes have it
  (`PipesApart`), no two tasks (`TasksApart`), no two of a pipe, a task and the free nodes
  (`PlacesApart`), and what is lost is nowhere else (`LostApart`); at least once by `AllPlaced`.
  A task has a buffer exactly when it is about to
  write it (`TasksSound`), so emptying the pipe of the slot it will write to takes nothing from it.
* `DebugConnectionFits`, `DebugTypeCorrect`: the invariant `Counts` relates the orders and the slots in use to
  the count, with what either task has still to write (`Late`, `Early`) and the increments `missed`.  The old
  count `ListenTask` holds is never below the count, since meanwhile others only lower it, so what it writes is
  never too little; the one `UserSockFail` holds is never above it, so what it writes is too little by the increments
  it writes over, which is what `missed` counts.
* `StatWindowOwned`: with what `select` reported still true when its turn comes (`ReadySound`).
  That window 0 keeps its number does no harm, because no slot is configured for it then.
  `StatBufferOnce` is argued like `DebugBufferPlaces`, without `AllPlaced`, which does not hold here.
* `MmlTypeCorrect`, `MmlNamesUnique`, `MmlRoomIsUsed`, `MmlBufferOnce`, from `MmlCommandsAssumption`: the total
  never runs ahead of the items that are installed (`TotalNotAbove`), a removal of what is empty
  included, so that a total at the limit means a full table.  (One below the limit need not mean an
  empty item: see 3.)
* `MmlCountNotAbove`, from a second invariant: each unit of a user's count is a message whose item still
  is the user's (`Live`), one that will be uncounted for him whoever has the item
  by then (`Done`), or a stray (`Counted`).  An item changes hands only by removal, and removal sets the count to zero.
  A write that finds the count lower than it was read brings back just what was taken meanwhile, which becomes stray.  That
  `DataCollectTask`'s `++` stays below the limit needs that it passed the test and that nobody else adds
  (`Room`, `OneRefused`).
* `ObjectInstanceLive`, `ObjectItemsSound`: from its creation until it is in the stack or deleted,
  an instance is in the hands of the one thread that created it (`OwnsSound`), so a loser
  deletes what nobody else can reach, and what is stored in the stack was not there before.  A reserved slot
  is its thread's alone and empty until it is filled (`SlotSound`), so what the loader compares,
  deletes and takes out is one and the same instance, and no longer Instance() when it goes (`LoaderSound`).
* `ObjectRefExact`, `ObjectNeverStuck`, `ObjectSingletonSafe`, for every finite set of threads and of
  objects.  A sum over threads is written as the number of references (`Total`), so that it changes
  by lemmas on cardinality and needs no induction.  The references a thread has in flight are part of
  the count, which makes `RefExact` inductive with what the place of a thread says of them
  (`PlaceSound`).  The two counters of `CanUnloadPlugin` are not exact; `ClaimsBound` says on which
  side each may err, the regular class's below the claims of other modules (`ObjectNeverStuck`), the
  singleton's above them.  So a counter that is not positive means that no other module has the singleton
  at that moment (`NobodyHasIt`), and who has it later is in `late` (`AskedSound`, `ObjectSingletonSafe`).

* `LoaderUniqueModid`, `LoaderCountExact`, `LoaderLibraryBalance`, `LoaderListSound`: the conjuncts of
  the loader's `IInv` that runs check, as theorems of `PluginLoader`'s own specification.
* `MqueueListsSound`, `MqueueNwaitExact`, `MqueueTypeCorrect`, `MqueueImplementsPrioQueue`, under
  `MqueueAssumption`.  A walk along the links is a recursive function of the state, about which
  nothing can be proved as it stands.  The invariant says instead that there are sequences `u` and `f`
  of headers of which `msg_next` is the successor (`Chain`), which share no header, have all of them (`Lists`)
  and in which `u` is in order of priority (`Filled`).  `ChainWalk` then shows, by descent to a first
  step at which they would differ, that a walk finds just these.  `PutMessage` puts a header into `u` at the place where
  the search stops, `TakeMessage` moves its first to the front of `f`; that is `Put` and `Take` of `PrioQueue`.
* `DataBufOneInside`: `OneInside` says that whoever is between
  taking and giving is alone *and* that the event is cleared meanwhile; with the second half it is
  inductive: nobody can take the event, and the one who sets it leaves.
* `DataBufListSound`, `DataBufFreeNumNotAbove`, `DataBufImplementsPool`, under `DataBufAssumption` (buffers and
  pools are finite).  The argument is that of `Mqueue`, with numbers that never change: the buffers of list `p` are
  numbered as they are put, those taken are the numbers up to `lo[p]`, those put up to `hi[p]`.  `Linked` ties
  pointers and links to the numbers except for the last link, which the task that appends writes one
  step later (`Ended`); `Placed` says what a task half-way through a call has, and `Counted` why `FreeNum` errs on one side.
  The step from the read of `HeadPtr` to the unlinking needs that nobody else is inside: `DataBufOneInside`.
* `StartupLookupSound`, under the three assumptions of the modules.  The invariant adds what a look-up
  knows half-way (`Knows`): searching back, that no source passed so far has the item and
  that the status is a failure; searching forward, that every source passed has the property and that
  its values are in the result; and that sources change only while nobody searches (`Apart`).
* `StartupImplementsControl`: for every script, whatever mixture of jumps and failures it contains, under the
  assumptions of the modules alone.  What the proof needs of the recursion is
  `Nested`: the tag each lower level is at is the `if` or `while` that opened the one above, and an engine that ran
  to its end has no level left.  The lemmas say level by level what becomes of the string: what a tag leaves
  behind is what it heard or nothing, and what a level passes down when it fails is one of the words `Leave` allows.
* `StartupFailuresEnd`: in a script without `break` and `continue` (any set of codes closed under what its tags
  contain) no level ever holds the string of a jump (`AllCalm`), hence once a level has failed the next step
  fails the level below, until the script has failed (`FailureEnds`).  That the script
  which is run is one of those found in the sources is `LookupSound`.

Only model-checked: `LoopEnds`, `SendReturns`, `DataArrives`, `PutReturns` and `ScriptsEnd` (liveness is out of
the prover's reach), and all violations.

## 6. Not modelled

The Linux port and the system-call layer are wrappers.  The error manager is a table of texts.
Lua, log4cpp, TinyXPath, Boost and pthreads-win32 are third-party.  Tasks and pipes of
`CsOsApi.cpp` pass calls on; counting semaphores are created nowhere.  `DelayLoad.cpp` is compiled out.
The log manager sets up log4cpp from a table once.  Variables of a script that hold
expressions, strings or names of other variables, and the registration of actions, are left out.  A
loader in a library of its own, a plugin that calls the loader while it is
being initialised, and several tasks at one end of a `msgQ` are left out; the hazards list says why.

Of the data collection tool: the command line with its parsing and its connections
(`TOADDMML`), `StatRegister` and `StatUnRegister` (statistics are taken to be
registered), the second family of buffers (`MmlLogEx`, `MmlLogPrintfEx`), `MmlExit`,
and `BusyNum`.  `DealStatSock` accepts
one window number too many (`num > MAX_STATPTR_NUM`), and an installation that finds
no empty item although `TotalNum` promises one writes in front of the table: what
memory changed that way does is not modelled.

`mq_open` on a queue that exists initialises its mutex and condition variable under the threads that
use them; no document says what they do then, so no model of it could be faithful.

The map covers a small share of the repository's lines.  Most of those are not
LWDP's own: ToLua++, Lua, TinyXPath, log4cpp, pthreads-win32, FastDelegate and Boost lie in
the tree beside it.  Of LWDP's own code, what is left out is parsing and formatting of
commands and texts, wrappers of system calls, and declarations.
