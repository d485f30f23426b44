# A TLA+ development of the EmulationStation front end of Recalbox

The program is a game launcher: one main thread runs SDL, the windows and the
lists of games, and about thirty helper threads load textures, hash and scrape
games, publish notifications, watch devices and talk to the network. Rendering,
themes and gamelist files are large and sequential. What is hard to test is how
the threads work together, and that goes through a few small pieces of shared
machinery. This development models that machinery, and the components that are
built on it: each in a module of its own, and then together, as the main thread
that all of them share.

Sections: [the system](#the-system), [modules](#modules), [runs](#runs),
[bounds](#bounds), [fairness](#fairness), [proofs](#proofs),
[disagreements](#where-the-code-and-its-comments-disagree),
[what is not modelled](#what-is-not-modelled), [plan](#plan).

## The system

| Component | State | Operations | What makes it correct |
|---|---|---|---|
| Synchronized messages, `es-core/src/utils/sync/` | slots from identifiers to receivers, free and pending messages, three locks | `Register`/`Unregister` (a sender is constructed or destroyed), `Send` from any thread, `DispatchMessage` by the main loop | a message object has one owner; each message reaches the receiver of its sender, once, in order; no handler runs for a receiver that is gone |
| `Signal`, `es-core/src/utils/os/system/Signal.cpp` | a flag, a mutex, a condition variable | `Fire`, `Reset`, `WaitSignal` with and without timeout | no wakeup is lost; a signal is used by one wait |
| `Thread`, `Thread.cpp` | `mIsRunning`, handle, id | `Start`, `Stop` (calls `Break`, then joins), `Join` | a stopped thread has ended; stopping never hangs |
| `ThreadPool`, `ThreadPool.h` | queue of feeds, results, workers with a signal each | `PushFeed`, `Run`, `WaitForCompletion`, `PopResult`, `CancelPendingJobs`, destructor | a feed is run once; waiting ends and means that all is done; priorities are respected |
| `Queue`, `utils/storage/Queue.h` and `Allocator.h` | memory, read and write index | `Push`, `Pop`, `Clear`, growth | first in, first out, without loss |
| System hasher, `es-app/src/systems/SystemHasher.cpp` | queue of systems, signal, thread | `Push`, `MustQuit`, `Run` | each system is hashed; quitting waits for the thread before systems are deleted |
| Notification manager, `es-app/src/usernotifications/` | request queue, signal, processing flag, previous request | `Notify`, `WaitCompletion`, `Run` | published in order; the exit sequence waits for all of them while their systems exist |
| Texture cache, `es-core/src/resources/Texture*` | least-recently-used list, queue of the loader and its index, `mExit` | `add`, `remove`, `get`, `load`, `unload`; the loader thread | what is on the screen gets loaded; memory stays within twice the budget; the loader ends |
| Video engine, `es-core/src/VideoEngine.cpp` | queue of orders, two signals, texture lock | `PlayVideo`, `StopVideo`, `Run` | the last order wins; a waiting stop returns when the video stopped |
| BIOS manager, `es-app/src/bios/BiosManager.cpp` | lists, one lock, `mReporting` | `Scan`, `Run`, message handler | a scan reports everything before its end, and ends |
| Slow data, `ViewController.cpp`, `SystemView.cpp` | a slot of one element | `FetchSlowDataFor`, `SetNextSystem`, `Run`, handler | the view shows the counts of what is selected |
| Seamless scraper, `es-app/src/scraping/` | permanent pool, engines, games under way | `Push`, job, `ReceiveSyncMessage` | every scrape ends, each of its stages reaches the list |
| Mount monitor, `MountMonitor.cpp` | pending mount point | netlink thread, handler | the last change that is reported is the last one seen |
| Main loop, `MainRunner.cpp`, `main.cpp` | exit state | run, exit sequence, relaunch | things are destroyed after their last use; a handler never stops the loop for good |

How they interact. A helper thread never calls into a view: it sends a message,
and the main loop calls the handler in `DispatchMessage`
(`MainRunner.cpp:379`). In the other direction the main thread puts a request in
a slot or a `Queue` under a `Mutex` and fires a `Signal`; the thread takes it in
a loop on `IsRunning()`. Ending a thread is always `Stop`: clear `mIsRunning`,
call `Break`, which fires the signal, and join. `ThreadPool` packages the same
pattern for several workers. The texture loader is older and uses the standard
library's mutex and condition variable.

What is hard. A `Signal` is a flag: two fires may wake a thread once. Locks are
released between a check and its use. Senders come and go with the views while
their messages are queued. Objects are deleted by the exit sequence while
threads still hold pointers to them. `PROJECT.json` lists each hazard with the
line where it bites and the properties that would show it.

## Modules

| Module | Code | How it corresponds |
|---|---|---|
| `SyncMessage` | `SyncMessageFactory.h`, `SyncMessageSender.h` | A critical section is a step. `Construct`/`Destroy` are `Register`/`Unregister` made by the constructor and destructor of a sender. `Send` is `Obtain`, `CheckRecycled`, `Push`. `DispatchMessage` is `TakePending`, `LockRegister`, then per message `ReadSlot` and `Call` or `Skip`, `HandlerReturns`, at last `UnlockRegister` and `Recycle`. While a handler runs, the main thread itself may send, construct and destroy senders: the lock is recursive. |
| `Mailbox` | - | What the factory promises: everything posted through an open sender is handed to its receiver once and in order. |
| `MCSyncMessage` | - | Two senders to two receivers, message objects interchangeable. |
| `SyncMessageProofs` | - | Theorems about `SyncMessage`. |
| `Signal` | `Signal.cpp` | `Fire` sets the flag under the mutex, `Notify` signals the condition after it. A wait goes through `Enter`, then `Take` or `Sleep`; sleepers may wake spuriously. A timed wait may `TimeOut` and then `GiveUp` once it has the mutex again. |
| `AutoResetEvent` | - | What users of `Signal` rely on. |
| `SignalProofs` | - | Theorems about `Signal`. |
| `ThreadPool` | `ThreadPool.h` | Workers follow `WorkerThread::Run`, the owner is the one thread that fills, runs, waits for and destroys the pool. The arguments of the constructor are chosen in `Init`. `TornTick` is the polling loop reading `mResults.size()` while a worker changes it. |
| `PoolSort` | `ThreadPool.h:234-250` | One turn of the `do` loop, or one recursive call, is a step. `pivot` is read through its place, as the reference in the code is. |
| `ThreadPoolProofs` | - | Theorems about `ThreadPool` and `PoolSort`. |
| `RingQueue` | `Queue.h`, `Allocator.h` | The memory is a function from places to labels; a call is a step, because every user holds a lock around it. |
| `Fifo` | - | What `Queue` promises. |
| `RingQueueProofs` | - | Theorems about `RingQueue`. |
| `SystemHasher` | `SystemHasher.cpp` | The main thread's `Push` and `Fire` are two steps, the hasher's loop has a step per critical section. |
| `NotificationManager` | `NotificationManager.cpp`, `MainRunner.cpp:302-336` | The thread's loop, and the main thread's steps from sending notifications to the destruction of the manager. `Pop` and `Mark` are separate steps: the flag is raised after the lock is released. |
| `MainRunner` | `MainRunner.cpp:302-336`, `SystemManager.cpp:1126-1138` | Composes the two modules above under one main thread: systems are pushed and notifications sent while it runs; `DeleteAllSystems` stops the hasher before it deletes the systems; notifications are still sent, waited for and the manager destroyed after that. |
| `MainRunnerProofs` | - | Theorems about `MainRunner` and the two threads it composes. |
| `TextureDataManager` | `TextureDataManager.cpp`, `TextureResource.cpp`, `TextureData.cpp` | `load` is `Request`, then `getTotalMemUsage` as the two reads it consists of, `CountCommitted` and `CountQueue`; per texture that is evicted `ReleaseVictim`, `RemoveVictim` and both reads again; at last `LoadNow`, or `TestLoaded` and `Enqueue`. `ForceLoad` and `Own` are what uses memory outside `load`. The loader has a step for each of its critical sections and for decoding, and may do any of them between two of these. |
| `MCTextureDataManager` | - | Interchangeable textures. |
| `TextureDataManagerProofs` | - | Theorems about `TextureDataManager`. |
| `VideoEngine` | `VideoEngine.cpp`, `VideoEngine.h` | The engine's thread: `GetNextOrder` and its wait, `Execute` an order, `FinalizeDecoder` under the locks of both frames, `InitializeDecoder` as `Open` (which may fail, or go on with a file that is still open, and leaves frames without a buffer) and `Fill`, which makes both frames point to the one `Buffer`, `Decode` and `Convert` per frame. `PlayVideo` and `StopVideo` are `Ask` (drop an order of the same kind), `Post`, and for a stop `Stopping`, then `StopSeen` or `StopTimeout`. `GetDisplayableFrame` reads `FrameInUse`, then `LockFrame`, then `UpdateTexture`. |
| `VideoComponent` | `VideoComponent.cpp` | The widget over the engine, by the cases of `ProcessDisplay`, `resize`, which takes a frame to know its size, and the views that stop the engine behind its back. |
| `VideoComponentProofs` | - | Theorems about `VideoComponent` and its engine. |
| `EventQueue` | `SyncMessageFactory.h` | What `Mailbox` promises, for components that only send and receive: a queue of messages, the main thread between handlers, the current view. |
| `GameListView` | `DetailedGameListView.cpp`, `ViewController.cpp:988-1054` | `DoUpdateGameInformation` and `UpdateSlowData` on the main thread; the thread takes its slot (`TakeItem`), stores the images of a folder in two steps, since they are read without a lock, and sends. |
| `SystemView` | `SystemView.cpp:783-856` | The cursor of the system list, the slot of its thread, the count that comes back, which the handler drops when the slot is full. |
| `MountMonitor` | `MountMonitor.cpp` | `Poll`, `LoadMountPoints`, `Compare` and one `SetPending`, `PendingSet`, `SendEvent` per difference. The kernel that mounts and raises `POLLPRI` is external. |
| `ScraperSeamless` | `ScraperSeamless.cpp`, `ScreenScraperSingleEngine.cpp:36-124` | A job of a worker: `TakeFeed`, `AllocateEngine`, `Scrape`, `DownloadAndStoreMedia`, `Complete`, `SetTimeStamp`, `FreeEngine`. What the web service answers is a choice of these steps. |
| `BiosManager` | `BiosManager.cpp`, `GuiBiosScan.cpp` | The recursive `mLocker` and who holds it; windows that open and close at any time, also with the address of an earlier one; `Scan` by the window, and by the web server, whose `Run` goes through the same steps in a thread of its own; the scanning thread, which holds the lock for its whole run; the handler, which takes it and, for the last message, joins the thread. |
| `MainLoop` | `MainRunner.cpp:372-390`, `ViewController.cpp:855-898` | Composes the six modules above: one main thread, one queue, one current view. `Ask` is what users, the web and the kernel do, `Work` is everything else. |
| `MCMainLoop` | - | Which components are asked together, and how often each. |
| `MainLoopProofs` | - | Theorems about `MainLoop` and its components. |

`SystemHasher`, `NotificationManager` and `ThreadPool` use a signal as an
auto-reset event: one flag, and a wait that takes it. That is what the run
`signal` and the theorem `ImplementsEvent` establish for `Signal`. `VideoEngine`, `GameListView` and `SystemView` use it the same way. The hasher, the
notification manager and the video engine use their queue as a loss-free sequence;
`ring` shows that `Queue` is one as long as it never grows with its write index just
wrapped and its read index at 1. It is not one then. So what they show about order and liveness is
relative to a queue that does not hit that case. Systems are pushed to the
hasher by the main thread only: `InitializeSystem` may run in a pool, but for
virtual systems, which it does not push.

Each module holds, before the definition it concerns, the mutants of the
development: forms that the definition would have with a plausible mistake in
the code. They are not part of any specification. `PROJECT.json` names, for each
property of a passing run, the mutant that breaks it.

## Runs

| Run | Shows |
|---|---|
| `sync_any_time` | Senders destroyed at any time: objects are not shared nor leaked (`OneOwner`, `NoLeak`), a thread's messages are handled in order (`ThreadOrder`), and no handler starts after the last sender to its receiver is gone (`NoCallAfterUnregister`). |
| `sync_orderly` | If a sender is destroyed only when nothing it sent is queued, the factory implements `Mailbox`, `RightReceiver` holds, and every message sent is handled in the end. |
| `sync_reuse` | Violation: a message of a destroyed sender reaches the receiver that reused its slot. |
| `signal` | `Signal`, with untimed and timed waits, implements `AutoResetEvent` for four threads; no wakeup is lost and a raised flag is used up. |
| `pool` | Pools of all four modes (one-shot or permanent, polling or not), two calls of `Run`, cancellations: `EachFeedOnce`; `CompletionIsComplete` when `WaitForCompletion` returns, although the polling wait reads the number of results without the lock; no worker sleeps beside a feed (`NobodySleepsOnWork`), every feed is run (`FeedIsRun`), the destructor returns and leaves no worker (`DestructorReturns`, `NoWorkerOutlivesPool`). |
| `pool_sort` | All 3125 queues of five feeds: the sort ends, stays inside the array (`ScansStayInside`), keeps the feeds and puts the extremes at the ends, the highest priority where `PopFeed` takes first (`EndsInPlace`). |
| `ring` | Through growth and wrap-around, what comes out was pushed, once and in order; the buffer implements `Fifo` but for one call of `Grow`, with `mIn` 0 and `mOut` 1 (`FifoUnlessWrapped`). |
| `exit` | The hasher and the notification thread, used and shut down by the main thread. Systems are hashed in order; none is hashed once the systems are deleted (`NoHashOfDeletedSystem`). Notifications are published in order less immediate repeats, the queue drains, and the whole exit sequence ends (`ExitCompletes`). |
| `texture_cache` | The loader's queue and its index agree (`QueueIndexed`). With a budget of two the cache reaches five textures, `2 * Budget + 1`, and no more (`BudgetKept`): what the loader takes from its queue between the two reads of the memory in use is not counted. |
| `texture_screen` | Textures that each frame binds are loaded in the end. |
| `video` | No frame is freed while it is drawn (`ShownFrameIsAlive`). However orders are dropped and overtake each other, the engine ends as the last one said (`LastOrderWins`): playing that file, or closed. The destructor returns with the decoder closed (`DestructorReturns`), although `DecodeFrames` looks for orders only, not for the end of its thread. |
| `mainloop` | The main thread with all that reports to it, alone and in pairs. What was asked for last comes to the screen, though slots and answers are overwritten and dropped (`SlowDataComes`, `CountComes`). The last mount or unmount that the monitor saw is the last that is notified, with its device (`LastChangeReported`). A stage of a scrape finds its game in the set of running scrapes, also when the game is pushed again before its scrape is over (`StagesFindTheirScrape`), and every scrape ends, whatever the service answers (`ScrapesEnd`). Whatever windows close and whenever the web server scans: who is told of a bios was told of the one before, and who is told that the scan is over was told of all, with the report written (`ScanIsWhole`). A window that asks for a scan is told of its end if it stays open and the web server does not scan (`UndisturbedScanEnds`). |

The violation is of what a comment of the code says. More such comments are refuted by
definitions that are in no run, see [below](#where-the-code-and-its-comments-disagree).

The program may stop after the exit sequence, after a pool, a loader or the
video engine was destroyed, when the sort is finished, and when nobody asks the
main loop for anything more: the runs of these modules do not check for
deadlock, and state in a liveness property what they must get to. In the
other runs a deadlock would be reported.

## Bounds

- `SyncMessage`: two senders with different receivers is the least where a slot
  can be reused by somebody else, two threads the least where Obtain and Push
  interleave with the dispatch; `MaxSends` 2 lets a thread overtake itself, and
  three messages are one more than can be in flight before one is recycled. The
  run with liveness properties has two messages and no symmetry.
- `Signal`: four `Threads`, two of which wait with a timeout: two waiters race
  while two others fire.
- `ThreadPool`: `Jobs`, `N` and `MaxRuns`; three feeds over two workers leave a
  feed queued while both work, and one worker idle while the other is late; two
  runs make threads be replaced and `mIndex` outlive the first run.
- `PoolSort`: `Size` 5 with five priorities gives every relative order of five
  feeds, ties included.
- `RingQueue`: `Granularity` is 4 in the code; `MaxPushes` 14 grows the memory
  twice (4, 8, 16) from every position of the indices, and `MaxItems` 14 does not
  restrict it. The loss needs six pushes.
- `MainRunner`: `MaxNotices` 3 with two kinds, so that repeats and a queue of
  more than one request both happen, and two `Systems`: one in hand, one queued.
- `TextureDataManager`: a texture occupies one unit, so that sizes are not
  distinguished. A budget of one is not enough to tell the bound of `BudgetKept` from
  "two more than the budget": `texture_cache` has a budget of two and six textures, one
  more than may be loaded. To be exhaustive with six it leaves out what
  frees memory or uses it elsewhere (`MaxReleases`, `MaxOwned`), and textures that cannot be decoded
  (`Broken`); the theorems have no such restriction. `texture_screen` has two textures that can be
  decoded and fit, each counted twice, releases and textures with data of their own.
  A texture that cannot be decoded would break its property: it is asked
  for again in each frame, at the front of the queue, and may keep another one
  waiting for as long as the loader happens to look at the wrong moment.
- `VideoComponent`: three videos, one of which cannot be opened (`Broken`), and
  `MaxCalls` 3 calls beside what the widget does by itself: with the two orders of
  `setVideo` and the one of the destructor, orders meet in the queue in every
  combination of plays and stops, and an order meets the engine at each of its
  steps.
- `MainLoop`: two folders and two games, one of which has what is slow to know;
  two systems, devices, scraping workers and bios. The components meet in the one
  main thread and its queue, so that they are asked in pairs (`Stories`, a number of
  asks for each component; the values are in `MCMainLoop`)
  rather than all at once: the two views with each other, since a change of view
  is what makes them drop answers; the systems with the mount monitor; the list with
  the scraper, whose games are those of its cursor; and the mount monitor with the
  bios manager, so that messages of another component come
  between theirs. Alone they are asked more often. Three asks let a slot be overwritten
  twice, or a device be mounted, unmounted and mounted. A game can be pushed
  twice before it has its time stamp, which occupies both workers and both engines; two
  scrapes of different games at once are left to the
  proofs, since that story has more states than all the others together. Five asks of
  the bios manager are a scan, a window that closes, another one (with one of
  two addresses, `Windows`), its scan and one of the web server. Two components with a
  liveness property of their own are not asked beside the bios
  manager, because its deadlock (disagreement 18) stops the main thread for all of them. The code
  has eight scraping workers and as many engines; two of each have the same races.

## Fairness

Weak fairness of each thread's own steps once it can run, which is what the
operating system's scheduler gives: even the hasher, which runs at idle
priority, is not starved for ever on a machine that waits for the vertical sync
in each frame. Handlers, jobs and scripts are assumed to end. Nothing forces a
thread to send, push or quit; once the main thread has begun to stop the hasher
it goes on with the exit sequence (`FairRunSpec`). `FrameSpec` adds strong
fairness of binding each texture of the cache: the main loop draws all the time,
and may be busy with another texture whenever it could bind this one.

In `VideoComponent` the main loop renders the widget all the time, so that the
lock of a frame is taken again and again: `FinalizeDecoder` is strongly fair,
because that lock is held for one copy of a frame per refresh of the screen. The
user may stop calling.

`MainLoop` has one weak fairness condition, for `Work`: as long as some thread or
the main loop can go on, something does. That is less than the scheduler gives,
and is enough: the threads wait for a signal, a lock or a message each, and none
of them spins, so that work that nobody adds to runs out. `Ask` is not fair:
nobody has to press a key, and `Stories` bounds how often somebody does.

## Proofs

The theorems hold for every value of the constants, under the named assumptions
of the modules: null values are not real values, bounds are numbers, the sets of
feeds and of workers are finite, a pool has a worker, a queue that is sorted has two
feeds. One theorem needs more, and its statement says so: `RightReceiverHolds`, and with
it `MailboxHolds`, is under `DrainBeforeDestroy` (senders outlive their messages). The code
does not see to it, and the theorem is about the programs that do;
[below](#where-the-code-and-its-comments-disagree) is what happens to the others.

Each module has one inductive invariant, or one per independent part. Every one was
first checked by TLC as an invariant of the runs' instances, then proved by one
lemma per action. What follows is why the property itself is not inductive.

**`SyncMessageProofs`.** `Inv` is inductive: the type invariant, `OneOwner`,
`NoLeak` and `SlotsMatch`, strengthened by what the code relies on between two
of its critical sections: a thread in `Send` holds a message labelled with a
living sender (`SendState`); whatever is queued was written and routed
(`QueueState`), which makes the read of the slot in `DispatchMessage` stay
inside the array; a used slot belongs to a living sender (`SlotsOwned`); and the
locals of `DispatchMessage` at each of its lines (`MainState`). `SlotsMatch`
alone is not inductive: that `Register` takes an empty slot shows nothing unless
empty means that no living sender has it, which is `SlotsOwned`. `TypeCorrect`,
`OwnershipHolds`, `NoLeakHolds` and `SlotsMatchHolds` follow.
`NoCallAfterUnregisterHolds` is an action property: `MainState` says that the
receiver in hand is still what its slot says, because `Unregister` needs the lock
that the main thread holds. `RightReceiverHolds` needs `DrainBeforeDestroy`; its
invariant adds that every queued message is routed to the slot of its own
living sender. Without the assumption `sync_reuse` refutes it.

`ThreadOrderHolds` is about histories. `OrderInv` says of each thread that its
messages are numbered upwards from those received, over those in flight
(`Letters`: the rest of the batch, then `pending`), to the one it posts next; it
needs `HandState`, that a thread inside `Send` holds the message with its last
number. Every step of the module is one of four for these three values, quiet,
post, drop and hand over (`LetterSteps`), and order is argued for these. The same
lemma gives the refinement `MailboxHolds`: with `Letters`, `Posted` and `Living` as
the state of the mailbox, each of the four, and opening and closing a sender, is
a step of `Mailbox`. That the dispatch calls the receiver of the sender, and never
skips a message, is `FoundReceiver`, from the invariant of `RightReceiver`; that a sender
is closed when none of its messages is queued is the assumption.

**`SignalProofs`.** `NoLostWakeupHolds` is for any threads, timed waits
included: the flag is only lowered by a thread that leaves with it, and a sleeper
is left behind only while somebody who raised it has yet to notify.
`ImplementsEvent` shows that `Signal` implements `AutoResetEvent`: initial
states map to initial states, and each step maps to a step of the event or to a
stutter; the type invariant is needed to exclude the expiry of an untimed wait.
The event says, as the code does, that a wait that expires lowers the flag.

**`ThreadPoolProofs`, the pool.** `EachFeedOnce` counts; what is preserved is that the
five places of a feed are disjoint (`OnePlace`), and that a worker has a feed
exactly while it runs and reports it (`WorkerState`). `CompletionIsComplete` needs to
know why the queue is empty when the owner has joined its threads: a worker of a
one-shot pool ends only when it finds nothing, and nothing is pushed until all have
been joined (`Drained`, `Joined`, and `OwnerState`, which says what the owner can be
at in which mode). `NobodySleepsOnWork` says nothing of a worker that has seen the empty
queue and has yet to sleep; `NobodyDozesOnWork` includes it.

**`ThreadPoolProofs`, the sort.** The pivot is read through a place whose content
the loop changes, so that the textbook argument (what is left of `Low` is at most the
pivot) is false. What is true and inductive (`SortInv`): after the first swap of a
call there is a feed behind each index that stops the other scan, whatever the
pivot has become (`Sentinels`), so that `ScansStayInside`. Each feed on the right of
`High` has one on the left of `Low` that is not greater, and back (`SmallestLeft`,
`GreatestRight`): a swap puts such a pair there, and a scan that only passes a feed
leaves it on the side of the pair. So a call leaves the least priority of its segment
in the part it sorts first, or in the first place, and the greatest at the other
end. Over the calls that gives that the least priority of the array is in the first
segment or already in its place (`SmallestFirst`), the greatest in the last one
(`GreatestLast`), which needs that the calls to come are disjoint and in order
(`CallsInv`). When no call is left, both are in their places:
`EndsInPlace`. The middle may be out of order, see disagreement 5.

**`RingQueueProofs`.** `Indices` bounds the two indices by the memory; `Ordered`
says that the contents, read from `mOut` with wrap-around, are numbered as pushed,
after what came out. `Push` with room, `Push` that grows, `Pop` and `Clear` are each
described by what they do to the contents (`Pushed`, `Popped`, `Emptied`); growth
moves a split content, and its lemma excludes exactly the call that `GrowsWrapped`
names, in which the code leaves the write index behind the content. `InOrderHolds`
covers that call as well: it loses what the buffer holds, but disorders nothing. `FifoUnlessWrappedHolds` is the refinement
of `Fifo` step by step, with that one step left out.

**`MainRunnerProofs`.** For the notices, the history `sent` is cut in three, done, in
hand and queued, and `mPreviousRequest` is the last of the done (`NoticeInv`); then
what is published is the done ones less immediate repeats, by an argument that
extends that relation by one notice. For the hasher, what was pushed is hashed,
in hand, then queued (`HasherKept`). `NoHashOfDeletedSystem` relates two modules
through the exit sequence (`QuitInv`): the main thread reaches the deletion only after
it has joined the hasher.

**`TextureDataManagerProofs`.** `QueueIndexedHolds` is about the list and its index,
through insertion at the front and erasure in the middle. `BudgetKept` counts what
is loaded; what can be kept is a bound on what is loaded or may yet be loaded
(`Kept`: in memory, queued, in the loader's hands, or about to be forced) at each point of
`load`. What is pending when the textures in memory are counted, `Budget + 1` of them,
is all that this count can miss (`Counted`): the queue was let in only if it fitted
in the budget, and the loader adds nothing to it. If the second read finds room
after that, the sum of both was less than the budget, so `Kept` is at most `2 * Budget` and
one more texture may be asked for (`Roomy`). Inside the loop that evicts, textures that were
passed may be loaded again by the loader only if they were pending before, and are
not queued meanwhile (`Narrow`), so that a loop that ends without finding room is within
the same bound. `texture_cache` reaches it: the bound is tight.

**`VideoComponentProofs`.** `ShownFrameIsAlive` follows from who holds which lock where
(`LocksOwned`): the widget that displays a frame holds its lock, and
`FinalizeDecoder` needs both. `FramesFilled` says that decoding goes on only while the
frames have buffers, and `ReturnsElsewhere` that no call to the engine returns into the
middle of a display. The frame that is displayed is not freed: that is all. It may be
without a buffer yet, when the decoder is opened over an open one, and the engine may
write what it shows, see disagreement 16.

**`MainLoopProofs`.** One queue carries the messages of five components. `Mail` says
that a step of one leaves the messages of the others as they are; each invariant
below is preserved by any such step of another component, which is proved once and
cited for all of them. `MountInv`: the last message of the monitor in the
queue has the flag of the last change, and `mPendingMountPoint` its device, unless
the monitor is between the two writes; or there is no such message and the interface
was told. `ScrapeInv`: a running scrape is in one place, queued as a feed, in the hands of
one worker, or over with its last message behind its others; that is what makes it
safe to push a game again as soon as it has left the set. `EngineInv`: the busy
engines are those of the workers that have one, so by counting one is free for
each other worker. `ScanInv` makes no assumption on windows or on the web server: what
the queue tells windows goes on from what was told last, bios by bios and over the
ends of scans, up to what the scanning thread has sent (`Chain`); a message with no window
counts as silence, so that a scan of the web server, or one that lost its window
to it, changes nothing. That the report is written before the end is told is the lock:
the handler cannot get it while the scanning thread is between its last message and
its report (`LockInv`, `ReportInv`), and only a handler clears the flag that would make it skip it.

Not proved, because it is out of the provers' reach: the properties under fairness
(`EventuallyHandled`, `SignalIsUsed`, `FeedIsRun`, `DestructorReturns`, `Terminates`, `QueueDrains`,
`ExitCompletes`, `ScreenIsLoaded`, `LastOrderWins`, `UndisturbedScanEnds`, `SlowDataComes`, `CountComes`,
`ScrapesEnd`), which depend on `ENABLED`. All other properties of the passing runs are
theorems.

## Where the code and its comments disagree

Shown by a run:

1. `SyncMessageFactory.h:82`: identifiers are reused while messages carry them
   (`sync_reuse`).

The others are stated by a definition whose comment says "Refuted", in the
module that models the code; adding it to the configuration named here makes TLC
print the counterexample:

2. `Queue.h:64`: growth with the write index just wrapped loses the content: push,
   push, pop, push, push, push (`FifoSpec`, `RingQueue.cfg`).
3. `MainRunner.cpp:305`: systems are deleted before the notifications about them
   are processed (`RequestsPointToLiveSystems`, `MainRunner.cfg`).
4. `SystemHasher.cpp:79`: one system per signal, so that two quick pushes leave a
   system queued (`EverySystemIsHashed` of the instance `H` of `MainRunner`).
5. `ThreadPool.h:237`: the pivot is a reference into the array that is permuted,
   and some queues do not end up sorted (`HigherPriorityFirst`, `PoolSort.cfg`).
6. `ThreadPool.h:41` says "Lowest priority are processed first", and
   `ThreadPool.h:203` says "higher priorities are executed first". The code does the
   second, as far as its sort goes (5): `Run` sorts in ascending order and `PopFeed` takes
   from the back. `EndsInPlace` says what the code does; what line 41 says is
   `LowestPriorityFirst` (`PoolSort.cfg`).
7. `NotificationManager.cpp:492`: between the pop and the flag, `WaitCompletion`
   may return with a request in the thread's hand (`AllProcessedAfterWait`,
   `MainRunner.cfg`).
8. `TextureDataManager.cpp:157`: a wait without a look at the queue loses a
   notification (`QueueIsServed`, `TextureScreen.cfg`).
9. `TextureDataManager.cpp:139`: the exit flag is set outside the mutex, and the
   join may not return (`DestructorReturns`, `TextureScreen.cfg`).
10. `VideoEngine.cpp:222`: the reset after a stop that does not wait may come before
   the engine has executed that stop, whose answer then ends the next waiting stop
   too early (`WaitingStopStops`, `VideoComponent.cfg`).
11. `VideoEngine.cpp:140`: the decoder is closed before a play when the file is the
   same, not when it is another, where `VideoEngine.h:345` says "If a video is
   already playing, a call to stop is performed"; no stop need come in between
   (`OpensClosedDecoder`, `VideoComponent.cfg`).
12. `ViewController.cpp:1032`: the images that arrive for a folder may be those of the
    one after it (`ImagesAreOfFolder`), and `ViewController.cpp:1045`: an answer that
    arrives while the systems are shown is lost, and nothing asks again when the
    user comes back to the same item (`SlowDataComesBack`; both `MainLoop.cfg`).
13. `SystemView.cpp:809`: a count is shown for the system that the cursor moved to
    since (`CountIsOfCursor`, `MainLoop.cfg`).
14. `MountMonitor.cpp:168`: a message finds the device of a later one
    (`EveryChangeReported`); `MountMonitor.cpp:36`: a device mounted before the thread
    has opened the table is not seen (`TableIsComplete`); `MountMonitor.cpp:160`:
    while tables are compared, a mounted device is missing for the main thread
    (`MountedIsFound`; all `MainLoop.cfg`).
15. `ScreenScraperSingleEngine.cpp:118`: a game may be scraped twice in a row
    (`StampedOnce`), and `ScreenScraperSingleEngine.cpp:70`: after one fatal error
    an engine stamps games it has not asked for (`StampedWereScraped`; both
    `MainLoop.cfg`).
16. `VideoEngine.cpp:325`: one buffer is allocated for the two RGB frames, each of
    which has a lock of its own ("RGB frame access locker", `VideoEngine.h:148`), and the one in
    use by the decoder (`VideoEngine.h:150`) is converted into while the other, the same
    memory, is copied to the screen (`ShownBufferNotDecoded`, `VideoComponent.cfg`).
17. `BiosManager.cpp:50` and `BiosManager.cpp:47`: `BiosManager.h:129` says "Start scanning all
    bios and report result using the given interface". Nothing is started, and nobody told,
    when a scan is running, for instance that of a window that was closed
    (`GuiBiosScan.cpp:327` closes at any time); and a scan of the web server replaces
    the interface, also between the start of the thread and its first step. The
    window waits for ever (`ScanEnds`, `MainLoop.cfg`).
18. `BiosManager.cpp:94`: the handler of the last message holds the lock and joins
    the thread, "Allow the thread to be restarted" (line 93). A scan of the web server
    posts a last message of its own when the flag of the thread is up, so that the
    thread may be one that was started since and waits for that lock. The
    main loop stands still for ever (`JoinEnds`, `MainLoop.cfg`).

The last two are part of what the properties say:

19. `Signal.cpp:57`: a wait that times out clears a signal it does not report.
    `AutoResetEvent` lowers the flag on expiry for that reason.
20. `ThreadPool.h:279`: a polling wait counts pushes, cancelled feeds included, and
    does not end after a cancellation. No property claims that it does;
    `CompletionIsComplete` is about the waits that end.

## What is not modelled

Data and formatting: what a message carries, what a notification prints, which
files hold a texture. Rendering, themes, views and menus run on one thread.
Gamelists, configuration and metadata are files and data structures used by one
thread at a time. SDL, libav, libudev, PulseAudio, paho and pistache are
external. Most of the source tree is of these kinds: images, fonts and texts
compiled into arrays (`src/data`), a table of game names, vendored libraries,
drawing and parsing. A state machine of it would say what the code says and
nothing that can go wrong between two of its steps.

Of the components that are modelled, these parts are left out:

- messages: the factory's destructor, which frees memory only;
- textures: on which thread the last reference to one is dropped;
- video: the sound, with its queue and its callback on a thread of SDL; a widget
  that is destroyed, which is the end of its calls;
- bios: what a handler does to a window that was closed while its scan was
  running. `BiosManager.cpp:92` calls it all the same, and nothing tells the manager
  that it is gone, so that no outcome of that call is faithful: in the model it changes
  nothing, unless another window has got the address;
- the main loop: the handlers of the components that are not modelled, and the
  destructors of those that are (the exit sequence is `MainRunner`, which has the
  two components with something to lose in it).

`PROJECT.json` lists every component with the reason.

## Plan

1. *Done.* The machinery: messages, signal, pool, sort, queue; the hasher, the
   notification manager, the texture cache; the invariants of messages and
   signal proved.
2. *Done.* What builds on it: the video engine with its widget, the slow data of
   the views, the mount monitor, the seamless scraper, the bios manager, and the
   main loop with all of them.
3. *Done.* Every invariant and every action property or refinement that a passing run
   checks, proved for all values of the constants.
4. Proofs that no run asks for yet: in `MainLoop`, that the thread of a slot never
   holds an item that nobody asked for, and that a count comes from the system it is
   about; in `SystemHasher`, that a system is left in the queue only beside a lowered
   signal; in `VideoComponent`, which orders the queue can hold at once, the safety half
   of `LastOrderWins`.
5. What could still be modelled: `Thread` as a module of its own (start over a running
   thread, the destructor that calls `Break` too late) with `SyncTimer` and
   `GuiWaitLongExecution`; the exit states of `MainRunner` with the relaunch loop; the
   sound of the video engine; the other scraper.
