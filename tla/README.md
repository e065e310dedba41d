# VirtualGL image transports in TLA+

VirtualGL redirects the OpenGL rendering of an unmodified application to a GPU on
the server and delivers the finished images to the user. This directory holds the
TLA+ model of the part that delivers them: the threads, queues, buffer pools and
events between a buffer swap in the application and a window on the user's screen.
It is checked with TLC on small instances; the core is proved with TLAPS for every
value of its constants.

Paths below are relative to the repository (`src/` in `PROJECT.json`).

## 1. Inventory

### The components and what they keep

| Component | State | Operations | Modelled in |
|---|---|---|---|
| Synchronisation, `util/Mutex.cpp` | `Event`: flag `ready`, mutex, condition variable; `Semaphore`; recursive `CriticalSection` | `wait`, `signal`, `isLocked`; `wait`, `tryWait`, `post`; `lock` | `Event`, `EventSpec` |
| `GenericQ`, `util/GenericQ.cpp` | linked list, semaphore `hasItem`, mutex, `deadYet` | `add`, `spoil`, `get`, `release`, `items` | `GenericQ` |
| `Thread`, `util/Thread.cpp` | thread handle, `lastError` | `start`, `stop` (join), `setError`, `checkError`, `threadFunc` | in the actions of the modules whose threads it runs |
| VGL Transport, `server/VGLTrans.*` | queue, 4 frames, `ready`, `deadYet`, socket, protocol version, compressors | `isReady`, `synchronize`, `getFrame`, `sendFrame`, `run`, `sendHeader`, destructor | `VGLTrans`, `FrameChannel`, `Session` |
| Compressors, `server/VGLTrans.h` 68-142 | per thread: Events `ready` and `complete`, `deadYet`, stored tiles | `go`, `stop`, `send`, `shutdown`, `run`, `compressSend` | `Compressors`, `Tiling` |
| X11 Transport, `server/X11Trans.*` | queue, 3 frames, `ready`, `deadYet` | the same, and drawing by the caller | `X11Trans`, `FrameChannel` |
| XV Transport, `server/XVTrans.*` | as X11 | as X11 | not modelled |
| `VirtualWin`, `server/VirtualWin.cpp` | off-screen drawable, transports, `mutex` | `readback`, `sendVGL`, `sendX11`, `sendXV`, `swapBuffers`, `resize`, destructor | `VirtualWin` (the exchange of the drawable), `FakerLife` (lock, `vglconn`, destructor), `Session` (stereo, compression); control flow of `sendVGL` and `sendX11` in the two transports |
| Client receiver, `client/VGLTransReceiver.*` | listening socket, windows | accept loop, `Listener::run`, `addWindow` | the loop for one window in `ClientWin`, the handshake in `Session` |
| Client window, `client/ClientWin.*` | queue, 2+2 slots, `cfindex`, `deadYet`, drawing method, stereo, frame buffer | `getFrame`, `drawFrame`, `run`, `initGL`, `initX11`, destructor | `ClientWin`, `Session` |
| Frames, `common/Frame.*` | pixels, header, Event `complete` | `waitUntilComplete`, `signalComplete`, `tileEquals`, codecs | the Event in each transport; pixels as numbers, `tileEquals` on pixels in `Session` |
| Configuration, `server/fakerconfig.cpp` | `fconfig` in shared memory | load, reload from environment, `fconfig_setcompress` | the changes of `spoil` and `sync`; of `compress`, `subsamp` and `tilesize` in `Session`, by the faker's environment and by the dialog, a process of its own |
| Faker life cycle, `server/faker.cpp` | `deadYet`, init flags, global mutex | `init`, `safeExit`, `~GlobalCleanup` | `FakerLife`, without `init` |
| Hashes, `server/*Hash.h` | locked linked lists | `add`, `find`, `remove`, `kill`, `initVW` | `WindowHash` in `VirtualWin` and `FakerLife` |
| Time tracking, `server/timetrack.h` and its hooks | table of rows shared with the 2D X server, ring of row indices, two indices on their way | `push`, `pop`, stamps in `XNextEvent` and `glXSwapBuffers`, tags in `sendX11`, report in `fbx_awrite` | `EventTrack` |
| Interposers, `server/faker-*.cpp` | none of their own | GLX, X11, GL and XCB calls | those that touch a window's drawable in `VirtualWin`, those that follow an event in `EventTrack`, `XDestroyWindow` in `FakerLife` |

The remaining parts (off-screen drawables but for `init`, GLX visuals, plugins, sockets,
profiler, image conversion, dialog, demos, vendored code) are listed in `PROJECT.json`
with the reason for leaving them out.

### How they interact

    application thread (VirtualWin::mutex)            sender thread, VGLTrans::run()
      readback -> sendVGL                               q.get -> ready.signal
        isReady / synchronize                             comp[i].go  ... stop, send
        getFrame   <---- Event Frame::complete -----      end of frame
        read pixels                                       lastf->signalComplete
        sendFrame  ----- GenericQ::spoil ---------->      |
                                                          | TCP connection
    worker thread, ClientWin::run()                   Listener thread
      q.get          <-- GenericQ::add ------------     header -> getFrame -> recv
      decompress, draw                                  drawFrame
      signalComplete --- Event complete ---------->

An application thread owns a window's transport for as long as it holds
`VirtualWin::mutex`; the transport's destructor runs under the same mutex, so the
transports' models have one application actor. Each transport has one consumer thread. The VGL
Transport's consumer has helper threads, the compressors, one per further CPU.

### What is hard

* **The queue is claimed before it is locked.** `get()` takes a semaphore token and
  locks the list afterwards; `spoil()` empties the queue under the lock but counts by
  the semaphore. Between the two the list is longer than the semaphore says.
* **Buffers have five possible holders** (application, queue, a claimed queue entry,
  sender, interframe comparison), the pool has four and no lock covers them all.
* **One Event, several meanings.** `ready` is "the previous frame was taken", "a
  synchronous frame is drawn" and "the thread died, look at lastError".
* **Failure.** A send may throw; the application then waits, or is about to wait.
* **Shutdown.** `release()` marks the queue dead and posts one token for a consumer
  that is before, in, or after its wait.
* **The rendezvous of the compressors** is two Events per thread that start out set.
* **Settings change at run time**, between any two reads of `fconfig`.
* **A window's size has four sources**: the application's own calls (before the X server
  has served them), `ConfigureNotify` events read by the application or from VirtualGL's
  own connection `eventdpy`, and the window's attributes when it is first made current.
  The X thread only leaves a size; the rendering thread exchanges the drawable later, in
  several locked steps.
* **Two programs of any two versions** share one connection: each guesses from the
  other's first bytes which of three protocols it talks.
* **What the client shows is a sum of differences.** Tiles that are equal to the frame
  before are not sent, while stereo, compression and tile size change at both ends.
* **The end of the process** destroys windows and transports under other threads, which may
  be waiting for its mutex to look up a function.
* **An event is followed through five hands**, from the 2D X server to the frame that
  shows its effect, by an index in globals that two threads share without a lock.

What makes each component correct:

* Event: no wake-up is lost; `wait` and `signal` are as good as indivisible.
* VGL and X11 Transport: no buffer is written while it is read; the pool never runs
  dry; the viewer sees frames in order; with spoiling off every frame; no call hangs,
  also when the consumer dies; a failure is reported.
* Compressors: at each end of frame the client has all tiles; a thread touches frame
  and output only between `go` and `stop`; `run` terminates.
* Tiling: an exact partition, computed alike by every thread.
* Drawable: the rendering thread has the window's own drawable bound, no other is left
  behind, and every resize arrives.
* Client: tiles are applied once and in order; the reading thread never hangs.
* Connection: both ends agree on the header; the window shows the frame, both eyes of it.
* Life cycle: nobody's window is deleted while it is read back; exit completes.
* Time tracking: an event is taken once, has its own stamps in order, and is reported.

`PROJECT.json` lists the hazards at their lines with the properties that cover them.

## 2. The modules

| Module | Models | Notes |
|---|---|---|
| `Event` | `Event` on its pthread mutex and condition variable | one action per locked region; sleeping releases the mutex atomically; spurious wake-ups; `signal` unlocks before it notifies |
| `EventSpec` | the indivisible Event | abstract; what every other module assumes |
| `GenericQ` | the queue's state and indivisible steps | `spoil` = `QLock (QTake QPop)* QAppend`; `get` = `QTake`, then `QPop`; `release` = two steps |
| `FrameChannel` | what a transport promises | abstract: offer, spoil, publish, deliver, close |
| `VGLTrans` | `VGLTrans` and `VirtualWin::sendVGL` | two actors over `GenericQ` |
| `X11Trans` | `X11Trans` and `VirtualWin::sendX11` | as above, with the drawing the caller does itself in synchronous mode |
| `Compressors` | the `CompressSend` step of `VGLTrans` from the inside | main thread and `NProcs - 1` compressor threads |
| `Tiling` | the two loops of `compressSend` | operators, used by `Session`; every frame size and tile size up to a bound |
| `ClientWin` | `Listener::run` for one window, and `ClientWin` | two actors over `GenericQ` |
| `VirtualWin` | the off-screen drawable of one window, `VirtualWin::resize` to `cleanup`, `WindowHash::initVW`, and the interposed calls that lead there | rendering thread, X thread, X server and user |
| `Session` | one connection end to end: `readback`, `sendHeader`, `compressSend`, `tileEquals`; `Listener::run`, `addWindow`, `drawFrame`, `ClientWin::run` | composes faker and client over a bounded stream of messages; what each end does inside is atomic here and the business of the modules above |
| `EventTrack` | `timetrack.h`, and the hooks in `XNextEvent`, `glXSwapBuffers`, `doGLReadback`, `sendX11`, `fbx_awrite` | event thread, rendering thread, transport thread; the 2D X server external |
| `FakerLife` | `WindowHash::initVW`, `find`, `remove`, `kill`; `VirtualWin::readback` and destructor; `connect`; `CHECKSYM`; `safeExit`, `cleanup`, `GlobalCleanup` | any number of application threads and one window; recursive mutexes |
| `VGLTransProofs`, `X11TransProofs`, `CompressorsProofs`, `ClientWinProofs`, `VirtualWinProofs` | the proofs of the module of that name | |
| `SessionProofs` | the proofs of `Tiling`, `Session` and `Event` | a connection and what its threads wait for |
| `FakerProofs` | the proofs of `EventTrack` and `FakerLife` | what runs in the application's threads |
| `SequenceFacts` | lemmas about sequences, `GenericQ`'s list of entries first | used by six of the proof modules |
| `MC*` | instances for TLC | |

**Correspondence.** Variables bear the names of the code's members (`complete`, `ready`,
`deadYet`, `lastf`, `cfindex`, ...). A program counter per thread names the next call:
`appPc` in `readback()`, `sPc` and `wPc` in `run()`, `lPc` in the Listener, `mPc` and `cPc`
in the rendezvous, `rPc` and `xPc` in the interposed GL and X calls, `pc[t]` in `FakerLife`,
the field `at` of `server`, `client`, `push` and `swap` in the last three modules. An action
is the code between two points where another thread can interfere: a wait, a lock, or the
read or write of a shared flag. The pool scan of `getFrame()` is one action that takes *any*
free frame, which covers every result of a scan during which the consumer frees others.
Pixels are the number of the frame rendered, but in `Session`. Actions ending in `_Something` and commented
"Mutation" are not part of the model; they are plausible bugs used to confirm that each
property can fail.

**Atomicity.** `deadYet` and `lastError` are plain variables that threads read without a
lock. Each read and write is one step; a late-visible write is covered by the reader
being scheduled before the writer, since every loop that reads a flag calls into the
operating system in between. A torn read of `lastError` can only garble the message.
`Event`, `Semaphore` and `CriticalSection` operations are single steps outside `Event`,
which the refinement of `EventSpec` justifies for `Event`.

**History variables.** `unspoilable`, `spoiled` (VGLTrans), `switching` and
`behind` (X11Trans), `sawSet` (Event), `kinds` (ClientWin), `between`, `unbound`, `splits`, `partial` and
`unseen` (VirtualWin), `history` (Session), `taken`, `raced` and `strayed` (EventTrack) record what
happened and are read by no guard; `rendered`, `shown`, `window`, `received`, `drawn`
number frames and messages, `refused` (VirtualWin) counts, and are read by the bound only. `fate` (EventTrack) records
which events are lost, and also lets the external X server know what it has read.

## 3. The runs

| Run | Question | Instance |
|---|---|---|
| `event` | Does the flag on mutex and condition variable behave as an indivisible Event, and is a poll followed by a wait free of blocking? | 2 waiters, 2 signallers |
| `vgltrans_safety` | Are buffers, queue and order right, whatever is interleaved, and is nothing dropped while spoiling has always been off? Does `IndInv` hold? | 4 frames (`NFRAMES`), 5 rendered, both spoil modes, failures, symmetric frames |
| `vgltrans_live` | Do frames get through, do calls return, are failures reported, and is the transport a channel? | 4 frames, 3 rendered, both modes, failures |
| `vgltrans_toggle` | finding: spoiling turned off at run time | 4 frames, 4 rendered; spoiling on at first and turned off once (`TurnedOff`) |
| `x11trans` | Does the pool suffice, is no buffer shared, what can be drawn over a synchronous frame; does `readback()` return, is the transport a channel? | 3 frames (`NFRAMES`), 4 rendered, both settings changing at any moment, failures |
| `compressors` | Is every frame whole, does every thread keep to its window, does `run` advance? | 3 CPUs, 4 tiles, 2 frames, both kinds of failure |
| `virtualwin` | Is the bound drawable the window's, is none left behind, does every resize arrive? | requests for both, one or no dimension, user resizes, both event routes, two FB configs; two resizes, one refused binding |
| `clientwin` | Are slots private, images in order, nobody stuck? | both kinds of image, 5 messages, failures |
| `session` | Do the ends agree, does the window show the frame, who waits, when does the sender throw; is the cut exact? | 2 pixels as 1 or 2 tiles, 2 images per eye, JPEG, RGB and YUV, peers of 3 versions, 3 frames, one change of setting, subsampling 1 or 8 written directly; cuts of frames up to 9x9 with tile sizes 0 to 9 among up to 3 compressors |
| `session_interframe` | finding: stereo and interframe comparison | JPEG, current peers, 3 frames, no change of setting |
| `eventtrack` | Is every event taken once, stamped in order and reported? | 2 rows besides row 0, 3 events |
| `fakerlife` | Is a window safe while it is read back, does exit complete? | 3 threads, 6 calls, functions looked up at 4 places |

**Properties worth a word.**

* `PoolNeverExhausted`: "No free buffers in pool" cannot be thrown. The count is tight
  only if one sees that a claimed entry and a frame in the sender's hands exclude each
  other: queue <= 2, comparison 1, and the fourth buffer is the one asked for.
* `LastFrameIsShown`: interframe comparison skips tiles equal to the last frame's, which
  is right only if that buffer still holds what the client was last sent.
* `LosslessThroughout`: with spoiling off since the start, every frame offered is
  displayed. `SpoilingOffIsLossless` asks it of two frames rendered with spoiling off,
  neither of which may discard the other, and fails once spoiling has been on before
  (section 4).
* `FailureReported`: an application woken by a dying sender must find the error that
  explains the wake-up. `Catch` records it before it signals.
* `ImplementsChannel`: the transport refines `FrameChannel`; pending frames are the one
  the sender holds followed by the queue. It includes the channel's liveness: while it is
  open, an offered frame is published and a pending one delivered.
  In the X11 Transport the refinement names one exception (`switching`): `fconfig.sync`
  is turned on while an older frame is queued or half drawn.
* `SyncFrameStays` has no exception. Over a frame that the caller drew itself are drawn
  newer ones, and at most those older ones that were queued or in the worker's hands at
  that moment (`behind`), whatever becomes of `fconfig.sync`; never that frame a second
  time. As long as the setting stays on, `behind` is empty and each `readback()` returns
  with its frame in the window.
* `FrameWhole` names its exception: a compressor that threw (`Failed`). `SenderAdvances`
  and `ListenerReturns` likewise describe the one case in which they are stuck.
* `CurrentIsKept`, `NothingLeaked` and `NoResizeLost` name theirs with history variables:
  - a `resize()` of the X thread between the two `updateGLXDrawable()` of one call
    (`server/faker-gl.cpp:224-225`, `faker-glx.cpp:1918` and `:1938`; `between`,
    `splits`) gives one window two drawables. `cleanup()` then destroys the one just bound
    for drawing, an older one may be left behind, and `glViewport()` no longer finds the
    window, until it is made current again;
  - `_glXMakeContextCurrent()` may refuse the new drawable; its result is not looked at
    before `cleanup()` (`server/faker-gl.cpp:228`, `faker-glx.cpp:1834` and `:1954`;
    `unbound`), which destroys the ancestor although it is still bound. The window is found
    again when a later call binds its drawable;
  - an `XConfigureWindow()` that leaves a dimension alone takes it from the drawable
    (`server/VirtualWin.cpp:149-150`; `partial`) and so overrides a pending resize; if the
    request changes nothing at the server no event repairs it;
  - `XSelectInput()` on `eventdpy` (`server/VirtualWin.cpp:98`; `unseen`) stays in the
    output buffer until the first `XPending()`; a resize before that is missed.

  TLC finds each of the properties violated without its exception, and no other way.
* `FrameShown` is `ClientShowsFrame` with its exceptions: the compressors read two tile
  sizes for one frame (`torn`), or frames of two kinds, mono, stereo or YUV, followed one
  another (`mixed`) while tiles are compared or have changed their number. RGB and JPEG are
  one kind: on a change between them the pixel format differs and every tile is sent.
* `ThrowsOnlyWhen`: the reasons for which the sender dies of an exception. With a client
  before 2.1 every frame but JPEG is one (`server/VGLTrans.cpp:111`). Otherwise the
  subsampling does not fit: another than 4 for YUV (`common/Frame.cpp:445`), or 8 or 16, a
  number `tjBufSize()` does not know and gives -1 for, so that the allocation of the buffer
  throws (`common/Frame.cpp:528`). That it fits is the business of `fconfig_setcompress()`
  (`server/fakerconfig.cpp:568-586`), and `ThrowsOnlyWhen` says how far this goes: as long as
  nobody writes the subsampling past it, as the dialog's `sampCB()` and `profCB()` and
  `VGL_SUBSAMP` do (`sampled`), and `readback()` does not begin between its two assignments
  (`unsettled` is either). No lock keeps the dialog, a process of its own, from changing
  both while `readback()` is between its looks at the one (`server/VirtualWin.cpp:284`) and
  the other (`:352`), and that is shown to do no harm.
* `NoMutualWait`: whatever the versions of the two ends, no state in which neither can move
  but one with everything drawn or with an exception thrown. It has two conjuncts, so that
  one can be proved: `SomebodyMoves`, in terms of the guards (`CanMove`), and that `CanMove`
  is the same as `ENABLED` of the threads' actions.
* `StampsInOrder`, `TakenOnce` and `NothingForgotten` hold until the event thread and the
  rendering thread overlap in the unlocked ring (`raced`), or a readback outside
  `glXSwapBuffers()` tags a frame with the last swap's index (`strayed`, which
  `NothingForgotten` does not need). The stamp after
  `readback()` (11) is excepted: the row may have been given to a new event by then. An
  event may be lost where the code drops its index: overwritten in the ring, taken by an
  excluded window, spoiled with its frame, swapped by a window the faker does not know.
* `ExitCompletes` names who keeps the process alive:
  - `Wedged`: a thread in `synchronize()`, with the window's mutex, of a transport that
    never connected (`server/VirtualWin.cpp:346` leaves `vglconn` set) or whose sender has
    died and whose one signal another thread took;
  - `Crossed`: threads that wait for each other's locks in a circle. Each real function is
    looked up under `globalMutex` when it is first called (`server/faker-sym.h:75`), in
    `readback()` with the window's mutex held, in `initVW()` and `remove()` with the hash's;
    `safeExit()` holds `globalMutex` while `cleanup()` waits for the other two. The circle
    has a third member when the thread with the window's mutex keeps one that compares
    windows, and so holds the hash, waiting. A missing function does the same: its caller
    calls `safeExit()` with its locks;
  - `Stale`: a thread that entered a deleted `VirtualWin`, after which nothing can be said.

**Bounds.** `MaxRendered`, `MaxReceived` and `MaxFrames` end the numbering. A frame's
influence ends when its buffer is reused; with four buffers, at most two queued and one
compared, five frames let each buffer be reused after every kind of holder. The X11 pool has
three buffers and nothing to compare with, so the fourth frame is the first that could find
it empty. The liveness of the VGL Transport is checked with three frames, so that one can be
shown, one claimed and one queued; a fourth is out of TLC's reach there, and buffers are
safety's business. Two resizes are enough for each of the ways in which `VirtualWin`'s
properties name exceptions, and for one resize to overtake another. One refused drawable
(`MaxRefused`) leaves a destroyed one bound, with any call and any resize after it. Three CPUs give
compressor 0 two tiles, so its index wraps, and each thread one; two frames are one that
finds every Event as its predecessor left it. Frames up to 9 with every tile size up to 9
have remainders below and above half a tile after no, one and several full tiles. Two pixels
in `Session` are two tiles, one changed and one not, or one tile; the third frame is the
first to be compared after a switch to another kind and back, and the one message the
connection holds lets either end run ahead. The one change of setting is any of those the
code can make, at any point of a frame, and a frame may begin in the middle of it; with the
written subsampling there is the value of JPEG, that of YUV and one that neither has. Two
changes that overlap, by the dialog and from the environment, are beyond TLC together with
three frames: that nothing but the named cases makes the sender throw then as well is
`ThrowsExplained` of section 5, which bounds neither. Three events through two rows let a
row be reused and the ring be overwritten. Three threads let one wait, one die and one
delete, and are as many as there are mutexes to cross; six calls are two each. Five messages
use each slot twice. The proofs of section 5 have none of these bounds.

**Deadlock** is checked except where the program really may stop: `compressors` (the main
thread waits in `stop()` for a thread that threw and ended), `clientwin` (the `Wedged`
Listener), `session` (the sender has thrown or the last frame is drawn; `NoMutualWait` says
it is nothing else) and `fakerlife` (the process is gone). Ended behaviours stutter
explicitly (`Terminated`, `Closed`, `Done`).

**Fairness.** One weak fairness condition per thread: the operating system schedules it, and
a network or X call returns or fails. None on `Readback`, `Destroy`, `Configure`,
`RecvHeader`, `Disconnect`, `NextFrame` or `EndLoop`, which are decisions of the
application, the user or the peer. In `FakerLife` each thread that is inside the faker and
the sender have one each, and calling the faker or `exit()` has none. `Session` and
`EventTrack` have no liveness properties and state no fairness. `Event` has strong fairness
on acquiring the mutex: POSIX does not promise it, but a mutex that starves a thread for
ever while others come and go is not a usable mutex, and no other module relies on more than
that an Event that stays set is taken. `ImplementsEvent` needs it for its liveness part
only.

## 4. Findings

* **Spoiling turned off at run time can still lose frames** (`vgltrans_toggle`).
  `synchronize()` (`server/VGLTrans.cpp:282`) waits for an Event that every frame taken
  sets, with spoiling on as well, and never clears it first. The first `readback()` after
  the switch finds it set and does not wait: it queues its frame behind one that is still
  there. The signal for that older frame lets the second `readback()` through, and its
  `sendFrame()` discards the frame of the first, although both were rendered with spoiling
  off. `doc/advancedconfig.txt:630` promises that turning spoiling off forces every frame to
  be delivered. With spoiling off from the start (`LosslessThroughout`) the promise holds.
* **Interframe comparison and stereo** (`session_interframe`). `Frame::tileEquals()`
  (`common/Frame.cpp:162`) compares the right eyes only if both frames have one, and does
  not ask whether the stereo state changed. A tile whose left eye is unchanged is not sent
  when the application goes from mono to stereo or back, and the client, which starts or
  stops stereo with the images it gets (`client/ClientWin.cpp:178-196`), shows a frame
  whose right eye is missing, or stays in stereo with a stale one. `ChangeLog.md:1386` says
  interframe comparison "now works properly with stereo image pairs". Without interframe
  comparison, or without such a switch, the window shows what was rendered (`FrameShown`).

Seen while reading, without a run: `VGL_XCBX11LIB` is stored in `xcbkeysymslib`
(`server/fakerconfig.cpp:472`); `XVTrans.cpp:49` throws a string literal that no `catch`
expects (unreachable: the sender gets no frame only while the transport is destroyed,
`ControlInv`). A `spoil()` between the token and the lock of a `get()`
(`util/GenericQ.cpp:99`) leaves the older entry, so that "spoil first" delivers not quite
the most recently rendered frame of `doc/advancedconfig.txt:650`; order is never violated.
`sendXV()` throws after `getFrame()` and loses the buffer. `safeExit()` may close
`globalLog` twice (`server/faker.cpp:63`).

## 5. The proofs

`VGLTransProofs`, for any pool of at least four frames, any set of spoil modes, with or
without failures, and any `MaxRendered`. None of the safety invariants is inductive as it
stands; `IndInv` is the conjunction of

* `TypeOK`, the types;
* `ControlInv`: flags, lock and held frames as a function of where the threads are;
* `TokenInv`: list length = semaphore + tokens claimed, until the queue is released;
  semaphore <= 1; two entries only when the older is claimed;
* `OwnershipInv`: a frame is not free exactly when one holder has it, and the holders are
  distinct;
* `OrderInv`: frame numbers increase from viewer to sender, queue and application;
* `LosslessInv`: while every frame has waited in `synchronize()`, at most one is owed (queued
  or taken and not signalled), a set `ready` says that none is, and whoever has consumed
  the signal offers the only one.

Each part has its own lemma that a step preserves it, from the parts it needs (`TokenStep`,
`OwnershipStep`, `OrderStep`, `LosslessStep`, and `TypeCorrect` for the first two), resting
on lemmas about `Tail` and `Append` of sequences of distinct frames. `PoolSuffices` counts:
at `getFrame` the non-free frames are among two queued entries, `f` and `lastf`, and with
`f` in hand at most one is queued; that makes at most three. The theorems
then follow: `PoolSuffices`, `NoFrameShared`, `ComparisonSound`, `SpoilingOffLosesNothing`,
the action property `NeverBackwards`, and `QueueNeverEmpty`: whoever takes a token finds
an entry, so that the `throw` of `GenericQ::get()`, which the model leaves out of `QPop`,
is indeed never reached.

`StepsAreTheChannels` is the safety half of `ImplementsChannel`: `Spec` implies
`Channel!ChannelSafety`, the specification of `FrameChannel` without its fairness. Its
`pending` is the frame the sender has in hand followed by the numbers of the queued frames
(`Mapped`), so each step that touches the list needs a fact about mapped lists: taking the
oldest entry removes it from `pending` (`SpoilOldest`, a `Spoil` of the first or second) or
moves it into the sender's hand (a stutter); `SpoilAdd` appends. Each action is shown to be
one step of the channel or a stutter. Two facts about the whole behaviour enter:
`OrderInv`, which says what number is published or delivered, and `ModeInv`, that frames
which have all waited are never spoiled, because `FrameChannel` allows a loss only where
spoiling may be on.

`X11TransProofs`, for any pool of at least three frames, any sets of spoil and sync modes,
with or without failures. `IndInv` is `TypeOK`, `ControlInv`, `TokenInv` (as above),
`FramesDisjoint`, which is inductive once the others are given, and two about frames drawn
by the caller. `DirectInv`, for any changes of `fconfig.sync`: what is queued, in the
worker's hands or in the window is newer than the last such frame or was under way when
it was drawn, and what the application is about to add is newer. `SyncInv`: as long as
`fconfig.sync` stays set, nothing is queued, the worker has no frame, and the caller's
frame is the last rendered except during its own redraw. From these follow
`PoolSuffices`, `NoFrameShared`, `SyncIsFinal` and `QueueNeverEmpty`. The step simulation
`StepsAreTheChannels` has two cases everywhere, the way through the queue and the way past
it (`Direct`), and needs two more invariants: `OfferInv`, that the buffer offered holds the
frame rendered last and that the mode a call has read is the one in force, and `PaidInv`,
that without spoiling each signal of `ready` pays for one frame, whether the worker, the
caller's redraw or the exception gives it. Once `fconfig.sync` has changed under a frame
the mapping is constant: the code promises nothing there.

`CompressorsProofs`, for any number of CPUs and tiles and any failures. `LoopInv` keeps the
main thread's index within its loops; `RendezvousInv` says that a thread that has been
told to `go()` is in exactly one of three states, `ready` set, at work, or `complete` set,
and that all others are in none; `StoredInv`, that a compressed tile lies only in the list
of a thread that is out and past `ready`, or whose list is being sent, and is of the
present picture. `NoStrayCompression` follows from these. `NoTileMissing` needs
`DeliveryInv`: a tile the client does not have is still to be looked at by the thread its
number belongs to, or is compressed and unsent. It is proved tile by tile (`Delivered`).

`ClientWinProofs`, for either kind of image or both and any number of messages.
`OwnershipInv`: a slot that is not free is with the Listener, in the queue or with the
worker, and in one of these only, though the Listener holds its slot across the images of
two eyes. `OrderInv`: while the worker lives, what it has in hand, what is queued and what
is being filled are numbered on from the image drawn last to the one received last,
without a gap. Hence `SlotsNotShared`, `NoInvalidImage`, `QueueNeverEmpty` and the action
property `NoImageSkipped`.

`VirtualWinProofs`, for any sizes, any FB configs and any number of resizes. The module's
three invariants are about a drawable that two threads replace, and none is inductive:

* `CallInv`: what each point of an interposed call has in its locals;
* `DrawableInv`: there is a drawable once `init()` has run, and the ancestor that is kept
  exists, differs from it, and is there only while a call is between `update` and `cleanup`;
* `BoundInv`: what is bound, and what is about to be bound, is the window's drawable,
  unless a resize came between the two `updateGLXDrawable()` of the call or GLX refused to
  bind it; a stale drawable, still bound, is never mistaken for the window's;
* `LeakInv`: at most one drawable is neither current nor ancestor for each such call;
* `EventInv`: the last event that is queued, or in the hand of the thread handling it,
  tells the size the window has;
* `ResizeInv`: unless an event is on its way, or a request that will change the window
  and so cause one, the drawable has the window's size or will get it with the next update.

The identities of drawables are fresh: the model takes the least unused number, and
`NewNameIsFresh` proves, by counting and well-foundedness, that there is one among those it
looks at. `OwnDrawableIsCurrent`, `ReplacedIsDestroyed` and `DrawableFollowsWindow` follow.
That `ResizeInv` had to speak of requests in flight, and not of events only, shows where the
argument lies: the application's `XResizeWindow()` changes the drawable before the server
has seen the request, and it is the server's event, if the request has an effect, or the
lack of one, if it has none, that makes the two agree in the end.

`SessionProofs` has three parts.

*Tiling*, for frames and tiles of any size and any number of compressors. The two loops of
`compressSend()` are a recursive function, and what it computes for every size needs an
induction. The library's induction theorems take an operator as a parameter, which no
backend can instantiate; `SetInduction` puts a set in its place: a set of numbers that has
0 and with each number the next has them all, since the order of the numbers is well-founded
and what is missing has a least element (`LeastNumber`). With it `LoopIsDefined` shows that
the function is what its equation says, `LoopCuts` that the cuts of one dimension stay
within it, do not overlap, and leave out no pixel. Rows times columns are a numbering by division with remainder
(`NumberOfTile`, `TileOfNumber`), whose remainder by the number of compressors is the rank
(`RankTakes`). `FrameCutExactly` puts these together; `FramesAreCutExactly` is `ExactCut`,
and `TilesPartition` is that for every state of `Session`.

*Session*, for any versions at the two ends, any images, tile sizes, windows and bounds.
Headers are understood because both ends are always in the same phase (`ProtocolInv`):
`Untouched`; `Asking`, in which either the question, a CTS or a version is the only thing
under way; `TalkOld`, in which only v1.0 headers and CTS bytes are; or `TalkNew`, in which
the server's version comes before any header, and is either still to be read (`Announced`)
or not (`Agreed`). `HeadersUnderstood` follows from that and the formats of the messages
`compressSend()` makes (`MessagesMade`, by induction over its rounds). `ThrowInv`
follows the subsampling from the two assignments of `fconfig_setcompress()`, by any number
of processes at once, through `readback()` to the frame; `ThrowsExplained` is its last
conjunct.

`FrameIsShown` is about pixels, and rests on `ShowInv`. It sees the messages in the
connection and in the client's queue as one sequence (`Flight`), and every step of the
specification as one of a dozen things that can happen to it (`AnyStep`, `Steps`): `Quiet`,
some messages `Added` at its end, one `Received` or one `Drawn`. What those two do to the
window is proved once, from `addWindow()`, `drawFrame()` and the decompression
(`ReceiveSummary`, `DrawSummary`). The parts of `ShowInv` are

* `WinType`, `BufferOK`, `ControlInv`, `OpenInv`, `NumberInv`: types, that the buffer is of
  the kind the window draws with, the order of the sender's steps, that the window is made
  by an image, and that the ends of frame on their way are numbered in order;
* `SaidInv`, the main part: each pixel the window is owed (`Due`) is in a message on its way,
  or in the buffer, no later message says otherwise, and the window has, or will have by
  then, the eyes for it. Compressing relies on the cut: a pixel of a compressor's tiles is
  in what it sends, or is as the last frame left it (`Sends`);
* `KindInv` and `SteadyInv`, which `SaidInv` needs at one place (`EndKeepsStereo`): an end of
  frame is read into a slot that still has the right-eye header of an earlier image, and
  `drawFrame()` looks at that (`client/ClientWin.cpp:181`). No harm comes of it in the
  behaviours that `FrameShown` speaks of: either all frames are of one kind, or all their
  tiles are sent, and then the slot held an image of the same frame (`MoreTiles`) or never
  one at all (`OneTile`), since the two slots take turns;
* `WholeInv`, the same for YUV images, which do not go through the buffer, and `ShownInv`,
  that what is drawn last is the last frame.

`NobodyWaitsForever` is `[]SomebodyMoves`. While the sender asks for the version, the
question or the answer is under way (`Asking`); while it waits for a CTS, that or the end of
frame which the CTS answers (`AnswerInv`); and when it is idle and nothing is under way, all
is drawn (`NumberInv`).

*Event*, for any disjoint sets of waiters and signallers. `TypeOK /\ NoLostWakeup
/\ PolledIsFree` is inductive: each conjunct is preserved, action by action, given
`TypeOK`, whose last part says that the mutex is held exactly between lock and unlock. The
theorem `StepsAreAtomic` shows that every step maps to a step or a stutter of `EventSpec`,
the safety part of `ImplementsEvent`.

`FakerProofs` has two.

*EventTrack*, for a table of any size and any number of events and frames. `NothingForgotten`
is inductive (`WayInv`) only without the places that say nothing of an event: what
`glXSwapBuffers()` leaves in `tmp_index` when it returns, and `shift_event_index` where
`onque_event_index` holds the same (`PlaceInv`). `StampsInOrder` and `TakenOnce` need to
know how far each event is. `StageInv` gives every place that can hold an index a stage,
and every stage its stamps: `Lined` in the queue, `Popped` once taken, `Shown` once its
frame is read back, `Drawn` once reported; that no two places hold the same row is part of
it. It excepts the behaviours that the properties except, with the same two flags. The
stamp after the readback can hit a row that has gone to another event, so every stage leaves
it out, as `StampsInOrder` does. `EventsAreTakenOnce` is an action property: what is taken
is newer than all that was, because what is in the queue is.

*FakerLife*, for any set of threads and any number of calls. `InsideIsSafe` becomes
inductive with `LockInv`, in which places a thread must have which lock, and `LifeInv`: what
is in the hash is alive, what is about to be deleted has left it, and what is being made
is not there yet. The destructor then waits for `winMutex`, so nobody else is inside when it
goes on (`EndStep`); a thread that dies inside of a missing function has left `readback()`
for good when it deletes the window itself.

`SequenceFacts` holds what the proofs about the queues share: what `Tail` and `Append` do to
a list, its range and its injectivity, how many things a list of two or a few names can
stand for, and the same for lists mapped to frame numbers, with or without one in hand.

The assumptions are those of the modules (`EventAssumption`, `PoolAssumption`,
`ModeAssumption`, `X11PoolAssumption`, `X11ModeAssumption`, `CompressorsAssumption`,
`ClientAssumption`, `SlotAssumption`, `VirtualWinAssumption`, `FakerAssumption`,
`TilingAssumption`, `SessionAssumption`, `TrackAssumption`); TLC
evaluates them in every run. They bound pools from below by the code's `NFRAMES`, and
otherwise give constants their types.

**Only model-checked:**

* all liveness properties, which need fairness and `ENABLED` and are out of the prover's
  reach: with them the liveness halves of `ImplementsEvent` and `ImplementsChannel`;
* the first conjunct of `NoMutualWait` of `Session`, that `CanMove`, of which the theorem
  speaks, is `ENABLED` of the threads' actions.

## 6. What is not modelled, and why

* Codecs and pixel formats: data. In `Compressors` which tiles changed is an input, in
  `Session` a tile's pixels arrive as they were. The faker of `Session` runs on a
  little-endian machine, where only RGB frames have the pixel format `PF_RGB`. The check and
  the assignment of the subsampling in `fconfig_setcompress()` are one step.
* `connect()`'s parsing of the receiver's name; the accept loop and table of several windows.
  A lost connection is a failing send (server) or `Disconnect` (client).
* The older peers of `Session`: no v1.0 or v2.0 program is in this repository. They are
  taken to do what the code for their sake in `sendHeader()` and `Listener::run()` expects.
* The 2D X server, in `EventTrack` the fork's own: modelled from how the faker uses the table.
* After `run()` of the VGL Transport has thrown, its compressor threads are left behind;
  `Compressors` stops at `failed` and says nothing about them.
* Choosing among several transports per `readback()`, plugins, `sendXV`, `wmDelete`.
* `init()`, `safeInit()` and the loading of `fconfig`: their races concern the first call
  only and end in reads of half-initialised memory.
* In `VirtualWin`: other windows and threads that share the drawable, the contents of
  drawables (`clear`, swap, readback), the readback context, `glXCreateWindow`. With
  `fconfig.wm` set neither event route exists; such a window is resized by nobody else.
* In `FakerLife`: one symbol stands for the functions that are first called at the same
  place, and functions that delete a thing are not missing where those that make it are not.
* Destroying a POSIX object in use, allocation failure, thread creation failure.
* Plugins, visuals, demos, dialog, vendored code, and the interposers that only translate
  arguments: not the program's own concurrent core; what they trigger is an input of the
  modelled parts.

## 7. Plan

Done, in this order: `Event`; `GenericQ` and `VGLTrans` with `FrameChannel`; proofs of
both; `X11Trans`; `Compressors` and `Tiling`; `ClientWin`; `VirtualWin`; `Session`;
`EventTrack`; `FakerLife` and its proof; the proof of losslessness; the proofs of
`X11Trans`, `Compressors`, `ClientWin` and `VirtualWin`; the step simulation of
`FrameChannel` by both transports; the proofs of `EventTrack`, `Tiling` and `Session`.
Every safety property that a passing run checks is proved, but for the conjunct named above.

Left is more of the system: the readback context across FB configs
(`server/VirtualDrawable.cpp:252` against `VirtualWin.cpp:169`), the window manager's
delete request, and the exceptions of `VirtualWin`'s methods.
