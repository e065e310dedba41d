----------------------------- MODULE FakerLife ------------------------------
(***************************************************************************)
(* How windows and the faker end (server/faker.cpp, faker.h, WindowHash.h,  *)
(* Hash.h, VirtualWin.cpp).  Threads of the application find a window's     *)
(* VirtualWin in the hash and read it back, another destroys the window; an *)
(* exception ends in CATCH, DIE and safeExit(), which destroys the hashes   *)
(* and what is in them while the other threads run on.  The window is the   *)
(* only one of its hash; how its transport delivers frames is the business  *)
(* of VGLTrans, here it can be connected, unconnected or failed.            *)
(*                                                                         *)
(* Every function of the real GL, GLX and X libraries is looked up when it  *)
(* is first called (CHECKSYM, faker-sym.h), under the same mutex that       *)
(* safeExit() holds while it cleans up, and whatever locks the caller has.  *)
(* The mutexes are recursive: who has one may take it again.                *)
(***************************************************************************)
EXTENDS Naturals

CONSTANTS Thread,    \* threads of the application
          None,      \* nobody holds the lock
          MaxCalls   \* bound: calls into the faker

ASSUME FakerAssumption == None \notin Thread /\ MaxCalls \in Nat

VARIABLES
    pc,              \* where each thread is
    calls,           \* calls made so far
    deadYet,         \* vglfaker::deadYet
    globalMutex, hashMutex, winMutex,   \* who holds them
    entry,           \* the window is in WindowHash and has a VirtualWin
    win,             \* that VirtualWin: "none", "alive" or "deleted"
    loaded,          \* which functions have been looked up, by their use:
                     \* to "make" a VirtualWin, "read" it back, "delete" it
    conn,            \* vglconn: "none", "unconnected", "running", "failed"
    ready,           \* VGLTrans::ready of that connection
    process          \* "running" or "exited"

window == <<entry, win, conn, ready>>
locks == <<globalMutex, hashMutex, winMutex>>
vars == <<pc, calls, deadYet, locks, loaded, window, process>>

Init ==
    /\ pc = [t \in Thread |-> "idle"] /\ calls = 0 /\ deadYet = FALSE
    /\ globalMutex = None /\ hashMutex = None /\ winMutex = None
    /\ loaded = {} /\ entry = FALSE /\ win = "none" /\ conn = "none" /\ ready = TRUE
    /\ process = "running"

(* What a thread may take of a recursive mutex, and what it leaves of those  *)
(* it holds when its stack is unwound.                                       *)
Free(mutex, t) == mutex \in {None, t}
Without(mutex, t) == IF mutex = t THEN None ELSE mutex

Goto(t, place) == process = "running" /\ pc' = [pc EXCEPT ![t] = place]

-----------------------------------------------------------------------------
(* Calls of the application *)

(* A call into the faker passes isExcluded(), and takes the hash's lock.     *)
Call(t) ==
    /\ pc[t] = "idle" /\ ~deadYet /\ calls < MaxCalls /\ hashMutex = None
    /\ calls' = calls + 1
    /\ UNCHANGED <<deadYet, globalMutex, winMutex, loaded, conn, ready, process>>

(* glXMakeCurrent() of a new window: initVW() makes its VirtualWin, with the *)
(* hash locked.                                                              *)
initVW(t) ==
    /\ Call(t) /\ Goto(t, "make")
    /\ win = "none" /\ hashMutex' = t
    /\ UNCHANGED <<entry, win>>

Made(t) ==
    /\ pc[t] = "make" /\ "make" \in loaded
    /\ Goto(t, "idle")
    /\ win' = "alive" /\ entry' = TRUE /\ hashMutex' = None
    /\ UNCHANGED <<calls, deadYet, globalMutex, winMutex, loaded, conn, ready,
                   process>>

(* The constructor throws, or initFromWindow() after it, with the VirtualWin *)
(* in the hash.                                                              *)
HalfMade == \/ UNCHANGED <<entry, win>>
            \/ entry' = TRUE /\ win' = "alive"

MakeFails(t) ==
    /\ pc[t] = "make"
    /\ Goto(t, "die")
    /\ HalfMade /\ hashMutex' = None
    /\ UNCHANGED <<calls, deadYet, globalMutex, winMutex, loaded, conn, ready,
                   process>>

(* find() by window: its pointer outlives its lock.                          *)
FindWindow(t) ==
    /\ Call(t) /\ Goto(t, "found")
    /\ entry
    /\ UNCHANGED <<hashMutex, entry, win>>

(* find() by drawable, and initVW() of a known window, take the lock of the  *)
(* VirtualWin within that of the hash.                                       *)
FindDrawable(t) ==
    /\ Call(t) /\ Goto(t, "compare")
    /\ entry /\ hashMutex' = t
    /\ UNCHANGED <<entry, win>>

Compared(t) ==
    /\ pc[t] = "compare" /\ winMutex = None
    /\ Goto(t, "found")
    /\ hashMutex' = None
    /\ UNCHANGED <<calls, deadYet, globalMutex, winMutex, loaded, window, process>>

(* XDestroyWindow(): the entry is unlinked, and deleted with the lock held.  *)
Remove(t) ==
    /\ Call(t) /\ Goto(t, "delete")
    /\ entry /\ entry' = FALSE /\ hashMutex' = t
    /\ UNCHANGED win

(* Mutation: the destructor does not take the lock of the VirtualWin.        *)
LockWin_Unlocked(t) ==
    /\ \/ pc[t] = "delete" /\ Goto(t, "deleting")
       \/ pc[t] = "cleanup" /\ Goto(t, "cleaning")
    /\ winMutex' = t
    /\ UNCHANGED <<calls, deadYet, globalMutex, hashMutex, loaded, window, process>>

(* ~VirtualWin() takes its lock, called by XDestroyWindow() or by cleanup(). *)
LockWin(t) ==
    /\ \/ pc[t] = "delete" /\ Goto(t, "deleting")
       \/ pc[t] = "cleanup" /\ Goto(t, "cleaning")
    /\ Free(winMutex, t) /\ winMutex' = t
    /\ UNCHANGED <<calls, deadYet, globalMutex, hashMutex, loaded, window, process>>

(* It deletes drawables and transport, and the object is gone with its lock: *)
(* who still waits for that gets the lock of a deleted object.               *)
Delete(t) ==
    /\ pc[t] \in {"deleting", "cleaning"} /\ "delete" \in loaded
    /\ Goto(t, IF pc[t] = "deleting" THEN "idle" ELSE "exit")
    /\ win' = "deleted" /\ hashMutex' = None /\ winMutex' = None
    /\ UNCHANGED <<calls, deadYet, globalMutex, loaded, entry, conn, ready,
                   process>>

-----------------------------------------------------------------------------
(* CHECKSYM *)

(* Where a thread first needs which functions.                               *)
Needs == [make |-> "make", send |-> "read",
          deleting |-> "delete", cleaning |-> "delete"]

Unloaded(t) == pc[t] \in DOMAIN Needs /\ Needs[pc[t]] \notin loaded

Load(t) ==
    /\ Unloaded(t) /\ Free(globalMutex, t) /\ process = "running"
    /\ loaded' = loaded \cup {Needs[pc[t]]}
    /\ UNCHANGED <<pc, calls, deadYet, locks, window, process>>

(* A function is missing: safeExit() is called on the spot, with the locks.  *)
(* What deletes a thing is found in the library that has made it.            *)
LoadFails(t) ==
    /\ pc[t] \in {"make", "send"} /\ Unloaded(t) /\ Free(globalMutex, t)
    /\ Goto(t, "die")
    /\ IF pc[t] = "make" THEN HalfMade ELSE UNCHANGED <<entry, win>>
    /\ UNCHANGED <<calls, deadYet, locks, loaded, conn, ready, process>>

-----------------------------------------------------------------------------
(* VirtualWin::readback() *)

Enter(t) ==
    /\ pc[t] = "found" /\ winMutex = None
    /\ IF win = "deleted" THEN Goto(t, "stale") /\ UNCHANGED winMutex
       ELSE Goto(t, "readback") /\ winMutex' = t
    /\ UNCHANGED <<calls, deadYet, globalMutex, hashMutex, loaded, window, process>>

(* vglconn is set before it is connected; a set one is used as it is, with   *)
(* frame spoiling at once, without it after synchronize().                   *)
Readback(t) ==
    /\ pc[t] = "readback"
    /\ IF conn = "none" THEN conn' = "unconnected" /\ Goto(t, "connect")
       ELSE UNCHANGED conn /\ (Goto(t, "getFrame") \/ Goto(t, "synchronize"))
    /\ UNCHANGED <<calls, deadYet, locks, loaded, entry, win, ready, process>>

Connected(t) ==
    /\ pc[t] = "connect"
    /\ Goto(t, "readback")
    /\ conn' = "running"
    /\ UNCHANGED <<calls, deadYet, locks, loaded, entry, win, ready, process>>

(* connect() throws: the lock goes, the unconnected vglconn stays.           *)
ConnectFails(t) ==
    /\ pc[t] = "connect"
    /\ Goto(t, "die")
    /\ winMutex' = None
    /\ UNCHANGED <<calls, deadYet, globalMutex, hashMutex, loaded, window, process>>

synchronize(t) ==
    /\ pc[t] = "synchronize" /\ ready
    /\ Goto(t, "getFrame")
    /\ ready' = FALSE
    /\ UNCHANGED <<calls, deadYet, locks, loaded, entry, win, conn, process>>

(* getFrame() throws what the sender has died of.                            *)
getFrame(t) ==
    /\ pc[t] = "getFrame"
    /\ IF conn = "failed" THEN Goto(t, "die") /\ winMutex' = None
                          ELSE Goto(t, "send") /\ UNCHANGED winMutex
    /\ UNCHANGED <<calls, deadYet, globalMutex, hashMutex, loaded, window, process>>

(* readPixels() may throw, and sendFrame() throws what the sender has died   *)
(* of; a transport without a sender takes any number of frames, each         *)
(* spoiling the last.                                                        *)
Send(t) ==
    /\ pc[t] = "send" /\ "read" \in loaded
    /\ Goto(t, "die") \/ (conn # "failed" /\ Goto(t, "idle"))
    /\ winMutex' = None
    /\ UNCHANGED <<calls, deadYet, globalMutex, hashMutex, loaded, window, process>>

(* The sender takes the frame, or fails; either way it signals `ready'.      *)
Sender ==
    /\ conn = "running" /\ win = "alive" /\ process = "running"
    /\ \/ ~ready /\ UNCHANGED conn
       \/ conn' = "failed"
    /\ ready' = TRUE
    /\ UNCHANGED <<pc, calls, deadYet, locks, loaded, entry, win, process>>

-----------------------------------------------------------------------------
(* The end *)

(* Mutation: the second to die leaves the mutex locked.                      *)
safeExit_Locked(t) ==
    /\ pc[t] = "die" /\ Free(globalMutex, t)
    /\ globalMutex' = t
    /\ IF deadYet
       THEN /\ Goto(t, "gone") /\ UNCHANGED deadYet
            /\ hashMutex' = Without(hashMutex, t)
            /\ winMutex' = Without(winMutex, t)
       ELSE Goto(t, "kill") /\ deadYet' = TRUE /\ UNCHANGED <<hashMutex, winMutex>>
    /\ UNCHANGED <<calls, loaded, window, process>>

(* safeExit(): only the first to die cleans up; others end as threads, which *)
(* unwinds their stacks.                                                     *)
safeExit(t) ==
    /\ pc[t] = "die" /\ Free(globalMutex, t)
    /\ IF deadYet
       THEN /\ Goto(t, "gone") /\ UNCHANGED <<deadYet, globalMutex>>
            /\ hashMutex' = Without(hashMutex, t)
            /\ winMutex' = Without(winMutex, t)
       ELSE /\ Goto(t, "kill") /\ deadYet' = TRUE /\ globalMutex' = t
            /\ UNCHANGED <<hashMutex, winMutex>>
    /\ UNCHANGED <<calls, loaded, window, process>>

(* cleanup(): winhash.kill() takes the hash's lock and deletes its entries.  *)
Kill(t) ==
    /\ pc[t] = "kill" /\ Free(hashMutex, t)
    /\ IF entry THEN Goto(t, "cleanup") /\ entry' = FALSE /\ hashMutex' = t
       ELSE Goto(t, "exit") /\ UNCHANGED <<entry, hashMutex>>
    /\ UNCHANGED <<calls, deadYet, globalMutex, winMutex, loaded, win, conn, ready,
                   process>>

(* globalMutex.unlock() and exit()                                           *)
Unlock(t) ==
    /\ pc[t] = "exit"
    /\ Goto(t, "atexit")
    /\ globalMutex' = None
    /\ UNCHANGED <<calls, deadYet, hashMutex, winMutex, loaded, window, process>>

(* The application itself calls exit().                                      *)
ExitCalled(t) ==
    /\ pc[t] = "idle"
    /\ Goto(t, "atexit")
    /\ UNCHANGED <<calls, deadYet, locks, loaded, window, process>>

(* ~GlobalCleanup() locks once more; then the process is gone.               *)
GlobalCleanup(t) ==
    /\ pc[t] = "atexit" /\ Free(globalMutex, t)
    /\ Goto(t, "gone")
    /\ deadYet' = TRUE /\ process' = "exited"
    /\ UNCHANGED <<calls, locks, loaded, window>>

-----------------------------------------------------------------------------
(* A thread that is in the faker goes on as long as its locks let it.        *)
Progress(t) ==
    \/ Made(t) \/ MakeFails(t) \/ Compared(t) \/ LockWin(t) \/ Delete(t)
    \/ Load(t) \/ LoadFails(t) \/ Enter(t) \/ Readback(t)
    \/ Connected(t) \/ ConnectFails(t) \/ synchronize(t) \/ getFrame(t) \/ Send(t)
    \/ safeExit(t) \/ Kill(t) \/ Unlock(t) \/ GlobalCleanup(t)

Next ==
    \/ \E t \in Thread : \/ initVW(t) \/ FindWindow(t) \/ FindDrawable(t)
                         \/ Remove(t) \/ ExitCalled(t) \/ Progress(t)
    \/ Sender

Spec == /\ Init /\ [][Next]_vars
        /\ \A t \in Thread : WF_vars(Progress(t))
        /\ WF_vars(Sender)

-----------------------------------------------------------------------------
(* Properties *)

Inside == {"readback", "connect", "synchronize", "getFrame", "send"}

(* Whoever is inside readback() is alone in it, and neither XDestroyWindow() *)
(* nor the end of the faker takes the VirtualWin away before it is done.     *)
InsideIsSafe ==
    \A t \in Thread :
        pc[t] \in Inside /\ process = "running" => winMutex = t /\ win = "alive"

(* A thread waits, with the lock, for a sender that was never started, or    *)
(* for one whose last signal another thread has taken.                       *)
Wedged == \E t \in Thread : /\ pc[t] = "synchronize" /\ ~ready
                           /\ conn \in {"unconnected", "failed"}

(* A thread has used a VirtualWin deleted after it was found.                *)
Stale == \E t \in Thread : pc[t] = "stale"

(* Thread t cannot go on until u gives up a lock.                            *)
WaitsFor(t, u) ==
    /\ t # u
    /\ \/ u = winMutex /\ pc[t] \in {"compare", "found", "delete", "cleanup"}
       \/ u = hashMutex /\ pc[t] = "kill"
       \/ u = globalMutex /\ (pc[t] \in {"die", "atexit"} \/ Unloaded(t))

(* Threads that hold locks wait for each other in a circle: one has the      *)
(* mutex of safeExit() and cleans up, another the lock of the hash or of the *)
(* VirtualWin, and calls for the first time a function of a real library,    *)
(* or dies for want of one.                                                  *)
Crossed ==
    \E t, u \in Thread :
        /\ WaitsFor(t, u)
        /\ WaitsFor(u, t) \/ \E v \in Thread : WaitsFor(u, v) /\ WaitsFor(v, t)

(* When a thread dies of an exception, or the application calls exit(), the  *)
(* process ends, unless another thread waits for a frame to be taken from a  *)
(* transport that is not, or no longer, sending, or used a deleted           *)
(* VirtualWin, or the locks are taken crosswise.                             *)
ExitCompletes ==
    \A t \in Thread :
        pc[t] \in {"die", "kill", "atexit"}
            ~> process = "exited" \/ Wedged \/ Stale \/ Crossed
=============================================================================
