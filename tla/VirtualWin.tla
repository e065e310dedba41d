----------------------------- MODULE VirtualWin -----------------------------
(***************************************************************************)
(* The off-screen drawable behind one window (server/VirtualWin.cpp, and    *)
(* the interposed functions in faker-gl.cpp, faker-glx.cpp and faker-x11.cpp *)
(* that drive it).  The window's size changes at the 2D X server, at the    *)
(* request of the application or of its user; the application's X thread    *)
(* learns of it from its own requests and from ConfigureNotify events and   *)
(* leaves the new size with resize(); the rendering thread exchanges the    *)
(* drawable when it next calls glXMake[Context]Current() or glViewport().   *)
(* Each method locks VirtualWin::mutex and is one step; two methods in a row *)
(* are two.  A size is a pair <<width, height>>.                            *)
(***************************************************************************)
EXTENDS Integers, Sequences, FiniteSets, FiniteSetsExt

CONSTANTS FirstSize,   \* the window's size at first
          UserSizes,   \* sizes the user gives it
          Requests,    \* sizes the application asks for, 0 = left alone
          Configs,     \* FB configs of the application's contexts
          MaxResizes,  \* bound: requests and user actions that may resize
          MaxRefused   \* bound: times GLX refuses to bind a new drawable

NoConfig == "none"     \* a window that has not been made current

ASSUME VirtualWinAssumption ==
    /\ {FirstSize} \cup UserSizes \subseteq (Nat \ {0}) \X (Nat \ {0})
    /\ Requests \subseteq Nat \X Nat
    /\ Configs # {} /\ NoConfig \notin Configs
    /\ MaxResizes \in Nat /\ MaxRefused \in Nat

VARIABLES
    drawables,         \* the OGLDrawables that exist: id -> size and config
    oglDraw, oldDraw,  \* the drawable, its most recent ancestor; 0 = NULL
    newSize,           \* <<newWidth, newHeight>>
    config, newConfig,
    eventdpy,          \* the application does not select ConfigureNotify
    selected,          \* the server knows who wants ConfigureNotify
    rPc, call, callConfig,   \* the rendering thread, its call and FB config
    draw, read,        \* its current drawables; 0 = none
    newDraw, newRead,  \* the call's locals
    drawVW, readVW,    \* whether winhash.find() found draw and read
    rEvent,            \* the event in checkResize()
    xPc, xArg,         \* the X thread, size requested or notified
    requests,          \* sent and not yet served; 0 = dimension left alone
    events,            \* ConfigureNotify events not yet read
    winSize,           \* the window's size at the 2D X server
    resizes,
    between,           \* history: a resize() came between two updates
    refused,           \* times GLX has refused to bind a new drawable
    unbound,           \* history: it did so the last time
    splits,            \* history: calls that exchanged the drawable twice
    partial, unseen    \* history: see NoResizeLost

locals == <<call, callConfig, newDraw, newRead, drawVW, readVW, rEvent>>
vwin == <<drawables, oglDraw, oldDraw, config, newConfig>>
rendering == <<rPc, draw, read, locals>>
xthread == <<xPc, xArg>>
server == <<requests, events, winSize, resizes, selected, eventdpy>>
history == <<between, refused, unbound, splits, partial, unseen>>
vars == <<vwin, newSize, rendering, xthread, server, history>>

NoSize == <<-1, -1>>

(* The window exists; the VirtualWin does not, until it is made current.     *)
Init ==
    /\ drawables = <<>> /\ oglDraw = 0 /\ oldDraw = 0 /\ newSize = NoSize
    /\ config = NoConfig /\ newConfig = FALSE
    /\ eventdpy \in BOOLEAN /\ selected = ~eventdpy
    /\ rPc = "idle" /\ call = "none" /\ callConfig = NoConfig
    /\ draw = 0 /\ read = 0 /\ newDraw = 0 /\ newRead = 0
    /\ drawVW = FALSE /\ readVW = FALSE /\ rEvent = NoSize
    /\ xPc = "idle" /\ xArg = NoSize
    /\ requests = <<>> /\ events = <<>> /\ resizes = 0
    /\ winSize = FirstSize
    /\ between = FALSE /\ unbound = FALSE
    /\ splits = 0 /\ refused = 0 /\ partial = FALSE /\ unseen = FALSE

Live == DOMAIN drawables

-----------------------------------------------------------------------------
(* Methods of VirtualWin *)

(* What the history keeps of a resize() to a size                            *)
Noted(size, own) ==
    LET whole == 0 \notin {size[1], size[2]}
    IN  /\ partial' = (~whole /\ (partial \/ \E k \in 1 .. 2 :
                           size[k] = 0 /\ newSize[k] \notin {-1, own[k]}))
        /\ unseen' = (unseen /\ ~whole)

(* Mutation: a size the drawable has already is ignored, and a resize that   *)
(* is pending stays so.                                                      *)
resize_Keeps(size) ==
    LET own  == drawables[oglDraw].size
        full == [k \in 1 .. 2 |-> IF size[k] = 0 THEN own[k] ELSE size[k]]
    IN  /\ newSize' = IF full = own THEN newSize ELSE full
        /\ Noted(size, own)

(* VirtualWin::resize(): a dimension given as 0 is taken from the drawable,  *)
(* not from a resize that is pending.                                        *)
resize(size) ==
    LET own  == drawables[oglDraw].size
        full == [k \in 1 .. 2 |-> IF size[k] = 0 THEN own[k] ELSE size[k]]
    IN  /\ newSize' = IF full = own THEN NoSize ELSE full
        /\ Noted(size, own)

(* VirtualDrawable::init() with a new drawable d                             *)
NewDrawable(size, conf, d) ==
    /\ d = Min((1 .. Cardinality(Live) + 3) \ (Live \cup {draw, read}))
    /\ drawables' = [k \in Live \cup {d} |->
                        IF k = d THEN [size |-> size, config |-> conf]
                        ELSE drawables[k]]
    /\ oglDraw' = d

(* VirtualWin::updateGLXDrawable(), which returns oglDraw'                   *)
updateGLXDrawable ==
    LET own  == drawables[oglDraw]
        size == IF newConfig /\ newSize = NoSize THEN own.size ELSE newSize
    IN  /\ newConfig' = FALSE /\ newSize' = NoSize
        /\ IF size = NoSize \/ own = [size |-> size, config |-> config]
           THEN UNCHANGED <<drawables, oglDraw, oldDraw>>
           ELSE /\ \E d \in 1 .. Cardinality(Live) + 3 :
                       NewDrawable(size, config, d)
                /\ oldDraw' = oglDraw
        /\ UNCHANGED config

(* VirtualWin::cleanup()                                                     *)
cleanup == /\ drawables' = [k \in Live \ {oldDraw} |-> drawables[k]]
           /\ oldDraw' = 0

-----------------------------------------------------------------------------
(* The rendering thread *)

Locals(fn, conf, d, r, dVW, rVW) ==
    /\ call' = fn /\ callConfig' = conf /\ rEvent' = NoSize
    /\ newDraw' = d /\ newRead' = r /\ drawVW' = dVW /\ readVW' = rVW

Return == rPc' = "idle" /\ Locals("none", NoConfig, 0, 0, FALSE, FALSE)

(* glXMakeCurrent(dpy, win, ctx), or glXMakeContextCurrent(dpy, win, win,    *)
(* ctx) with a context of FB config c                                        *)
MakeCurrent(fn, c) ==
    /\ rPc = "idle" /\ rPc' = "initVW"
    /\ Locals(fn, c, 0, 0, TRUE, fn = "glXMakeContextCurrent")
    /\ UNCHANGED <<vwin, newSize, draw, read, xthread, server, history>>

(* glXMakeCurrent(dpy, 0, 0), or another window is made current              *)
MakeNoneCurrent ==
    /\ rPc = "idle" /\ draw # 0
    /\ draw' = 0 /\ read' = 0
    /\ UNCHANGED <<vwin, newSize, rPc, locals, xthread, server, history>>

(* WindowHash::initVW(), under the mutex of the hash: the VirtualWin is made *)
(* and initFromWindow() asks for the window's size after an XSync(); or      *)
(* checkConfig().                                                            *)
initVW ==
    /\ rPc = "initVW" /\ rPc' = "update"
    /\ \/ /\ oglDraw = 0 /\ requests = <<>>
          /\ NewDrawable(winSize, callConfig, 1)
          /\ config' = callConfig
          /\ UNCHANGED newConfig
       \/ /\ oglDraw # 0
          /\ config' = callConfig
          /\ newConfig' = (newConfig \/ callConfig # config)
          /\ UNCHANGED <<drawables, oglDraw>>
    /\ UNCHANGED <<oldDraw, newSize, draw, read, locals, xthread, server,
                   history>>

(* glViewport(): the current drawables are looked up in the hash.            *)
glViewport ==
    /\ rPc = "idle" /\ draw # 0
    /\ Locals("glViewport", NoConfig, draw, read,
              draw = oglDraw, read = oglDraw)
    /\ rPc' = IF oglDraw \notin {draw, read} THEN "bind"
              ELSE IF eventdpy THEN "sync" ELSE "update"
    /\ UNCHANGED <<vwin, newSize, draw, read, xthread, server, history>>

(* checkResize(): XSync(dpy), then XPending(eventdpy), which first sends     *)
(* what XSelectInput(eventdpy) has left in its buffer.                       *)
checkResize ==
    /\ rPc = "sync" /\ requests = <<>> /\ rPc' = "drain"
    /\ selected' = TRUE
    /\ UNCHANGED <<vwin, newSize, draw, read, locals, xthread, requests,
                   events, winSize, resizes, eventdpy, history>>

(* while(XPending(eventdpy) > 0) ...                                         *)
Drain ==
    /\ rPc = "drain"
    /\ \/ /\ events = <<>> /\ rPc' = "update"
          /\ UNCHANGED <<rEvent, events>>
       \/ /\ events # <<>> /\ rPc' = "drained"
          /\ rEvent' = Head(events) /\ events' = Tail(events)
    /\ UNCHANGED <<vwin, newSize, call, callConfig, draw, read, newDraw,
                   newRead, drawVW, readVW, xthread, requests, winSize,
                   resizes, selected, eventdpy, history>>

Drained ==
    /\ rPc = "drained" /\ rPc' = "drain"
    /\ resize(rEvent) /\ rEvent' = NoSize
    /\ UNCHANGED <<vwin, call, callConfig, draw, read, newDraw, newRead,
                   drawVW, readVW, xthread, server, between, refused, unbound,
                   splits>>

(* Mutation: glViewport() exchanges the draw drawable only.                  *)
UpdateDraw_Only ==
    /\ rPc = "update"
    /\ rPc' = IF readVW /\ call # "glViewport" THEN "updateRead" ELSE "bind"
    /\ IF drawVW THEN updateGLXDrawable /\ newDraw' = oglDraw'
                 ELSE UNCHANGED <<vwin, newSize, newDraw>>
    /\ newRead' = IF call = "glXMakeCurrent" THEN newDraw' ELSE newRead
    /\ UNCHANGED <<call, callConfig, draw, read, drawVW, readVW, rEvent,
                   xthread, server, history>>

(* newDraw = drawVW->updateGLXDrawable()                                     *)
UpdateDraw ==
    /\ rPc = "update"
    /\ rPc' = IF readVW THEN "updateRead" ELSE "bind"
    /\ IF drawVW THEN updateGLXDrawable /\ newDraw' = oglDraw'
                 ELSE UNCHANGED <<vwin, newSize, newDraw>>
    /\ newRead' = IF call = "glXMakeCurrent" THEN newDraw' ELSE newRead
    /\ UNCHANGED <<call, callConfig, draw, read, drawVW, readVW, rEvent,
                   xthread, server, history>>

(* newRead = readVW->updateGLXDrawable(), of the same VirtualWin; before it  *)
(* glXMakeContextCurrent() calls initVW() again, with the same FB config.    *)
UpdateRead ==
    /\ rPc = "updateRead" /\ rPc' = "bind"
    /\ updateGLXDrawable /\ newRead' = oglDraw'
    /\ splits' = IF drawVW /\ newRead' # newDraw THEN splits + 1 ELSE splits
    /\ UNCHANGED <<call, callConfig, draw, read, newDraw, drawVW, readVW,
                   rEvent, xthread, server, between, refused, unbound, partial,
                   unseen>>

(* _glXMakeContextCurrent(), which glViewport() only calls for a change.  It *)
(* may return False, which neither glViewport() nor the others look at; when *)
(* nothing changes, that is like success.                                    *)
Bind ==
    /\ rPc = "bind"
    /\ IF call = "glViewport" /\ newDraw = draw /\ newRead = read
       THEN Return /\ UNCHANGED <<draw, read, between, refused, unbound>>
       ELSE /\ rPc' = "cleanup" /\ UNCHANGED locals
            /\ \/ /\ draw' = newDraw /\ read' = newRead
                  /\ between' = (between /\ newDraw # newRead)
                  /\ unbound' = FALSE /\ UNCHANGED refused
               \/ /\ <<newDraw, newRead>> # <<draw, read>>
                  /\ refused < MaxRefused /\ refused' = refused + 1
                  /\ unbound' = TRUE
                  /\ UNCHANGED <<draw, read, between>>
    /\ UNCHANGED <<vwin, newSize, xthread, server, splits, partial, unseen>>

(* Mutation: glXMakeCurrent() leaves the ancestor to the next glViewport().  *)
Cleanup_Lazy ==
    /\ rPc = "cleanup" /\ Return
    /\ IF call = "glViewport" THEN cleanup ELSE UNCHANGED <<drawables, oldDraw>>
    /\ UNCHANGED <<oglDraw, config, newConfig, newSize, draw, read, xthread,
                   server, history>>

(* clear() and cleanup(), by glViewport() on the VirtualWin it found before, *)
(* by the others on the one that has the drawable they were binding          *)
Cleanup ==
    /\ rPc = "cleanup" /\ Return
    /\ IF call = "glViewport" \/ oglDraw \in {newDraw, newRead}
       THEN cleanup ELSE UNCHANGED <<drawables, oldDraw>>
    /\ UNCHANGED <<oglDraw, config, newConfig, newSize, draw, read, xthread,
                   server, history>>

-----------------------------------------------------------------------------
(* The application's X thread *)

(* A resize() of the X thread, which finds the window if it was made current *)
ResizeFound(size) ==
    /\ IF oglDraw = 0 THEN UNCHANGED <<newSize, partial, unseen>>
                      ELSE resize(size)
    /\ between' = (between \/ (rPc = "updateRead" /\ newSize' # NoSize))
    /\ UNCHANGED <<vwin, rendering, refused, unbound, splits>>

(* XResizeWindow(), XMoveResizeWindow() and XConfigureWindow(), the last     *)
(* with 0 for what it leaves alone                                           *)
XConfigureWindow(size) ==
    /\ xPc = "idle" /\ resizes < MaxResizes
    /\ xPc' = "request" /\ xArg' = size
    /\ resizes' = resizes + 1
    /\ ResizeFound(size)
    /\ UNCHANGED <<requests, events, winSize, selected, eventdpy>>

Request ==
    /\ xPc = "request" /\ xPc' = "idle" /\ xArg' = NoSize
    /\ requests' = Append(requests, xArg)
    /\ UNCHANGED <<vwin, newSize, rendering, events, winSize, resizes,
                   selected, eventdpy, history>>

(* XNextEvent(), XCheckTypedEvent(), ... return a ConfigureNotify event.     *)
XNextEvent ==
    /\ xPc = "idle" /\ ~eventdpy /\ events # <<>>
    /\ xPc' = "handle" /\ xArg' = Head(events)
    /\ events' = Tail(events)
    /\ UNCHANGED <<vwin, newSize, rendering, requests, winSize, resizes,
                   selected, eventdpy, history>>

handleEvent ==
    /\ xPc = "handle" /\ xPc' = "idle" /\ xArg' = NoSize
    /\ ResizeFound(xArg)
    /\ UNCHANGED server

-----------------------------------------------------------------------------
(* The 2D X server *)

(* The window is configured with this size; whoever selected ConfigureNotify *)
(* is told of the size it has then.                                          *)
Reconfigured(size) ==
    /\ winSize' = size
    /\ events' = IF selected THEN Append(events, size) ELSE events
    /\ unseen' = (unseen \/ (~selected /\ oglDraw # 0 /\ size # winSize))
    /\ UNCHANGED <<vwin, newSize, rendering, xthread, selected, eventdpy,
                   between, refused, unbound, splits, partial>>

(* A request is served; one that changes neither size, position nor stacking *)
(* order has no effect and causes no event.                                  *)
ServeRequest ==
    /\ requests # <<>> /\ requests' = Tail(requests)
    /\ LET asked == Head(requests)
           size  == [k \in 1 .. 2 |-> IF asked[k] = 0 THEN winSize[k]
                                      ELSE asked[k]]
       IN  \/ Reconfigured(size)
           \/ /\ size = winSize
              /\ UNCHANGED <<vwin, newSize, rendering, xthread, events,
                             winSize, selected, eventdpy, history>>
    /\ UNCHANGED resizes

(* The user resizes the window.                                              *)
UserResize(size) ==
    /\ resizes < MaxResizes /\ size # winSize
    /\ resizes' = resizes + 1
    /\ Reconfigured(size)
    /\ UNCHANGED requests

-----------------------------------------------------------------------------
Render == \/ \E fn \in {"glXMakeCurrent", "glXMakeContextCurrent"}, c \in Configs :
                 MakeCurrent(fn, c)
          \/ MakeNoneCurrent \/ glViewport
          \/ initVW \/ checkResize \/ Drain \/ Drained
          \/ UpdateDraw \/ UpdateRead \/ Bind \/ Cleanup

XThread == \/ \E size \in Requests : XConfigureWindow(size)
           \/ Request \/ XNextEvent \/ handleEvent

XServer == ServeRequest \/ \E size \in UserSizes : UserResize(size)

Next == Render \/ XThread \/ XServer

Spec == Init /\ [][Next]_vars

-----------------------------------------------------------------------------
(* Properties *)

(* Between two calls the rendering thread has the window's own drawable      *)
(* bound, so that glViewport() finds the window, a swap shows what was drawn *)
(* and nothing bound was destroyed.  There are two exceptions.  A resize()   *)
(* of the X thread between the two updateGLXDrawable() of one call: then     *)
(* only the read drawable is right, until glXMake[Context]Current() is       *)
(* called.  And a _glXMakeContextCurrent() that was refused the new          *)
(* drawable: the one still bound is destroyed all the same.                  *)
CurrentIsKept ==
    rPc = "idle" /\ draw # 0 /\ ~unbound =>
        /\ read = oglDraw
        /\ draw = oglDraw \/ between

(* "its most recent ancestor" is all a window keeps besides its drawable,    *)
(* and that only until the new drawable is bound: a drawable that nobody can *)
(* destroy any more is left behind by nothing but such a split call.         *)
NothingLeaked ==
    /\ rPc = "idle" => oldDraw = 0
    /\ Cardinality(Live \ {oglDraw, oldDraw}) <= splits

(* When every request is served and every event read, the drawable has the   *)
(* window's size or will get it with the next update, in whatever order the  *)
(* application's own resize() calls, the server and the events came.  A      *)
(* resize is lost in two ways only.  `partial': an XConfigureWindow() that   *)
(* leaves a dimension alone, and changes nothing at the server, overrides a  *)
(* pending resize with the drawable's old dimension.  `unseen': the user     *)
(* resizes the window after its VirtualWin has been made and before the      *)
(* first glViewport(), while the XSelectInput() for it lies in eventdpy's    *)
(* output buffer.                                                            *)
NoResizeLost ==
    /\ oglDraw # 0 /\ requests = <<>> /\ events = <<>>
    /\ xPc = "idle" /\ rPc # "drained"
    => \/ winSize = IF newSize = NoSize THEN drawables[oglDraw].size ELSE newSize
       \/ partial \/ unseen

=============================================================================
