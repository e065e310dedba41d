------------------------------ MODULE Session -------------------------------
(***************************************************************************)
(* One connection between the faker and the VirtualGL Client, end to end:   *)
(* VirtualWin::readback() and sendVGL() fill a frame as the configuration   *)
(* says, the sender negotiates the protocol, compares tiles with the frame  *)
(* before and sends what changed (VGLTrans.cpp); the Listener answers the   *)
(* negotiation and hands images to its window (VGLTransReceiver.cpp), whose *)
(* worker decompresses and draws them (ClientWin.cpp).  The frames, slots   *)
(* and locks inside either end are the business of VGLTrans, Compressors    *)
(* and ClientWin; here each end takes a message in one step, and what is    *)
(* followed is the pixels and the protocol.                                 *)
(***************************************************************************)
EXTENDS Tiling

CONSTANTS
    TileSizes,       \* values of fconfig.tilesize, 0 = one tile
    None,            \* no frame, no right eye, undefined pixels
    Width,           \* pixels of a frame, one row of them
    Images,          \* what may be rendered for one eye: [Pixels -> values]
    RightImages,     \* the same for the right eye of a stereo frame
    Compressions,    \* values of fconfig.compress: "JPEG", "RGB", "YUV"
    Subsamps,        \* values that are written to fconfig.subsamp directly
    Setters,         \* who calls fconfig_setcompress(): "dialog", "env"
    Versions,        \* protocol versions of a client: 10, 20, 21
    Windows,         \* pairs: drawing method asked for, whether OpenGL works
    MaxBacklog,      \* bound: messages the socket buffers hold before it blocks
    MaxFrames,       \* bound: frames rendered
    MaxChanges       \* bound: changes of the configuration

Pixels == 0 .. Width - 1
CTS == 1                                 \* the byte that asks for more
Nprocs == 2                              \* VGLTrans::nprocs
Blank == [p \in Pixels |-> None]
Subsampling == {0, 1, 2, 4, 8, 16}       \* what VGL_SUBSAMP can ask for

ASSUME SessionAssumption ==
    /\ Width \in 1 .. MaxSize /\ TileSizes \subseteq Nat
    /\ Images \subseteq [Pixels -> Nat] /\ RightImages \subseteq [Pixels -> Nat]
    /\ Compressions \subseteq {"JPEG", "RGB", "YUV"}
    /\ Subsamps \subseteq Subsampling /\ Setters \subseteq {"dialog", "env"}
    /\ Versions \subseteq {10, 20, 21}
    /\ Windows \subseteq {"X11", "OGL"} \X BOOLEAN
    /\ MaxFrames \in Nat /\ MaxChanges \in Nat /\ MaxBacklog \in Nat \ {0}
    /\ None \notin [n : Nat, l : Images, r : RightImages \cup {None},
                    compress : {"JPEG", "RGB", "YUV"}, subsamp : Subsampling]

VARIABLES
    config,          \* compress, subsamp, interframe, tilesize of fconfig
    setting,         \* who has set compress and will look at subsamp next
    changes,         \* changes made so far
    server,          \* at: where the sender is; version: VGLTrans::version; rank
    frame, lastf,    \* the frame being made or sent, the one sent before
    toClient, toServer,  \* the two directions of the connection
    peer,            \* server: its version; client: the client's
    client,          \* the Listener: at, and the server's version v
    win,             \* the ClientWin: stereo, drawMethod, cfindex, fb ...
    drawn,           \* what the client's window shows, and after which frame
    history          \* whether frames of two kinds were sent, tiles were torn ...

senderVars == <<server, frame, lastf>>
clientVars == <<client, win, drawn>>
configVars == <<config, setting, changes>>
sessionVars ==
    <<configVars, senderVars, toClient, toServer, peer, clientVars, history>>

X11Buffer == [gl |-> FALSE, stereo |-> FALSE, l |-> Blank, r |-> Blank]
GLBuffer == [X11Buffer EXCEPT !.gl = TRUE]

(* The subsamplings that a compression allows, and the one it is given when  *)
(* it finds another: YUV only 4, JPEG up to 4, RGB leaves it alone.          *)
Allowed(c) == CASE c = "YUV" -> {4} [] c = "JPEG" -> {0, 1, 2, 4}
                [] c = "RGB" -> Subsampling
Defsubsamp(c) == IF c = "YUV" THEN 4 ELSE 1

SessionInit ==
    /\ \E c \in Compressions, i \in BOOLEAN, ts \in TileSizes :
       \E v \in Allowed(c) \cap (Subsamps \cup {Defsubsamp(c)}) :
          /\ config = [compress |-> c, interframe |-> i, tilesize |-> ts,
                       subsamp |-> v]
          /\ history = [mixed |-> FALSE, torn |-> FALSE, retiled |-> FALSE,
                        sampled |-> v # Defsubsamp(c), unsettled |-> FALSE]
    /\ setting = {} /\ changes = 0
    /\ \/ peer \in [server : {21}, client : Versions]
       \/ 10 \in Versions /\ peer = [server |-> 10, client |-> 21]
    /\ server = [at |-> "idle", rank |-> 0,
                 version |-> IF peer.server = 10 THEN 10 ELSE 0]
    /\ frame = None /\ lastf = None
    /\ toClient = <<>> /\ toServer = <<>>
    /\ client = [at |-> "hello", v |-> 0]
    /\ \E kind \in Windows :
          win = [req |-> kind[1], canGL |-> kind[2], open |-> FALSE, method |-> kind[1],
                 stereo |-> FALSE, fb |-> X11Buffer, cfindex |-> 0,
                 right |-> [k \in {0, 1} |-> FALSE], queue |-> <<>>]
    /\ drawn = [n |-> 0, l |-> Blank, r |-> None]

-----------------------------------------------------------------------------
(* The configuration: a mutex keeps the threads of the faker apart that look *)
(* at the environment, but the dialog is a process of its own                *)

(* fconfig_setcompress(): the compression first ...                          *)
SetCompress(s) ==
    /\ s \notin setting /\ changes < MaxChanges
    /\ \E c \in Compressions : config' = [config EXCEPT !.compress = c]
    /\ setting' = setting \cup {s}
    /\ changes' = changes + 1
    /\ UNCHANGED <<senderVars, toClient, toServer, peer, clientVars, history>>

(* Mutation: the subsampling is left as it is.                               *)
SetSubsamp_Never(s) ==
    /\ s \in setting
    /\ setting' = setting \ {s}
    /\ history' = [history EXCEPT !.sampled = @ /\ config.compress = "RGB"]
    /\ UNCHANGED <<config, changes, senderVars, toClient, toServer, peer,
                   clientVars>>

(* ... then a subsampling which the compression of then allows.              *)
SetSubsamp(s) ==
    /\ s \in setting
    /\ config' = IF config.subsamp \in Allowed(config.compress) THEN config
                 ELSE [config EXCEPT !.subsamp = Defsubsamp(config.compress)]
    /\ setting' = setting \ {s}
    /\ history' = [history EXCEPT !.sampled = @ /\ config.compress = "RGB"]
    /\ UNCHANGED <<changes, senderVars, toClient, toServer, peer, clientVars>>

(* A subsampling written past fconfig_setcompress(), whatever the compression *)
WriteSubsamp(s, values) ==
    /\ s \notin setting /\ changes < MaxChanges
    /\ \E v \in values : config' = [config EXCEPT !.subsamp = v]
    /\ changes' = changes + 1
    /\ history' = [history EXCEPT !.sampled = TRUE,
                                  !.unsettled = @ \/ server.at = "subsamp"]
    /\ UNCHANGED <<setting, senderVars, toClient, toServer, peer, clientVars>>

(* sampCB() and profCB(), whose menus end at 4 and may be older than the      *)
(* compression; and VGL_SUBSAMP, which fconfig_reloadenv() reads             *)
SampCB == WriteSubsamp("dialog", {v \in Subsamps : v <= 4})
ReloadSubsamp == WriteSubsamp("env", Subsamps)

(* fconfig_reloadenv() in another window's readback(): VGL_TILESIZE          *)
SetTilesize ==
    /\ "env" \notin setting /\ changes < MaxChanges
    /\ \E ts \in TileSizes \ {config.tilesize} :
          config' = [config EXCEPT !.tilesize = ts]
    /\ changes' = changes + 1
    /\ history' = [history EXCEPT !.retiled = TRUE,
                                  !.torn = @ \/ server.at = "compress"]
    /\ UNCHANGED <<setting, senderVars, toClient, toServer, peer, clientVars>>

-----------------------------------------------------------------------------
(* The faker *)

(* Images that the client handles alike: RGB and JPEG, with as many eyes     *)
SameKind(f, g) == /\ (f.compress = "YUV") = (g.compress = "YUV")
                  /\ (f.r = None) = (g.r = None)

(* readback() looks at the compression; quad-buffered stereo becomes         *)
(* anaglyphic, an image like any other, when it is YUV.                      *)
Readback ==
    /\ server.at = "idle" /\ (IF lastf = None THEN 0 ELSE lastf.n) < MaxFrames
    /\ \E l \in Images, r \in RightImages \cup {None} :
          /\ r # None => config.compress # "YUV" /\ peer.server = 21
          /\ frame' = [n |-> (IF lastf = None THEN 0 ELSE lastf.n) + 1, l |-> l,
                       r |-> r, compress |-> config.compress, subsamp |-> 0]
          /\ history' = [history EXCEPT
                !.mixed = @ \/ (lastf # None /\ ~SameKind(lastf, frame')),
                !.unsettled = history.sampled \/ setting # {}]
    /\ peer.server = 10 => config.compress = "JPEG"
    /\ server' = [server EXCEPT !.at = "subsamp"]
    /\ UNCHANGED <<configVars, lastf, toClient, toServer, peer, clientVars>>

(* ... and later at the subsampling, when it calls sendVGL().                *)
SendVGL ==
    /\ server.at = "subsamp"
    /\ frame' = [frame EXCEPT !.subsamp = config.subsamp]
    /\ server' = [server EXCEPT !.at = "compress", !.rank = 0]
    /\ UNCHANGED <<configVars, lastf, toClient, toServer, peer, clientVars, history>>

(* Mutation: a client before 2.1 is taken to know only the old header.       *)
HeaderFormat_Before21(v) == IF v < 21 THEN 1 ELSE 2

(* The header that both ends use once the version is known.                  *)
HeaderFormat(v) == IF v = 10 THEN 1 ELSE 2

(* sendHeader() knows no version yet: a v1.0 end of frame goes out to see    *)
(* whether the client answers it with a CTS.                                 *)
Hello ==
    /\ server.at = "compress" /\ server.version = 0
    /\ toClient' = Append(toClient, [type |-> "fake", fmt |-> 1])
    /\ server' = [server EXCEPT !.at = "hello"]
    /\ UNCHANGED <<configVars, frame, lastf, toServer, peer, clientVars, history>>

(* Its reply: a CTS, or "VGL" and a version, which is answered by our own.   *)
Reply ==
    /\ server.at = "hello" /\ toServer # <<>>
    /\ toServer' = Tail(toServer)
    /\ IF Head(toServer) = CTS
       THEN /\ server' = [server EXCEPT !.at = "compress", !.version = 10]
            /\ UNCHANGED toClient
       ELSE /\ server' = [server EXCEPT !.at = "compress",
                                        !.version = Head(toServer)]
            /\ toClient' = Append(toClient, [type |-> "version", fmt |-> 2,
                                             v |-> peer.server])
    /\ UNCHANGED <<configVars, frame, lastf, peer, clientVars, history>>

(* Mutation: the right eye is not compared at all.                           *)
tileEquals_LeftOnly(f, last, px) ==
    /\ last # None /\ f.subsamp = last.subsamp
    /\ \A p \in px : f.l[p] = last.l[p]

(* Frame::tileEquals(): sizes, quality, subsampling and pixel format, which  *)
(* RGB has to itself, then the pixels; the right eye's only where both       *)
(* frames have one.                                                          *)
tileEquals(f, last, px) ==
    /\ last # None /\ f.subsamp = last.subsamp
    /\ (f.compress = "RGB") = (last.compress = "RGB")
    /\ \A p \in px : f.l[p] = last.l[p]
    /\ f.r # None /\ last.r # None => \A p \in px : f.r[p] = last.r[p]

(* The messages of one Compressor: a whole YUV image, or its changed tiles.  *)
Messages(f, last, rank) ==
    LET Image(px) == [type |-> "tile", fmt |-> HeaderFormat(server.version),
                      compress |-> f.compress, px |-> px, stereo |-> f.r # None,
                      l |-> f.l, r |-> f.r]
        Area(t) == t.x .. t.x + t.w - 1
        Differs(t) == ~(config.interframe /\ tileEquals(f, last, Area(t)))
        tiles == TilesOfRank(Width, 1, config.tilesize, rank, Nprocs)
        changed[k \in 0 .. Len(tiles)] ==
            IF k = 0 THEN <<>>
            ELSE IF Differs(tiles[k])
            THEN Append(changed[k - 1], Image(Area(tiles[k])))
            ELSE changed[k - 1]
    IN  IF f.compress = "YUV" THEN <<Image(Pixels)>> ELSE changed[Len(tiles)]

(* CompressedFrame throws for YUV with another subsampling than 4, and when  *)
(* tjBufSize() knows no size for one of 8 or 16; sendHeader() throws for     *)
(* anything but JPEG with an old client.                                     *)
Throws(f) == \/ f.compress = "YUV" /\ f.subsamp # 4
             \/ f.subsamp > 4
             \/ f.compress # "JPEG" /\ server.version < 21

(* compressSend() of one rank after the other, as their images go out.  Where *)
(* one throws the first does: a subsampling that lastf has not is reason to   *)
(* send every tile, and without any there is still the end of frame's header. *)
CompressSend ==
    /\ server.at = "compress" /\ server.version # 0 /\ Len(toClient) < MaxBacklog
    /\ IF Throws(frame)
       THEN server' = [server EXCEPT !.at = "failed"] /\ UNCHANGED toClient
       ELSE /\ toClient' = toClient \o Messages(frame, lastf, server.rank)
            /\ server' = IF frame.compress = "YUV" \/ server.rank = Nprocs - 1
                         THEN [server EXCEPT !.at = "eof"]
                         ELSE [server EXCEPT !.rank = @ + 1]
    /\ UNCHANGED <<configVars, frame, lastf, toServer, peer, clientVars, history>>

(* sendHeader(f->hdr, true), after which a v1.0 client sends a CTS           *)
SendEOF ==
    /\ server.at = "eof" /\ Len(toClient) < MaxBacklog
    /\ toClient' = Append(toClient, [type |-> "eof", n |-> frame.n,
                              fmt |-> HeaderFormat(server.version),
                              compress |-> frame.compress])
    /\ lastf' = frame /\ frame' = None
    /\ server' = [server EXCEPT !.at = IF server.version = 10 THEN "cts" ELSE "idle"]
    /\ UNCHANGED <<configVars, toServer, peer, clientVars, history>>

RecvCTS ==
    /\ server.at = "cts" /\ toServer # <<>>
    /\ toServer' = Tail(toServer)
    /\ server' = [server EXCEPT !.at = IF Head(toServer) = CTS THEN "idle"
                                       ELSE "failed"]
    /\ UNCHANGED <<configVars, frame, lastf, toClient, peer, clientVars, history>>

-----------------------------------------------------------------------------
(* The client's Listener *)

(* The first header: an end of frame asks for the version, anything else     *)
(* comes from a v1.0 server and is the first image.  A v1.0 client takes the *)
(* end of frame for what it is.                                              *)
ClientHello ==
    /\ client.at = "hello" /\ toClient # <<>>
    /\ IF Head(toClient).type = "fake"
       THEN /\ toClient' = Tail(toClient)
            /\ IF peer.client = 10
               THEN /\ toServer' = Append(toServer, CTS)
                    /\ client' = [at |-> "run", v |-> 10]
               ELSE /\ toServer' = Append(toServer, peer.client)
                    /\ client' = [client EXCEPT !.at = "version"]
       ELSE /\ client' = [at |-> "run", v |-> 10]
            /\ UNCHANGED <<toClient, toServer>>
    /\ UNCHANGED <<configVars, senderVars, peer, win, drawn, history>>

ClientVersion ==
    /\ client.at = "version" /\ toClient # <<>>
    /\ client' = [at |-> "run", v |-> Head(toClient).v]
    /\ toClient' = Tail(toClient)
    /\ UNCHANGED <<configVars, senderVars, toServer, peer, win, drawn, history>>

(* initGL(): a new buffer, or drawing with X11 and without stereo            *)
initGL(w) == IF w.method # "OGL" THEN w
             ELSE IF w.canGL THEN [w EXCEPT !.fb = GLBuffer]
             ELSE [w EXCEPT !.method = "X11", !.stereo = FALSE]

initX11(w) == IF w.method = "X11" THEN [w EXCEPT !.fb = X11Buffer] ELSE w

(* addWindow() makes the window when its first image comes.                  *)
addWindow(w, stereo) ==
    IF w.open THEN w
    ELSE initX11(initGL([w EXCEPT !.open = TRUE, !.stereo = stereo,
                                  !.method = IF stereo THEN "OGL" ELSE @]))

(* drawFrame(): stereo begins with an image that has a right eye and ends    *)
(* with a tile that has none; an end of frame leaves the slot's old right    *)
(* eye header where it is (CompressedFrame::init()).                         *)
Switch(w, msg) ==
    LET right == IF msg.type = "eof" THEN w.right[w.cfindex] ELSE msg.stereo
    IN  IF right /\ ~w.stereo
        THEN IF w.method = "OGL" THEN [w EXCEPT !.stereo = TRUE]
             ELSE initGL([w EXCEPT !.stereo = TRUE, !.method = "OGL"])
        ELSE IF msg.type = "tile" /\ ~msg.stereo /\ w.stereo
        THEN initX11([w EXCEPT !.stereo = FALSE, !.method = w.req])
        ELSE w

(* The slot of the image's kind whose turn it is.                            *)
Slot(w, msg) == <<msg.compress = "YUV", w.cfindex>>

(* Mutation: no client sends a CTS.                                          *)
Answer_None(msg) == toServer

(* After an end of frame a v1.0 server is sent the CTS it waits for.         *)
Answer(msg) == IF msg.type = "eof" /\ client.v = 10 THEN Append(toServer, CTS)
               ELSE toServer

(* An image is read into its slot, once that is free, and queued.            *)
Receive ==
    /\ client.at = "run" /\ toClient # <<>>
    /\ LET msg == Head(toClient)
           w == addWindow(win, msg.type = "tile" /\ msg.stereo)
           s == Slot(w, msg)
           drawFrame == IF msg.compress = "YUV" THEN w ELSE Switch(w, msg)
       IN  /\ \A i \in DOMAIN w.queue : w.queue[i].slot # s
           /\ win' = [drawFrame EXCEPT
                        !.cfindex = 1 - @,
                        !.queue = Append(@, [slot |-> s, msg |-> msg]),
                        !.right = IF msg.type = "tile" /\ msg.compress # "YUV"
                                  THEN [@ EXCEPT ![w.cfindex] = msg.stereo] ELSE @]
           /\ toServer' = Answer(msg)
    /\ toClient' = Tail(toClient)
    /\ UNCHANGED <<configVars, senderVars, peer, client, drawn, history>>

-----------------------------------------------------------------------------
(* The client's worker *)

(* Frame::init() of a buffer that draws with OpenGL                          *)
Eyes(fb, stereo) ==
    IF fb.gl THEN [fb EXCEPT !.stereo = stereo,
                             !.r = IF stereo /\ fb.stereo THEN @ ELSE Blank]
    ELSE fb

(* A tile is decompressed into the buffer.                                   *)
Decompress(fb, msg) ==
    LET e == Eyes(fb, msg.stereo)
    IN  [e EXCEPT !.l = [p \in Pixels |-> IF p \in msg.px THEN msg.l[p] ELSE @[p]],
                  !.r = [p \in Pixels |-> IF e.stereo /\ p \in msg.px
                                          THEN msg.r[p] ELSE @[p]]]

(* ClientWin::run(): a YUV image is shown as it is, a tile decompressed, and *)
(* the buffer drawn at the end of a frame that was not YUV.                  *)
Draw ==
    /\ win.queue # <<>>
    /\ LET msg == Head(win.queue).msg
           fb == IF msg.compress = "YUV" THEN win.fb
                 ELSE IF msg.type = "eof" THEN Eyes(win.fb, win.stereo)
                 ELSE Decompress(win.fb, msg)
       IN  /\ win' = [win EXCEPT !.queue = Tail(@), !.fb = fb]
           /\ drawn' = IF msg.type = "eof"
                       THEN IF msg.compress = "YUV" THEN [drawn EXCEPT !.n = msg.n]
                            ELSE [n |-> msg.n, l |-> fb.l,
                                  r |-> IF fb.stereo THEN fb.r ELSE None]
                       ELSE IF msg.compress = "YUV"
                       THEN [drawn EXCEPT !.l = msg.l, !.r = None] ELSE drawn
    /\ UNCHANGED <<configVars, senderVars, toClient, toServer, peer, client, history>>

-----------------------------------------------------------------------------
Sender == SendVGL \/ Hello \/ Reply \/ CompressSend \/ SendEOF \/ RecvCTS
Listener == ClientHello \/ ClientVersion \/ Receive

SessionNext == \/ \E s \in Setters : SetCompress(s) \/ SetSubsamp(s)
               \/ SampCB \/ ReloadSubsamp \/ SetTilesize
               \/ Readback \/ Sender \/ Listener \/ Draw

SessionSpec == SessionInit /\ [][SessionNext]_sessionVars

-----------------------------------------------------------------------------
(* Properties *)

(* Both ends agree on the header: what the Listener reads next has the       *)
(* format it expects, whichever of the two is the older.                     *)
HeaderUnderstood ==
    client.at = "run" /\ toClient # <<>> =>
        Head(toClient).fmt = HeaderFormat(client.v)

(* Whenever the Compressors cut a frame, whatever its size, the tile size    *)
(* and their number, no pixel is left out, none is sent twice, and none is   *)
(* asked for outside the frame.                                              *)
TilesPartition == server.at = "compress" => ExactCut

(* A window whose frames have all been drawn shows the last one, both eyes   *)
(* where it can.                                                             *)
Shows(f) == drawn.l = f.l /\ drawn.r = IF win.canGL THEN f.r ELSE None
ClientShowsFrame ==
    lastf # None /\ drawn.n = lastf.n /\ server.at = "idle" => Shows(lastf)

(* The same, but for the cases in which it is not so: the Compressors read   *)
(* two tile sizes for one frame, or stereo, mono and YUV frames alternate    *)
(* while tiles are compared or their number changes.                         *)
FrameShown ==
    \/ ClientShowsFrame
    \/ history.torn
    \/ history.mixed /\ (config.interframe \/ history.retiled)

(* The sender dies of an exception only for a YUV or RGB frame with a client *)
(* that knows but JPEG, or for a frame whose subsampling does not fit; and   *)
(* that only if the subsampling was written past fconfig_setcompress(), or   *)
(* readback() began between the two assignments in there.  The compression   *)
(* that changes between readback()'s own two looks at the configuration does *)
(* no harm.                                                                  *)
ThrowsOnlyWhen ==
    server.at = "failed" =>
        \/ frame.compress # "JPEG" /\ server.version < 21
        \/ history.unsettled /\ (frame.compress = "YUV" \/ frame.subsamp > 4)

(* When a thread of either end can move: a full slot keeps the Listener      *)
(* waiting, but then the worker has something to draw.                       *)
CanMove ==
    \/ server.at = "subsamp"
    \/ server.at = "compress" /\ (server.version = 0 \/ Len(toClient) < MaxBacklog)
    \/ server.at \in {"hello", "cts"} /\ toServer # <<>>
    \/ server.at = "eof" /\ Len(toClient) < MaxBacklog
    \/ win.queue # <<>> \/ toClient # <<>>

(* When no thread of either can move, the sender has thrown, or all that was *)
(* rendered is drawn and it waits for more.                                  *)
SomebodyMoves ==
    \/ CanMove
    \/ server.at = "failed"
    \/ server.at = "idle" /\ drawn.n = (IF lastf = None THEN 0 ELSE lastf.n)

(* Whatever the versions at the two ends, neither waits for an answer that   *)
(* the other does not give.                                                  *)
NoMutualWait ==
    /\ CanMove <=> ENABLED (Draw \/ Listener \/ Sender)
    /\ SomebodyMoves
=============================================================================
