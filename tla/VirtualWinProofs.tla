-------------------------- MODULE VirtualWinProofs --------------------------
(***************************************************************************)
(* Proofs about VirtualWin: for any sizes, FB configs and number of resizes *)
(* the drawable that is current is the window's own, what is replaced is    *)
(* destroyed, and no resize is lost but in the two ways the module names.   *)
(***************************************************************************)
EXTENDS VirtualWin, SequenceFacts, WellFoundedInduction

Sizes == [1 .. 2 -> Nat \ {0}]     \* a window's
AnySizes == [1 .. 2 -> Nat]        \* a request's
Names == {"glXMakeCurrent", "glXMakeContextCurrent"}

TypeOK ==
    /\ IsFiniteSet(Live) /\ Live \subseteq Nat \ {0}
    /\ drawables \in [Live -> [size : Sizes, config : Configs]]
    /\ oglDraw \in Nat /\ oldDraw \in Nat
    /\ newSize \in Sizes \cup {NoSize}
    /\ config \in Configs \cup {NoConfig} /\ newConfig \in BOOLEAN
    /\ eventdpy \in BOOLEAN /\ selected \in BOOLEAN
    /\ rPc \in {"idle", "initVW", "sync", "drain", "drained", "update",
                "updateRead", "bind", "cleanup"}
    /\ call \in Names \cup {"none", "glViewport"}
    /\ callConfig \in Configs \cup {NoConfig}
    /\ draw \in Nat /\ read \in Nat /\ newDraw \in Nat /\ newRead \in Nat
    /\ drawVW \in BOOLEAN /\ readVW \in BOOLEAN
    /\ rEvent \in Sizes \cup {NoSize}
    /\ xPc \in {"idle", "request", "handle"}
    /\ xArg \in AnySizes \cup {NoSize}
    /\ requests \in Seq(AnySizes) /\ events \in Seq(Sizes)
    /\ winSize \in Sizes /\ resizes \in 0 .. MaxResizes
    /\ between \in BOOLEAN /\ partial \in BOOLEAN /\ unseen \in BOOLEAN
    /\ splits \in Nat /\ refused \in Nat /\ unbound \in BOOLEAN

(* What a call has in its locals                                             *)
CallInv ==
    /\ rPc = "idle" <=> call = "none"
    /\ rPc = "initVW" => call \in Names
    /\ rPc \in {"sync", "drain", "drained"} => call = "glViewport" /\ eventdpy
    /\ rPc = "updateRead" => readVW
    /\ call = "glXMakeCurrent" => drawVW /\ ~readVW
    /\ call = "glXMakeContextCurrent" => drawVW /\ readVW
    /\ call = "glViewport" /\ rPc \in {"sync", "drain", "drained", "update"}
         => readVW
    /\ call \in Names => callConfig \in Configs
    /\ rPc = "drained" => rEvent \in Sizes

(* The window's drawables                                                    *)
DrawableInv ==
    /\ oglDraw = 0 => /\ Live = {} /\ newSize = NoSize
                      /\ rPc \in {"idle", "initVW"}
    /\ oglDraw # 0 => oglDraw \in Live /\ config \in Configs
    /\ oldDraw # 0 => /\ oldDraw \in Live /\ oldDraw # oglDraw
                      /\ rPc \in {"updateRead", "bind", "cleanup"}
    /\ oldDraw # 0 /\ rPc = "updateRead" => drawVW /\ newDraw # draw
    /\ oldDraw # 0 /\ rPc = "bind" => newDraw # draw \/ newRead # read

(* What the rendering thread has bound, or is about to bind.  A stale        *)
(* drawable that stays bound is not taken for the window's.                  *)
BoundInv ==
    /\ draw = 0 <=> read = 0
    /\ draw # 0 => /\ oglDraw # 0
                   /\ IF read = oglDraw THEN draw = oglDraw \/ between
                                        ELSE draw # oglDraw
    /\ rPc \in {"idle", "initVW", "sync", "drain", "drained", "update", "cleanup"}
         => draw = 0 \/ unbound \/ read = oglDraw
    /\ rPc = "cleanup" => newRead = oglDraw
    /\ call = "glViewport" /\ rPc \in {"sync", "drain", "drained", "update"}
         => /\ draw # 0 /\ newDraw = draw /\ newRead = read /\ read = oglDraw
            /\ drawVW <=> draw = oglDraw
    /\ rPc = "updateRead"
         => /\ newDraw # 0
            /\ IF drawVW THEN /\ newDraw = oglDraw /\ ~newConfig
                              /\ newSize = NoSize \/ between
                         ELSE between
    /\ rPc = "bind"
         => /\ newDraw # 0
            /\ \/ newRead = oglDraw /\ (newDraw = oglDraw \/ between)
               \/ /\ call = "glViewport" /\ unbound
                  /\ newDraw = draw /\ newRead = read

(* No more drawables are left behind than calls were split.                  *)
LeakInv == Cardinality(Live \ {oglDraw, oldDraw}) <= splits

(* The last event tells the size the window has.                             *)
EventInv ==
    /\ ~selected => /\ events = <<>> /\ eventdpy
                    /\ rPc \notin {"drain", "drained"}
    /\ xPc = "handle" => ~eventdpy /\ xArg \in Sizes
    /\ xPc = "request" => xArg \in AnySizes
    /\ events # <<>> => events[Len(events)] = winSize
    /\ xPc = "handle" /\ events = <<>> => xArg = winSize
    /\ rPc = "drained" /\ events = <<>> => rEvent = winSize

(* The size the drawable has after the next update                           *)
Coming == IF newSize = NoSize THEN drawables[oglDraw].size ELSE newSize

(* A request that leaves the window as it is                                 *)
NoEffect(asked) == \A k \in 1 .. 2 : asked[k] \in {0, winSize[k]}

(* Unless an event is on its way, or a request that causes one, the drawable *)
(* has the window's size or will get it.                                     *)
ResizeInv ==
    /\ oglDraw # 0 /\ events = <<>> /\ xPc # "handle" /\ rPc # "drained"
    /\ \A i \in DOMAIN requests : NoEffect(requests[i])
    /\ xPc = "request" => NoEffect(xArg)
    => Coming = winSize \/ partial \/ unseen

IndInv == TypeOK /\ CallInv /\ DrawableInv /\ BoundInv /\ LeakInv /\ EventInv
          /\ ResizeInv

-----------------------------------------------------------------------------
(* What a method of VirtualWin does                                          *)

(* A set of naturals has a least member, which Min() is.                     *)
LEMMA LeastIsThere ==
    ASSUME NEW S \in SUBSET Nat, S # {}
    PROVE  Min(S) \in S
<1> DEFINE less == {pair \in Nat \X Nat : pair[1] < pair[2]}
<1>1. IsWellFoundedOn(less, Nat)
  BY NatLessThanWellFounded DEF OpToRel
<1>2. PICK x \in S : \A y \in S : <<y, x>> \notin less
  BY <1>1, WFMin, Zenon
<1>3. ASSUME NEW y \in S PROVE x <= y
  <2>1. <<y, x>> \in less <=> y < x
    OBVIOUS
  <2> QED
    BY <1>2, <2>1
<1> QED
  BY <1>3 DEF Min

(* The new drawable is none of those that exist or are current.              *)
LEMMA NewNameIsFresh ==
    ASSUME NEW L \in SUBSET (Nat \ {0}), IsFiniteSet(L), NEW a, NEW b
    PROVE  /\ Min((1 .. Cardinality(L) + 3) \ (L \cup {a, b}))
                \in Nat \ ({0} \cup L \cup {a, b})
<1> DEFINE n == Cardinality(L)
           used == L \cup {a, b}
           free == (1 .. n + 3) \ used
<1>1. n \in Nat
  BY FS_CardinalityType
<1>2. IsFiniteSet({a, b}) /\ Cardinality({a, b}) <= 2 /\ Cardinality({a, b}) \in Nat
  BY TwoNamed, FS_CardinalityType
<1>3. IsFiniteSet(used) /\ Cardinality(used) <= n + 2 /\ Cardinality(used) \in Nat
  <2>1. /\ IsFiniteSet(used)
        /\ Cardinality(used) = n + Cardinality({a, b}) - Cardinality(L \cap {a, b})
    BY <1>2, FS_Union
  <2>2. IsFiniteSet(L \cap {a, b})
    BY FS_Subset
  <2>3. Cardinality(L \cap {a, b}) \in Nat /\ Cardinality(used) \in Nat
    BY <2>1, <2>2, FS_CardinalityType
  <2> QED
    BY <1>1, <1>2, <2>1, <2>3
<1>4. Cardinality(1 .. n + 3) = n + 3
  BY <1>1, FS_Interval
<1>5. free # {}
  <2>1. ASSUME free = {} PROVE FALSE
    <3>1. (1 .. n + 3) \in SUBSET used
      BY <2>1
    <3>2. Cardinality(1 .. n + 3) <= Cardinality(used)
      BY <1>3, <3>1, FS_Subset
    <3> QED
      BY <1>1, <1>3, <1>4, <3>2
  <2> QED
    BY <2>1
<1>6. free \in SUBSET Nat
  BY <1>1
<1>7. Min(free) \in free
  BY <1>5, <1>6, LeastIsThere
<1> QED
  BY <1>7

(* updateGLXDrawable() leaves the drawable of the size that was coming: the  *)
(* old one, or a new one whose ancestor the old one then is.                 *)
LEMMA UpdateFacts ==
    ASSUME TypeOK, oglDraw \in Live, config \in Configs, updateGLXDrawable
    PROVE  /\ newSize' = NoSize /\ newConfig' = FALSE /\ config' = config
           /\ \/ /\ UNCHANGED <<drawables, oglDraw, oldDraw>>
                 /\ Coming = drawables[oglDraw].size
              \/ /\ oldDraw' = oglDraw
                 /\ oglDraw' \in Nat \ {0} /\ oglDraw' \notin Live
                 /\ oglDraw' # draw /\ oglDraw' # read
                 /\ drawables' = [k \in Live \cup {oglDraw'} |->
                                    IF k = oglDraw'
                                    THEN [size |-> Coming, config |-> config]
                                    ELSE drawables[k]]
                 /\ Live' = Live \cup {oglDraw'}
                 /\ newSize # NoSize \/ newConfig
<1> DEFINE own == drawables[oglDraw]
           size == IF newConfig /\ newSize = NoSize THEN own.size ELSE newSize
<1>1. newSize' = NoSize /\ newConfig' = FALSE /\ config' = config
  BY DEF updateGLXDrawable
<1>2. own \in [size : Sizes, config : Configs] /\ newSize \in Sizes \cup {NoSize}
  BY DEF TypeOK
<1>3. CASE size = NoSize \/ own = [size |-> size, config |-> config]
  <2>1. UNCHANGED <<drawables, oglDraw, oldDraw>>
    BY <1>3 DEF updateGLXDrawable
  <2>2. NoSize \notin Sizes
    BY DEF NoSize, Sizes
  <2>3. Coming = own.size
    BY <1>2, <1>3, <2>2 DEF Coming
  <2> QED
    BY <1>1, <2>1, <2>3
<1>4. CASE ~(size = NoSize \/ own = [size |-> size, config |-> config])
  <2>1. /\ oldDraw' = oglDraw
        /\ \E d \in 1 .. Cardinality(Live) + 3 : NewDrawable(size, config, d)
    BY <1>4 DEF updateGLXDrawable
  <2>2. /\ oglDraw' = Min((1 .. Cardinality(Live) + 3) \ (Live \cup {draw, read}))
        /\ drawables' = [k \in Live \cup {oglDraw'} |->
                           IF k = oglDraw' THEN [size |-> size, config |-> config]
                           ELSE drawables[k]]
    BY <2>1 DEF NewDrawable
  <2>3. oglDraw' \in Nat \ ({0} \cup Live \cup {draw, read})
    BY <2>2, NewNameIsFresh DEF TypeOK
  <2>4. size = Coming /\ (newSize # NoSize \/ newConfig)
    BY <1>4 DEF Coming
  <2>5. Live' = Live \cup {oglDraw'}
    BY <2>2 DEF Live
  <2> QED
    BY <1>1, <2>1, <2>2, <2>3, <2>4, <2>5
<1> QED
  BY <1>3, <1>4

(* resize() to a size that may leave dimensions alone                        *)
LEMMA ResizeFacts ==
    ASSUME TypeOK, oglDraw \in Live, NEW size \in AnySizes, resize(size),
           UNCHANGED <<drawables, oglDraw>>
    PROVE  /\ newSize' \in Sizes \cup {NoSize}
           /\ partial' \in BOOLEAN /\ unseen' \in BOOLEAN
           /\ size \in Sizes => Coming' = size
           /\ NoEffect(size) /\ (Coming = winSize \/ partial \/ unseen)
                => Coming' = winSize \/ partial' \/ unseen'
<1> DEFINE own  == drawables[oglDraw].size
           full == [k \in 1 .. 2 |-> IF size[k] = 0 THEN own[k] ELSE size[k]]
<1>1. own \in Sizes /\ newSize \in Sizes \cup {NoSize} /\ winSize \in Sizes
      /\ partial \in BOOLEAN /\ unseen \in BOOLEAN
  BY DEF TypeOK
<1>2. full \in Sizes
  BY <1>1 DEF Sizes, AnySizes
<1>3. NoSize \notin Sizes /\ DOMAIN NoSize = 1 .. 2 /\ \A k \in 1 .. 2 : NoSize[k] = -1
  BY DEF NoSize, Sizes
<1>4. newSize' = IF full = own THEN NoSize ELSE full
  BY DEF resize
<1>5. Coming' = full
  BY <1>2, <1>3, <1>4 DEF Coming
<1>6. /\ partial' = (/\ 0 \in {size[1], size[2]}
                     /\ \/ partial
                        \/ \E k \in 1 .. 2 :
                              size[k] = 0 /\ newSize[k] \notin {-1, own[k]})
      /\ unseen' = (unseen /\ 0 \in {size[1], size[2]})
  BY DEF resize, Noted
<1>7. ASSUME size \in Sizes PROVE full = size
  BY <1>7, <1>1 DEF Sizes
<1>8. ASSUME NoEffect(size), Coming = winSize \/ partial \/ unseen
      PROVE  full = winSize \/ partial' \/ unseen'
  <2>1. CASE size \in Sizes
    <3>1. \A k \in 1 .. 2 : size[k] = winSize[k]
      BY <1>8, <2>1 DEF NoEffect, Sizes
    <3> QED
      BY <1>1, <1>7, <2>1, <3>1 DEF Sizes
  <2>2. CASE size \notin Sizes
    <3>1. 0 \in {size[1], size[2]}
      BY <2>2 DEF Sizes, AnySizes
    <3>2. CASE partial \/ unseen
      BY <1>6, <3>1, <3>2
    <3>3. CASE Coming = winSize /\ ~partial'
      <4>1. \A k \in 1 .. 2 : size[k] = 0 => newSize[k] = -1 \/ newSize[k] = own[k]
        BY <1>6, <3>1, <3>3
      <4>2. ASSUME NEW k \in 1 .. 2, size[k] = 0 PROVE own[k] = winSize[k]
        <5>1. CASE newSize = NoSize
          BY <3>3, <5>1 DEF Coming
        <5>2. CASE newSize # NoSize
          <6>1. newSize = winSize /\ newSize[k] # -1
            BY <1>1, <3>3, <5>2 DEF Coming, Sizes
          <6> QED
            BY <4>1, <4>2, <6>1
        <5> QED
          BY <5>1, <5>2
      <4>3. \A k \in 1 .. 2 : full[k] = winSize[k]
        BY <1>8, <4>2 DEF NoEffect
      <4> QED
        BY <1>1, <4>3 DEF Sizes
    <3> QED
      BY <1>8, <3>2, <3>3
  <2> QED
    BY <2>1, <2>2
<1> QED
  BY <1>2, <1>4, <1>5, <1>6, <1>7, <1>8

(* Sizes                                                                     *)
LEMMA SizeFacts ==
    /\ FirstSize \in Sizes /\ UserSizes \subseteq Sizes
    /\ Requests \subseteq AnySizes /\ Sizes \subseteq AnySizes
    /\ NoSize \notin AnySizes
BY VirtualWinAssumption DEF Sizes, AnySizes, NoSize

(* A resize() of the X thread changes nothing of the window but its new size. *)
LEMMA FoundFacts ==
    ASSUME TypeOK, DrawableInv, NEW size \in AnySizes, ResizeFound(size)
    PROVE  /\ UNCHANGED <<vwin, rendering, splits, refused, unbound>> /\ Live' = Live
           /\ newSize' \in Sizes \cup {NoSize}
           /\ between' \in BOOLEAN /\ partial' \in BOOLEAN /\ unseen' \in BOOLEAN
           /\ oglDraw = 0 => newSize' = newSize
           /\ between => between'
           /\ rPc = "updateRead" /\ newSize' # NoSize => between'
           /\ oglDraw # 0 /\ size \in Sizes => Coming' = size
           /\ oglDraw # 0 /\ NoEffect(size)
              /\ (Coming = winSize \/ partial \/ unseen)
                => Coming' = winSize \/ partial' \/ unseen'
<1>1. /\ UNCHANGED <<vwin, rendering, splits, refused, unbound>>
      /\ UNCHANGED <<drawables, oglDraw, rPc>>
      /\ between' = (between \/ (rPc = "updateRead" /\ newSize' # NoSize))
  BY DEF ResizeFound, vwin, rendering
<1>2. Live' = Live
  BY <1>1 DEF Live
<1>3. CASE oglDraw = 0
  BY <1>1, <1>2, <1>3 DEF ResizeFound, TypeOK
<1>4. CASE oglDraw # 0
  <2>1. oglDraw \in Live /\ resize(size)
    BY <1>4 DEF ResizeFound, DrawableInv
  <2> QED
    BY <1>1, <1>2, <1>4, <2>1, ResizeFacts DEF TypeOK
<1> QED
  BY <1>3, <1>4

(* The 2D X server resizes the window, or serves a request to no effect.     *)
LEMMA ServeFacts ==
    ASSUME TypeOK, ServeRequest
    PROVE  /\ requests # <<>> /\ requests' = Tail(requests)
           /\ resizes' = resizes
           /\ \E size \in Sizes :
                 /\ size = winSize <=> NoEffect(Head(requests))
                 /\ \/ Reconfigured(size)
                    \/ /\ size = winSize
                       /\ UNCHANGED <<vwin, newSize, rendering, xthread, events,
                                      winSize, selected, eventdpy, history>>
<1> DEFINE asked == Head(requests)
           size  == [k \in 1 .. 2 |-> IF asked[k] = 0 THEN winSize[k]
                                      ELSE asked[k]]
<1>1. /\ requests # <<>> /\ requests' = Tail(requests) /\ resizes' = resizes
      /\ \/ Reconfigured(size)
         \/ /\ size = winSize
            /\ UNCHANGED <<vwin, newSize, rendering, xthread, events, winSize,
                           selected, eventdpy, history>>
  BY DEF ServeRequest
<1>2. asked \in AnySizes /\ winSize \in Sizes
  BY <1>1, TailFacts DEF TypeOK
<1>3. size \in Sizes
  BY <1>2 DEF Sizes, AnySizes
<1>4. size = winSize <=> NoEffect(asked)
  BY <1>2, <1>3 DEF NoEffect, Sizes, AnySizes
<1> QED
  BY <1>1, <1>3, <1>4

(* The first drawable of the window                                          *)
LEMMA FirstFacts ==
    ASSUME TypeOK, DrawableInv, CallInv, BoundInv, initVW, oglDraw = 0
    PROVE  /\ oglDraw' = 1 /\ Live = {} /\ Live' = {1} /\ requests = <<>>
           /\ drawables' = [k \in {1} |-> [size |-> winSize, config |-> callConfig]]
           /\ config' = callConfig /\ callConfig \in Configs
           /\ newConfig' = newConfig /\ draw = 0 /\ read = 0
           /\ newSize = NoSize /\ oldDraw = 0
<1>1. Live = {} /\ newSize = NoSize
  BY DEF DrawableInv
<1>2. /\ NewDrawable(winSize, callConfig, 1) /\ requests = <<>>
      /\ config' = callConfig /\ newConfig' = newConfig /\ rPc = "initVW"
  BY DEF initVW
<1>3. /\ oglDraw' = 1
      /\ drawables' = [k \in {1} |-> [size |-> winSize, config |-> callConfig]]
  BY <1>1, <1>2 DEF NewDrawable
<1>4. Live' = {1}
  BY <1>3 DEF Live
<1>5. draw = 0 /\ read = 0 /\ oldDraw = 0 /\ callConfig \in Configs
  BY <1>2 DEF BoundInv, CallInv, DrawableInv
<1> QED
  BY <1>1, <1>2, <1>3, <1>4, <1>5

-----------------------------------------------------------------------------
(* Every variable keeps its type.                                            *)
LEMMA TypeStep ==
    ASSUME IndInv, [Next]_vars PROVE TypeOK'
<1> USE SizeFacts
    DEF IndInv, vwin, rendering, locals, xthread, server, history, Locals,
        Return
<1>quiet. ASSUME UNCHANGED drawables
          PROVE  /\ Live' = Live
                 /\ IsFiniteSet(Live') /\ Live' \subseteq Nat \ {0}
                 /\ drawables' \in [Live' -> [size : Sizes, config : Configs]]
  BY <1>quiet DEF Live, TypeOK
<1>reconfigured.
      ASSUME NEW size \in Sizes, Reconfigured(size),
             requests' \in Seq(AnySizes), resizes' \in 0 .. MaxResizes
      PROVE  TypeOK'
  <2>1. events' \in Seq(Sizes)
    BY <1>reconfigured, AppendFacts DEF Reconfigured, TypeOK
  <2> QED
    BY <1>reconfigured, <2>1, <1>quiet DEF Reconfigured, TypeOK
<1>1. ASSUME NEW fn \in Names, NEW c \in Configs, MakeCurrent(fn, c)
      PROVE TypeOK'
  BY <1>1, <1>quiet DEF TypeOK, Names, MakeCurrent
<1>2. CASE MakeNoneCurrent
  BY <1>2, <1>quiet DEF TypeOK, MakeNoneCurrent
<1>3. CASE glViewport
  <2>1. drawVW' \in BOOLEAN /\ readVW' \in BOOLEAN /\ rEvent' = NoSize
    BY <1>3 DEF glViewport
  <2>2. /\ newDraw' = draw /\ newRead' = read /\ call' = "glViewport"
        /\ callConfig' = NoConfig /\ rPc' \in {"bind", "sync", "update"}
        /\ UNCHANGED <<vwin, newSize, draw, read, xthread, server, history>>
    BY <1>3 DEF glViewport
  <2> QED
    BY <2>1, <2>2, <1>quiet DEF TypeOK
<1>4. CASE initVW
  <2>1. CASE oglDraw = 0
    <3>1. /\ oglDraw' = 1 /\ Live' = {1} /\ config' = callConfig
          /\ drawables' = [k \in {1} |-> [size |-> winSize, config |-> callConfig]]
          /\ callConfig \in Configs /\ newConfig' = newConfig
      BY <1>4, <2>1, FirstFacts
    <3>2. /\ IsFiniteSet(Live') /\ Live' \subseteq Nat \ {0}
          /\ drawables' \in [Live' -> [size : Sizes, config : Configs]]
      <4>1. winSize \in Sizes /\ 1 \in Nat \ {0}
        BY DEF TypeOK
      <4>2. IsFiniteSet({1})
        BY FS_Singleton
      <4> QED
        BY <3>1, <4>1, <4>2
    <3>3. /\ rPc' = "update"
          /\ UNCHANGED <<oldDraw, newSize, draw, read, locals, xthread, server,
                         history>>
      BY <1>4 DEF initVW
    <3>4. /\ oglDraw' \in Nat /\ config' \in Configs
          /\ newConfig' \in BOOLEAN
      BY <3>1 DEF TypeOK
    <3> QED
      BY <3>2, <3>3, <3>4 DEF TypeOK
  <2>2. CASE oglDraw # 0
    <3>1. newConfig' \in BOOLEAN /\ config' \in Configs \cup {NoConfig}
      BY <1>4, <2>2 DEF initVW, TypeOK
    <3>2. /\ rPc' = "update"
          /\ UNCHANGED <<drawables, oglDraw, oldDraw, newSize, draw, read, locals,
                         xthread, server, history>>
      BY <1>4, <2>2 DEF initVW
    <3> QED
      BY <3>1, <3>2, <1>quiet DEF TypeOK
  <2> QED
    BY <2>1, <2>2
<1>5. CASE checkResize
  BY <1>5, <1>quiet DEF TypeOK, checkResize
<1>6. CASE Drain
  <2>1. CASE events = <<>>
    BY <1>6, <2>1, <1>quiet DEF Drain, TypeOK
  <2>2. CASE events # <<>>
    <3>1. events' \in Seq(Sizes) /\ rEvent' \in Sizes /\ rPc' = "drained"
      <4>1. events \in Seq(Sizes) /\ events # <<>>
        BY <2>2 DEF TypeOK
      <4>2. Tail(events) \in Seq(Sizes) /\ Head(events) \in Sizes
        BY <4>1, TailFacts
      <4> QED
        BY <1>6, <2>2, <4>2 DEF Drain
    <3> QED
      BY <1>6, <3>1, <1>quiet DEF Drain, TypeOK
  <2> QED
    BY <2>1, <2>2
<1>7. CASE Drained
  <2>1. oglDraw \in Live /\ rEvent \in AnySizes /\ resize(rEvent)
        /\ UNCHANGED <<drawables, oglDraw>>
    BY <1>7 DEF Drained, DrawableInv, CallInv
  <2>2. newSize' \in Sizes \cup {NoSize}
        /\ partial' \in BOOLEAN /\ unseen' \in BOOLEAN
    BY <2>1, ResizeFacts
  <2> QED
    BY <1>7, <2>2, <1>quiet DEF Drained, TypeOK
<1>8. CASE UpdateDraw
  <2>1. oglDraw \in Live /\ config \in Configs
    BY <1>8 DEF UpdateDraw, DrawableInv
  <2>2. CASE ~drawVW
    BY <1>8, <2>2, <1>quiet DEF UpdateDraw, TypeOK
  <2>3. CASE drawVW
    <3>1. /\ newSize' = NoSize /\ newConfig' = FALSE /\ config' = config
          /\ \/ UNCHANGED <<drawables, oglDraw, oldDraw>>
             \/ /\ oldDraw' = oglDraw /\ oglDraw' \in Nat \ {0}
                /\ Live' = Live \cup {oglDraw'}
                /\ drawables' = [k \in Live \cup {oglDraw'} |->
                                   IF k = oglDraw'
                                   THEN [size |-> Coming, config |-> config]
                                   ELSE drawables[k]]
      BY <1>8, <2>1, <2>3, UpdateFacts DEF UpdateDraw
    <3>2. Coming \in Sizes
      BY <2>1 DEF Coming, TypeOK
    <3>3. /\ oglDraw' \in Nat /\ oldDraw' \in Nat
          /\ IsFiniteSet(Live') /\ Live' \subseteq Nat \ {0}
          /\ drawables' \in [Live' -> [size : Sizes, config : Configs]]
      <4>1. CASE UNCHANGED <<drawables, oglDraw, oldDraw>>
        BY <4>1, <1>quiet DEF TypeOK
      <4>2. CASE ~UNCHANGED <<drawables, oglDraw, oldDraw>>
        <5>1. /\ oldDraw' = oglDraw /\ oglDraw' \in Nat \ {0}
              /\ Live' = Live \cup {oglDraw'}
              /\ drawables' = [k \in Live \cup {oglDraw'} |->
                                   IF k = oglDraw'
                                   THEN [size |-> Coming, config |-> config]
                                   ELSE drawables[k]]
          BY <3>1, <4>2
        <5>2. IsFiniteSet(Live') /\ Live' \subseteq Nat \ {0}
          BY <5>1, FS_AddElement DEF TypeOK
        <5>3. drawables' \in [Live' -> [size : Sizes, config : Configs]]
          BY <2>1, <3>2, <5>1 DEF TypeOK
        <5> QED
          BY <5>1, <5>2, <5>3 DEF TypeOK
      <4> QED
        BY <4>1, <4>2
    <3>4. /\ newDraw' \in Nat /\ newRead' \in Nat
          /\ rPc' \in {"updateRead", "bind"}
          /\ UNCHANGED <<call, callConfig, draw, read, drawVW, readVW, rEvent,
                         xthread, server, history>>
      BY <1>8, <2>3, <3>3 DEF UpdateDraw, TypeOK
    <3>5. /\ newSize' \in Sizes \cup {NoSize} /\ newConfig' \in BOOLEAN
          /\ config' \in Configs \cup {NoConfig}
      BY <3>1 DEF TypeOK
    <3> QED
      BY <3>3, <3>4, <3>5 DEF TypeOK
  <2> QED
    BY <2>2, <2>3 DEF TypeOK
<1>9. CASE UpdateRead
  <2>1. oglDraw \in Live /\ config \in Configs
    BY <1>9 DEF UpdateRead, DrawableInv
  <2>2. TypeOK'
    <3>1. /\ newSize' = NoSize /\ newConfig' = FALSE /\ config' = config
          /\ \/ UNCHANGED <<drawables, oglDraw, oldDraw>>
             \/ /\ oldDraw' = oglDraw /\ oglDraw' \in Nat \ {0}
                /\ Live' = Live \cup {oglDraw'}
                /\ drawables' = [k \in Live \cup {oglDraw'} |->
                                   IF k = oglDraw'
                                   THEN [size |-> Coming, config |-> config]
                                   ELSE drawables[k]]
      BY <1>9, <2>1, UpdateFacts DEF UpdateRead
    <3>2. Coming \in Sizes
      BY <2>1 DEF Coming, TypeOK
    <3>3. /\ oglDraw' \in Nat /\ oldDraw' \in Nat
          /\ IsFiniteSet(Live') /\ Live' \subseteq Nat \ {0}
          /\ drawables' \in [Live' -> [size : Sizes, config : Configs]]
      <4>1. CASE UNCHANGED <<drawables, oglDraw, oldDraw>>
        BY <4>1, <1>quiet DEF TypeOK
      <4>2. CASE ~UNCHANGED <<drawables, oglDraw, oldDraw>>
        <5>1. /\ oldDraw' = oglDraw /\ oglDraw' \in Nat \ {0}
              /\ Live' = Live \cup {oglDraw'}
              /\ drawables' = [k \in Live \cup {oglDraw'} |->
                                   IF k = oglDraw'
                                   THEN [size |-> Coming, config |-> config]
                                   ELSE drawables[k]]
          BY <3>1, <4>2
        <5>2. IsFiniteSet(Live') /\ Live' \subseteq Nat \ {0}
          BY <5>1, FS_AddElement DEF TypeOK
        <5>3. drawables' \in [Live' -> [size : Sizes, config : Configs]]
          BY <2>1, <3>2, <5>1 DEF TypeOK
        <5> QED
          BY <5>1, <5>2, <5>3 DEF TypeOK
      <4> QED
        BY <4>1, <4>2
    <3>4. /\ newRead' \in Nat /\ splits' \in Nat /\ rPc' = "bind"
          /\ UNCHANGED <<call, callConfig, draw, read, newDraw, drawVW, readVW,
                         rEvent, xthread, server, between, refused, unbound,
                         partial, unseen>>
      BY <1>9, <3>3 DEF UpdateRead, TypeOK
    <3>5. /\ newSize' \in Sizes \cup {NoSize} /\ newConfig' \in BOOLEAN
          /\ config' \in Configs \cup {NoConfig}
      BY <3>1 DEF TypeOK
    <3> QED
      BY <3>3, <3>4, <3>5 DEF TypeOK
  <2> QED
    BY <2>2
<1>10. CASE Bind
  <2>1. /\ draw' \in Nat /\ read' \in Nat /\ between' \in BOOLEAN
        /\ rPc' \in {"idle", "cleanup"}
        /\ UNCHANGED <<vwin, newSize, xthread, server, splits, partial, unseen>>
    <3>1. /\ draw' \in {draw, newDraw} /\ read' \in {read, newRead}
          /\ between' = between \/ between' = (between /\ newDraw # newRead)
          /\ rPc' \in {"idle", "cleanup"}
          /\ UNCHANGED <<vwin, newSize, xthread, server, splits, partial, unseen>>
      BY <1>10 DEF Bind
    <3> QED
      BY <3>1 DEF TypeOK
  <2>2. /\ call' \in Names \cup {"none", "glViewport"}
        /\ callConfig' \in Configs \cup {NoConfig}
        /\ newDraw' \in Nat /\ newRead' \in Nat
        /\ drawVW' \in BOOLEAN /\ readVW' \in BOOLEAN
        /\ rEvent' \in Sizes \cup {NoSize}
    <3>1. CASE Return
      BY <3>1 DEF TypeOK
    <3>2. CASE UNCHANGED locals
      BY <3>2 DEF TypeOK
    <3> QED
      BY <1>10, <3>1, <3>2 DEF Bind
  <2>3. refused' \in Nat /\ unbound' \in BOOLEAN
    <3>1. refused' = refused \/ refused' = refused + 1
      BY <1>10 DEF Bind
    <3>2. refused' \in Nat
      BY <3>1 DEF TypeOK
    <3>3. unbound' \in BOOLEAN
      <4>1. unbound' \in {unbound, TRUE, FALSE}
        BY <1>10, Zenon DEF Bind
      <4> QED
        BY <4>1 DEF TypeOK
    <3> QED
      BY <3>2, <3>3
  <2> QED
    BY <2>1, <2>2, <2>3, <1>quiet DEF TypeOK
<1>11. CASE Cleanup
  <2>1. /\ rPc' = "idle" /\ Return
        /\ UNCHANGED <<oglDraw, newSize, config, newConfig, draw, read,
                       xthread, server, history>>
    BY <1>11 DEF Cleanup
  <2>2. /\ IsFiniteSet(Live') /\ Live' \subseteq Nat \ {0}
        /\ drawables' \in [Live' -> [size : Sizes, config : Configs]]
        /\ oldDraw' \in Nat
    <3>1. CASE UNCHANGED <<drawables, oldDraw>>
      BY <3>1, <1>quiet DEF TypeOK
    <3>2. CASE cleanup
      <4>1. /\ drawables' = [k \in Live \ {oldDraw} |-> drawables[k]]
            /\ oldDraw' = 0
        BY <3>2 DEF cleanup
      <4>2. Live' = Live \ {oldDraw}
        BY <4>1 DEF Live
      <4> QED
        BY <4>1, <4>2, FS_RemoveElement DEF TypeOK
    <3> QED
      BY <1>11, <3>1, <3>2 DEF Cleanup
  <2> QED
    BY <2>1, <2>2, ZenonT(60) DEF TypeOK
<1>12. ASSUME NEW size \in Requests, XConfigureWindow(size) PROVE TypeOK'
  <2>1. ResizeFound(size) /\ size \in AnySizes
    BY <1>12 DEF XConfigureWindow
  <2>2. resizes' \in 0 .. MaxResizes
    BY <1>12, VirtualWinAssumption DEF XConfigureWindow, TypeOK
  <2>3. /\ UNCHANGED <<vwin, rendering, splits, refused, unbound>>
        /\ newSize' \in Sizes \cup {NoSize}
        /\ between' \in BOOLEAN /\ partial' \in BOOLEAN /\ unseen' \in BOOLEAN
    BY <2>1, FoundFacts
  <2> QED
    BY <1>12, <2>2, <2>3, <1>quiet, SMTT(30) DEF XConfigureWindow, TypeOK
<1>13. CASE Request
  <2>1. requests' \in Seq(AnySizes)
    BY <1>13, AppendFacts DEF Request, EventInv, TypeOK
  <2> QED
    BY <1>13, <2>1, <1>quiet DEF Request, TypeOK
<1>14. CASE XNextEvent
  <2>1. events' \in Seq(Sizes) /\ xArg' \in Sizes
    BY <1>14, TailFacts DEF XNextEvent, TypeOK
  <2> QED
    BY <1>14, <2>1, <1>quiet DEF XNextEvent, TypeOK
<1>15. CASE handleEvent
  <2>1. ResizeFound(xArg) /\ xArg \in AnySizes
    BY <1>15 DEF handleEvent, EventInv
  <2>2. /\ UNCHANGED <<vwin, rendering, splits, refused, unbound>>
        /\ newSize' \in Sizes \cup {NoSize}
        /\ between' \in BOOLEAN /\ partial' \in BOOLEAN /\ unseen' \in BOOLEAN
    BY <2>1, FoundFacts
  <2> QED
    BY <1>15, <2>2, <1>quiet, SMTT(30) DEF handleEvent, TypeOK
<1>16. CASE ServeRequest
  <2>1. requests' \in Seq(AnySizes) /\ resizes' = resizes
    <3>1. /\ requests # <<>> /\ requests' = Tail(requests)
          /\ resizes' = resizes /\ requests \in Seq(AnySizes)
      BY <1>16, ServeFacts DEF TypeOK
    <3> QED
      BY <3>1, TailFacts
  <2>2. PICK size \in Sizes :
           \/ Reconfigured(size)
           \/ UNCHANGED <<vwin, newSize, rendering, xthread, events, winSize,
                          selected, eventdpy, history>>
    BY <1>16, ServeFacts
  <2>3. CASE Reconfigured(size)
    BY <2>1, <2>3, <1>reconfigured DEF TypeOK
  <2>4. CASE UNCHANGED <<vwin, newSize, rendering, xthread, events, winSize,
                         selected, eventdpy, history>>
    BY <2>1, <2>4, <1>quiet DEF TypeOK
  <2> QED
    BY <2>2, <2>3, <2>4
<1>17. ASSUME NEW size \in UserSizes, UserResize(size) PROVE TypeOK'
  <2>1. resizes' \in 0 .. MaxResizes /\ requests' = requests
        /\ Reconfigured(size) /\ size \in Sizes
    BY <1>17, VirtualWinAssumption DEF UserResize, TypeOK
  <2> QED
    BY <2>1, <1>reconfigured DEF TypeOK
<1>18. CASE UNCHANGED vars
  BY <1>18, <1>quiet DEF vars, TypeOK
<1> QED
  BY <1>1, <1>2, <1>3, <1>4, <1>5, <1>6, <1>7, <1>8, <1>9, <1>10, <1>11,
     <1>12, <1>13, <1>14, <1>15, <1>16, <1>17, <1>18
     DEF Next, Render, XThread, XServer, Names

(* What a call of the rendering thread has in its locals stays so.           *)
LEMMA CallStep ==
    ASSUME IndInv, [Next]_vars PROVE CallInv'
<1> USE SizeFacts
    DEF IndInv, CallInv, vwin, rendering, locals, xthread, server, history,
        Locals, Return
<1>1. ASSUME NEW fn \in Names, NEW c \in Configs, MakeCurrent(fn, c)
      PROVE CallInv'
  BY <1>1 DEF MakeCurrent, Names
<1>2. CASE MakeNoneCurrent
  BY <1>2 DEF MakeNoneCurrent
<1>3. CASE glViewport
  <2>1. oglDraw # 0 /\ (oglDraw \in {draw, read} => read = oglDraw)
    BY <1>3 DEF glViewport, BoundInv
  <2>2. /\ rPc' # "idle" /\ rPc' # "initVW" /\ rPc' # "updateRead"
        /\ rPc' # "drained" /\ call' = "glViewport" /\ eventdpy' = eventdpy
        /\ rPc' \in {"sync", "drain", "drained"} => eventdpy
        /\ rPc' # "bind" => readVW'
    BY <1>3, <2>1 DEF glViewport
  <2> QED
    BY <2>2 DEF Names
<1>4. CASE initVW
  BY <1>4 DEF initVW, Names
<1>5. CASE checkResize
  BY <1>5 DEF checkResize
<1>6. CASE Drain
  <2>1. CASE events = <<>>
    BY <1>6, <2>1 DEF Drain, TypeOK
  <2>2. CASE events # <<>>
    <3>1. events \in Seq(Sizes)
      BY DEF TypeOK
    <3>2. Head(events) \in Sizes
      BY <2>2, <3>1, TailFacts
    <3> QED
      BY <1>6, <2>2, <3>2 DEF Drain, TypeOK
  <2> QED
    BY <2>1, <2>2
<1>7. CASE Drained
  BY <1>7 DEF Drained
<1>8. CASE UpdateDraw
  BY <1>8 DEF UpdateDraw, TypeOK, Names
<1>9. CASE UpdateRead
  <2>1. /\ rPc = "updateRead" /\ rPc' = "bind"
        /\ UNCHANGED <<call, callConfig, drawVW, readVW, rEvent>>
    BY <1>9 DEF UpdateRead
  <2> QED
    BY <2>1
<1>10. CASE Bind
  <2>1. CASE Return
    BY <2>1 DEF Names
  <2>2. CASE rPc' = "cleanup" /\ UNCHANGED locals
    <3>1. rPc = "bind"
      BY <1>10 DEF Bind
    <3> QED
      BY <2>2, <3>1
  <2> QED
    BY <1>10, <2>1, <2>2 DEF Bind
<1>11. CASE Cleanup
  <2>1. Return
    BY <1>11 DEF Cleanup
  <2> QED
    BY <2>1 DEF Names
<1>12. ASSUME NEW size \in Requests, XConfigureWindow(size) PROVE CallInv'
  BY <1>12 DEF XConfigureWindow, ResizeFound
<1>13. CASE Request
  BY <1>13 DEF Request
<1>14. CASE XNextEvent
  BY <1>14 DEF XNextEvent
<1>15. CASE handleEvent
  BY <1>15 DEF handleEvent, ResizeFound
<1>16. CASE ServeRequest
  BY <1>16, ServeFacts DEF Reconfigured
<1>17. ASSUME NEW size \in UserSizes, UserResize(size) PROVE CallInv'
  BY <1>17 DEF UserResize, Reconfigured
<1>18. CASE UNCHANGED vars
  BY <1>18 DEF vars
<1> QED
  BY <1>1, <1>2, <1>3, <1>4, <1>5, <1>6, <1>7, <1>8, <1>9, <1>10, <1>11,
     <1>12, <1>13, <1>14, <1>15, <1>16, <1>17, <1>18
     DEF Next, Render, XThread, XServer, Names

(* What exists, what is bound and what is about to be bound agree.           *)
LEMMA BoundStep ==
    ASSUME IndInv, [Next]_vars PROVE DrawableInv' /\ BoundInv'
<1> USE SizeFacts
    DEF IndInv, CallInv, DrawableInv, BoundInv, vwin, rendering, locals,
        xthread, server, history, Locals, Return
<1>quiet. ASSUME UNCHANGED <<drawables, oglDraw>> PROVE Live' = Live
  BY <1>quiet DEF Live
<1>xthread.
      ASSUME UNCHANGED <<vwin, rendering, unbound>>, between => between',
             oglDraw = 0 => newSize' = newSize,
             rPc = "updateRead" /\ newSize' # newSize /\ newSize' # NoSize => between'
      PROVE  DrawableInv' /\ BoundInv'
  <2>1. DrawableInv'
    BY <1>xthread, <1>quiet
  <2>2. BoundInv'
    BY <1>xthread
  <2> QED
    BY <2>1, <2>2
<1>1. ASSUME NEW fn \in Names, NEW c \in Configs, MakeCurrent(fn, c)
       PROVE  DrawableInv' /\ BoundInv'
  <2>1. DrawableInv'
    BY <1>1, <1>quiet DEF MakeCurrent, Names
  <2>2. BoundInv'
    BY <1>1 DEF MakeCurrent, Names
  <2> QED
    BY <2>1, <2>2
<1>2. CASE MakeNoneCurrent
  <2>1. DrawableInv'
    BY <1>2, <1>quiet DEF MakeNoneCurrent
  <2>2. BoundInv'
    BY <1>2 DEF MakeNoneCurrent
  <2> QED
    BY <2>1, <2>2
<1>3. CASE glViewport
  <2>1. DrawableInv'
    BY <1>3, <1>quiet DEF glViewport
  <2>2. BoundInv'
    BY <1>3 DEF glViewport
  <2> QED
    BY <2>1, <2>2
<1>4. CASE initVW
  <2>1. CASE oglDraw = 0
    <3>1. /\ oglDraw' = 1 /\ Live' = {1} /\ config' \in Configs
          /\ draw = 0 /\ read = 0 /\ oldDraw = 0
      BY <1>4, <2>1, FirstFacts
    <3>2. /\ rPc' = "update" /\ call # "glViewport"
          /\ UNCHANGED <<oldDraw, newSize, draw, read, locals, history>>
      BY <1>4 DEF initVW, Names
    <3> QED
      BY <3>1, <3>2
  <2>2. CASE oglDraw # 0
    <3>1. /\ rPc = "initVW" /\ rPc' = "update" /\ call # "glViewport"
          /\ config' \in Configs
          /\ UNCHANGED <<drawables, oglDraw, oldDraw, newSize, draw, read, locals,
                         history>>
      BY <1>4, <2>2 DEF initVW, Names
    <3> QED
      BY <2>2, <3>1, <1>quiet
  <2> QED
    BY <2>1, <2>2
<1>5. CASE checkResize
  <2>1. DrawableInv'
    BY <1>5, <1>quiet DEF checkResize
  <2>2. BoundInv'
    BY <1>5 DEF checkResize
  <2> QED
    BY <2>1, <2>2
<1>6. CASE Drain
  <2>1. DrawableInv'
    BY <1>6, <1>quiet DEF Drain
  <2>2. BoundInv'
    BY <1>6 DEF Drain
  <2> QED
    BY <2>1, <2>2
<1>7. CASE Drained
  <2>1. /\ UNCHANGED <<vwin, call, callConfig, draw, read, newDraw, newRead>>
        /\ UNCHANGED <<drawVW, readVW, between, unbound>> /\ rPc = "drained"
        /\ rPc' = "drain" /\ oglDraw # 0
    BY <1>7 DEF Drained
  <2>2. DrawableInv'
    BY <2>1, <1>quiet
  <2>3. BoundInv'
    BY <2>1
  <2> QED
    BY <2>2, <2>3
<1>8. CASE UpdateDraw
  <2>1. /\ rPc = "update" /\ oglDraw \in Live /\ config \in Configs /\ oldDraw = 0
        /\ rPc' = IF readVW THEN "updateRead" ELSE "bind"
        /\ newRead' = IF call = "glXMakeCurrent" THEN newDraw' ELSE newRead
        /\ UNCHANGED <<call, draw, read, drawVW, readVW, between, unbound>>
    BY <1>8 DEF UpdateDraw
  <2>2. CASE ~drawVW
    <3>1. UNCHANGED <<vwin, newSize, newDraw>>
      BY <1>8, <2>2 DEF UpdateDraw
    <3>2. /\ call = "glViewport" /\ readVW /\ draw # 0 /\ newDraw = draw
          /\ between
      BY <2>1, <2>2 DEF TypeOK, Names
    <3> QED
      BY <2>1, <2>2, <3>1, <3>2, <1>quiet
  <2>3. CASE drawVW
    <3>1. updateGLXDrawable /\ newDraw' = oglDraw'
      BY <1>8, <2>3 DEF UpdateDraw
    <3>2. /\ newSize' = NoSize /\ newConfig' = FALSE /\ config' = config
          /\ \/ UNCHANGED <<drawables, oglDraw, oldDraw>>
             \/ /\ oldDraw' = oglDraw /\ Live' = Live \cup {oglDraw'}
                /\ oglDraw' \in Nat \ {0} /\ oglDraw' \notin Live
                /\ oglDraw' # draw /\ oglDraw' # read
      BY <2>1, <3>1, UpdateFacts
    <3>3. readVW \/ call = "glXMakeCurrent"
      BY <2>1 DEF TypeOK, Names
    <3>4. CASE UNCHANGED <<drawables, oglDraw, oldDraw>>
      BY <2>1, <2>3, <3>1, <3>2, <3>3, <3>4, <1>quiet
    <3>5. CASE ~UNCHANGED <<drawables, oglDraw, oldDraw>>
      BY <2>1, <2>3, <3>1, <3>2, <3>3, <3>5
    <3> QED
      BY <3>4, <3>5
  <2> QED
    BY <2>2, <2>3
<1>9. CASE UpdateRead
  <2>1. /\ rPc = "updateRead" /\ oglDraw \in Live /\ config \in Configs
        /\ rPc' = "bind" /\ updateGLXDrawable /\ newRead' = oglDraw'
        /\ UNCHANGED <<call, draw, read, newDraw, drawVW, readVW, between, unbound>>
    BY <1>9 DEF UpdateRead
  <2>2. /\ newSize' = NoSize /\ newConfig' = FALSE /\ config' = config
        /\ \/ UNCHANGED <<drawables, oglDraw, oldDraw>>
           \/ /\ oldDraw' = oglDraw /\ Live' = Live \cup {oglDraw'}
              /\ oglDraw' \in Nat \ {0} /\ oglDraw' \notin Live
              /\ oglDraw' # draw /\ oglDraw' # read
              /\ newSize # NoSize \/ newConfig
    BY <2>1, UpdateFacts
  <2>3. CASE UNCHANGED <<drawables, oglDraw, oldDraw>>
    BY <2>1, <2>2, <2>3, <1>quiet
  <2>4. CASE ~UNCHANGED <<drawables, oglDraw, oldDraw>>
    BY <2>1, <2>2, <2>4
  <2> QED
    BY <2>3, <2>4
<1>10. CASE Bind
  <2>1. /\ rPc = "bind" /\ UNCHANGED <<vwin, newSize>> /\ oglDraw # 0
        /\ newDraw # 0
        /\ \/ newRead = oglDraw /\ (newDraw = oglDraw \/ between)
           \/ call = "glViewport" /\ unbound /\ newDraw = draw /\ newRead = read
    BY <1>10 DEF Bind
  <2>2. CASE /\ call = "glViewport" /\ newDraw = draw /\ newRead = read
             /\ Return /\ UNCHANGED <<draw, read, between, unbound>>
    BY <2>1, <2>2, <1>quiet
  <2>3. CASE /\ ~(call = "glViewport" /\ newDraw = draw /\ newRead = read)
             /\ rPc' = "cleanup" /\ UNCHANGED locals
             /\ draw' = newDraw /\ read' = newRead
             /\ between' = (between /\ newDraw # newRead)
    <3>1. newRead = oglDraw /\ (draw' = oglDraw \/ between')
      BY <2>1, <2>3
    <3> QED
      BY <2>1, <2>3, <3>1, <1>quiet
  <2>4. CASE /\ ~(call = "glViewport" /\ newDraw = draw /\ newRead = read)
             /\ rPc' = "cleanup" /\ UNCHANGED locals /\ unbound'
             /\ UNCHANGED <<draw, read, between>>
    BY <2>1, <2>4, <1>quiet
  <2> QED
    BY <1>10, <2>2, <2>3, <2>4 DEF Bind
<1>11. CASE Cleanup
  <2>1. /\ rPc = "cleanup" /\ cleanup /\ Return
        /\ UNCHANGED <<oglDraw, config, newSize, draw, read, history>>
    BY <1>11 DEF Cleanup
  <2>2. oldDraw' = 0 /\ Live' = Live \ {oldDraw}
    BY <2>1 DEF cleanup, Live
  <2> QED
    BY <2>1, <2>2
<1>12. ASSUME NEW size \in Requests, XConfigureWindow(size)
       PROVE  DrawableInv' /\ BoundInv'
  <2>1. ResizeFound(size) /\ size \in AnySizes
    BY <1>12 DEF XConfigureWindow
  <2>2. /\ UNCHANGED <<vwin, rendering, unbound>> /\ (between => between')
        /\ oglDraw = 0 => newSize' = newSize
        /\ rPc = "updateRead" /\ newSize' # NoSize => between'
    BY <2>1, FoundFacts
  <2> QED
    BY <2>2, <1>xthread
<1>13. CASE Request
  BY <1>13, <1>xthread DEF Request
<1>14. CASE XNextEvent
  BY <1>14, <1>xthread DEF XNextEvent
<1>15. CASE handleEvent
  <2>1. ResizeFound(xArg) /\ xArg \in AnySizes
    BY <1>15 DEF handleEvent, EventInv
  <2>2. /\ UNCHANGED <<vwin, rendering, unbound>> /\ (between => between')
        /\ oglDraw = 0 => newSize' = newSize
        /\ rPc = "updateRead" /\ newSize' # NoSize => between'
    BY <2>1, FoundFacts
  <2> QED
    BY <2>2, <1>xthread
<1>16. CASE ServeRequest
  <2>1. UNCHANGED <<vwin, rendering, newSize, between, unbound>>
    BY <1>16, ServeFacts DEF Reconfigured
  <2> QED
    BY <2>1, <1>xthread
<1>17. ASSUME NEW size \in UserSizes, UserResize(size)
       PROVE  DrawableInv' /\ BoundInv'
  <2>1. UNCHANGED <<vwin, rendering, newSize, between, unbound>>
    BY <1>17 DEF UserResize, Reconfigured
  <2> QED
    BY <2>1, <1>xthread
<1>18. CASE UNCHANGED vars
  BY <1>18, <1>xthread DEF vars
<1> QED
  BY <1>1, <1>2, <1>3, <1>4, <1>5, <1>6, <1>7, <1>8, <1>9, <1>10, <1>11,
     <1>12, <1>13, <1>14, <1>15, <1>16, <1>17, <1>18
     DEF Next, Render, XThread, XServer, Names

(* Only a split call leaves one more drawable behind.                        *)
LEMMA LeakStep ==
    ASSUME IndInv, [Next]_vars PROVE LeakInv'
<1> USE SizeFacts
    DEF IndInv, vwin, rendering, locals, xthread, server, history, Locals,
        Return
<1> DEFINE behind == Live \ {oglDraw, oldDraw}
<1>finite. IsFiniteSet(behind) /\ Cardinality(behind) \in Nat
           /\ Cardinality(behind) <= splits /\ splits \in Nat
  BY FS_Subset, FS_CardinalityType DEF TypeOK, LeakInv
<1> HIDE DEF behind
<1>same. ASSUME behind' = behind, splits' >= splits, splits' \in Nat
         PROVE LeakInv'
  BY <1>same, <1>finite DEF LeakInv, behind
<1>quiet. ASSUME UNCHANGED <<drawables, oglDraw, oldDraw, splits>>
          PROVE LeakInv'
  <2>1. behind' = behind
    BY <1>quiet DEF behind, Live
  <2> QED
    BY <1>finite, <1>quiet, <2>1, <1>same
<1>1. ASSUME NEW fn \in Names, NEW c \in Configs, MakeCurrent(fn, c)
      PROVE LeakInv'
  BY <1>1, <1>quiet DEF MakeCurrent
<1>2. CASE MakeNoneCurrent
  BY <1>2, <1>quiet DEF MakeNoneCurrent
<1>3. CASE glViewport
  BY <1>3, <1>quiet DEF glViewport
<1>4. CASE initVW
  <2>1. CASE oglDraw = 0
    <3>1. oglDraw' = 1 /\ Live' = {1} /\ splits' = splits
      BY <1>4, <2>1, FirstFacts DEF initVW
    <3>2. behind' = {}
      BY <3>1 DEF behind
    <3>3. Cardinality({}) = 0
      BY FS_EmptySet
    <3> QED
      BY <1>finite, <3>1, <3>2, <3>3 DEF LeakInv, behind
  <2>2. CASE oglDraw # 0
    BY <1>4, <2>2, <1>quiet DEF initVW
  <2> QED
    BY <2>1, <2>2
<1>5. CASE checkResize
  BY <1>5, <1>quiet DEF checkResize
<1>6. CASE Drain
  BY <1>6, <1>quiet DEF Drain
<1>7. CASE Drained
  BY <1>7, <1>quiet DEF Drained
<1>8. CASE UpdateDraw
  <2>1. /\ oglDraw \in Live /\ config \in Configs /\ oldDraw = 0
        /\ 0 \notin Live /\ splits' = splits
    BY <1>8 DEF UpdateDraw, DrawableInv, TypeOK
  <2>2. CASE UNCHANGED <<drawables, oglDraw, oldDraw>>
    BY <2>1, <2>2, <1>quiet
  <2>3. CASE ~UNCHANGED <<drawables, oglDraw, oldDraw>>
    <3>1. updateGLXDrawable
      BY <1>8, <2>3 DEF UpdateDraw
    <3>2. /\ oldDraw' = oglDraw /\ oglDraw' \notin Live
          /\ Live' = Live \cup {oglDraw'}
      BY <2>1, <2>3, <3>1, UpdateFacts
    <3>3. behind' = behind
      BY <2>1, <3>2 DEF behind
    <3> QED
      BY <1>finite, <2>1, <3>3, <1>same
  <2> QED
    BY <2>2, <2>3
<1>9. CASE UpdateRead
  <2>1. /\ oglDraw \in Live /\ config \in Configs /\ updateGLXDrawable
        /\ 0 \notin Live /\ newRead' = oglDraw'
        /\ splits' = IF drawVW /\ newRead' # newDraw THEN splits + 1 ELSE splits
        /\ oldDraw # 0 => drawVW /\ newDraw = oglDraw /\ oldDraw \in Live
                           /\ oldDraw # oglDraw
    BY <1>9 DEF UpdateRead, DrawableInv, BoundInv, TypeOK
  <2>2. splits' \in Nat /\ splits' >= splits
    BY <1>finite, <2>1
  <2>3. CASE UNCHANGED <<drawables, oglDraw, oldDraw>>
    <3>1. behind' = behind
      BY <2>3 DEF behind, Live
    <3> QED
      BY <2>2, <3>1, <1>same
  <2>4. CASE ~UNCHANGED <<drawables, oglDraw, oldDraw>>
    <3>1. /\ oldDraw' = oglDraw /\ oglDraw' \notin Live
          /\ Live' = Live \cup {oglDraw'}
      BY <2>1, <2>4, UpdateFacts
    <3>2. behind' = Live \ {oglDraw}
      BY <3>1 DEF behind
    <3>3. CASE oldDraw = 0
      <4>1. behind' = behind
        BY <2>1, <3>2, <3>3 DEF behind
      <4> QED
        BY <2>2, <4>1, <1>same
    <3>4. CASE oldDraw # 0
      <4>1. splits' = splits + 1
        BY <2>1, <3>1, <3>4
      <4>2. behind' = behind \cup {oldDraw} /\ oldDraw \notin behind
        BY <2>1, <3>2, <3>4 DEF behind
      <4>3. Cardinality(behind \cup {oldDraw}) = Cardinality(behind) + 1
        BY <1>finite, <4>2, FS_AddElement
      <4> QED
        BY <1>finite, <4>1, <4>2, <4>3 DEF LeakInv, behind
    <3> QED
      BY <3>3, <3>4
  <2> QED
    BY <2>3, <2>4
<1>10. CASE Bind
  BY <1>10, <1>quiet DEF Bind
<1>11. CASE Cleanup
  <2>1. cleanup /\ UNCHANGED <<oglDraw, splits>>
    BY <1>11 DEF Cleanup, BoundInv
  <2>2. oldDraw' = 0 /\ Live' = Live \ {oldDraw} /\ 0 \notin Live
    BY <2>1 DEF cleanup, Live, TypeOK
  <2>3. behind' = behind
    BY <2>1, <2>2 DEF behind
  <2> QED
    BY <1>finite, <2>1, <2>3, <1>same
<1>12. ASSUME NEW size \in Requests, XConfigureWindow(size) PROVE LeakInv'
  <2>1. UNCHANGED <<vwin, splits>>
    BY <1>12 DEF XConfigureWindow, ResizeFound
  <2> QED
    BY <2>1, <1>quiet
<1>13. CASE Request
  BY <1>13, <1>quiet DEF Request
<1>14. CASE XNextEvent
  BY <1>14, <1>quiet DEF XNextEvent
<1>15. CASE handleEvent
  <2>1. UNCHANGED <<vwin, splits>>
    BY <1>15 DEF handleEvent, ResizeFound
  <2> QED
    BY <2>1, <1>quiet
<1>16. CASE ServeRequest
  <2>1. UNCHANGED <<vwin, splits>>
    BY <1>16, ServeFacts DEF Reconfigured, TypeOK
  <2> QED
    BY <2>1, <1>quiet
<1>17. ASSUME NEW size \in UserSizes, UserResize(size) PROVE LeakInv'
  BY <1>17, <1>quiet DEF UserResize, Reconfigured
<1>18. CASE UNCHANGED vars
  BY <1>18, <1>quiet DEF vars
<1> QED
  BY <1>1, <1>2, <1>3, <1>4, <1>5, <1>6, <1>7, <1>8, <1>9, <1>10, <1>11,
     <1>12, <1>13, <1>14, <1>15, <1>16, <1>17, <1>18
     DEF Next, Render, XThread, XServer, Names

(* Whoever waits for events is told the window's last size last.             *)
LEMMA EventStep ==
    ASSUME IndInv, [Next]_vars PROVE EventInv'
<1> USE SizeFacts
    DEF IndInv, EventInv, vwin, rendering, locals, xthread, server, history,
        Locals, Return
<1>quiet. ASSUME UNCHANGED <<selected, eventdpy, events, winSize, xPc, xArg, rEvent>>,
                 rPc' \notin {"drain", "drained"}
          PROVE  EventInv'
  BY <1>quiet
<1>typed. events \in Seq(Sizes) /\ winSize \in Sizes /\ xArg \in AnySizes \cup {NoSize}
  BY DEF TypeOK
<1>reconfigured.
      ASSUME NEW size \in Sizes, Reconfigured(size) PROVE EventInv'
  <2>1. UNCHANGED <<rendering, xthread, selected, eventdpy>> /\ winSize' = size
    BY <1>reconfigured DEF Reconfigured
  <2>2. CASE selected
    <3>1. events' = Append(events, size)
      BY <1>reconfigured, <2>2 DEF Reconfigured
    <3>2. events' # <<>> /\ events'[Len(events')] = size
      BY <1>typed, <3>1, AppendIsLast
    <3> QED
      BY <2>1, <2>2, <3>2
  <2>3. CASE ~selected
    <3>1. events' = events /\ events = <<>> /\ eventdpy
          /\ rPc \notin {"drain", "drained"} /\ xPc # "handle"
      BY <1>reconfigured, <2>3 DEF Reconfigured
    <3> QED
      BY <2>1, <2>3, <3>1
  <2> QED
    BY <2>2, <2>3
<1>1. ASSUME NEW fn \in Names, NEW c \in Configs, MakeCurrent(fn, c)
      PROVE EventInv'
  <2>1. UNCHANGED <<server, xthread>> /\ rPc' \notin {"drain", "drained"}
    BY <1>1 DEF MakeCurrent
  <2> QED
    BY <2>1
<1>2. CASE MakeNoneCurrent
  <2>1. UNCHANGED <<server, xthread>> /\ rPc' \notin {"drain", "drained"}
    BY <1>2 DEF MakeNoneCurrent
  <2> QED
    BY <2>1
<1>3. CASE glViewport
  <2>1. UNCHANGED <<server, xthread>> /\ rPc' \notin {"drain", "drained"}
    BY <1>3 DEF glViewport
  <2> QED
    BY <2>1
<1>4. CASE initVW
  <2>1. UNCHANGED <<server, xthread>> /\ rPc' \notin {"drain", "drained"}
    BY <1>4 DEF initVW
  <2> QED
    BY <2>1
<1>5. CASE checkResize
  BY <1>5 DEF checkResize, CallInv
<1>6. CASE Drain
  <2>1. CASE events = <<>>
    BY <1>6, <2>1 DEF Drain
  <2>2. CASE events # <<>>
    <3>1. /\ rPc' = "drained" /\ rEvent' = Head(events) /\ events' = Tail(events)
          /\ UNCHANGED <<xthread, winSize, selected, eventdpy>> /\ selected
      BY <1>6, <2>2 DEF Drain
    <3>2. /\ Tail(events) = <<>> => Head(events) = events[Len(events)]
          /\ Tail(events) # <<>>
                => Tail(events)[Len(Tail(events))] = events[Len(events)]
      BY <1>typed, <2>2, LastFacts
    <3>3. xPc # "handle" /\ events[Len(events)] = winSize
      BY <1>6, <2>2 DEF Drain, CallInv
    <3> QED
      BY <3>1, <3>2, <3>3
  <2> QED
    BY <2>1, <2>2
<1>7. CASE Drained
  BY <1>7 DEF Drained
<1>8. CASE UpdateDraw
  <2>1. UNCHANGED <<server, xthread>> /\ rPc' \notin {"drain", "drained"}
    BY <1>8 DEF UpdateDraw
  <2> QED
    BY <2>1
<1>9. CASE UpdateRead
  <2>1. UNCHANGED <<server, xthread>> /\ rPc' \notin {"drain", "drained"}
    BY <1>9 DEF UpdateRead
  <2> QED
    BY <2>1
<1>10. CASE Bind
  <2>1. UNCHANGED <<server, xthread>> /\ rPc' \notin {"drain", "drained"}
    BY <1>10 DEF Bind
  <2> QED
    BY <2>1
<1>11. CASE Cleanup
  <2>1. UNCHANGED <<server, xthread>> /\ rPc' \notin {"drain", "drained"}
    BY <1>11 DEF Cleanup
  <2> QED
    BY <2>1
<1>12. ASSUME NEW size \in Requests, XConfigureWindow(size) PROVE EventInv'
  <2>1. /\ xPc' = "request" /\ xArg' \in AnySizes
        /\ UNCHANGED <<rPc, rEvent, events, winSize, selected, eventdpy>>
    BY <1>12 DEF XConfigureWindow, ResizeFound
  <2> QED
    BY <2>1
<1>13. CASE Request
  BY <1>13 DEF Request
<1>14. CASE XNextEvent
  <2>1. /\ xPc' = "handle" /\ xArg' = Head(events) /\ events' = Tail(events)
        /\ UNCHANGED <<rPc, rEvent, winSize, selected, eventdpy>>
        /\ ~eventdpy /\ events # <<>>
    BY <1>14 DEF XNextEvent
  <2>2. /\ Tail(events) = <<>> => Head(events) = events[Len(events)]
        /\ Tail(events) # <<>>
              => Tail(events)[Len(Tail(events))] = events[Len(events)]
    BY <1>typed, <2>1, LastFacts
  <2>3. Head(events) \in Sizes /\ rPc # "drained" /\ selected
    BY <1>typed, <2>1, TailFacts DEF CallInv
  <2> QED
    BY <2>1, <2>2, <2>3
<1>15. CASE handleEvent
  <2>1. xPc' = "idle" /\ UNCHANGED <<rPc, rEvent, server>>
    BY <1>15 DEF handleEvent, ResizeFound
  <2> QED
    BY <2>1
<1>16. CASE ServeRequest
  <2>1. CASE \E size \in Sizes : Reconfigured(size)
    BY <2>1, <1>reconfigured
  <2>2. CASE UNCHANGED <<rendering, xthread, events, winSize, selected, eventdpy>>
    BY <2>2
  <2> QED
    BY <1>16, <2>1, <2>2, ServeFacts
<1>17. ASSUME NEW size \in UserSizes, UserResize(size) PROVE EventInv'
  BY <1>17, <1>reconfigured DEF UserResize
<1>18. CASE UNCHANGED vars
  BY <1>18 DEF vars
<1> QED
  BY <1>1, <1>2, <1>3, <1>4, <1>5, <1>6, <1>7, <1>8, <1>9, <1>10, <1>11,
     <1>12, <1>13, <1>14, <1>15, <1>16, <1>17, <1>18
     DEF Next, Render, XThread, XServer, Names

(* A resize reaches the drawable as long as an event, or a request that      *)
(* causes one, is on its way.                                                *)
LEMMA ResizeStep ==
    ASSUME IndInv, [Next]_vars PROVE ResizeInv'
<1> USE SizeFacts
    DEF IndInv, ResizeInv, vwin, rendering, locals, xthread, server, history,
        Locals, Return
<1>typed. /\ events \in Seq(Sizes) /\ requests \in Seq(AnySizes)
          /\ winSize \in Sizes
  BY DEF TypeOK
<1>quiet. ASSUME UNCHANGED <<requests, events, winSize, partial, unseen, xPc, xArg>>,
                 oglDraw' # 0 => oglDraw # 0 /\ Coming' = Coming,
                 rPc = "drained" => rPc' = "drained"
          PROVE  ResizeInv'
  <2>1. \A asked : NoEffect(asked)' <=> NoEffect(asked)
    BY <1>quiet DEF NoEffect
  <2> QED
    BY <1>quiet, <2>1
<1>kept. ASSUME UNCHANGED <<drawables, oglDraw, newSize>> PROVE Coming' = Coming
  BY <1>kept DEF Coming
<1>unseen.
      ASSUME NEW size \in Sizes, Reconfigured(size), selected \/ size # winSize
      PROVE  ResizeInv'
  <2>1. CASE selected
    <3>1. events' # <<>>
      BY <1>typed, <1>unseen, <2>1, AppendIsLast DEF Reconfigured
    <3> QED
      BY <3>1
  <2>2. CASE ~selected /\ size # winSize
    BY <1>unseen, <2>2 DEF Reconfigured
  <2> QED
    BY <1>unseen, <2>1, <2>2
<1>1. ASSUME NEW fn \in Names, NEW c \in Configs, MakeCurrent(fn, c)
      PROVE ResizeInv'
  BY <1>1, <1>quiet, <1>kept DEF MakeCurrent
<1>2. CASE MakeNoneCurrent
  BY <1>2, <1>quiet, <1>kept DEF MakeNoneCurrent
<1>3. CASE glViewport
  BY <1>3, <1>quiet, <1>kept DEF glViewport
<1>4. CASE initVW
  <2>1. CASE oglDraw = 0
    <3>1. /\ oglDraw' = 1 /\ newSize' = NoSize
          /\ drawables' = [k \in {1} |-> [size |-> winSize, config |-> callConfig]]
      BY <1>4, <2>1, FirstFacts DEF initVW
    <3>2. Coming' = winSize /\ winSize' = winSize
      BY <1>4, <3>1 DEF Coming, initVW
    <3> QED
      BY <3>2
  <2>2. CASE oglDraw # 0
    BY <1>4, <2>2, <1>quiet, <1>kept DEF initVW
  <2> QED
    BY <2>1, <2>2
<1>5. CASE checkResize
  BY <1>5, <1>quiet, <1>kept DEF checkResize
<1>6. CASE Drain
  <2>1. CASE events = <<>>
    BY <1>6, <2>1, <1>quiet, <1>kept DEF Drain
  <2>2. CASE events # <<>>
    BY <1>6, <2>2 DEF Drain
  <2> QED
    BY <2>1, <2>2
<1>7. CASE Drained
  <2>1. /\ oglDraw \in Live /\ rEvent \in Sizes /\ resize(rEvent)
        /\ UNCHANGED <<drawables, oglDraw, events, winSize>> /\ rPc = "drained"
    BY <1>7 DEF Drained, CallInv, DrawableInv
  <2>2. Coming' = rEvent
    BY <2>1, ResizeFacts
  <2>3. events = <<>> => rEvent = winSize
    BY <2>1 DEF EventInv
  <2> QED
    BY <2>1, <2>2, <2>3
<1>8. CASE UpdateDraw
  <2>1. /\ oglDraw \in Live /\ config \in Configs /\ oglDraw # 0
        /\ rPc' # "drained" /\ rPc = "update"
        /\ UNCHANGED <<xthread, server, history>>
    BY <1>8 DEF UpdateDraw, DrawableInv
  <2>2. CASE updateGLXDrawable
    <3>1. /\ newSize' = NoSize
          /\ \/ /\ UNCHANGED <<drawables, oglDraw, oldDraw>>
                /\ Coming = drawables[oglDraw].size
             \/ drawables' = [k \in Live \cup {oglDraw'} |->
                                IF k = oglDraw'
                                THEN [size |-> Coming, config |-> config]
                                ELSE drawables[k]]
      BY <2>1, <2>2, UpdateFacts
    <3>2. Coming' = Coming
      <4>1. Coming' = drawables'[oglDraw'].size
        BY <3>1 DEF Coming
      <4> QED
        BY <3>1, <4>1
    <3> QED
      BY <2>1, <3>2, <1>quiet
  <2>3. CASE UNCHANGED <<vwin, newSize>>
    BY <2>1, <2>3, <1>quiet, <1>kept
  <2> QED
    BY <1>8, <2>2, <2>3 DEF UpdateDraw
<1>9. CASE UpdateRead
  <2>1. /\ oglDraw \in Live /\ config \in Configs /\ oglDraw # 0
        /\ rPc' # "drained" /\ rPc = "updateRead"
        /\ UNCHANGED <<xthread, server, partial, unseen>>
    BY <1>9 DEF UpdateRead, DrawableInv
  <2>2. updateGLXDrawable
    BY <1>9 DEF UpdateRead
  <2>3. ResizeInv'
    <3>1. /\ newSize' = NoSize
          /\ \/ /\ UNCHANGED <<drawables, oglDraw, oldDraw>>
                /\ Coming = drawables[oglDraw].size
             \/ drawables' = [k \in Live \cup {oglDraw'} |->
                                IF k = oglDraw'
                                THEN [size |-> Coming, config |-> config]
                                ELSE drawables[k]]
      BY <2>1, <2>2, UpdateFacts
    <3>2. Coming' = Coming
      <4>1. Coming' = drawables'[oglDraw'].size
        BY <3>1 DEF Coming
      <4> QED
        BY <3>1, <4>1
    <3> QED
      BY <2>1, <3>2, <1>quiet
  <2> QED
    BY <2>3
<1>10. CASE Bind
  <2>1. rPc = "bind" /\ rPc' # "drained"
        /\ UNCHANGED <<vwin, newSize, xthread, server, partial, unseen>>
    BY <1>10 DEF Bind
  <2> QED
    BY <2>1, <1>quiet, <1>kept
<1>11. CASE Cleanup
  <2>1. /\ rPc = "cleanup" /\ rPc' = "idle"
        /\ UNCHANGED <<oglDraw, newSize, xthread, server, history>>
        /\ cleanup \/ UNCHANGED <<drawables, oldDraw>>
    BY <1>11 DEF Cleanup
  <2>2. ASSUME oglDraw # 0 PROVE drawables'[oglDraw] = drawables[oglDraw]
    BY <2>1, <2>2 DEF cleanup, DrawableInv
  <2>3. oglDraw # 0 => Coming' = Coming
    BY <2>1, <2>2 DEF Coming
  <2> QED
    BY <2>1, <2>3, <1>quiet
<1>12. ASSUME NEW size \in Requests, XConfigureWindow(size) PROVE ResizeInv'
  <2>1. /\ ResizeFound(size) /\ size \in AnySizes
        /\ xPc = "idle" /\ xPc' = "request" /\ xArg' = size
        /\ UNCHANGED <<requests, events, winSize>>
    BY <1>12 DEF XConfigureWindow
  <2>2. /\ UNCHANGED <<oglDraw, rPc>>
        /\ oglDraw # 0 /\ NoEffect(size)
           /\ (Coming = winSize \/ partial \/ unseen)
             => Coming' = winSize \/ partial' \/ unseen'
    BY <2>1, FoundFacts
  <2>3. \A asked : NoEffect(asked)' <=> NoEffect(asked)
    BY <2>1 DEF NoEffect
  <2> QED
    BY <2>1, <2>2, <2>3
<1>13. CASE Request
  <2>1. /\ xPc = "request" /\ requests' = Append(requests, xArg)
        /\ UNCHANGED <<vwin, newSize, rPc, events, winSize, history>>
        /\ xArg \in AnySizes
    BY <1>13 DEF Request, EventInv
  <2>2. /\ \A i \in DOMAIN requests :
              i \in DOMAIN requests' /\ requests'[i] = requests[i]
        /\ Len(requests) + 1 \in DOMAIN requests'
        /\ requests'[Len(requests) + 1] = xArg
    <3>1. /\ Len(requests) \in Nat
          /\ DOMAIN Append(requests, xArg) = 1 .. (Len(requests) + 1)
          /\ \A i \in DOMAIN requests : i \in DOMAIN Append(requests, xArg)
                /\ Append(requests, xArg)[i] = requests[i]
          /\ Append(requests, xArg)[Len(requests) + 1] = xArg
      BY <1>typed, <2>1, AppendFacts
    <3> QED
      BY <2>1, <3>1
  <2>3. \A asked : NoEffect(asked)' <=> NoEffect(asked)
    BY <2>1 DEF NoEffect
  <2>4. Coming' = Coming
    BY <2>1, <1>kept
  <2> QED
    BY <2>1, <2>2, <2>3, <2>4
<1>14. CASE XNextEvent
  BY <1>14 DEF XNextEvent
<1>15. CASE handleEvent
  <2>1. /\ ResizeFound(xArg) /\ xArg \in Sizes /\ xArg \in AnySizes
        /\ xPc = "handle" /\ UNCHANGED server
        /\ events = <<>> => xArg = winSize
    BY <1>15 DEF handleEvent, EventInv
  <2>2. UNCHANGED oglDraw /\ (oglDraw # 0 => Coming' = xArg)
    BY <2>1, FoundFacts
  <2> QED
    BY <2>1, <2>2
<1>16. CASE ServeRequest
  <2>1. /\ requests # <<>> /\ requests' = Tail(requests)
        /\ \E size \in Sizes :
              /\ size = winSize <=> NoEffect(Head(requests))
              /\ \/ Reconfigured(size)
                 \/ /\ size = winSize
                    /\ UNCHANGED <<vwin, newSize, rendering, xthread, events,
                                   winSize, selected, eventdpy, history>>
    BY <1>16, ServeFacts
  <2>2. PICK size \in Sizes :
           /\ size = winSize <=> NoEffect(Head(requests))
           /\ \/ Reconfigured(size)
              \/ /\ size = winSize
                 /\ UNCHANGED <<vwin, newSize, rendering, xthread, events,
                                winSize, selected, eventdpy, history>>
    BY <2>1
  <2>3. CASE Reconfigured(size) /\ (selected \/ size # winSize)
    BY <2>3, <1>unseen
  <2>4. CASE ~(Reconfigured(size) /\ (selected \/ size # winSize))
    <3>1. /\ size = winSize /\ NoEffect(Head(requests))
          /\ UNCHANGED <<vwin, newSize, rendering, xthread, events, winSize, partial>>
          /\ unseen => unseen'
      <4>1. CASE Reconfigured(size)
        BY <2>2, <2>4, <4>1 DEF Reconfigured
      <4>2. CASE ~Reconfigured(size)
        BY <2>2, <4>2
      <4> QED
        BY <4>1, <4>2
    <3>2. \A i \in DOMAIN requests :
             i = 1 \/ (i - 1 \in DOMAIN requests' /\ requests[i] = requests'[i - 1])
      <4>1. /\ Len(requests) \in Nat /\ DOMAIN requests = 1 .. Len(requests)
            /\ DOMAIN Tail(requests) = 1 .. (Len(requests) - 1)
            /\ \A i \in DOMAIN Tail(requests) : Tail(requests)[i] = requests[i + 1]
        BY <1>typed, <2>1, TailFacts
      <4> QED
        BY <2>1, <4>1
    <3>3. Head(requests) = requests[1]
      BY <1>typed, <2>1, TailFacts
    <3>4. \A asked : NoEffect(asked)' <=> NoEffect(asked)
      BY <3>1 DEF NoEffect
    <3>5. Coming' = Coming
      BY <3>1, <1>kept
    <3> QED
      BY <3>1, <3>2, <3>3, <3>4, <3>5
  <2> QED
    BY <2>3, <2>4
<1>17. ASSUME NEW size \in UserSizes, UserResize(size) PROVE ResizeInv'
  BY <1>17, <1>unseen DEF UserResize
<1>18. CASE UNCHANGED vars
  BY <1>18, <1>quiet, <1>kept DEF vars
<1> QED
  BY <1>1, <1>2, <1>3, <1>4, <1>5, <1>6, <1>7, <1>8, <1>9, <1>10, <1>11,
     <1>12, <1>13, <1>14, <1>15, <1>16, <1>17, <1>18
     DEF Next, Render, XThread, XServer, Names

-----------------------------------------------------------------------------
(* The inductive invariant                                                   *)

(* It holds of a window just created, with no drawable yet.                  *)
LEMMA InitInv == Init => IndInv
<1> SUFFICES ASSUME Init PROVE IndInv
  OBVIOUS
<1>1. Live = {} /\ drawables \in [Live -> [size : Sizes, config : Configs]]
  BY DEF Init, Live
<1>2. IsFiniteSet({}) /\ Cardinality({}) = 0
  BY FS_EmptySet
<1>3. requests \in Seq(AnySizes) /\ events \in Seq(Sizes) /\ 0 \in 0 .. MaxResizes
  BY VirtualWinAssumption, EmptySeq DEF Init
<1>4. TypeOK
  BY <1>1, <1>2, <1>3, SizeFacts DEF Init, TypeOK
<1>5. LeakInv
  <2>1. Live \ {oglDraw, oldDraw} = {}
    BY <1>1
  <2>2. splits = 0
    BY DEF Init
  <2> QED
    BY <1>2, <2>1, <2>2 DEF LeakInv
<1>6. CallInv /\ DrawableInv /\ BoundInv /\ EventInv /\ ResizeInv
  BY <1>1 DEF Init, CallInv, DrawableInv, BoundInv, EventInv, ResizeInv, Names
<1> QED
  BY <1>4, <1>5, <1>6 DEF IndInv

(* Whatever the rendering thread, the X thread, the user and the X server do, *)
(* the parts of IndInv stay true together.                                   *)
THEOREM Invariance == Spec => []IndInv
<1>1. IndInv /\ [Next]_vars => IndInv'
  BY TypeStep, CallStep, BoundStep, LeakStep, EventStep, ResizeStep DEF IndInv
<1> QED
  BY InitInv, <1>1, PTL DEF Spec

(* Every variable keeps its type.                                            *)
THEOREM TypeCorrect == Spec => []TypeOK
<1>1. IndInv => TypeOK
  BY DEF IndInv
<1> QED
  BY <1>1, Invariance, PTL

(* Between two calls the window's own drawable is current, whatever the size *)
(* was changed to and by whom while glXMake[Context]Current() or             *)
(* glViewport() ran, unless GLX refused it: read = oglDraw, and draw too but *)
(* after a call that a resize split.                                         *)
THEOREM OwnDrawableIsCurrent == Spec => []CurrentIsKept
<1>1. IndInv => CurrentIsKept
  BY DEF IndInv, BoundInv, CurrentIsKept
<1> QED
  BY <1>1, Invariance, PTL

(* updateGLXDrawable() and cleanup() destroy all they replace but one        *)
(* drawable for each call that a resize split.                               *)
THEOREM ReplacedIsDestroyed == Spec => []NothingLeaked
<1>1. IndInv => NothingLeaked
  BY DEF IndInv, DrawableInv, LeakInv, NothingLeaked
<1> QED
  BY <1>1, Invariance, PTL

(* The drawable follows the window, but for the two ways named.              *)
THEOREM DrawableFollowsWindow == Spec => []NoResizeLost
<1>1. IndInv => NoResizeLost
  <2> SUFFICES ASSUME IndInv, oglDraw # 0, requests = <<>>, events = <<>>,
                      xPc = "idle", rPc # "drained"
               PROVE  Coming = winSize \/ partial \/ unseen
    BY DEF NoResizeLost, Coming
  <2>1. DOMAIN requests = {}
    OBVIOUS
  <2> QED
    BY <2>1 DEF IndInv, ResizeInv
<1> QED
  BY <1>1, Invariance, PTL
=============================================================================
