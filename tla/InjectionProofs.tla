--------------------------- MODULE InjectionProofs ---------------------------
(***************************************************************************)
(* Safety of module Injection for any keys and buttons of the Mac, any     *)
(* displacements, any width of the int16 fields and any number of frames   *)
(* under way.                                                              *)
(*                                                                         *)
(* NothingLeftHeld needs that every frame under way has a code that        *)
(* releaseAll sweeps (the wire is a sequence of Frames, by the key map's   *)
(* assumption), PointerKeepsUp that every frame carries what is due        *)
(* (CarriesDue), which is where the codec's round trip comes in.           *)
(* DeviceMirrorsMac follows the client's session frame by frame through    *)
(* what is on the wire (MirrorInv): at its end the device holds what is    *)
(* held on the Mac.                                                        *)
(***************************************************************************)
EXTENDS Injection, SequenceTheorems, TLAPS

Frames ==
  [type : {"key"}, code : 0..255, pressed : {0, 1}] \cup
  [type : {"button"}, button : 1..3, pressed : {0, 1}] \cup
  [type : {"move", "wheel"}, dx : 0 .. 2*Half - 1, dy : 0 .. 2*Half - 1] \cup
  [type : {"switch"}, direction : {"remote", "back"}]

Swept == 0..255 \cup {btnLeft, btnRight, btnMiddle}

Types ==
  /\ mode \in {"local", "remote"} /\ held \subseteq Inputs
  /\ asks \in BOOLEAN /\ remote \in BOOLEAN /\ open \in BOOLEAN
  /\ axis \in Axes /\ kept \in BOOLEAN /\ exact \in BOOLEAN

WireInv ==
  /\ wire \in Seq(Frames) /\ due \in Seq(Int)
  /\ Len(due) = Len(wire)

CarriesDue == exact => \A n \in 1..Len(wire) : Keeps(wire[n], due[n])

DownInv == down \subseteq Swept /\ NothingLeftHeld /\ (~open => down = {})

IInv == Types /\ WireInv /\ CarriesDue /\ DownInv /\ PointerKeepsUp

-----------------------------------------------------------------------------
\* What is read from an int16 field is what was written (EncodeMouseMove and
\* DecodeMouseMove, EncodeMouseWheel and DecodeMouseWheel).
LEMMA RoundTrip ==
  ASSUME NEW v \in Int16
  PROVE  /\ EncodeInt16(v) \in 0 .. 2*Half - 1
         /\ DecodeInt16(EncodeInt16(v)) = v
BY InputAssumption DEF Int16, EncodeInt16, DecodeInt16

\* Every code of the key map is swept by releaseAll.
LEMMA EvdevRange == ASSUME NEW k PROVE ToEvdev(k) \in 0..255
<1>1. CASE \E p \in macToEvdev : p[1] = k
  <2>1. (CHOOSE p \in macToEvdev : p[1] = k) \in macToEvdev BY <1>1
  <2> QED BY <1>1, <2>1, KeymapAssumption DEF ToEvdev
<1>2. CASE ~ \E p \in macToEvdev : p[1] = k BY <1>2 DEF ToEvdev
<1> QED BY <1>1, <1>2

\* The frame of an input is a frame.
LEMMA FrameOfType ==
  ASSUME NEW i \in [kind : {"key", "button"}, code : Nat], NEW pressed \in {0, 1}
  PROVE  FrameOf(i, pressed) \in Seq(Frames)
<1>1. EncodeKey(ToEvdev(i.code), pressed) \in Frames
  BY EvdevRange DEF EncodeKey, Frames
<1>2. EncodeMouseButton(ButtonOf(i.code), pressed) \in Frames
  BY DEF EncodeMouseButton, ButtonOf, ButtonLeft, ButtonRight, ButtonMiddle, Frames
<1> QED BY <1>1, <1>2 DEF FrameOf

LEMMA InputsType == Inputs \subseteq [kind : {"key", "button"}, code : Nat]
BY InputAssumption DEF Inputs, Key, Button

\* int16 yields an int16, the value itself if it fits.
LEMMA ToInt16Type ==
  ASSUME NEW type, NEW v \in Int, NEW w \in ToInt16(type, v)
  PROVE  w \in Int16 /\ (v \in Int16 => w = v)
<1>1. CASE v \in Int16 BY <1>1 DEF ToInt16
<1>2. CASE v \notin Int16 /\ type = "move" BY <1>2 DEF ToInt16
<1>3. CASE v \notin Int16 /\ type # "move"
  <2>1. w = ((v + Half) % (2 * Half)) - Half BY <1>3 DEF ToInt16
  <2>2. /\ 2 * Half \in Nat \ {0} /\ v + Half \in Int
        /\ Half \in Nat
    BY InputAssumption
  <2>3. (v + Half) % (2 * Half) \in 0 .. 2*Half - 1
    <3> DEFINE a == v + Half  m == 2 * Half
    <3>1. a \in Int /\ m \in Nat \ {0} BY <2>2
    <3> HIDE DEF a, m
    <3>2. a % m \in 0 .. m - 1 BY <3>1
    <3> QED BY <3>2 DEF a, m
  <2> QED BY <1>3, <2>1, <2>2, <2>3 DEF Int16
<1> QED BY <1>1, <1>2, <1>3

\* Sending frames that carry their displacement keeps the wire as it should be.
LEMMA SendKeeps ==
  ASSUME WireInv, CarriesDue, NEW frames \in Seq(Frames), NEW d \in Int,
         SendMoving(frames, d), axis' = axis,
         exact' => exact /\ \A n \in 1..Len(frames) : Keeps(frames[n], d)
  PROVE  WireInv' /\ CarriesDue'
<1> DEFINE ds == [n \in 1..Len(frames) |-> d]
<1>1. ds \in Seq(Int) /\ Len(ds) = Len(frames) /\ \A n \in 1..Len(frames) : ds[n] = d
  <2>1. Len(frames) \in Nat OBVIOUS
  <2> QED BY <2>1
<1>2. wire' = wire \o frames /\ due' = due \o ds BY DEF SendMoving
<1> HIDE DEF ds
<1>3. WireInv'
  <2>1. wire' \in Seq(Frames) /\ due' \in Seq(Int) BY <1>1, <1>2 DEF WireInv
  <2>2. Len(wire') = Len(wire) + Len(frames)
    BY <1>2, ConcatProperties DEF WireInv
  <2>3. Len(due') = Len(due) + Len(ds)
    BY <1>1, <1>2, ConcatProperties DEF WireInv
  <2> QED BY <1>1, <2>1, <2>2, <2>3 DEF WireInv
<1>4. ASSUME exact', NEW n \in 1..Len(wire') PROVE Keeps(wire[n], due[n])'
  <2>1. CASE n <= Len(wire)
    <3>1. wire'[n] = wire[n] /\ due'[n] = due[n] /\ n \in 1..Len(wire)
      BY <1>1, <1>2, <1>4, <2>1 DEF WireInv
    <3> QED BY <1>4, <3>1 DEF CarriesDue, Keeps, DeviceMoves
  <2>2. CASE n > Len(wire)
    <3> DEFINE k == n - Len(wire)
    <3>1. k \in 1..Len(frames) /\ wire'[n] = frames[k] /\ due'[n] = ds[k]
      BY <1>1, <1>2, <1>4, <2>2 DEF WireInv
    <3>2. due'[n] = d BY <1>1, <3>1
    <3>3. Keeps(frames[k], d) BY <1>4, <3>1
    <3> QED BY <3>1, <3>2, <3>3 DEF Keeps, DeviceMoves
  <2>3. n \in Nat /\ Len(wire) \in Nat BY <1>1, <1>2, <1>4 DEF WireInv
  <2> QED BY <2>1, <2>2, <2>3
<1> QED BY <1>3, <1>4 DEF CarriesDue

\* A frame without a displacement is kept whatever was due.
LEMMA SendStill ==
  ASSUME IInv, NEW frames \in Seq(Frames), Send(frames), axis' = axis, exact' = exact,
         \A n \in 1..Len(frames) : frames[n].type \in {"key", "button", "switch"}
  PROVE  WireInv' /\ CarriesDue'
<1>1. \A n \in 1..Len(frames) : Keeps(frames[n], 0) BY DEF Keeps
<1>2. SendMoving(frames, 0) BY DEF Send
<1> QED BY <1>1, <1>2, SendKeeps DEF IInv

-----------------------------------------------------------------------------
LEMMA InitIInv == Init => IInv
<1> SUFFICES ASSUME Init PROVE IInv OBVIOUS
<1>1. wire = <<>> /\ due = <<>> BY DEF Init
<1>2. wire \in Seq(Frames) /\ due \in Seq(Int) /\ Len(due) = Len(wire) /\ Len(wire) = 0
  BY <1>1
<1>3. WireInv /\ CarriesDue BY <1>2 DEF WireInv, CarriesDue
<1>4. Types /\ DownInv /\ PointerKeepsUp
  BY DEF Init, Types, DownInv, NothingLeftHeld, PointerKeepsUp
<1> QED BY <1>3, <1>4 DEF IInv

\* The Mac's side changes nothing on the client.
LEMMA MacEntersKeeps == ASSUME IInv, MacEnters PROVE IInv'
<1> DEFINE frames == <<EncodeSwitch("remote")>>
<1>1. frames \in Seq(Frames) /\ \A n \in 1..Len(frames) : frames[n].type = "switch"
  BY DEF EncodeSwitch, Frames
<1>2. WireInv' /\ CarriesDue' BY <1>1, SendStill DEF MacEnters, moveVars
<1> QED BY <1>2 DEF MacEnters, clientVars, moveVars, IInv, Types, DownInv, NothingLeftHeld,
                    PointerKeepsUp

LEMMA LeaveRemoteSends ==
  ASSUME IInv, LeaveRemote, axis' = axis, exact' = exact PROVE WireInv' /\ CarriesDue'
<1> DEFINE frames == <<EncodeSwitch("back")>>
<1>1. frames \in Seq(Frames) /\ \A n \in 1..Len(frames) : frames[n].type = "switch"
  BY DEF EncodeSwitch, Frames
<1> QED BY <1>1, SendStill DEF LeaveRemote

LEMMA MacLeavesKeeps == ASSUME IInv, MacLeaves PROVE IInv'
<1>1. WireInv' /\ CarriesDue' BY LeaveRemoteSends DEF MacLeaves, moveVars
<1> QED BY <1>1 DEF MacLeaves, LeaveRemote, clientVars, moveVars, IInv, Types, DownInv,
                    NothingLeftHeld, PointerKeepsUp

LEMMA RequestArrivesKeeps == ASSUME IInv, RequestArrives PROVE IInv'
<1>1. WireInv' /\ CarriesDue'
  <2>1. CASE LeaveRemote BY <2>1, LeaveRemoteSends DEF RequestArrives, moveVars
  <2>2. CASE UNCHANGED <<macVars, wire, due>>
    BY <2>2 DEF RequestArrives, moveVars, IInv, WireInv, CarriesDue, Keeps, DeviceMoves
  <2> QED BY <2>1, <2>2 DEF RequestArrives
<1>2. mode' \in {"local", "remote"} /\ held' \subseteq Inputs
  BY DEF RequestArrives, LeaveRemote, macVars, IInv, Types
<1> QED BY <1>1, <1>2 DEF RequestArrives, clientVars, moveVars, IInv, Types, DownInv,
                          NothingLeftHeld, PointerKeepsUp

\* The frames of an input are of a key or a button.
LEMMA FrameOfStill ==
  ASSUME NEW i, NEW pressed
  PROVE  \A n \in 1..Len(FrameOf(i, pressed)) :
           FrameOf(i, pressed)[n].type \in {"key", "button", "switch"}
BY DEF FrameOf, EncodeKey, EncodeMouseButton

LEMMA PressKeeps == ASSUME IInv, NEW i \in Inputs, Press(i) PROVE IInv'
<1>1. WireInv' /\ CarriesDue'
  BY InputsType, FrameOfType, FrameOfStill, SendStill DEF Press, moveVars
<1> QED BY <1>1 DEF Press, clientVars, moveVars, IInv, Types, DownInv, NothingLeftHeld,
                    PointerKeepsUp

LEMMA ReleaseKeeps == ASSUME IInv, NEW i \in Inputs, Release(i) PROVE IInv'
<1>1. WireInv' /\ CarriesDue'
  BY InputsType, FrameOfType, FrameOfStill, SendStill DEF Release, moveVars
<1> QED BY <1>1 DEF Release, clientVars, moveVars, IInv, Types, DownInv, NothingLeftHeld,
                    PointerKeepsUp

LEMMA CapsLockKeeps == ASSUME IInv, CapsLockChanges PROVE IInv'
<1> DEFINE a == FrameOf(Key(CapsLock), 1)  b == FrameOf(Key(CapsLock), 0)
<1>1. Key(CapsLock) \in [kind : {"key", "button"}, code : Nat] BY DEF Key, CapsLock
<1>2. a \in Seq(Frames) /\ b \in Seq(Frames) BY <1>1, FrameOfType
<1>3. /\ \A n \in 1..Len(a) : a[n].type \in {"key", "button", "switch"}
      /\ \A n \in 1..Len(b) : b[n].type \in {"key", "button", "switch"}
  BY FrameOfStill
<1> HIDE DEF a, b
<1>4. /\ a \o b \in Seq(Frames)
      /\ \A n \in 1..Len(a \o b) : (a \o b)[n].type \in {"key", "button", "switch"}
  <2>1. /\ a \o b \in Seq(Frames) /\ Len(a \o b) = Len(a) + Len(b)
        /\ \A n \in 1 .. Len(a) + Len(b) :
             (a \o b)[n] = IF n <= Len(a) THEN a[n] ELSE b[n - Len(a)]
    BY <1>2, ConcatProperties
  <2>2. Len(a) \in Nat /\ Len(b) \in Nat BY <1>2
  <2> QED BY <1>3, <2>1, <2>2
<1>5. Send(a \o b) /\ axis' = axis /\ exact' = exact
  BY DEF CapsLockChanges, moveVars, a, b
<1>6. WireInv' /\ CarriesDue' BY <1>4, <1>5, SendStill
<1> QED BY <1>6 DEF CapsLockChanges, macVars, clientVars, moveVars, IInv, Types, DownInv,
                    NothingLeftHeld, PointerKeepsUp

\* A movement whose displacement fits carries it.
LEMMA MovesKeeps ==
  ASSUME IInv, NEW type \in {"move", "wheel"}, NEW x \in Deltas, NEW y \in Deltas,
         Moves(type, x, y)
  PROVE  IInv'
<1>1. PICK v \in ToInt16(type, x), w \in ToInt16(type, y) :
        SendMoving(<<IF type = "move" THEN EncodeMouse(type, v, w)
                     ELSE EncodeMouse(type, w, v)>>, Meant(type, x, y))
  BY DEF Moves
<1> DEFINE frame == IF type = "move" THEN EncodeMouse(type, v, w) ELSE EncodeMouse(type, w, v)
<1>2. x \in Int /\ y \in Int BY InputAssumption
<1>3. v \in Int16 /\ w \in Int16 /\ (x \in Int16 => v = x) /\ (y \in Int16 => w = y)
  BY <1>2, ToInt16Type
<1>4. <<frame>> \in Seq(Frames)
  <2>1. frame \in Frames BY <1>3, RoundTrip DEF EncodeMouse, Frames
  <2> QED BY <2>1
<1>5. ASSUME x \in Int16, y \in Int16 PROVE Keeps(frame, Meant(type, x, y))
  <2>1. v = x /\ w = y BY <1>3, <1>5
  <2>2. /\ DecodeInt16(EncodeInt16(x)) = x
        /\ DecodeInt16(EncodeInt16(y)) = y
    BY <1>5, RoundTrip
  <2>3. CASE type = "move"
    <3>1. frame = [type |-> type, dx |-> EncodeInt16(x), dy |-> EncodeInt16(y)]
      BY <2>1, <2>3 DEF EncodeMouse
    <3>2. DeviceMoves(type, x, y) = Meant(type, x, y)
      BY <2>3 DEF DeviceMoves, Meant
    <3> QED BY <2>2, <3>1, <3>2 DEF Keeps
  <2>4. CASE type = "wheel"
    <3>1. frame = [type |-> type, dx |-> EncodeInt16(y), dy |-> EncodeInt16(x)]
      BY <2>1, <2>4 DEF EncodeMouse
    <3>2. DeviceMoves(type, y, x) = Meant(type, x, y)
      BY <2>4 DEF DeviceMoves, Meant
    <3> QED BY <2>2, <3>1, <3>2 DEF Keeps
  <2> QED BY <2>3, <2>4
<1>6. Meant(type, x, y) \in Int BY <1>2 DEF Meant
<1>7. /\ axis' = axis /\ (exact' => exact /\ x \in Int16 /\ y \in Int16)
      /\ exact' \in BOOLEAN
  BY DEF Moves
<1> HIDE DEF frame
<1>8. \A n \in 1..Len(<<frame>>) : <<frame>>[n] = frame OBVIOUS
<1>9. SendMoving(<<frame>>, Meant(type, x, y)) BY <1>1 DEF frame
<1>10. WireInv' /\ CarriesDue'
  <2>1. exact' => exact /\ \A n \in 1..Len(<<frame>>) : Keeps(<<frame>>[n], Meant(type, x, y))
    BY <1>5, <1>7, <1>8
  <2>2. WireInv /\ CarriesDue BY DEF IInv
  <2> QED BY <1>4, <1>6, <1>7, <1>9, <2>1, <2>2, SendKeeps
<1> QED BY <1>7, <1>10 DEF Moves, macVars, clientVars, IInv, Types, DownInv, NothingLeftHeld,
                    PointerKeepsUp

-----------------------------------------------------------------------------
\* releaseAll leaves nothing of what frames can press.
LEMMA SweepsAll == ASSUME down \subseteq Swept, open PROVE ReleaseAll = {}
<1>1. /\ ButtonCode(ButtonLeft) = btnLeft /\ ButtonCode(ButtonRight) = btnRight
      /\ ButtonCode(ButtonMiddle) = btnMiddle
  BY DEF ButtonCode, ButtonLeft, ButtonRight, ButtonMiddle
<1>2. ReleaseAll = down \ (0..255 \cup {btnLeft, btnRight, btnMiddle})
  BY <1>1 DEF ReleaseAll
<1> QED BY <1>2 DEF Swept

\* A client that leaves holds nothing.
LEMMA ClientLeavesEmpties ==
  ASSUME IInv, ClientLeaves PROVE remote' = FALSE /\ down' = {}
<1>1. CASE remote /\ open BY <1>1, SweepsAll DEF ClientLeaves, IInv, DownInv
<1>2. CASE remote /\ ~open BY <1>2 DEF ClientLeaves, ReleaseAll, IInv, DownInv
<1>3. CASE ~remote BY <1>3 DEF ClientLeaves, IInv, DownInv, NothingLeftHeld
<1> QED BY <1>1, <1>2, <1>3 DEF ClientLeaves, IInv, Types

\* The frame handled is a frame that carries what is due; the others stay.
LEMMA HandleWire ==
  ASSUME IInv, Handle
  PROVE  /\ Head(wire) \in Frames
         /\ exact => Keeps(Head(wire), Head(due))
         /\ WireInv' /\ CarriesDue'
<1>1. /\ wire \in Seq(Frames) /\ wire # <<>> /\ due \in Seq(Int) /\ due # <<>>
      /\ Len(due) = Len(wire) /\ Len(wire) \in Nat \ {0}
  BY DEF Handle, IInv, WireInv
<1>2. wire' = Tail(wire) /\ due' = Tail(due) /\ axis' = axis /\ exact' = exact BY DEF Handle
<1>3. /\ Head(wire) \in Frames /\ Head(wire) = wire[1] /\ Head(due) = due[1]
      /\ Tail(wire) \in Seq(Frames) /\ Tail(due) \in Seq(Int)
      /\ Len(Tail(wire)) = Len(wire) - 1 /\ Len(Tail(due)) = Len(due) - 1
      /\ \A n \in 1..Len(Tail(wire)) : Tail(wire)[n] = wire[n + 1] /\ Tail(due)[n] = due[n + 1]
  BY <1>1, HeadTailProperties
<1>4. exact => Keeps(Head(wire), Head(due))
  <2>1. 1 \in 1..Len(wire) BY <1>1
  <2> QED BY <1>3, <2>1 DEF IInv, CarriesDue
<1>5. WireInv' BY <1>1, <1>2, <1>3 DEF WireInv
<1>6. ASSUME exact', NEW n \in 1..Len(wire') PROVE Keeps(wire[n], due[n])'
  <2>1. n + 1 \in 1..Len(wire) BY <1>1, <1>2, <1>3, <1>6
  <2>2. Keeps(wire[n + 1], due[n + 1]) BY <1>2, <1>6, <2>1 DEF IInv, CarriesDue
  <2>3. wire'[n] = wire[n + 1] /\ due'[n] = due[n + 1] BY <1>2, <1>3, <1>6
  <2> QED BY <1>2, <2>2, <2>3 DEF Keeps, DeviceMoves
<1> QED BY <1>3, <1>4, <1>5, <1>6 DEF CarriesDue

\* A key or button that is written to the device is one that is swept.
LEMMA DeviceKeySwept ==
  ASSUME IInv, remote, NEW code \in Swept, NEW pressed, DeviceKey(code, pressed)
  PROVE  down' \subseteq Swept /\ (~open => down' = {})
BY DEF DeviceKey, IInv, DownInv

LEMMA ButtonSwept == ASSUME NEW b \in 1..3 PROVE ButtonCode(b) \in Swept
BY DEF ButtonCode, ButtonLeft, ButtonRight, ButtonMiddle, Swept

LEMMA HandleKeeps == ASSUME IInv, Handle PROVE IInv'
<1> DEFINE f == Head(wire)
<1>1. /\ f \in Frames /\ (exact => Keeps(f, Head(due))) /\ WireInv' /\ CarriesDue'
  BY HandleWire
<1>2. UNCHANGED <<mode, held, asks, open, axis, exact>> BY DEF Handle, macVars
<1>3. kept' \in BOOLEAN /\ PointerKeepsUp'
  BY <1>1, <1>2 DEF Handle, IInv, Types, PointerKeepsUp
<1>4. remote' \in BOOLEAN /\ DownInv'
  <2>1. CASE ~Injects(f)
    <3>1. UNCHANGED <<remote, down>> BY <2>1 DEF Handle
    <3> QED BY <1>2, <3>1 DEF IInv, Types, DownInv, NothingLeftHeld
  <2>2. CASE Injects(f)
    <3>1. Inject(f) BY <2>2 DEF Handle
    <3>2. CASE f.type = "key"
      <4>1. remote /\ f.code \in 0..255 BY <1>1, <2>2, <3>2 DEF Injects, InputFrames, Frames
      <4>2. f.code \in Swept BY <4>1 DEF Swept
      <4>3. DeviceKey(f.code, f.pressed) /\ remote' = remote BY <3>1, <3>2 DEF Inject
      <4>4. down' \subseteq Swept /\ (~open => down' = {})
        BY <4>1, <4>2, <4>3, DeviceKeySwept
      <4> QED BY <1>2, <4>1, <4>3, <4>4 DEF IInv, Types, DownInv, NothingLeftHeld
    <3>3. CASE f.type = "button"
      <4>1. remote /\ f.button \in 1..3 BY <1>1, <2>2, <3>3 DEF Injects, InputFrames, Frames
      <4>2. ButtonCode(f.button) \in Swept BY <4>1, ButtonSwept
      <4>3. DeviceKey(ButtonCode(f.button), f.pressed) /\ remote' = remote
        BY <3>1, <3>3 DEF Inject
      <4>4. down' \subseteq Swept /\ (~open => down' = {})
        BY <4>1, <4>2, <4>3, DeviceKeySwept
      <4> QED BY <1>2, <4>1, <4>3, <4>4 DEF IInv, Types, DownInv, NothingLeftHeld
    <3>4. CASE f.type \in {"move", "wheel"}
      <4>1. UNCHANGED <<remote, down>> BY <3>1, <3>4 DEF Inject
      <4> QED BY <1>2, <4>1 DEF IInv, Types, DownInv, NothingLeftHeld
    <3>5. CASE f.type = "switch" /\ f.direction = "remote"
      <4>1. remote' = TRUE /\ down' = down BY <3>1, <3>5 DEF Inject
      <4> QED BY <1>2, <4>1 DEF IInv, DownInv, NothingLeftHeld
    <3>6. CASE f.type = "switch" /\ f.direction = "back"
      <4>1. ClientLeaves BY <3>1, <3>6 DEF Inject
      <4>2. remote' = FALSE /\ down' = {} BY <4>1, ClientLeavesEmpties
      <4> QED BY <4>2 DEF DownInv, NothingLeftHeld
    <3> QED BY <1>1, <3>1, <3>2, <3>3, <3>4, <3>5, <3>6 DEF Inject
  <2> QED BY <2>1, <2>2
<1> QED BY <1>1, <1>2, <1>3, <1>4 DEF IInv, Types

LEMMA WatcherReturnsKeeps == ASSUME IInv, WatcherReturns PROVE IInv'
<1>1. remote' = FALSE /\ down' = {} BY ClientLeavesEmpties DEF WatcherReturns
<1>2. WireInv' /\ CarriesDue'
  BY DEF WatcherReturns, moveVars, IInv, WireInv, CarriesDue, Keeps, DeviceMoves
<1> QED BY <1>1, <1>2 DEF WatcherReturns, macVars, moveVars, IInv, Types, DownInv,
                          NothingLeftHeld, PointerKeepsUp

LEMMA DisconnectKeeps == ASSUME IInv, Disconnect PROVE IInv'
<1>1. remote' = FALSE /\ down' = {} BY ClientLeavesEmpties DEF Disconnect
<1>2. wire' = <<>> /\ due' = <<>> BY DEF Disconnect
<1>3. /\ wire' \in Seq(Frames) /\ due' \in Seq(Int) /\ Len(due') = Len(wire')
      /\ Len(wire') = 0
  BY <1>2
<1>4. WireInv' /\ CarriesDue' BY <1>3 DEF WireInv, CarriesDue
<1> QED BY <1>1, <1>4 DEF Disconnect, moveVars, IInv, Types, DownInv, NothingLeftHeld,
                          PointerKeepsUp

LEMMA CloseKeeps == ASSUME IInv, Close PROVE IInv'
<1>1. WireInv' /\ CarriesDue'
  BY DEF Close, moveVars, IInv, WireInv, CarriesDue, Keeps, DeviceMoves
<1> QED BY <1>1 DEF Close, macVars, moveVars, IInv, Types, DownInv, NothingLeftHeld,
                    PointerKeepsUp

LEMMA StutterKeeps == ASSUME IInv, UNCHANGED vars PROVE IInv'
BY DEF vars, macVars, clientVars, moveVars, IInv, Types, WireInv, CarriesDue, Keeps,
       DeviceMoves, DownInv, NothingLeftHeld, PointerKeepsUp

\* The strengthening is an invariant.
THEOREM InjectionInvariant == Spec => []IInv
<1>1. Init => IInv BY InitIInv
<1>2. IInv /\ [Next]_vars => IInv'
  <2> SUFFICES ASSUME IInv, [Next]_vars PROVE IInv' OBVIOUS
  <2> QED BY MacEntersKeeps, MacLeavesKeeps, RequestArrivesKeeps, PressKeeps, ReleaseKeeps,
             CapsLockKeeps, MovesKeeps, HandleKeeps, WatcherReturnsKeeps, DisconnectKeeps,
             CloseKeeps, StutterKeeps DEF Next
<1> QED BY <1>1, <1>2, PTL DEF Spec

\* Every variable of Injection has its type (client.go's state and the frames
\* under way).
THEOREM InjectionTypeOK == Spec => []TypeOK
<1>1. IInv => TypeOK
  BY DEF IInv, Types, WireInv, DownInv, Swept, TypeOK, keyMax, btnLeft, btnRight, btnMiddle
<1> QED BY <1>1, InjectionInvariant, PTL

\* releaseAll (client.go) sweeps every code that the key map, the button table
\* and the device let through: a client that does not inject holds nothing.
THEOREM NothingLeftHeldAlways == Spec => []NothingLeftHeld
<1>1. IInv => NothingLeftHeld BY DEF IInv, DownInv
<1> QED BY <1>1, InjectionInvariant, PTL

\* As long as every displacement fits in an int16, what the client injects is
\* what macOS reported, on each of the four axes and for any width of the field.
THEOREM PointerKeepsUpAlways == Spec => []PointerKeepsUp
<1>1. IInv => PointerKeepsUp BY DEF IInv
<1> QED BY <1>1, InjectionInvariant, PTL
-----------------------------------------------------------------------------
(* The device mirrors the Mac.  While the Mac keeps its own input, the     *)
(* client is going to be under local control when it has handled what is   *)
(* under way.  While the Mac forwards, the client's session starts at its  *)
(* present state or at a frame under way, and from there the codes it      *)
(* holds are worked out frame by frame up to what the Mac holds.           *)

ToRemote == EncodeSwitch("remote")
Back == EncodeSwitch("back")

\* The codes that are down once a client that held d has injected f.
Applied(d, f) ==
  LET c == IF f.type = "key" THEN f.code ELSE ButtonCode(f.button)
  IN  IF f.type \notin {"key", "button"} THEN d
      ELSE IF f.pressed = 1 THEN d \cup {c} ELSE d \ {c}

\* A client with remote = r that handles the first n frames of w is then
\* under local control.
LocalAfter(w, n, r) ==
  \/ ~r /\ \A k \in 1..n : w[k].type # "switch"
  \/ \E j \in 1..n : w[j] = Back /\ \A k \in j + 1 .. n : w[k].type # "switch"

\* The client's session starts with frame m, or has started for m = 0, and st[k]
\* is what it holds after k frames of w.
Session(w, m, st, r, d) ==
  /\ \/ m = 0 /\ r /\ st[0] = d
     \/ m \in 1..Len(w) /\ w[m] = ToRemote /\ st[m] = {} /\ LocalAfter(w, m - 1, r)
  /\ \A k \in m + 1 .. Len(w) : w[k].type # "switch" /\ st[k] = Applied(st[k - 1], w[k])

Downs == [Nat -> SUBSET Nat]

\* d are the codes of the inputs in h.
Mirrors(d, h) ==
  /\ 0 \notin d /\ d \subseteq {CodeOf(i) : i \in h}
  /\ \A i \in h : CodeOf(i) \in d \cup {0, btnMiddle}

\* A session of which the last state mirrors h.
MirroredBy(h, w, r, d) ==
  \E m \in Nat, st \in Downs : Session(w, m, st, r, d) /\ Mirrors(st[Len(w)], h)

MirrorInv ==
  /\ mode = "local" => LocalAfter(wire, Len(wire), remote)
  /\ mode = "remote" /\ ~asks /\ open => MirroredBy(held, wire, remote, down)

\* The codes of inputs: two inputs share none, but for 0 and the middle button.
LEMMA Codes ==
  /\ \A i \in Inputs : CodeOf(i) \in 0..255 \cup {btnLeft, btnRight, btnMiddle}
  /\ \A i, j \in Inputs : CodeOf(i) = CodeOf(j) /\ CodeOf(i) \notin {0, btnMiddle} => i = j
  /\ \A i \in Inputs : CodeOf(i) # 0 => CodeOf(i) # ToEvdev(CapsLock)
<1> DEFINE pair(k) == CHOOSE p \in macToEvdev : p[1] = k
<1>1. \A k : ToEvdev(k) # 0 => pair(k) \in macToEvdev /\ pair(k)[1] = k /\ ToEvdev(k) = pair(k)[2]
  BY DEF ToEvdev
<1> HIDE DEF pair
<1>2. \A k, l : ToEvdev(k) = ToEvdev(l) /\ ToEvdev(k) # 0 => k = l
  <2> SUFFICES ASSUME NEW k, NEW l, ToEvdev(k) = ToEvdev(l), ToEvdev(k) # 0 PROVE k = l
    OBVIOUS
  <2>1. /\ pair(k) \in macToEvdev /\ pair(k)[1] = k /\ ToEvdev(k) = pair(k)[2]
        /\ pair(l) \in macToEvdev /\ pair(l)[1] = l /\ ToEvdev(l) = pair(l)[2]
    BY <1>1
  <2>2. pair(k) = pair(l) BY <2>1, KeymapAssumption
  <2> QED BY <2>1, <2>2
<1>3. \A i \in Inputs : \/ i.kind = "key" /\ i = Key(i.code) /\ i.code \in MacKeys
                        \/ i.kind = "button" /\ i = Button(i.code) /\ i.code \in Nat
  BY InputAssumption DEF Inputs, Key, Button
<1>4. \A i \in Inputs : i.kind = "key" => CodeOf(i) = ToEvdev(i.code) /\ CodeOf(i) \in 0..255
  BY EvdevRange DEF CodeOf
<1>5. \A i \in Inputs : i.kind = "button" =>
        \/ i.code = 0 /\ CodeOf(i) = btnLeft
        \/ i.code = 1 /\ CodeOf(i) = btnRight
        \/ CodeOf(i) = btnMiddle
  BY DEF CodeOf, ButtonOf, ButtonCode, ButtonLeft, ButtonRight, ButtonMiddle
<1>6. ASSUME NEW i \in Inputs, NEW j \in Inputs, CodeOf(i) = CodeOf(j), CodeOf(i) \notin {0, btnMiddle}
      PROVE  i = j
  <2>1. CASE i.kind = "key"
    <3>1. CodeOf(i) \in 0..255 BY <1>4, <2>1
    <3>2. j.kind = "key" BY <1>3, <1>5, <1>6, <3>1 DEF btnLeft, btnRight, btnMiddle
    <3>3. i.code = j.code BY <1>2, <1>4, <1>6, <2>1, <3>2
    <3> QED BY <1>3, <2>1, <3>2, <3>3
  <2>2. CASE i.kind = "button"
    <3>1. CodeOf(i) \in {btnLeft, btnRight} BY <1>5, <1>6, <2>2
    <3>2. j.kind = "button" BY <1>3, <1>4, <1>6, <3>1 DEF btnLeft, btnRight
    <3>3. i.code = j.code BY <1>5, <1>6, <2>2, <3>2 DEF btnLeft, btnRight, btnMiddle
    <3> QED BY <1>3, <2>2, <3>2, <3>3
  <2> QED BY <1>3, <2>1, <2>2
<1>7. ASSUME NEW i \in Inputs, CodeOf(i) # 0, CodeOf(i) = ToEvdev(CapsLock) PROVE FALSE
  <2>1. i.kind = "key"
    <3>1. CodeOf(i) \in 0..255 BY <1>7, EvdevRange
    <3> QED BY <1>3, <1>5, <3>1 DEF btnLeft, btnRight, btnMiddle
  <2>2. i.code = CapsLock BY <1>2, <1>4, <1>7, <2>1
  <2> QED BY <1>3, <2>1, <2>2, InputAssumption
<1> QED BY <1>3, <1>4, <1>5, <1>6, <1>7

\* What a press, a release and Caps Lock do to the mirror.
LEMMA MirrorPress ==
  ASSUME NEW h \in SUBSET Inputs, NEW d, NEW i \in Inputs, Mirrors(d, h)
  PROVE  /\ CodeOf(i) = 0 => Mirrors(d, h \cup {i})
         /\ CodeOf(i) # 0 => Mirrors(d \cup {CodeOf(i)}, h \cup {i})
BY DEF Mirrors

LEMMA MirrorRelease ==
  ASSUME NEW h \in SUBSET Inputs, NEW d, NEW i \in h, Mirrors(d, h)
  PROVE  /\ CodeOf(i) = 0 => Mirrors(d, h \ {i})
         /\ CodeOf(i) # 0 => Mirrors(d \ {CodeOf(i)}, h \ {i})
<1> DEFINE c == CodeOf(i)
<1>1. \A j \in h \ {i} : CodeOf(j) = c => c \in {0, btnMiddle}
  <2> SUFFICES ASSUME NEW j \in h \ {i}, CodeOf(j) = c PROVE c \in {0, btnMiddle} OBVIOUS
  <2>1. i \in Inputs /\ j \in Inputs /\ i # j OBVIOUS
  <2> QED BY <2>1, Codes
<1> HIDE DEF c
<1>2. ASSUME c = 0 PROVE Mirrors(d, h \ {i}) BY <1>2 DEF Mirrors, c
<1>3. ASSUME c # 0 PROVE Mirrors(d \ {c}, h \ {i})
  <2>1. d \ {c} \subseteq {CodeOf(j) : j \in h \ {i}} BY DEF Mirrors, c
  <2>2. ASSUME NEW j \in h \ {i} PROVE CodeOf(j) \in (d \ {c}) \cup {0, btnMiddle}
    BY <1>1, <2>2 DEF Mirrors
  <2> QED BY <2>1, <2>2 DEF Mirrors
<1> QED BY <1>2, <1>3 DEF c

LEMMA MirrorCapsLock ==
  ASSUME NEW h \in SUBSET Inputs, NEW d, Mirrors(d, h), NEW c, c = ToEvdev(CapsLock), c # 0
  PROVE  Mirrors((d \cup {c}) \ {c}, h)
<1>1. c \notin d
  <2>1. \A i \in h : CodeOf(i) # 0 => CodeOf(i) # c BY Codes
  <2> QED BY <2>1 DEF Mirrors
<1>2. (d \cup {c}) \ {c} = d BY <1>1
<1> QED BY <1>2

-----------------------------------------------------------------------------
\* Sending.

LEMMA Longer ==
  ASSUME NEW w \in Seq(Frames), NEW f \in Frames
  PROVE  /\ w \o <<f>> \in Seq(Frames) /\ Len(w \o <<f>>) = Len(w) + 1
         /\ (w \o <<f>>)[Len(w) + 1] = f
         /\ \A k \in 1..Len(w) : (w \o <<f>>)[k] = w[k]
OBVIOUS

\* The first n frames alone matter.
LEMMA LocalPrefix ==
  ASSUME NEW v, NEW w, NEW n \in Nat, NEW r, LocalAfter(v, n, r), \A k \in 1..n : w[k] = v[k]
  PROVE  LocalAfter(w, n, r)
BY DEF LocalAfter

LEMMA AppliedType ==
  ASSUME NEW f \in Frames, NEW d \in SUBSET Nat PROVE Applied(d, f) \in SUBSET Nat
<1>1. CASE f.type = "key"
  <2>1. f.code \in Nat BY <1>1 DEF Frames
  <2> QED BY <1>1, <2>1 DEF Applied
<1>2. CASE f.type = "button"
  <2>1. ButtonCode(f.button) \in Nat BY DEF ButtonCode, btnLeft, btnRight, btnMiddle
  <2> QED BY <1>2, <2>1 DEF Applied
<1> QED BY <1>1, <1>2 DEF Applied

\* A session goes on with the next frame.
LEMMA SessionGoesOn ==
  ASSUME NEW w \in Seq(Frames), NEW f \in Frames, f.type # "switch", NEW r, NEW d,
         NEW m \in Nat, NEW st \in Downs, Session(w, m, st, r, d)
  PROVE  \E next \in Downs : /\ Session(w \o <<f>>, m, next, r, d)
                             /\ next[Len(w \o <<f>>)] = Applied(st[Len(w)], f)
<1> DEFINE l == Len(w)
           u == w \o <<f>>
           next == [st EXCEPT ![l + 1] = Applied(st[l], f)]
<1>1. l \in Nat /\ Len(u) = l + 1 /\ u[l + 1] = f /\ \A k \in 1..l : u[k] = w[k] BY Longer
<1>2. m <= l BY <1>1 DEF Session
<1>3. next \in Downs
  <2>1. Applied(st[l], f) \in SUBSET Nat BY <1>1, AppliedType DEF Downs
  <2> QED BY <2>1 DEF Downs
<1>4. next[l + 1] = Applied(st[l], f) /\ \A k \in 0..l : next[k] = st[k] BY <1>1 DEF Downs
<1> HIDE DEF u, next, l
<1>5. \/ m = 0 /\ r /\ next[0] = d
      \/ m \in 1..Len(u) /\ u[m] = ToRemote /\ next[m] = {} /\ LocalAfter(u, m - 1, r)
  <2>1. CASE m = 0 /\ r /\ st[0] = d
    <3>1. 0 \in 0..l BY <1>1
    <3> QED BY <1>4, <2>1, <3>1
  <2>2. CASE m \in 1..l /\ w[m] = ToRemote /\ st[m] = {} /\ LocalAfter(w, m - 1, r)
    <3>1. m - 1 \in Nat /\ \A k \in 1 .. m - 1 : k \in 1..l BY <1>1, <2>2
    <3>2. LocalAfter(u, m - 1, r) BY <1>1, <2>2, <3>1, LocalPrefix
    <3>3. m \in 1..Len(u) /\ u[m] = ToRemote /\ next[m] = {} BY <1>1, <1>4, <2>2
    <3> QED BY <3>2, <3>3
  <2> QED BY <2>1, <2>2 DEF Session, l
<1>6. ASSUME NEW k \in m + 1 .. Len(u)
      PROVE  u[k].type # "switch" /\ next[k] = Applied(next[k - 1], u[k])
  <2>1. k \in Nat /\ k - 1 \in 0..l BY <1>1, <1>6
  <2>2. CASE k <= l
    <3>1. k \in m + 1 .. l /\ k \in 1..l /\ k \in 0..l BY <1>1, <1>6, <2>1, <2>2
    <3>2. w[k].type # "switch" /\ st[k] = Applied(st[k - 1], w[k]) BY <3>1 DEF Session, l
    <3> QED BY <1>1, <1>4, <2>1, <3>1, <3>2
  <2>3. CASE k > l
    <3>1. k = l + 1 /\ k - 1 = l /\ l \in 0..l BY <1>1, <1>6, <2>1, <2>3
    <3>2. u[k] = f /\ next[k] = Applied(st[l], f) /\ next[k - 1] = st[l] BY <1>1, <1>4, <3>1
    <3> QED BY <3>2
  <2> QED BY <1>1, <2>1, <2>2, <2>3
<1>7. Session(u, m, next, r, d) BY <1>5, <1>6 DEF Session
<1>8. next[Len(u)] = Applied(st[l], f) BY <1>1, <1>4
<1> QED BY <1>3, <1>7, <1>8 DEF u, l

\* A frame that takes the mirror of g to one of h.
LEMMA MirrorSends ==
  ASSUME NEW w \in Seq(Frames), NEW f \in Frames, f.type # "switch", NEW r, NEW d,
         NEW g, NEW h, MirroredBy(g, w, r, d),
         \A x \in SUBSET Nat : Mirrors(x, g) => Mirrors(Applied(x, f), h)
  PROVE  MirroredBy(h, w \o <<f>>, r, d)
<1>1. PICK m \in Nat, st \in Downs : Session(w, m, st, r, d) /\ Mirrors(st[Len(w)], g)
  BY DEF MirroredBy
<1>2. PICK next \in Downs : /\ Session(w \o <<f>>, m, next, r, d)
                            /\ next[Len(w \o <<f>>)] = Applied(st[Len(w)], f)
  BY <1>1, SessionGoesOn
<1>3. st[Len(w)] \in SUBSET Nat BY DEF Downs
<1> QED BY <1>1, <1>2, <1>3 DEF MirroredBy

\* The Mac hands over, or takes back.
LEMMA HandOverMirrors ==
  ASSUME NEW w \in Seq(Frames), NEW r, NEW d, LocalAfter(w, Len(w), r)
  PROVE  MirroredBy({}, w \o <<ToRemote>>, r, d)
<1> DEFINE u == w \o <<ToRemote>>
           m == Len(w) + 1
           st == [k \in Nat |-> {}]
<1>1. ToRemote \in Frames BY DEF ToRemote, EncodeSwitch, Frames
<1>2. Len(w) \in Nat /\ Len(u) = m /\ u[m] = ToRemote /\ \A k \in 1..Len(w) : u[k] = w[k]
  BY <1>1, Longer
<1>3. LocalAfter(u, Len(w), r) BY <1>2, LocalPrefix
<1>4. m \in Nat /\ m \in 1..Len(u) /\ m - 1 = Len(w) /\ m + 1 .. Len(u) = {} BY <1>2
<1>5. st \in Downs /\ st[m] = {} /\ st[Len(u)] = {} BY <1>2, <1>4 DEF Downs
<1> HIDE DEF u, m, st
<1>6. Session(u, m, st, r, d) BY <1>2, <1>3, <1>4, <1>5 DEF Session
<1>7. Mirrors({}, {}) BY DEF Mirrors
<1> QED BY <1>4, <1>5, <1>6, <1>7 DEF MirroredBy, u

LEMMA TakeBackIsLocal ==
  ASSUME NEW w \in Seq(Frames), NEW r
  PROVE  LocalAfter(w \o <<Back>>, Len(w \o <<Back>>), r)
<1>1. Back \in Frames BY DEF Back, EncodeSwitch, Frames
<1> DEFINE n == Len(w \o <<Back>>)
<1>2. n \in 1..n /\ (w \o <<Back>>)[n] = Back /\ n + 1 .. n = {} BY <1>1, Longer
<1> QED BY <1>2 DEF LocalAfter

-----------------------------------------------------------------------------
\* Handling.

\* What the frame handled does to the client.
LEMMA Handled ==
  ASSUME IInv, Handle
  PROVE  /\ wire[1] \in Frames /\ Len(wire) \in Nat \ {0}
         /\ Len(wire') = Len(wire) - 1 /\ \A k \in 1..Len(wire') : wire'[k] = wire[k + 1]
         /\ wire[1].type # "switch" => remote' = remote
         /\ wire[1].type # "switch" /\ remote /\ open => down' = Applied(down, wire[1])
         /\ wire[1] = ToRemote => remote' = TRUE /\ down' = down
         /\ wire[1] = Back => remote' = FALSE
         /\ UNCHANGED <<mode, held, asks, open>>
<1> DEFINE f == wire[1]
<1>1. /\ wire \in Seq(Frames) /\ wire # <<>> /\ wire' = Tail(wire) BY DEF Handle, IInv, WireInv
<1>2. /\ f \in Frames /\ Head(wire) = f /\ Len(wire) \in Nat \ {0}
      /\ Len(Tail(wire)) = Len(wire) - 1 /\ \A k \in 1..Len(Tail(wire)) : Tail(wire)[k] = wire[k + 1]
  BY <1>1, HeadTailProperties
<1>3. IF Injects(f) THEN Inject(f) ELSE UNCHANGED <<remote, down>> BY <1>2 DEF Handle
<1> HIDE DEF f
<1>4. f.type # "switch" => remote' = remote
  BY <1>3 DEF Inject
<1>5. ASSUME f.type # "switch", remote, open PROVE down' = Applied(down, f)
  <2>1. Inject(f) BY <1>3, <1>5 DEF Injects
  <2>2. CASE f.type = "key"
    <3>1. f.code \in 0..keyMax
      <4>1. f.code \in 0..255 BY <1>2, <2>2 DEF Frames
      <4> QED BY <4>1 DEF keyMax
    <3>2. DeviceKey(f.code, f.pressed) BY <2>1, <2>2 DEF Inject
    <3> QED BY <1>5, <2>2, <3>1, <3>2 DEF DeviceKey, Applied
  <2>3. CASE f.type = "button"
    <3>1. ButtonCode(f.button) \in 0..keyMax BY DEF ButtonCode, btnLeft, btnRight, btnMiddle, keyMax
    <3>2. DeviceKey(ButtonCode(f.button), f.pressed) BY <2>1, <2>3 DEF Inject
    <3> QED BY <1>5, <2>3, <3>1, <3>2 DEF DeviceKey, Applied
  <2>4. CASE f.type \in {"move", "wheel"} BY <2>1, <2>4 DEF Inject, Applied
  <2> QED BY <1>5, <2>1, <2>2, <2>3, <2>4 DEF Inject
<1>6. ASSUME f = ToRemote PROVE remote' = TRUE /\ down' = down
  <2>1. f.type = "switch" /\ f.direction = "remote" BY <1>6 DEF ToRemote, EncodeSwitch
  <2>2. Inject(f) BY <1>3, <2>1 DEF Injects, InputFrames
  <2> QED BY <2>1, <2>2 DEF Inject
<1>7. ASSUME f = Back PROVE remote' = FALSE
  <2>1. f.type = "switch" /\ f.direction = "back" BY <1>7 DEF Back, EncodeSwitch
  <2>2. Inject(f) BY <1>3, <2>1 DEF Injects, InputFrames
  <2> QED BY <2>1, <2>2 DEF Inject, ClientLeaves
<1> QED BY <1>1, <1>2, <1>4, <1>5, <1>6, <1>7 DEF Handle, macVars, f

LEMMA HandleLocal ==
  ASSUME IInv, Handle, NEW n \in 1..Len(wire), LocalAfter(wire, n, remote)
  PROVE  LocalAfter(wire', n - 1, remote')
<1>1. /\ Len(wire) \in Nat \ {0} /\ Len(wire') = Len(wire) - 1
      /\ \A k \in 1..Len(wire') : wire'[k] = wire[k + 1]
      /\ wire[1].type # "switch" => remote' = remote
      /\ wire[1] = Back => remote' = FALSE
  BY Handled
<1>2. n - 1 \in Nat /\ n - 1 <= Len(wire') /\ 1 \in 1..n BY <1>1
<1>3. CASE ~remote /\ \A k \in 1..n : wire[k].type # "switch"
  <2>1. remote' = FALSE \/ ~remote' BY <1>1, <1>2, <1>3
  <2>2. \A k \in 1 .. n - 1 : wire'[k].type # "switch" BY <1>1, <1>2, <1>3
  <2> QED BY <2>1, <2>2 DEF LocalAfter
<1>4. ASSUME NEW j \in 1..n, wire[j] = Back, \A k \in j + 1 .. n : wire[k].type # "switch"
      PROVE  LocalAfter(wire', n - 1, remote')
  <2>1. \A k \in j .. n - 1 : k \in 1 .. n - 1 => wire'[k].type # "switch"
    <3> SUFFICES ASSUME NEW k \in j .. n - 1 PROVE wire'[k].type # "switch" OBVIOUS
    <3>1. k + 1 \in j + 1 .. n /\ k \in 1..Len(wire') BY <1>1, <1>2
    <3> QED BY <1>1, <1>4, <3>1
  <2>2. CASE j = 1
    <3>1. \A k \in 1 .. n - 1 : wire'[k].type # "switch" BY <2>1, <2>2
    <3> QED BY <1>1, <1>4, <2>2, <3>1 DEF LocalAfter
  <2>3. CASE j # 1
    <3>1. j - 1 \in 1 .. n - 1 /\ (j - 1) + 1 = j /\ j - 1 \in 1..Len(wire') BY <1>1, <1>2, <2>3
    <3>2. wire'[j - 1] = Back BY <1>1, <1>4, <3>1
    <3>3. \A k \in (j - 1) + 1 .. n - 1 : wire'[k].type # "switch"
      <4>1. \A k \in j .. n - 1 : k \in 1 .. n - 1 BY <1>2
      <4> QED BY <2>1, <3>1, <4>1
    <3> QED BY <3>1, <3>2, <3>3 DEF LocalAfter
  <2> QED BY <2>2, <2>3
<1> QED BY <1>3, <1>4 DEF LocalAfter

LEMMA HandleMirrors ==
  ASSUME IInv, Handle, open, NEW h, MirroredBy(h, wire, remote, down)
  PROVE  MirroredBy(h, wire', remote', down')
<1>1. /\ wire[1] \in Frames /\ Len(wire) \in Nat \ {0} /\ Len(wire') = Len(wire) - 1
      /\ \A k \in 1..Len(wire') : wire'[k] = wire[k + 1]
      /\ wire[1].type # "switch" => remote' = remote
      /\ wire[1].type # "switch" /\ remote => down' = Applied(down, wire[1])
      /\ wire[1] = ToRemote => remote' = TRUE /\ down' = down
  BY Handled
<1>2. PICK m \in Nat, st \in Downs : Session(wire, m, st, remote, down) /\ Mirrors(st[Len(wire)], h)
  BY DEF MirroredBy
<1> DEFINE next == [k \in Nat |-> st[k + 1]]
<1>3. next \in Downs /\ \A k \in Nat : next[k] = st[k + 1] BY DEF Downs
<1> HIDE DEF next
<1>4. next[Len(wire')] = st[Len(wire)]
  <2>1. Len(wire') \in Nat /\ Len(wire') + 1 = Len(wire) BY <1>1
  <2> QED BY <1>3, <2>1
<1>5. \A k \in m + 1 .. Len(wire) :
        wire[k].type # "switch" /\ st[k] = Applied(st[k - 1], wire[k])
  BY <1>2 DEF Session
<1>6. ASSUME NEW p \in Nat, p + 1 >= m, NEW k \in p + 1 .. Len(wire')
      PROVE  wire'[k].type # "switch" /\ next[k] = Applied(next[k - 1], wire'[k])
  <2>1. /\ k \in 1..Len(wire') /\ k + 1 \in m + 1 .. Len(wire) /\ k \in Nat /\ k - 1 \in Nat
        /\ (k - 1) + 1 = k /\ (k + 1) - 1 = k
    BY <1>1, <1>6
  <2>2. wire'[k] = wire[k + 1] /\ next[k] = st[k + 1] /\ next[k - 1] = st[k] BY <1>1, <1>3, <2>1
  <2>3. wire[k + 1].type # "switch" /\ st[k + 1] = Applied(st[k], wire[k + 1])
    BY <1>5, <2>1
  <2> QED BY <2>2, <2>3
<1>7. \E p \in Nat : Session(wire', p, next, remote', down')
  <2>0. next[0] = st[1]
    <3>1. 0 \in Nat /\ 0 + 1 = 1 OBVIOUS
    <3> QED BY <1>3, <3>1
  <2>1. CASE m = 0 /\ remote /\ st[0] = down
    <3>1. 1 \in m + 1 .. Len(wire) BY <1>1, <2>1
    <3>2. wire[1].type # "switch" /\ st[1] = Applied(down, wire[1])
      <4>1. 1 - 1 = 0 OBVIOUS
      <4> QED BY <1>5, <2>1, <3>1, <4>1
    <3>3. remote' /\ next[0] = down' BY <1>1, <2>0, <2>1, <3>2
    <3>4. Session(wire', 0, next, remote', down') BY <1>6, <2>1, <3>3 DEF Session
    <3> QED BY <3>4
  <2>2. CASE m = 1 /\ wire[1] = ToRemote /\ st[1] = {} /\ LocalAfter(wire, 0, remote)
    <3>1. ~remote BY <2>2 DEF LocalAfter
    <3>2. down = {} BY <3>1 DEF IInv, DownInv, NothingLeftHeld
    <3>3. remote' /\ next[0] = down' BY <1>1, <2>0, <2>2, <3>2
    <3>4. Session(wire', 0, next, remote', down') BY <1>6, <2>2, <3>3 DEF Session
    <3> QED BY <3>4
  <2>3. CASE /\ m \in 1..Len(wire) /\ m # 1 /\ wire[m] = ToRemote /\ st[m] = {}
             /\ LocalAfter(wire, m - 1, remote)
    <3> DEFINE p == m - 1
    <3>1. /\ p \in Nat /\ p \in 1..Len(wire') /\ p + 1 = m /\ p \in 1..Len(wire) BY <1>1, <2>3
    <3>2. wire'[p] = ToRemote /\ next[p] = {} BY <1>1, <1>3, <2>3, <3>1
    <3>3. LocalAfter(wire', p - 1, remote') BY <2>3, <3>1, HandleLocal
    <3> HIDE DEF p
    <3>4. p + 1 >= m BY <3>1
    <3>5. \A k \in p + 1 .. Len(wire') : wire'[k].type # "switch" /\ next[k] = Applied(next[k - 1], wire'[k])
      BY <1>6, <3>1, <3>4
    <3>6. Session(wire', p, next, remote', down') BY <3>1, <3>2, <3>3, <3>5 DEF Session
    <3> QED BY <3>1, <3>6
  <2>4. \/ m = 0 /\ remote /\ st[0] = down
        \/ m \in 1..Len(wire) /\ wire[m] = ToRemote /\ st[m] = {} /\ LocalAfter(wire, m - 1, remote)
    BY <1>2 DEF Session
  <2>5. 1 - 1 = 0 OBVIOUS
  <2> QED BY <2>1, <2>2, <2>3, <2>4, <2>5
<1> QED BY <1>2, <1>3, <1>4, <1>7 DEF MirroredBy

-----------------------------------------------------------------------------
\* The steps.

\* The frame of an input of the Mac, for a press and a release.
LEMMA FrameOfInput ==
  ASSUME NEW i \in [kind : {"key", "button"}, code : Nat], NEW pressed \in {0, 1}
  PROVE  /\ CodeOf(i) = 0 => FrameOf(i, pressed) = <<>>
         /\ CodeOf(i) # 0 => \E f \in Frames :
              /\ FrameOf(i, pressed) = <<f>> /\ f.type # "switch"
              /\ \A d : Applied(d, f) = IF pressed = 1 THEN d \cup {CodeOf(i)} ELSE d \ {CodeOf(i)}
<1>1. CASE i.kind = "key"
  <2> DEFINE f == EncodeKey(ToEvdev(i.code), pressed)
  <2>1. f \in Frames BY EvdevRange DEF EncodeKey, Frames
  <2>2. f.type = "key" /\ f.code = CodeOf(i) /\ f.pressed = pressed
    BY <1>1 DEF EncodeKey, CodeOf
  <2>3. FrameOf(i, pressed) = IF CodeOf(i) = 0 THEN <<>> ELSE <<f>> BY <1>1 DEF FrameOf, CodeOf
  <2> HIDE DEF f
  <2>4. f.type # "switch" /\ \A d : Applied(d, f) = IF pressed = 1 THEN d \cup {CodeOf(i)} ELSE d \ {CodeOf(i)}
    BY <2>2 DEF Applied
  <2> QED BY <2>1, <2>3, <2>4
<1>2. CASE i.kind = "button"
  <2> DEFINE f == EncodeMouseButton(ButtonOf(i.code), pressed)
  <2>1. f \in Frames
    BY DEF EncodeMouseButton, ButtonOf, ButtonLeft, ButtonRight, ButtonMiddle, Frames
  <2>2. f.type = "button" /\ ButtonCode(f.button) = CodeOf(i) /\ f.pressed = pressed
    BY <1>2 DEF EncodeMouseButton, CodeOf
  <2>3. FrameOf(i, pressed) = <<f>> BY <1>2 DEF FrameOf
  <2>4. CodeOf(i) # 0
    BY <1>2 DEF CodeOf, ButtonOf, ButtonCode, ButtonLeft, ButtonRight, ButtonMiddle,
                btnLeft, btnRight, btnMiddle
  <2> HIDE DEF f
  <2>5. f.type # "switch" /\ \A d : Applied(d, f) = IF pressed = 1 THEN d \cup {CodeOf(i)} ELSE d \ {CodeOf(i)}
    BY <2>2 DEF Applied
  <2> QED BY <2>1, <2>3, <2>4, <2>5
<1> QED BY <1>1, <1>2

LEMMA SendAppends ==
  ASSUME IInv, NEW frames, Send(frames)
  PROVE  wire' = wire \o frames /\ wire \in Seq(Frames) /\ wire \o <<>> = wire
BY DEF Send, SendMoving, IInv, WireInv

\* A step of a Mac in remote mode that sends at most one frame.
LEMMA OneFrame ==
  ASSUME IInv, MirrorInv, mode = "remote", UNCHANGED <<mode, asks, clientVars>>,
         NEW frames, Send(frames), NEW h, held' = h,
         \/ frames = <<>> /\ \A x \in SUBSET Nat : Mirrors(x, held) => Mirrors(x, h)
         \/ \E f \in Frames : /\ frames = <<f>> /\ f.type # "switch"
                              /\ \A x \in SUBSET Nat : Mirrors(x, held) => Mirrors(Applied(x, f), h)
  PROVE  MirrorInv'
<1>1. wire' = wire \o frames /\ wire \in Seq(Frames) /\ wire \o <<>> = wire BY SendAppends
<1>2. mode' = "remote" /\ asks' = asks /\ open' = open /\ remote' = remote /\ down' = down
  BY DEF clientVars
<1>3. ASSUME ~asks, open PROVE MirroredBy(h, wire', remote, down)
  <2>1. MirroredBy(held, wire, remote, down) BY <1>3 DEF MirrorInv
  <2>2. CASE frames = <<>> /\ \A x \in SUBSET Nat : Mirrors(x, held) => Mirrors(x, h)
    <3>1. wire' = wire BY <1>1, <2>2
    <3>2. PICK m \in Nat, st \in Downs : Session(wire, m, st, remote, down) /\ Mirrors(st[Len(wire)], held)
      BY <2>1 DEF MirroredBy
    <3>3. st[Len(wire)] \in SUBSET Nat BY <1>1 DEF Downs
    <3> QED BY <2>2, <3>1, <3>2, <3>3 DEF MirroredBy
  <2>3. ASSUME NEW f \in Frames, frames = <<f>>, f.type # "switch",
               \A x \in SUBSET Nat : Mirrors(x, held) => Mirrors(Applied(x, f), h)
        PROVE  MirroredBy(h, wire', remote, down)
    BY <1>1, <2>1, <2>3, MirrorSends
  <2> QED BY <2>2, <2>3
<1> QED BY <1>2, <1>3 DEF MirrorInv

LEMMA PressMirrors == ASSUME IInv, MirrorInv, NEW i \in Inputs, Press(i) PROVE MirrorInv'
<1>1. held \in SUBSET Inputs /\ i \in [kind : {"key", "button"}, code : Nat] /\ 1 \in {0, 1}
  BY InputsType DEF IInv, Types
<1>2. /\ mode = "remote" /\ UNCHANGED <<mode, asks, clientVars>> /\ Send(FrameOf(i, 1))
      /\ held' = held \cup {i}
  BY DEF Press
<1>3. CASE CodeOf(i) = 0
  <2>1. FrameOf(i, 1) = <<>> BY <1>1, <1>3, FrameOfInput
  <2>2. \A x \in SUBSET Nat : Mirrors(x, held) => Mirrors(x, held \cup {i})
    BY <1>1, <1>3, MirrorPress
  <2> QED BY <1>2, <2>1, <2>2, OneFrame
<1>4. CASE CodeOf(i) # 0
  <2>1. PICK f \in Frames : /\ FrameOf(i, 1) = <<f>> /\ f.type # "switch"
                            /\ \A d : Applied(d, f) = d \cup {CodeOf(i)}
    BY <1>1, <1>4, FrameOfInput
  <2>2. ASSUME NEW x \in SUBSET Nat, Mirrors(x, held) PROVE Mirrors(Applied(x, f), held \cup {i})
    <3>1. Mirrors(x \cup {CodeOf(i)}, held \cup {i}) BY <1>1, <1>4, <2>2, MirrorPress
    <3>2. Applied(x, f) = x \cup {CodeOf(i)} BY <2>1
    <3> QED BY <3>1, <3>2
  <2> QED BY <1>2, <2>1, <2>2, OneFrame
<1> QED BY <1>3, <1>4

LEMMA ReleaseMirrors == ASSUME IInv, MirrorInv, NEW i \in Inputs, Release(i) PROVE MirrorInv'
<1>1. /\ held \in SUBSET Inputs /\ i \in [kind : {"key", "button"}, code : Nat] /\ 0 \in {0, 1}
      /\ i \in held
  BY InputsType DEF IInv, Types, Release
<1>2. /\ mode = "remote" /\ UNCHANGED <<mode, asks, clientVars>> /\ Send(FrameOf(i, 0))
      /\ held' = held \ {i}
  BY DEF Release
<1>3. CASE CodeOf(i) = 0
  <2>1. FrameOf(i, 0) = <<>> BY <1>1, <1>3, FrameOfInput
  <2>2. \A x \in SUBSET Nat : Mirrors(x, held) => Mirrors(x, held \ {i})
    BY <1>1, <1>3, MirrorRelease
  <2> QED BY <1>2, <2>1, <2>2, OneFrame
<1>4. CASE CodeOf(i) # 0
  <2>1. PICK f \in Frames : /\ FrameOf(i, 0) = <<f>> /\ f.type # "switch"
                            /\ \A d : Applied(d, f) = d \ {CodeOf(i)}
    BY <1>1, <1>4, FrameOfInput
  <2>2. \A x \in SUBSET Nat : Mirrors(x, held) => Mirrors(Applied(x, f), held \ {i})
    BY <1>1, <1>4, <2>1, MirrorRelease
  <2> QED BY <1>2, <2>1, <2>2, OneFrame
<1> QED BY <1>3, <1>4

LEMMA CapsLockMirrors == ASSUME IInv, MirrorInv, CapsLockChanges PROVE MirrorInv'
<1> DEFINE i == Key(CapsLock)
           c == CodeOf(i)
<1>1. i \in [kind : {"key", "button"}, code : Nat] /\ c = ToEvdev(CapsLock)
  BY DEF Key, CapsLock, CodeOf
<1>2. /\ mode = "remote" /\ held' = held /\ UNCHANGED <<mode, asks, remote, open, down>>
      /\ Send(FrameOf(i, 1) \o FrameOf(i, 0)) /\ held \in SUBSET Inputs
  BY DEF CapsLockChanges, macVars, clientVars, IInv, Types
<1>3. wire' = wire \o (FrameOf(i, 1) \o FrameOf(i, 0)) /\ wire \in Seq(Frames) /\ wire \o <<>> = wire
  BY <1>2, SendAppends
<1> HIDE DEF i, c
<1>4. ASSUME ~asks, open PROVE MirroredBy(held, wire', remote, down)
  <2>1. MirroredBy(held, wire, remote, down) BY <1>2, <1>4 DEF MirrorInv
  <2>2. CASE c = 0
    <3>1. FrameOf(i, 1) = <<>> /\ FrameOf(i, 0) = <<>> BY <1>1, <2>2, FrameOfInput DEF c
    <3>2. <<>> \o <<>> = <<>> OBVIOUS
    <3> QED BY <1>3, <2>1, <3>1, <3>2
  <2>3. CASE c # 0
    <3>1. PICK f \in Frames : /\ FrameOf(i, 1) = <<f>> /\ f.type # "switch"
                              /\ \A d : Applied(d, f) = d \cup {c}
      BY <1>1, <2>3, FrameOfInput DEF c
    <3>2. PICK g \in Frames : /\ FrameOf(i, 0) = <<g>> /\ g.type # "switch"
                              /\ \A d : Applied(d, g) = d \ {c}
      BY <1>1, <2>3, FrameOfInput DEF c
    <3>3. PICK m \in Nat, st \in Downs : Session(wire, m, st, remote, down) /\ Mirrors(st[Len(wire)], held)
      BY <2>1 DEF MirroredBy
    <3> DEFINE u == wire \o <<f>>
    <3>4. u \in Seq(Frames) BY <1>3, Longer
    <3>5. PICK on \in Downs : Session(u, m, on, remote, down) /\ on[Len(u)] = Applied(st[Len(wire)], f)
      BY <1>3, <3>1, <3>3, SessionGoesOn
    <3> HIDE DEF u
    <3>6. PICK off \in Downs : /\ Session(u \o <<g>>, m, off, remote, down)
                               /\ off[Len(u \o <<g>>)] = Applied(on[Len(u)], g)
      BY <3>2, <3>4, <3>5, SessionGoesOn
    <3>7. Mirrors(off[Len(u \o <<g>>)], held)
      BY <1>1, <1>2, <2>3, <3>1, <3>2, <3>3, <3>5, <3>6, MirrorCapsLock
    <3>8. wire' = u \o <<g>>
      <4>1. wire' = wire \o (<<f>> \o <<g>>) BY <1>3, <3>1, <3>2
      <4>2. <<f>> \in Seq(Frames) /\ <<g>> \in Seq(Frames) OBVIOUS
      <4> QED BY <1>3, <4>1, <4>2, ConcatAssociative DEF u
    <3> QED BY <3>6, <3>7, <3>8 DEF MirroredBy
  <2> QED BY <2>2, <2>3
<1> QED BY <1>2, <1>4 DEF MirrorInv

LEMMA MovesMirror ==
  ASSUME IInv, MirrorInv, NEW type \in {"move", "wheel"}, NEW x \in Deltas, NEW y \in Deltas,
         Moves(type, x, y)
  PROVE  MirrorInv'
<1>1. PICK v \in ToInt16(type, x), w \in ToInt16(type, y) :
        SendMoving(<<IF type = "move" THEN EncodeMouse(type, v, w)
                     ELSE EncodeMouse(type, w, v)>>, Meant(type, x, y))
  BY DEF Moves
<1> DEFINE f == IF type = "move" THEN EncodeMouse(type, v, w) ELSE EncodeMouse(type, w, v)
<1>2. f \in Frames /\ f.type \in {"move", "wheel"}
  <2>1. x \in Int /\ y \in Int BY InputAssumption
  <2>2. v \in Int16 /\ w \in Int16 BY <2>1, ToInt16Type
  <2>3. f \in Frames BY <2>2, RoundTrip DEF EncodeMouse, Frames
  <2> QED BY <2>3 DEF EncodeMouse
<1>3. wire' = wire \o <<f>> BY <1>1 DEF SendMoving
<1> HIDE DEF f
<1>4. \A d : Applied(d, f) = d BY <1>2 DEF Applied
<1>5. mode = "remote" /\ UNCHANGED <<mode, held, asks, remote, open, down>>
  BY DEF Moves, macVars, clientVars
<1>6. wire \in Seq(Frames) BY DEF IInv, WireInv
<1>7. ASSUME ~asks, open PROVE MirroredBy(held, wire', remote, down)
  <2>1. MirroredBy(held, wire, remote, down) BY <1>5, <1>7 DEF MirrorInv
  <2> QED BY <1>2, <1>3, <1>4, <1>6, <2>1, MirrorSends
<1> QED BY <1>5, <1>7 DEF MirrorInv

LEMMA LeaveRemoteMirrors == ASSUME IInv, LeaveRemote PROVE MirrorInv'
<1>1. wire' = wire \o <<Back>> /\ wire \in Seq(Frames) /\ mode' = "local"
  BY SendAppends DEF LeaveRemote, Back
<1>2. LocalAfter(wire \o <<Back>>, Len(wire \o <<Back>>), remote') BY <1>1, TakeBackIsLocal
<1> QED BY <1>1, <1>2 DEF MirrorInv

LEMMA SwitchesMirror ==
  ASSUME IInv, MirrorInv, MacEnters \/ MacLeaves \/ RequestArrives PROVE MirrorInv'
<1>1. CASE MacEnters
  <2>1. /\ wire' = wire \o <<ToRemote>> /\ wire \in Seq(Frames) /\ mode = "local" /\ mode' = "remote"
        /\ held' = {} /\ remote' = remote /\ down' = down
    BY <1>1, SendAppends DEF MacEnters, ToRemote, clientVars
  <2>2. LocalAfter(wire, Len(wire), remote) BY <2>1 DEF MirrorInv
  <2>3. MirroredBy({}, wire \o <<ToRemote>>, remote, down) BY <2>1, <2>2, HandOverMirrors
  <2> QED BY <2>1, <2>3 DEF MirrorInv
<1>2. CASE LeaveRemote BY <1>2, LeaveRemoteMirrors
<1>3. CASE mode = "local" /\ UNCHANGED <<mode, wire, remote>> BY <1>3 DEF MirrorInv
<1> QED BY <1>1, <1>2, <1>3 DEF MacLeaves, RequestArrives, macVars, clientVars

LEMMA ClientMirrors ==
  ASSUME IInv, MirrorInv, Handle \/ WatcherReturns \/ Disconnect \/ Close PROVE MirrorInv'
<1>1. CASE Handle
  <2>1. UNCHANGED <<mode, held, asks, open>> BY <1>1, Handled
  <2>2. ASSUME mode = "local" PROVE LocalAfter(wire', Len(wire'), remote')
    <3>1. Len(wire) \in 1..Len(wire) /\ Len(wire') = Len(wire) - 1 BY <1>1, Handled
    <3> QED BY <1>1, <2>2, <3>1, HandleLocal DEF MirrorInv
  <2>3. ASSUME mode = "remote", ~asks, open PROVE MirroredBy(held, wire', remote', down')
    BY <1>1, <2>3, HandleMirrors DEF MirrorInv
  <2> QED BY <2>1, <2>2, <2>3 DEF MirrorInv
<1>2. CASE WatcherReturns
  <2>1. mode' = mode /\ wire' = wire /\ asks' /\ remote BY <1>2 DEF WatcherReturns, macVars
  <2>2. mode = "local" => LocalAfter(wire, Len(wire), remote') BY <2>1 DEF MirrorInv, LocalAfter
  <2> QED BY <2>1, <2>2 DEF MirrorInv
<1>3. CASE Disconnect
  <2>1. mode' = "local" /\ wire' = <<>> /\ remote' = FALSE BY <1>3 DEF Disconnect, ClientLeaves
  <2>2. 1..Len(<<>>) = {} OBVIOUS
  <2> QED BY <2>1, <2>2 DEF MirrorInv, LocalAfter
<1>4. CASE Close
  BY <1>4 DEF Close, macVars, MirrorInv
<1> QED BY <1>1, <1>2, <1>3, <1>4

\* Whatever keys and buttons there are and however hand-overs, returns and lost
\* connections interleave with the frames, what the device holds once all frames
\* are handled is what is held on the Mac (forwardRemoteLocked, handle,
\* releaseAll).
THEOREM MirrorsAlways == Spec => []DeviceMirrorsMac
<1>1. Init => MirrorInv
  <2>1. 1..Len(<<>>) = {} OBVIOUS
  <2> QED BY <2>1 DEF Init, MirrorInv, LocalAfter
<1>2. IInv /\ MirrorInv /\ [Next]_vars => MirrorInv'
  <2> SUFFICES ASSUME IInv, MirrorInv, [Next]_vars PROVE MirrorInv' OBVIOUS
  <2>1. CASE UNCHANGED vars BY <2>1 DEF vars, macVars, clientVars, MirrorInv
  <2> QED BY <2>1, PressMirrors, ReleaseMirrors, CapsLockMirrors, MovesMirror, SwitchesMirror,
             ClientMirrors DEF Next
<1>3. IInv /\ MirrorInv => DeviceMirrorsMac
  <2> SUFFICES ASSUME IInv, MirrorInv, mode = "remote", wire = <<>>, ~asks, open
               PROVE  /\ remote /\ down \subseteq {CodeOf(i) : i \in held}
                      /\ \A i \in held : CodeOf(i) \in down \cup {0, btnMiddle}
    BY DEF DeviceMirrorsMac
  <2>1. PICK m \in Nat, st \in Downs : Session(wire, m, st, remote, down) /\ Mirrors(st[Len(wire)], held)
    BY DEF MirrorInv, MirroredBy
  <2>2. Len(wire) = 0 /\ 1..Len(wire) = {} OBVIOUS
  <2>3. remote /\ st[0] = down BY <2>1, <2>2 DEF Session
  <2> QED BY <2>1, <2>2, <2>3 DEF Mirrors
<1> QED BY <1>1, <1>2, <1>3, InjectionInvariant, PTL DEF Spec
=============================================================================
