------------------------------ MODULE Injection ------------------------------
(***************************************************************************)
(* What an input event becomes on its way from the Mac's event tap to the  *)
(* Linux kernel: the frames of src/internal/protocol/frame.go, the client's *)
(* handle, enterRemote, leaveRemote and releaseAll in                      *)
(* src/internal/client/client.go, and the virtual device of                *)
(* src/internal/client/uinput_linux.go.                                    *)
(*                                                                         *)
(* Module Engine decides which events are forwarded and module Session has *)
(* the connections; here the Mac enters and leaves remote mode at any      *)
(* moment, with nothing held when it enters, and frames arrive in order or *)
(* the connection is lost with all of them, which ends both sides' modes   *)
(* at once.                                                                *)
(*                                                                         *)
(* Abstractions.  An int16 has 2 * Half values.  The displacement along    *)
(* one axis, fixed at the start, is followed.  A write to a device that is *)
(* open succeeds.  The client has one request for control under way.       *)
(***************************************************************************)
EXTENDS Keymap, Sequences, FiniteSets

CONSTANTS MacKeys,      \* macOS key codes that are used
          MacButtons,   \* numbers of the mouse buttons that are used
          Deltas,       \* displacements that macOS reports
          Half,         \* half the number of int16 values
          MaxHeld,      \* bound: inputs held at a time
          MaxWire       \* bound: frames under way

CapsLock == 57
Axes == {"relX", "relY", "relHwheel", "relWheel"}
Int16 == -Half .. Half - 1

ASSUME InputAssumption ==
  /\ MacKeys \subseteq Nat \ {CapsLock} /\ MacButtons \subseteq Nat
  /\ Deltas \subseteq Int /\ Half \in Nat \ {0}
  /\ MaxHeld \in Nat /\ MaxWire \in Nat

\* An input that is held: a key or a button of the Mac.
Key(k) == [kind |-> "key", code |-> k]
Button(b) == [kind |-> "button", code |-> b]
Inputs == {Key(k) : k \in MacKeys} \cup {Button(b) : b \in MacButtons}

VARIABLES
  mode,      \* the Mac's control mode
  held,      \* inputs held whose press the Mac forwarded
  wire,      \* frames under way to the client
  asks,      \* a request of the client to return control is under way
  remote,    \* the client injects
  open,      \* the client's device is open
  down,      \* evdev codes that the device holds
  axis,      \* the axis that is followed
  due,       \* history: for each frame under way, the displacement along the
             \* axis that macOS reported
  kept,      \* history: each one injected moved the device by what was due
  exact      \* history: no displacement was outside the int16 range

macVars == <<mode, held>>
clientVars == <<remote, open, down>>
moveVars == <<axis, kept, exact>>
vars == <<macVars, wire, due, asks, clientVars, moveVars>>

Init ==
  /\ mode = "local" /\ held = {}
  /\ wire = <<>> /\ due = <<>> /\ asks = FALSE
  /\ remote = FALSE /\ open = TRUE /\ down = {}
  /\ axis \in Axes /\ kept = TRUE /\ exact = TRUE
-----------------------------------------------------------------------------
\* Frames.  A payload is a record of its fields as unsigned numbers.

EncodeInt16(v) == IF v >= 0 THEN v ELSE v + 2 * Half

\* Mutant: the sign is lost.
MutDecodeInt16(u) == u

DecodeInt16(u) == IF u < Half THEN u ELSE u - 2 * Half

EncodeKey(code, pressed) == [type |-> "key", code |-> code, pressed |-> pressed]

EncodeMouseButton(btn, pressed) ==
  [type |-> "button", button |-> btn, pressed |-> pressed]

EncodeMouse(type, dx, dy) ==
  [type |-> type, dx |-> EncodeInt16(dx), dy |-> EncodeInt16(dy)]

EncodeSwitch(direction) == [type |-> "switch", direction |-> direction]

InputFrames == {"key", "button", "move", "wheel"}

\* send, of frames that mean this displacement.
SendMoving(frames, displacement) ==
  /\ Len(wire) + Len(frames) <= MaxWire
  /\ wire' = wire \o frames
  /\ due' = due \o [n \in 1..Len(frames) |-> displacement]

Send(frames) == SendMoving(frames, 0)

\* What int16(v) may be: a float out of range converts to any value, an
\* integer keeps its low bits.
ToInt16(type, v) ==
  IF v \in Int16 THEN {v}
  ELSE IF type = "move" THEN Int16
  ELSE {((v + Half) % (2 * Half)) - Half}

\* What a movement by (x, y), or a turn of the wheel by x lines up or down and
\* y across (macOS's axis 1 and axis 2), is along the axis that is followed.
Meant(type, x, y) ==
  IF type = "move" THEN IF axis = "relX" THEN x ELSE IF axis = "relY" THEN y ELSE 0
  ELSE IF axis = "relWheel" THEN x ELSE IF axis = "relHwheel" THEN y ELSE 0

\* Mutant: the wheel's axes are swapped.
MutDeviceMoves(type, dx, dy) ==
  LET moved == IF type = "move" THEN [relX |-> dx, relY |-> dy]
               ELSE [relHwheel |-> dy, relWheel |-> dx]
  IN  IF axis \in DOMAIN moved THEN moved[axis] ELSE 0

\* VirtualDevice.MouseMoveRel and MouseWheel, along that axis.
DeviceMoves(type, dx, dy) ==
  LET moved == IF type = "move" THEN [relX |-> dx, relY |-> dy]
               ELSE [relHwheel |-> dx, relWheel |-> dy]
  IN  IF axis \in DOMAIN moved THEN moved[axis] ELSE 0
-----------------------------------------------------------------------------
\* The Mac.

\* enterRemoteLocked, with nothing held.
MacEnters ==
  /\ mode = "local"
  /\ mode' = "remote" /\ held' = {}
  /\ Send(<<EncodeSwitch("remote")>>)
  /\ UNCHANGED <<asks, clientVars, moveVars>>

\* leaveRemoteLocked.
LeaveRemote ==
  /\ mode = "remote"
  /\ mode' = "local" /\ held' = {}
  /\ Send(<<EncodeSwitch("back")>>)

\* The hotkey or a pause returns control.
MacLeaves == LeaveRemote /\ UNCHANGED <<asks, clientVars, moveVars>>

\* handleSwitchRequest.
RequestArrives ==
  /\ asks
  /\ asks' = FALSE
  /\ \/ LeaveRemote
     \/ mode = "local" /\ UNCHANGED <<macVars, wire, due>>
  /\ UNCHANGED <<clientVars, moveVars>>

\* The frame of a press (1) or release (0) of an input, if there is one.
FrameOf(i, pressed) ==
  IF i.kind = "button" THEN <<EncodeMouseButton(ButtonOf(i.code), pressed)>>
  ELSE IF ToEvdev(i.code) = 0 THEN <<>>
  ELSE <<EncodeKey(ToEvdev(i.code), pressed)>>

\* forwardRemoteLocked: a press, or a repetition of one.
Press(i) ==
  /\ mode = "remote"
  /\ i \notin held \/ i.kind = "key"
  /\ held' = held \cup {i}
  /\ Cardinality(held') <= MaxHeld
  /\ Send(FrameOf(i, 1))
  /\ UNCHANGED <<mode, asks, clientVars, moveVars>>

Release(i) ==
  /\ mode = "remote" /\ i \in held
  /\ held' = held \ {i}
  /\ Send(FrameOf(i, 0))
  /\ UNCHANGED <<mode, asks, clientVars, moveVars>>

\* Caps Lock changes: a press and a release at once.
CapsLockChanges ==
  /\ mode = "remote"
  /\ Send(FrameOf(Key(CapsLock), 1) \o FrameOf(Key(CapsLock), 0))
  /\ UNCHANGED <<macVars, asks, clientVars, moveVars>>

\* A movement of the pointer or the wheel.  The frame has the wheel's axis 2
\* first.
Moves(type, x, y) ==
  /\ mode = "remote"
  /\ \E v \in ToInt16(type, x), w \in ToInt16(type, y) :
       SendMoving(<<IF type = "move" THEN EncodeMouse(type, v, w) ELSE EncodeMouse(type, w, v)>>,
                  Meant(type, x, y))
  /\ exact' = (exact /\ x \in Int16 /\ y \in Int16)
  /\ UNCHANGED <<macVars, asks, clientVars, axis, kept>>
-----------------------------------------------------------------------------
\* The client.

\* VirtualDevice.Key: a closed device refuses, and the kernel has the codes
\* up to keyMax.
DeviceKey(code, pressed) ==
  down' = IF ~open \/ code \notin 0..keyMax THEN down
          ELSE IF pressed = 1 THEN down \cup {code} ELSE down \ {code}

\* Mutant: the sweep stops at 127.
MutReleaseAll == down \ (0..127 \cup {btnLeft, btnRight, btnMiddle})

\* releaseAll: what the device holds after the sweep.
ReleaseAll ==
  IF open THEN down \ (0..255 \cup {ButtonCode(b) : b \in {ButtonLeft, ButtonRight, ButtonMiddle}})
  ELSE down

\* leaveRemoteLocked.
ClientLeaves ==
  /\ remote' = FALSE
  /\ down' = IF remote THEN ReleaseAll ELSE down

\* handle: input frames count only under remote control.
Injects(f) == f.type \in InputFrames => remote

Inject(f) ==
  \/ f.type = "key" /\ DeviceKey(f.code, f.pressed) /\ UNCHANGED remote
  \/ f.type = "button" /\ DeviceKey(ButtonCode(f.button), f.pressed) /\ UNCHANGED remote
  \/ f.type \in {"move", "wheel"} /\ UNCHANGED <<remote, down>>
  \/ f.type = "switch" /\ f.direction = "remote" /\ remote' = TRUE /\ UNCHANGED down
  \/ f.type = "switch" /\ f.direction = "back" /\ ClientLeaves

\* The device moves by what macOS reported.
Keeps(f, displacement) ==
  f.type \in {"move", "wheel"} =>
    DeviceMoves(f.type, DecodeInt16(f.dx), DecodeInt16(f.dy)) = displacement

Handle ==
  /\ wire # <<>>
  /\ wire' = Tail(wire) /\ due' = Tail(due)
  /\ IF Injects(Head(wire))
     THEN Inject(Head(wire)) /\ kept' = (kept /\ (exact => Keeps(Head(wire), Head(due))))
     ELSE UNCHANGED <<remote, down, kept>>
  /\ UNCHANGED <<macVars, asks, open, axis, exact>>

\* edgeWatch: the cursor has dwelled at the shared edge.
WatcherReturns ==
  /\ remote /\ ~asks
  /\ ClientLeaves
  /\ asks' = TRUE
  /\ UNCHANGED <<macVars, wire, due, open, moveVars>>

\* The connection is lost: runOnce and dropConn end the session.
Disconnect ==
  /\ mode' = "local" /\ held' = {}
  /\ wire' = <<>> /\ due' = <<>> /\ asks' = FALSE
  /\ ClientLeaves
  /\ UNCHANGED <<open, moveVars>>

\* Client.Close: the connection is closed and the device is destroyed, with
\* which the kernel releases all it holds.
Close ==
  /\ open
  /\ open' = FALSE /\ down' = {}
  /\ UNCHANGED <<macVars, wire, due, asks, remote, moveVars>>

Next ==
  \/ MacEnters \/ MacLeaves \/ RequestArrives
  \/ \E i \in Inputs : Press(i) \/ Release(i)
  \/ CapsLockChanges
  \/ \E type \in {"move", "wheel"}, x, y \in Deltas : Moves(type, x, y)
  \/ Handle \/ WatcherReturns \/ Disconnect \/ Close

Spec == Init /\ [][Next]_vars
-----------------------------------------------------------------------------
\* Every variable has its type.
TypeOK ==
  /\ mode \in {"local", "remote"} /\ held \subseteq Inputs
  /\ asks \in BOOLEAN /\ remote \in BOOLEAN /\ open \in BOOLEAN
  /\ down \subseteq 0..keyMax
  /\ axis \in Axes /\ kept \in BOOLEAN /\ exact \in BOOLEAN
  /\ Len(due) = Len(wire)

\* A client that does not inject holds nothing: whatever the keys, their order
\* and the way control ends, what releaseAll sweeps is all that frames and
\* device can hold (the codes 0..255 and the three buttons).
NothingLeftHeld == ~remote => down = {}

\* The code on the client of an input of the Mac; 0 for a key without one.
CodeOf(i) == IF i.kind = "key" THEN ToEvdev(i.code) ELSE ButtonCode(ButtonOf(i.code))

\* Once the client has handled all frames of a session, its device holds
\* exactly the codes of the inputs held on the Mac: no two keys share a code,
\* so that the release of one cannot end the other.  Buttons beyond the second
\* do share one: it may be up while another such button is held.
DeviceMirrorsMac ==
  mode = "remote" /\ wire = <<>> /\ ~asks /\ open =>
    /\ remote
    /\ down \subseteq {CodeOf(i) : i \in held}
    /\ \A i \in held : CodeOf(i) \in down \cup {0, btnMiddle}

\* As long as every displacement fits in an int16, each movement and each turn
\* of the wheel that the client injects moves the device's axes by what macOS
\* reported: its sign and its axis survive the codec.
PointerKeepsUp == exact => kept
=============================================================================
