------------------------------- MODULE Engine -------------------------------
(***************************************************************************)
(* The macOS-side state machine of EdgeHop, src/internal/server/engine.go. *)
(*                                                                         *)
(* The event tap calls consume() for every input event; the sticky-dwell   *)
(* ticker, the input-guard poller, the receive loop, the connection        *)
(* goroutines and the layout goroutine run beside it.  Each of them does   *)
(* its work on the engine under stateMu, so each is one action here, with  *)
(* two exceptions that the code makes and this module keeps: the guard     *)
(* queries macOS before it takes the lock (GuardQuery, GuardApply), and    *)
(* dropConn clears the connection under another lock than the one under    *)
(* which it resets the mode (DropBegin, DropFinish).                       *)
(*                                                                         *)
(* Abstractions.  The cursor is in one of three zones, so that "at the     *)
(* remote edge" is a zone; a movement's outward distance is 0 or 1 and     *)
(* StickyPush is PushLimit; the dwell timer may expire at any moment of a  *)
(* sticky state.  Frames are not queued here: clientHeld is what a client  *)
(* that got every frame sent so far holds down (module Session has the     *)
(* queue, the network and the client).                                     *)
(***************************************************************************)
EXTENDS Naturals

CONSTANTS
  Modifiers,     \* modifier keys whose press is told from their release by
                 \* toggling (Command, Shift, Option, Control)
  FlagKeys,      \* modifier keys told by a flag bit of the event (Fn)
  PlainKeys,     \* keys with KeyDown and KeyUp events
  Buttons,       \* mouse buttons
  SwitchKeys,    \* the keys of the switch hotkey
  Reasons,       \* reasons why macOS blocks complete input capture
  NoReason,      \* the reason that means sharing is available
  NotQueried,    \* the guard poller holds no answer of macOS
  PushLimit,     \* outward push that breaks free (StickyPush)
  MaxDrops       \* bound: dropConn calls between their two halves

Keys == Modifiers \cup FlagKeys \cup PlainKeys
Inputs == Keys \cup Buttons
Edges == {"left", "right"}
Zones == Edges \cup {"middle"}
Local == "local"
Remote == "remote"

ASSUME KeysAssumption ==
  /\ Modifiers \cap FlagKeys = {}
  /\ PlainKeys \cap (Modifiers \cup FlagKeys) = {}
  /\ Buttons \cap Keys = {}
ASSUME SwitchKeysAssumption == SwitchKeys \subseteq Keys
ASSUME ReasonAssumption == NoReason \notin Reasons /\ NotQueried \notin Reasons \cup {NoReason}
ASSUME BoundAssumption == PushLimit \in Nat \ {0} /\ MaxDrops \in Nat \ {0}

VARIABLES
  mode,           \* current control mode
  captured,       \* the mouse is disassociated from the cursor, and hidden
  keysDown,       \* keys the engine takes to be down
  buttonsDown,    \* mouse buttons the engine takes to be down
  hotkeyLocked,   \* the hotkey fired and has not been released since
  pendingRemote,  \* a switch waits for the held inputs to be released
  edgeArmed,      \* an edge crossing may go sticky
  sticky,         \* the cursor is stuck at the shared edge
  stickyPush,     \* outward push accumulated while sticky
  edge,           \* side of the Mac on which the client sits
  inputBlocked,   \* why sharing is unavailable, as the engine knows it
  queried,        \* answer the guard poller carries from macOS to the lock
  connected,      \* e.conn is not nil
  served,         \* some client has been connected
  drops,          \* dropConn calls that have yet to reset the mode
  osReason,       \* macOS: why it blocks capture
  zone,           \* macOS: where the cursor is
  phys,           \* the world: inputs physically held
  macHeld,        \* the world: inputs the Mac's applications see held
  clientHeld,     \* the world: inputs the client was told are held
  clean           \* history: no input event has escaped the engine since
                  \* the last moment at which nothing was held anywhere

trackVars == <<keysDown, buttonsDown, hotkeyLocked, pendingRemote>>
edgeVars == <<edgeArmed, sticky, stickyPush>>
guardVars == <<inputBlocked, queried>>
linkVars == <<connected, served, drops>>
heldVars == <<phys, macHeld, clientHeld>>
vars == <<mode, captured, trackVars, edgeVars, edge, guardVars, linkVars,
          osReason, zone, heldVars, clean>>

Init ==
  /\ mode = Local /\ captured = FALSE
  /\ keysDown = {} /\ buttonsDown = {}
  /\ hotkeyLocked = FALSE /\ pendingRemote = FALSE
  /\ osReason \in Reasons \cup {NoReason}
  /\ inputBlocked = osReason              \* refreshInputGuard before the tap
  /\ queried = NotQueried
  /\ edgeArmed = (inputBlocked = NoReason)
  /\ sticky = FALSE /\ stickyPush = 0
  /\ edge \in Edges /\ zone \in Zones
  /\ connected = FALSE /\ served = FALSE /\ drops = 0
  /\ phys = {} /\ macHeld = {} /\ clientHeld = {}
  /\ clean = TRUE

-----------------------------------------------------------------------------
\* Operators on the engine's state.

AtRemoteEdge == zone = edge

\* Mutant: the lock goes with the first hotkey key released.
MutLockedAfter(k) == hotkeyLocked /\ SwitchKeys \subseteq k

\* hotkeyLocked after afterKeysUpdate, when k is the set of keys down.
LockedAfter(k) == hotkeyLocked /\ SwitchKeys \cap k # {}

\* hotkeyDown, when k is the set of keys down.
HotkeyDown(k, locked) == ~locked /\ SwitchKeys # {} /\ SwitchKeys \subseteq k

\* Mutant: held buttons are forgotten.
MutLocalInputHeld(k, b) == k # {}

LocalInputHeld(k, b) == k # {} \/ b # {}

\* Mutant: the toggle reads the wrong way round.
MutModifierDown(ev) ==
  IF ev.code \in Modifiers THEN ev.code \in keysDown ELSE ev.flag

\* Is a FlagsChanged event for this key a press?
ModifierDown(ev) ==
  IF ev.code \in Modifiers THEN ev.code \notin keysDown ELSE ev.flag

IsPress(ev) ==
  \/ ev.type = "keyDown"
  \/ ev.type = "flags" /\ ModifierDown(ev)

IsRelease(ev) ==
  \/ ev.type = "keyUp"
  \/ ev.type = "flags" /\ ~ModifierDown(ev)

\* Mutant: buttons go into the key table.
MutKeysAfter(ev) ==
  IF IsPress(ev) \/ ev.type = "buttonDown" THEN keysDown \cup {ev.code}
  ELSE IF IsRelease(ev) THEN keysDown \ {ev.code} ELSE keysDown

KeysAfter(ev) ==
  IF IsPress(ev) THEN keysDown \cup {ev.code}
  ELSE IF IsRelease(ev) THEN keysDown \ {ev.code} ELSE keysDown

\* The engine tracks buttons only while it watches local input.
ButtonsAfter(ev) ==
  IF ev.type = "buttonDown" THEN buttonsDown \cup {ev.code}
  ELSE IF ev.type = "buttonUp" THEN buttonsDown \ {ev.code} ELSE buttonsDown

\* A history flag for the properties: the step lets no input escape (tracked),
\* or it ends where nothing is held and everyone agrees that nothing is.
Clean(tracked) ==
  clean' = \/ clean /\ tracked
           \/ /\ phys' = {} /\ macHeld' = {} /\ clientHeld' = {}
              /\ keysDown' = {} /\ buttonsDown' = {}
-----------------------------------------------------------------------------
\* Switching.  Both operators leave sticky, stickyPush and the tracking
\* variables to their caller, as enterRemoteLocked and leaveRemoteLocked do.
\* Where the code returns early (blocked, or already in the mode) nothing
\* changes; no caller below reaches EnterRemote then.

\* enterRemoteLocked: hide the cursor and park it beyond the shared edge,
\* where macOS clamps it.
EnterRemote ==
  /\ inputBlocked = NoReason /\ mode = Local
  /\ mode' = Remote
  /\ captured' = TRUE
  /\ edgeArmed' = FALSE
  /\ zone' = edge
  /\ clientHeld' = {}

\* Mutant: the cursor is not given back.
MutLeaveRemote ==
  /\ mode = Remote
  /\ mode' = Local
  /\ UNCHANGED captured
  /\ edgeArmed' = FALSE
  /\ zone' = edge
  /\ clientHeld' = {}

\* leaveRemoteLocked: show the cursor on the seam; the client releases all.
LeaveRemote ==
  /\ mode = Remote
  /\ mode' = Local
  /\ captured' = FALSE
  /\ edgeArmed' = FALSE
  /\ zone' = edge
  /\ clientHeld' = {}

StayInMode == UNCHANGED <<mode, captured, zone, clientHeld>>

\* dropConn's return to the Mac: without a warp and without a frame.
MutReclaim == UNCHANGED <<mode, captured>>      \* mutant: the mode is kept

Reclaim ==
  /\ mode' = Local
  /\ captured' = (captured /\ mode = Local)

\* What a pause and a lost client make the engine forget.
ForgetHeld == keysDown' = {} /\ buttonsDown' = {}

MutForgetPending == hotkeyLocked' = FALSE /\ UNCHANGED pendingRemote  \* mutant
MutForgetLock == pendingRemote' = FALSE /\ UNCHANGED hotkeyLocked     \* mutant

ForgetSwitch == pendingRemote' = FALSE /\ hotkeyLocked' = FALSE

\* breakFreeLocked, called while sticky; pushed is the push so far.
BreakFree(pushed) ==
  /\ sticky' = FALSE
  /\ stickyPush' = pushed
  /\ \/ /\ LocalInputHeld(keysDown, buttonsDown)
        /\ pendingRemote' = TRUE
        /\ StayInMode
        /\ UNCHANGED edgeArmed
     \/ /\ ~LocalInputHeld(keysDown, buttonsDown)
        /\ EnterRemote
        /\ UNCHANGED pendingRemote
-----------------------------------------------------------------------------
\* watchLocalLocked: the Mac has control.  taken is the result: TRUE
\* suppresses the event, FALSE lets it through to the Mac.

\* finishPendingRemote: the last held input was released.
FinishPendingRemote(ev) ==
  /\ pendingRemote' = FALSE
  /\ hotkeyLocked' = LockedAfter(KeysAfter(ev))
  /\ EnterRemote
  /\ UNCHANGED <<sticky, stickyPush>>

\* The hotkey check that ends watchLocalLocked.
WatchHotkey(ev, taken) ==
  LET k == KeysAfter(ev)
      locked == LockedAfter(k)
      fires == HotkeyDown(k, locked)
  IN  /\ hotkeyLocked' = (locked \/ fires)
      /\ pendingRemote' = (pendingRemote \/ fires)
      /\ taken = fires

\* A movement with the cursor at or off the shared edge that leaves the edge
\* alone, goes sticky, pushes without breaking free, or arms the edge.
WatchEdge(ev) ==
  /\ edgeArmed' = (edgeArmed \/ ~AtRemoteEdge)
  /\ sticky' = (AtRemoteEdge /\ (edgeArmed \/ sticky))
  /\ stickyPush' = IF ~AtRemoteEdge \/ ~edgeArmed THEN stickyPush
                   ELSE IF ~sticky THEN 0 ELSE stickyPush + ev.push

PushesFree(ev) ==
  /\ ev.type = "move"
  /\ AtRemoteEdge /\ edgeArmed /\ sticky
  /\ stickyPush + ev.push >= PushLimit

WatchLocal(ev, taken) ==
  LET k == KeysAfter(ev)
      b == ButtonsAfter(ev)
      finishes == pendingRemote /\ ~LocalInputHeld(k, b)
  IN
  /\ keysDown' = k
  /\ buttonsDown' = b
  /\ \/ finishes /\ ~taken /\ FinishPendingRemote(ev)
     \/ /\ ~finishes /\ PushesFree(ev)
        /\ hotkeyLocked' = LockedAfter(k)
        /\ taken = ~LocalInputHeld(k, b)
        /\ BreakFree(stickyPush + ev.push)
     \/ /\ ~finishes /\ ev.type = "move" /\ ~PushesFree(ev)
        /\ WatchEdge(ev)
        /\ WatchHotkey(ev, taken)
        /\ StayInMode
     \/ /\ ~finishes /\ ev.type # "move"
        /\ WatchHotkey(ev, taken)
        /\ StayInMode
        /\ UNCHANGED edgeVars
-----------------------------------------------------------------------------
\* forwardRemoteLocked: the client has control.

\* Mutant: releases are not forwarded.
MutForwardFrame(ev) ==
  clientHeld' =
    IF IsPress(ev) \/ ev.type = "buttonDown" THEN clientHeld \cup {ev.code}
    ELSE clientHeld

\* What the client holds after the frame for ev, if one is sent.
ForwardFrame(ev) ==
  clientHeld' =
    IF IsPress(ev) \/ ev.type = "buttonDown" THEN clientHeld \cup {ev.code}
    ELSE IF IsRelease(ev) \/ ev.type = "buttonUp" THEN clientHeld \ {ev.code}
    ELSE clientHeld

ForwardRemote(ev) ==
  LET k == KeysAfter(ev)
      fires == IsPress(ev) /\ HotkeyDown(k, hotkeyLocked)
  IN
  /\ keysDown' = k
  /\ \/ /\ fires                           \* this press is not forwarded
        /\ hotkeyLocked' = TRUE
        /\ LeaveRemote
     \/ /\ ~fires
        /\ hotkeyLocked' = IF IsPress(ev) \/ IsRelease(ev)
                           THEN LockedAfter(k) ELSE hotkeyLocked
        /\ ForwardFrame(ev)
        /\ UNCHANGED <<mode, captured, edgeArmed, zone>>
  /\ UNCHANGED <<buttonsDown, pendingRemote, sticky, stickyPush>>
-----------------------------------------------------------------------------
\* consume: the decision on one event of the tap.
MutSharing == connected                 \* mutant: the pause is not looked at

Sharing == inputBlocked = NoReason /\ connected

Consume(ev, taken) ==
  \/ /\ ~Sharing /\ ~taken
     /\ StayInMode
     /\ UNCHANGED <<trackVars, edgeVars>>
  \/ Sharing /\ mode = Remote /\ taken /\ ForwardRemote(ev)
  \/ Sharing /\ mode = Local /\ WatchLocal(ev, taken)

\* The step of the tap for event ev, after which the inputs in p are held.
Tap(ev, p) ==
  \E taken \in BOOLEAN :
    /\ Consume(ev, taken)
    /\ phys' = p
    /\ macHeld' = IF taken \/ ev.type \in {"move", "other"} THEN macHeld
                  ELSE IF ev.code \in p THEN macHeld \cup {ev.code}
                  ELSE macHeld \ {ev.code}
    /\ UNCHANGED <<edge, guardVars, linkVars, osReason>>
    /\ Clean(Sharing \/ p = phys)

\* KeyDown, of a key just pressed or repeated while it is held.
KeyDown(k) == Tap([type |-> "keyDown", code |-> k], phys \cup {k})

KeyUp(k) ==
  /\ k \in phys
  /\ Tap([type |-> "keyUp", code |-> k], phys \ {k})

\* A modifier changes: the flag bit says what it changed to.
FlagsChanged(k) ==
  Tap([type |-> "flags", code |-> k, flag |-> k \notin phys],
      IF k \in phys THEN phys \ {k} ELSE phys \cup {k})

ButtonDown(b) ==
  /\ b \notin phys
  /\ Tap([type |-> "buttonDown", code |-> b], phys \cup {b})

ButtonUp(b) ==
  /\ b \in phys
  /\ Tap([type |-> "buttonUp", code |-> b], phys \ {b})

\* The pointer moved; mousePos reads where the cursor is by now.
MouseMove(push) == Tap([type |-> "move", push |-> push], phys)

\* The scroll wheel and Caps Lock, which is never tracked.
OtherEvent == Tap([type |-> "other"], phys)
-----------------------------------------------------------------------------
\* The goroutines beside the tap.

\* stickyDwellLoop, on the tick at which the dwell has elapsed.
DwellExpires ==
  /\ inputBlocked = NoReason /\ mode = Local /\ sticky
  /\ BreakFree(stickyPush)
  /\ UNCHANGED <<keysDown, buttonsDown, hotkeyLocked, edge, guardVars,
                 linkVars, osReason, phys, macHeld>>
  /\ Clean(TRUE)

\* Mutant: the poller stops asking once sharing is paused.
MutGuardQuery ==
  /\ queried = NotQueried /\ inputBlocked = NoReason
  /\ queried' = osReason
  /\ UNCHANGED <<mode, captured, trackVars, edgeVars, edge, inputBlocked,
                 linkVars, osReason, zone, heldVars, clean>>

\* refreshInputGuard, outside the lock.
GuardQuery ==
  /\ queried = NotQueried
  /\ queried' = osReason
  /\ UNCHANGED <<mode, captured, trackVars, edgeVars, edge, inputBlocked,
                 linkVars, osReason, zone, heldVars, clean>>

\* applyInputGuardLocked with the answer of the query.
GuardApply ==
  /\ queried # NotQueried
  /\ queried' = NotQueried
  /\ IF queried = inputBlocked
     THEN /\ StayInMode
          /\ UNCHANGED <<trackVars, edgeVars, inputBlocked>>
     ELSE /\ inputBlocked' = queried
          /\ sticky' = FALSE /\ stickyPush' = 0
          /\ ForgetHeld /\ ForgetSwitch
          /\ edgeArmed' = FALSE
          /\ IF queried # NoReason /\ mode = Remote
             THEN LeaveRemote ELSE StayInMode
  /\ UNCHANGED <<edge, linkVars, osReason, phys, macHeld>>
  /\ Clean(queried = inputBlocked \/ phys = {})

\* handleSwitchRequest: the client asks for control to return to the Mac.
SwitchRequest ==
  /\ served
  /\ LeaveRemote
  /\ UNCHANGED <<trackVars, sticky, stickyPush, edge, guardVars, linkVars,
                 osReason, phys, macHeld>>
  /\ Clean(TRUE)

\* setRemoteEdge, for a layout that differs from the current one.
SetRemoteEdge(e) ==
  /\ e # edge
  /\ edge' = e
  /\ sticky' = FALSE /\ stickyPush' = 0
  /\ edgeArmed' = TRUE
  /\ UNCHANGED <<mode, captured, trackVars, guardVars, linkVars, osReason,
                 zone, heldVars, clean>>

\* setConn.  It may replace a live connection, whose dropConn then finds
\* another one and does nothing.  The new client has been told of no key, and a
\* held key was not pressed under this connection.
Attach ==
  /\ connected' = TRUE /\ served' = TRUE
  /\ clientHeld' = {}
  /\ UNCHANGED <<mode, captured, trackVars, edgeVars, edge, guardVars, drops,
                 osReason, zone, phys, macHeld>>
  /\ Clean(phys = {})

\* dropConn, under mu, for the connection or for one that is gone: the writer
\* calls it for every frame left for a closed connection, and the connection's
\* own goroutine calls it too.
DropBegin ==
  /\ drops < MaxDrops
  /\ served
  /\ connected' = FALSE
  /\ drops' = drops + 1
  /\ clientHeld' = {}
  /\ UNCHANGED <<mode, captured, trackVars, edgeVars, edge, guardVars,
                 served, osReason, zone, phys, macHeld>>
  /\ Clean(phys = {})

\* dropConn, under stateMu: back to local control, without a warp.
DropFinish ==
  /\ drops > 0
  /\ drops' = drops - 1
  /\ Reclaim
  /\ sticky' = FALSE
  /\ ForgetHeld /\ ForgetSwitch
  /\ UNCHANGED <<edgeArmed, stickyPush, edge, guardVars, connected, served,
                 osReason, zone, heldVars>>
  /\ Clean(phys = {})
-----------------------------------------------------------------------------
\* macOS.

\* The cursor follows the mouse unless it is disassociated.
CursorMoves(z) ==
  /\ ~captured
  /\ zone' = z
  /\ UNCHANGED <<mode, captured, trackVars, edgeVars, edge, guardVars,
                 linkVars, osReason, heldVars, clean>>

\* The session locks, a password field takes secure input, or either ends.
ReasonChanges ==
  /\ osReason' \in (Reasons \cup {NoReason}) \ {osReason}
  /\ UNCHANGED <<mode, captured, trackVars, edgeVars, edge, guardVars,
                 linkVars, zone, heldVars, clean>>

\* While macOS blocks capture, input reaches the Mac without the tap.
Bypass(i) ==
  /\ osReason # NoReason
  /\ phys' = IF i \in phys THEN phys \ {i} ELSE phys \cup {i}
  /\ macHeld' = IF i \in phys THEN macHeld \ {i} ELSE macHeld \cup {i}
  /\ UNCHANGED <<mode, captured, trackVars, edgeVars, edge, guardVars,
                 linkVars, osReason, zone, clientHeld>>
  /\ Clean(FALSE)
-----------------------------------------------------------------------------
TapNext ==
  \/ \E k \in PlainKeys : KeyDown(k) \/ KeyUp(k)
  \/ \E k \in Modifiers \cup FlagKeys : FlagsChanged(k)
  \/ \E b \in Buttons : ButtonDown(b) \/ ButtonUp(b)
  \/ \E push \in {0, 1} : MouseMove(push)
  \/ OtherEvent

Next ==
  \/ TapNext
  \/ DwellExpires \/ GuardQuery \/ GuardApply \/ SwitchRequest
  \/ \E e \in Edges : SetRemoteEdge(e)
  \/ Attach \/ DropBegin \/ DropFinish
  \/ ReasonChanges
  \/ \E z \in Zones : CursorMoves(z)
  \/ \E i \in Inputs : Bypass(i)

\* The guard poller and the dropConn in progress are goroutines that keep
\* running; the user, macOS, the client and the network owe nothing.
Fairness == WF_vars(GuardQuery) /\ WF_vars(GuardApply) /\ WF_vars(DropFinish)

Spec == Init /\ [][Next]_vars
FairSpec == Spec /\ Fairness
-----------------------------------------------------------------------------
(***************************************************************************)
(* Properties.                                                             *)
(***************************************************************************)

\* Every variable has its type.
TypeOK ==
  /\ mode \in {Local, Remote} /\ captured \in BOOLEAN
  /\ keysDown \subseteq Keys /\ buttonsDown \subseteq Buttons
  /\ hotkeyLocked \in BOOLEAN /\ pendingRemote \in BOOLEAN
  /\ edgeArmed \in BOOLEAN /\ sticky \in BOOLEAN /\ stickyPush \in Nat
  /\ edge \in Edges /\ zone \in Zones
  /\ inputBlocked \in Reasons \cup {NoReason}
  /\ queried \in Reasons \cup {NoReason, NotQueried}
  /\ connected \in BOOLEAN /\ served \in BOOLEAN /\ drops \in 0..MaxDrops
  /\ osReason \in Reasons \cup {NoReason}
  /\ phys \subseteq Inputs /\ macHeld \subseteq Inputs
  /\ clientHeld \subseteq Inputs
  /\ clean \in BOOLEAN

\* Once the guard has paused sharing the Mac has control, and nothing learnt
\* before the pause (held inputs, a pending or locked hotkey, a sticky edge)
\* survives to act after it: applyInputGuardLocked against every handler that
\* may run while sharing is paused.
PauseIsInert ==
  inputBlocked # NoReason =>
    /\ mode = Local
    /\ keysDown = {} /\ buttonsDown = {}
    /\ ~hotkeyLocked /\ ~pendingRemote /\ ~sticky

\* A delayed switch always has a tracked release left to wait for, under
\* local control: pendingRemote is never left behind by a switch, a pause or
\* a lost client, so finishPendingRemote cannot fire out of the blue.
PendingIsAwaited ==
  pendingRemote => /\ mode = Local
                   /\ LocalInputHeld(keysDown, buttonsDown)

\* The hotkey is locked only while one of its keys is down, across both modes
\* and every reset: it can never be locked for good.
LockIsHeld == hotkeyLocked => SwitchKeys \cap keysDown # {}

\* The cursor is disassociated and hidden exactly while the client has
\* control, whichever of the four ways back was taken.
PointerFollowsMode == captured = (mode = Remote)

\* Without a client there is remote control only until a dropConn that is
\* already under way resets it.
RemoteHasClientOrDrop == mode = Remote => connected \/ drops > 0

\* As long as no event escaped the engine, the tracked keys are the keys held,
\* in both modes and across switches: the toggling of modifierDown keeps its
\* polarity, and no tracked button is a released one.
TrackingIsExact ==
  clean => /\ keysDown = phys \cap Keys
           /\ buttonsDown \subseteq phys

\* As long as no event escaped the engine, the Mac saw the release of all it
\* saw pressed before the client took control: no input is stuck on the Mac.
NothingStuckOnMac == clean /\ mode = Remote => macHeld = {}

\* As long as no event escaped the engine, a client in control was told the
\* keys that are held, and no input that is not.
ClientMirrorsKeys ==
  clean /\ mode = Remote =>
    /\ clientHeld \cap Keys = phys \cap Keys
    /\ clientHeld \subseteq phys

\* As long as no event escaped the engine, the hotkey fires a second time only
\* after all its keys were physically released (the comment on hotkeyDown).
UnlocksWhenReleased ==
  [][clean /\ clean' /\ hotkeyLocked /\ ~hotkeyLocked'
       => SwitchKeys \cap phys' = {}]_vars

\* Whatever macOS settles on, the engine learns it: a pause is noticed, and
\* sharing resumes.  With PauseIsInert, the Mac gets its input back.
GuardConverges ==
  \A r \in Reasons \cup {NoReason} :
    <>[](osReason = r) => <>[](inputBlocked = r)

\* The engine implements the promise of module Sharing, including that a
\* client that stays away does not keep the Mac's input.
Promise == INSTANCE Sharing WITH
  owner <- mode, suspended <- inputBlocked # NoReason, linked <- connected,
  held <- keysDown \cup buttonsDown
ImplementsSharing == Promise!Spec

\* What a comment of the source says and the code does not keep.

\* engine.go:67-69, after a return to local the cursor must first move away
\* from the shared edge before an edge crossing switches to remote again.
EdgeSwitchIsArmed ==
  [][mode = Local /\ mode' = Remote /\ ~pendingRemote => edgeArmed]_vars
=============================================================================
