---------------------------- MODULE EngineProofs ----------------------------
(***************************************************************************)
(* The safety invariants of module Engine hold for every set of keys,      *)
(* buttons, hotkeys and block reasons, every push limit and every bound on *)
(* the concurrent dropConn calls.                                          *)
(*                                                                         *)
(* The invariant that is inductive is IInv.  It strengthens the invariants *)
(* that the runs check by the five named below.  IdleWithoutClient is why  *)
(* a switch cannot start without a client: nothing that could start it is  *)
(* left once the last dropConn is over.  MacHeldIsTracked is why nothing   *)
(* is stuck on the Mac: a switch waits until nothing is tracked, and what  *)
(* the Mac sees held is tracked.  That needs the event that fires the      *)
(* hotkey, which the Mac does not see, to be a press (FiredIsLocked).      *)
(*                                                                         *)
(* The last part shows that every step of the engine is a step of module   *)
(* Sharing, or leaves all that the promise speaks of alone.                *)
(***************************************************************************)
EXTENDS Engine, TLAPS

\* Without a client, and with no dropConn under way, nothing waits to switch.
IdleWithoutClient ==
  connected \/ drops > 0 \/ (mode = Local /\ ~sticky /\ ~pendingRemote)

\* The hotkey's keys are never all down without the hotkey having fired.
FiredIsLocked == SwitchKeys # {} /\ SwitchKeys \subseteq keysDown => hotkeyLocked

\* Buttons are tracked under local control only.
RemoteTracksNoButton == mode = Remote => buttonsDown = {}

\* An engine that does not look at the events lost track if anything is held.
ApartNothingHeld == clean /\ ~Sharing => phys = {}

\* What the Mac sees held is tracked, as long as no event escaped.
MacHeldIsTracked == clean => macHeld \subseteq keysDown \cup buttonsDown

\* The conjuncts about the engine alone, and those about the world.
EngineInv ==
  /\ PauseIsInert
  /\ PendingIsAwaited
  /\ LockIsHeld
  /\ PointerFollowsMode
  /\ IdleWithoutClient
  /\ FiredIsLocked
  /\ RemoteTracksNoButton

WorldInv ==
  /\ ApartNothingHeld
  /\ TrackingIsExact
  /\ MacHeldIsTracked
  /\ NothingStuckOnMac
  /\ ClientMirrorsKeys

IInv == TypeOK /\ EngineInv /\ WorldInv

\* An event of the tap and the inputs held after it.
EventOf(ev, p) ==
  \/ ev.type = "keyDown" /\ ev.code \in PlainKeys /\ p = phys \cup {ev.code}
  \/ /\ ev.type = "keyUp" /\ ev.code \in PlainKeys \cap phys
     /\ p = phys \ {ev.code}
  \/ /\ ev.type = "flags" /\ ev.code \in Modifiers \cup FlagKeys
     /\ ev.flag = (ev.code \notin phys)
     /\ p = IF ev.code \in phys THEN phys \ {ev.code} ELSE phys \cup {ev.code}
  \/ /\ ev.type = "buttonDown" /\ ev.code \in Buttons \ phys
     /\ p = phys \cup {ev.code}
  \/ /\ ev.type = "buttonUp" /\ ev.code \in Buttons \cap phys
     /\ p = phys \ {ev.code}
  \/ ev.type = "move" /\ ev.push \in {0, 1} /\ p = phys
  \/ ev.type = "other" /\ p = phys

\* Every step of the tap is Tap for an event.
LEMMA TapIsEvent ==
  ASSUME TapNext
  PROVE  \E ev, p : EventOf(ev, p) /\ Tap(ev, p)
<1>1. ASSUME NEW k \in PlainKeys, KeyDown(k)
      PROVE  \E ev, p : EventOf(ev, p) /\ Tap(ev, p)
  <2> DEFINE e == [type |-> "keyDown", code |-> k]
  <2>1. EventOf(e, phys \cup {k}) BY DEF EventOf
  <2>2. Tap(e, phys \cup {k}) BY <1>1 DEF KeyDown
  <2> QED BY <2>1, <2>2
<1>2. ASSUME NEW k \in PlainKeys, KeyUp(k)
      PROVE  \E ev, p : EventOf(ev, p) /\ Tap(ev, p)
  <2> DEFINE e == [type |-> "keyUp", code |-> k]
  <2>1. EventOf(e, phys \ {k}) BY <1>2 DEF EventOf, KeyUp
  <2>2. Tap(e, phys \ {k}) BY <1>2 DEF KeyUp
  <2> QED BY <2>1, <2>2
<1>3. ASSUME NEW k \in Modifiers \cup FlagKeys, FlagsChanged(k)
      PROVE  \E ev, p : EventOf(ev, p) /\ Tap(ev, p)
  <2> DEFINE e == [type |-> "flags", code |-> k, flag |-> k \notin phys]
             p == IF k \in phys THEN phys \ {k} ELSE phys \cup {k}
  <2>1. EventOf(e, p) BY DEF EventOf
  <2>2. Tap(e, p) BY <1>3 DEF FlagsChanged
  <2> QED BY <2>1, <2>2
<1>4. ASSUME NEW b \in Buttons, ButtonDown(b)
      PROVE  \E ev, p : EventOf(ev, p) /\ Tap(ev, p)
  <2> DEFINE e == [type |-> "buttonDown", code |-> b]
  <2>1. EventOf(e, phys \cup {b}) BY <1>4 DEF EventOf, ButtonDown
  <2>2. Tap(e, phys \cup {b}) BY <1>4 DEF ButtonDown
  <2> QED BY <2>1, <2>2
<1>5. ASSUME NEW b \in Buttons, ButtonUp(b)
      PROVE  \E ev, p : EventOf(ev, p) /\ Tap(ev, p)
  <2> DEFINE e == [type |-> "buttonUp", code |-> b]
  <2>1. EventOf(e, phys \ {b}) BY <1>5 DEF EventOf, ButtonUp
  <2>2. Tap(e, phys \ {b}) BY <1>5 DEF ButtonUp
  <2> QED BY <2>1, <2>2
<1>6. ASSUME NEW push \in {0, 1}, MouseMove(push)
      PROVE  \E ev, p : EventOf(ev, p) /\ Tap(ev, p)
  <2> DEFINE e == [type |-> "move", push |-> push]
  <2>1. EventOf(e, phys) BY DEF EventOf
  <2>2. Tap(e, phys) BY <1>6 DEF MouseMove
  <2> QED BY <2>1, <2>2
<1>7. ASSUME OtherEvent
      PROVE  \E ev, p : EventOf(ev, p) /\ Tap(ev, p)
  <2> DEFINE e == [type |-> "other"]
  <2>1. EventOf(e, phys) BY DEF EventOf
  <2>2. Tap(e, phys) BY <1>7 DEF OtherEvent
  <2> QED BY <2>1, <2>2
<1> QED BY <1>1, <1>2, <1>3, <1>4, <1>5, <1>6, <1>7 DEF TapNext

\* What an event does to the tracked keys and buttons.
LEMMA TrackTypes ==
  ASSUME TypeOK, NEW ev, NEW p, EventOf(ev, p)
  PROVE  /\ KeysAfter(ev) \subseteq Keys
         /\ ButtonsAfter(ev) \subseteq Buttons
         /\ p \subseteq Inputs
  BY DEF TypeOK, EventOf, KeysAfter, ButtonsAfter, IsPress, IsRelease,
         ModifierDown, Keys, Inputs

\* Where tracking is exact, it is exact after the event, and a press is told
\* from a release.
LEMMA TrackExact ==
  ASSUME TypeOK, keysDown = phys \cap Keys, NEW ev, NEW p, EventOf(ev, p)
  PROVE  /\ KeysAfter(ev) = p \cap Keys
         /\ IsPress(ev) => ev.code \in p /\ ev.code \in Keys
         /\ IsRelease(ev) => p = phys \ {ev.code}
         /\ ev.type = "keyDown" \/ ev.type = "flags" \/ ev.type = "keyUp"
              => IsPress(ev) \/ IsRelease(ev)
<1> USE KeysAssumption DEF Keys, Inputs, TypeOK
<1>1. CASE ev.type = "keyDown" BY <1>1 DEF EventOf, KeysAfter, IsPress, IsRelease
<1>2. CASE ev.type = "keyUp" BY <1>2 DEF EventOf, KeysAfter, IsPress, IsRelease
<1>3. CASE ev.type = "flags"
  BY <1>3 DEF EventOf, KeysAfter, IsPress, IsRelease, ModifierDown
<1>4. CASE ev.type \in {"buttonDown", "buttonUp", "move", "other"}
  BY <1>4 DEF EventOf, KeysAfter, IsPress, IsRelease
<1> QED BY <1>1, <1>2, <1>3, <1>4 DEF EventOf

-----------------------------------------------------------------------------
\* The engine's own handling of an event, without the world.

\* consume keeps the engine's part of the invariant.
LEMMA ConsumeEngine ==
  ASSUME TypeOK, EngineInv, NEW ev, NEW p, EventOf(ev, p), NEW taken,
         Consume(ev, taken), UNCHANGED <<edge, guardVars, linkVars>>
  PROVE  EngineInv'
<1> USE DEF EngineInv, PauseIsInert, PendingIsAwaited, LockIsHeld,
            PointerFollowsMode, IdleWithoutClient, RemoteTracksNoButton,
            TypeOK, guardVars, linkVars
<1>0. FiredIsLocked'
  <2> USE DEF EngineInv, FiredIsLocked
  <2>1. CASE UNCHANGED <<keysDown, hotkeyLocked>> BY <2>1
  <2>2. CASE keysDown' = {} BY <2>2
  <2>3. CASE /\ Sharing /\ mode = Remote /\ ForwardRemote(ev)
    <3>1. CASE IsPress(ev)
      BY <2>3, <3>1 DEF ForwardRemote, HotkeyDown, LockedAfter
    <3>2. CASE ~IsPress(ev)
      BY <2>3, <3>2 DEF ForwardRemote, HotkeyDown, LockedAfter, KeysAfter
    <3> QED BY <3>1, <3>2
  <2>4. CASE /\ Sharing /\ mode = Local /\ WatchLocal(ev, taken)
    <3>1. CASE PushesFree(ev)
      BY <2>4, <3>1 DEF WatchLocal, PushesFree, KeysAfter, IsPress, IsRelease,
           LockedAfter, FinishPendingRemote, LocalInputHeld
    <3>2. CASE ~PushesFree(ev)
      BY <2>4, <3>2 DEF WatchLocal, WatchHotkey, HotkeyDown, LockedAfter,
           FinishPendingRemote, LocalInputHeld
    <3> QED BY <3>1, <3>2
  <2> QED BY <2>1, <2>2, <2>3, <2>4 DEF Consume, trackVars
<1> USE DEF EngineInv, PauseIsInert, PendingIsAwaited, LockIsHeld,
            PointerFollowsMode, IdleWithoutClient, RemoteTracksNoButton,
            TypeOK, guardVars, linkVars
<1>1. CASE ~Sharing /\ StayInMode /\ UNCHANGED <<trackVars, edgeVars>>
  BY <1>0, <1>1 DEF StayInMode, trackVars, edgeVars, LocalInputHeld
<1>2. CASE Sharing /\ mode = Remote /\ ForwardRemote(ev)
  <2>1. CASE /\ IsPress(ev) /\ HotkeyDown(KeysAfter(ev), hotkeyLocked)
             /\ hotkeyLocked' = TRUE /\ LeaveRemote
    BY <1>2, <2>1, <1>0 DEF ForwardRemote, LeaveRemote, HotkeyDown, Sharing,
                      LocalInputHeld, Local, Remote
  <2>2. CASE UNCHANGED <<mode, captured, edgeArmed, zone>>
    <3>1. LockIsHeld'
      BY <1>2, <2>2 DEF ForwardRemote, LockedAfter, KeysAfter, Sharing, LeaveRemote, Local, Remote
    <3> QED
      BY <1>0, <1>2, <2>2, <3>1 DEF ForwardRemote, Sharing, LocalInputHeld, Local, Remote
  <2> QED BY <1>2, <2>1, <2>2 DEF ForwardRemote
<1>3. CASE Sharing /\ mode = Local /\ WatchLocal(ev, taken)
  <2> DEFINE k == KeysAfter(ev)
             b == ButtonsAfter(ev)
             finishes == pendingRemote /\ ~LocalInputHeld(k, b)
  <2>1. CASE finishes /\ FinishPendingRemote(ev)
    BY <1>0, <1>3, <2>1 DEF WatchLocal, FinishPendingRemote, EnterRemote, LockedAfter,
                      Sharing, LocalInputHeld, Local, Remote
  <2>2. CASE /\ ~finishes /\ PushesFree(ev) /\ hotkeyLocked' = LockedAfter(k)
             /\ BreakFree(stickyPush + ev.push)
    <3>1. k = keysDown /\ b = buttonsDown
      BY <2>2 DEF PushesFree, KeysAfter, ButtonsAfter, IsPress, IsRelease
    <3> QED
      BY <1>0, <1>3, <2>2, <3>1 DEF WatchLocal, BreakFree, EnterRemote, StayInMode,
           LockedAfter, Sharing, LocalInputHeld, Local, Remote
  <2>3. CASE ~finishes /\ WatchHotkey(ev, taken) /\ StayInMode
    <3>1. LockIsHeld'
      BY <1>3, <2>3 DEF WatchLocal, WatchHotkey, LockedAfter, HotkeyDown
    <3>2. PendingIsAwaited'
      BY <1>3, <2>3 DEF WatchLocal, WatchHotkey, LockedAfter, HotkeyDown,
           StayInMode, LocalInputHeld, Local, Remote
    <3> QED
      BY <1>0, <1>3, <2>3, <3>1, <3>2 DEF StayInMode, Sharing, Local, Remote
  <2> QED BY <1>3, <2>1, <2>2, <2>3 DEF WatchLocal
<1> QED BY <1>1, <1>2, <1>3 DEF Consume

\* consume keeps the types.
LEMMA ConsumeTypes ==
  ASSUME TypeOK, NEW ev, NEW p, EventOf(ev, p), NEW taken \in BOOLEAN, Tap(ev, p),
         Consume(ev, taken)
  PROVE  TypeOK'
<1>1. /\ KeysAfter(ev) \subseteq Keys
      /\ ButtonsAfter(ev) \subseteq Buttons
      /\ p \subseteq Inputs
  BY TrackTypes
<1>2. /\ mode' \in {Local, Remote} /\ captured' \in BOOLEAN
      /\ keysDown' \subseteq Keys /\ buttonsDown' \subseteq Buttons
      /\ zone' \in Zones
  BY <1>1 DEF Consume, ForwardRemote, WatchLocal, LeaveRemote, StayInMode,
       FinishPendingRemote, BreakFree, EnterRemote, trackVars, TypeOK, Zones
<1>3. hotkeyLocked' \in BOOLEAN /\ pendingRemote' \in BOOLEAN
  BY DEF Consume, ForwardRemote, WatchLocal, FinishPendingRemote, BreakFree,
       LockedAfter, WatchHotkey, HotkeyDown, trackVars, TypeOK
<1>4. edgeArmed' \in BOOLEAN /\ sticky' \in BOOLEAN
  BY DEF Consume, ForwardRemote, WatchLocal, FinishPendingRemote, BreakFree,
       LeaveRemote, EnterRemote, WatchEdge, StayInMode, edgeVars, TypeOK
<1>5. stickyPush' \in Nat
  <2>1. ev.type = "move" => ev.push \in Nat BY DEF EventOf
  <2> QED
    BY <2>1 DEF Consume, ForwardRemote, WatchLocal, FinishPendingRemote, BreakFree,
         PushesFree, WatchEdge, edgeVars, TypeOK
<1>6. phys' \subseteq Inputs /\ clean' \in BOOLEAN
  BY <1>1 DEF Tap, Clean, TypeOK
<1>7. macHeld' \subseteq Inputs
  BY <1>1 DEF Tap, TypeOK, EventOf, Inputs, Keys
<1>8. clientHeld' \subseteq Inputs
  BY DEF Consume, ForwardRemote, ForwardFrame, WatchLocal, FinishPendingRemote,
       BreakFree, EnterRemote, LeaveRemote, StayInMode, IsPress, IsRelease,
       TypeOK, EventOf, Inputs, Keys
<1> QED
  BY <1>2, <1>3, <1>4, <1>5, <1>6, <1>7, <1>8
  DEF Tap, TypeOK, guardVars, linkVars

-----------------------------------------------------------------------------
\* The world: what an event does to the inputs held.

\* A step after which nothing is held anywhere, as far as anyone knows.
\* Nothing is held, and everyone agrees.
AllReleased ==
  /\ phys' = {} /\ macHeld' = {} /\ clientHeld' = {}
  /\ keysDown' = {} /\ buttonsDown' = {}

\* A step after which nothing is held keeps the part about the world.
LEMMA ReleasedWorld ==
  ASSUME AllReleased
  PROVE  WorldInv'
  BY DEF AllReleased, WorldInv, ApartNothingHeld, TrackingIsExact, MacHeldIsTracked,
         NothingStuckOnMac, ClientMirrorsKeys

\* consume keeps the part of the invariant about the world.
LEMMA ConsumeWorld ==
  ASSUME TypeOK, EngineInv, WorldInv, NEW ev, NEW p, EventOf(ev, p),
         NEW taken \in BOOLEAN, Consume(ev, taken), phys' = p,
         macHeld' = IF taken \/ ev.type \in {"move", "other"} THEN macHeld
                    ELSE IF ev.code \in p THEN macHeld \cup {ev.code}
                    ELSE macHeld \ {ev.code},
         Clean(Sharing \/ p = phys), UNCHANGED <<guardVars, linkVars>>
  PROVE  WorldInv'
<1>1. CASE AllReleased BY <1>1, ReleasedWorld
<1>2. CASE ~clean' 
  BY <1>2 DEF WorldInv, ApartNothingHeld, TrackingIsExact, MacHeldIsTracked, NothingStuckOnMac,
              ClientMirrorsKeys
<1>3. CASE clean /\ (Sharing \/ p = phys)
  <2>1. /\ keysDown = phys \cap Keys /\ buttonsDown \subseteq phys
        /\ macHeld \subseteq keysDown \cup buttonsDown
        /\ mode = Remote => /\ macHeld = {}
                            /\ clientHeld \cap Keys = phys \cap Keys
                            /\ clientHeld \subseteq phys
    BY <1>3 DEF WorldInv, ApartNothingHeld, TrackingIsExact, MacHeldIsTracked, NothingStuckOnMac,
                ClientMirrorsKeys
  <2>2. /\ KeysAfter(ev) = p \cap Keys
        /\ IsPress(ev) => ev.code \in p /\ ev.code \in Keys
        /\ IsRelease(ev) => p = phys \ {ev.code}
        /\ ev.type = "keyDown" \/ ev.type = "flags" \/ ev.type = "keyUp"
             => IsPress(ev) \/ IsRelease(ev)
    BY <2>1, TrackExact
  <2>a. ApartNothingHeld'
    BY <1>3 DEF WorldInv, ApartNothingHeld, Sharing, guardVars, linkVars
  <2> SUFFICES /\ keysDown' = phys' \cap Keys
               /\ buttonsDown' \subseteq phys'
               /\ macHeld' \subseteq keysDown' \cup buttonsDown'
               /\ mode' = Remote => /\ macHeld' = {}
                                    /\ clientHeld' \cap Keys = phys' \cap Keys
                                    /\ clientHeld' \subseteq phys'
    BY <2>a DEF WorldInv, TrackingIsExact, MacHeldIsTracked,
                NothingStuckOnMac, ClientMirrorsKeys
  <2>3. CASE ~Sharing /\ ~taken /\ StayInMode /\ UNCHANGED <<trackVars, edgeVars>>
    \* the event escapes, so it changed nothing: a key repeated, or a movement
    <3>1. p = phys BY <1>3, <2>3
    <3>2. phys = {} BY <1>3, <2>3 DEF WorldInv, ApartNothingHeld
    <3>3. macHeld' = macHeld BY <3>1, <3>2 DEF EventOf
    <3> QED BY <2>1, <2>3, <3>1, <3>2, <3>3 DEF StayInMode, trackVars
  <2>4. CASE Sharing /\ mode = Remote /\ taken /\ ForwardRemote(ev)
    <3>1. keysDown' = phys' \cap Keys /\ macHeld' = {}
      BY <2>1, <2>2, <2>4 DEF ForwardRemote
    <3>2. buttonsDown' \subseteq phys'
      BY <2>4 DEF ForwardRemote, EngineInv, RemoteTracksNoButton
    <3>3. CASE LeaveRemote
      BY <3>1, <3>2, <3>3 DEF LeaveRemote, Local, Remote
    <3>4. CASE ForwardFrame(ev)
      BY <2>1, <2>2, <2>4, <3>1, <3>2, <3>4 DEF ForwardFrame, EventOf
    <3> QED BY <2>4, <3>3, <3>4 DEF ForwardRemote
  <2>5. CASE Sharing /\ mode = Local /\ WatchLocal(ev, taken)
    <3>1. keysDown' = phys' \cap Keys BY <2>2, <2>5 DEF WatchLocal
    <3>2. buttonsDown' \subseteq phys'
      BY <2>1, <2>5, KeysAssumption
      DEF WatchLocal, ButtonsAfter, EventOf, TypeOK, Keys
    <3>3. taken => IsPress(ev) \/ ev.type = "move"
      BY <2>5 DEF WatchLocal, WatchHotkey, HotkeyDown, LockedAfter, KeysAfter,
           EngineInv, FiredIsLocked, PushesFree
    <3>4. macHeld' \subseteq keysDown' \cup buttonsDown'
      <4>1. CASE ev.type \in {"move", "other"}
        BY <2>1, <2>5, <4>1 DEF WatchLocal, KeysAfter, ButtonsAfter, IsPress, IsRelease
      <4>2. CASE ev.type \in {"buttonDown", "buttonUp"}
        BY <2>1, <2>5, <3>3, <4>2
        DEF WatchLocal, KeysAfter, ButtonsAfter, IsPress, IsRelease, EventOf
      <4>3. CASE ev.type \in {"keyDown", "keyUp", "flags"}
        <5>1. buttonsDown' = buttonsDown
          BY <2>5, <4>3 DEF WatchLocal, ButtonsAfter
        <5>2. CASE IsPress(ev)
          BY <2>1, <2>2, <2>5, <4>3, <5>1, <5>2 DEF WatchLocal, KeysAfter
        <5>3. CASE IsRelease(ev) /\ ~IsPress(ev)
          BY <2>1, <2>2, <2>5, <3>3, <4>3, <5>1, <5>3 DEF WatchLocal, KeysAfter
        <5> QED BY <2>2, <4>3, <5>2, <5>3
      <4> QED BY <4>1, <4>2, <4>3 DEF EventOf
    <3>5. mode' = Remote => /\ keysDown' = {} /\ buttonsDown' = {}
                            /\ clientHeld' = {}
      BY <2>5 DEF WatchLocal, FinishPendingRemote, BreakFree, EnterRemote,
                  StayInMode, PushesFree, LocalInputHeld, Local, Remote,
                  KeysAfter, ButtonsAfter, IsPress, IsRelease
    <3> QED BY <3>1, <3>2, <3>4, <3>5
  <2> QED BY <2>3, <2>4, <2>5 DEF Consume
<1> QED BY <1>1, <1>2, <1>3 DEF Clean, AllReleased

-----------------------------------------------------------------------------
\* The steps.

\* The invariant holds when the engine starts.
LEMMA InitInv == Init => IInv
<1> SUFFICES ASSUME Init PROVE IInv OBVIOUS
<1>1. TypeOK
  <2>1. drops \in 0..MaxDrops /\ stickyPush \in Nat
    BY BoundAssumption DEF Init
  <2>2. edgeArmed \in BOOLEAN BY DEF Init
  <2> QED BY <2>1, <2>2 DEF Init, TypeOK, Zones
<1> QED
  BY <1>1, SwitchKeysAssumption
  DEF Init, IInv, EngineInv, WorldInv, PauseIsInert, PendingIsAwaited,
      LockIsHeld, PointerFollowsMode, IdleWithoutClient, FiredIsLocked,
      RemoteTracksNoButton, ApartNothingHeld, TrackingIsExact,
      MacHeldIsTracked, NothingStuckOnMac, ClientMirrorsKeys, Local, Remote

\* Every event of the tap keeps the invariant (consume).
LEMMA TapInv == IInv /\ TapNext => IInv'
<1> SUFFICES ASSUME IInv, TapNext PROVE IInv' OBVIOUS
<1>1. PICK ev, p : EventOf(ev, p) /\ Tap(ev, p) BY TapIsEvent
<1>2. PICK taken \in BOOLEAN :
        /\ Consume(ev, taken)
        /\ phys' = p
        /\ macHeld' = IF taken \/ ev.type \in {"move", "other"} THEN macHeld
                      ELSE IF ev.code \in p THEN macHeld \cup {ev.code}
                      ELSE macHeld \ {ev.code}
        /\ UNCHANGED <<edge, guardVars, linkVars, osReason>>
        /\ Clean(Sharing \/ p = phys)
  BY <1>1 DEF Tap
<1>3. TypeOK' BY <1>1, <1>2, ConsumeTypes DEF IInv
<1>4. EngineInv' BY <1>1, <1>2, ConsumeEngine DEF IInv
<1>5. WorldInv' BY <1>1, <1>2, ConsumeWorld DEF IInv
<1> QED BY <1>3, <1>4, <1>5 DEF IInv

\* The end of the dwell keeps the invariant (stickyDwellLoop).
LEMMA DwellInv == IInv /\ DwellExpires => IInv'
<1> SUFFICES ASSUME IInv, DwellExpires PROVE IInv' OBVIOUS
<1> USE DEF IInv, DwellExpires, BreakFree, EnterRemote, StayInMode
<1>1. TypeOK' BY DEF TypeOK, Clean, Zones, guardVars, linkVars
<1>2. EngineInv'
  BY DEF TypeOK, EngineInv, PauseIsInert, PendingIsAwaited, LockIsHeld, FiredIsLocked,
         PointerFollowsMode, IdleWithoutClient, RemoteTracksNoButton,
         LocalInputHeld, guardVars, linkVars, Local, Remote
<1>3. WorldInv'
  <2>1. CASE AllReleased BY <2>1, ReleasedWorld
  <2>2. CASE clean' = clean
    BY <2>2 DEF WorldInv, ApartNothingHeld, TrackingIsExact, MacHeldIsTracked,
         NothingStuckOnMac, ClientMirrorsKeys, Sharing, LocalInputHeld,
         guardVars, linkVars, TypeOK, Local, Remote
  <2> QED BY <2>1, <2>2 DEF Clean, AllReleased, TypeOK
<1> QED BY <1>1, <1>2, <1>3

\* Asking macOS keeps the invariant (refreshInputGuard).
LEMMA GuardQueryInv == IInv /\ GuardQuery => IInv'
<1> SUFFICES ASSUME IInv, GuardQuery PROVE IInv' OBVIOUS
<1> USE DEF IInv, GuardQuery, trackVars, edgeVars, linkVars, heldVars
<1>1. TypeOK' BY DEF TypeOK
<1>2. EngineInv'
  BY DEF EngineInv, PauseIsInert, PendingIsAwaited, LockIsHeld, FiredIsLocked,
         PointerFollowsMode, IdleWithoutClient, RemoteTracksNoButton,
         LocalInputHeld
<1>3. WorldInv'
  BY DEF WorldInv, ApartNothingHeld, TrackingIsExact, MacHeldIsTracked,
         NothingStuckOnMac, ClientMirrorsKeys, Sharing
<1> QED BY <1>1, <1>2, <1>3

\* A pause, and its end, keeps the invariant (applyInputGuardLocked).
LEMMA GuardApplyInv == IInv /\ GuardApply => IInv'
<1> SUFFICES ASSUME IInv, GuardApply PROVE IInv' OBVIOUS
<1> USE DEF IInv, GuardApply, StayInMode, trackVars, edgeVars, linkVars,
            LeaveRemote, ForgetHeld, ForgetSwitch
<1>1. TypeOK'
  <2>1. clean' \in BOOLEAN BY DEF TypeOK, Clean
  <2>2. /\ inputBlocked' \in Reasons \cup {NoReason}
        /\ queried' \in Reasons \cup {NoReason, NotQueried}
    BY DEF TypeOK
  <2>3. /\ mode' \in {Local, Remote} /\ captured' \in BOOLEAN
        /\ edgeArmed' \in BOOLEAN /\ zone' \in Zones
        /\ clientHeld' \subseteq Inputs
    BY DEF TypeOK, Zones
  <2>4. /\ keysDown' \subseteq Keys /\ buttonsDown' \subseteq Buttons
        /\ hotkeyLocked' \in BOOLEAN /\ pendingRemote' \in BOOLEAN
        /\ sticky' \in BOOLEAN /\ stickyPush' \in Nat
    <3>1. CASE queried = inputBlocked
      <4>1. UNCHANGED <<keysDown, buttonsDown, hotkeyLocked, pendingRemote,
                        sticky, stickyPush>>
        BY <3>1
      <4> QED BY ONLY <4>1, IInv DEF IInv, TypeOK
    <3>2. CASE queried # inputBlocked
      <4>1. /\ keysDown' = {} /\ buttonsDown' = {}
            /\ hotkeyLocked' = FALSE /\ pendingRemote' = FALSE
            /\ sticky' = FALSE /\ stickyPush' = 0
        BY <3>2
      <4> QED BY ONLY <4>1
    <3> QED BY <3>1, <3>2
  <2> QED BY <2>1, <2>2, <2>3, <2>4 DEF TypeOK
<1>2. EngineInv'
  BY DEF EngineInv, PauseIsInert, PendingIsAwaited, LockIsHeld, FiredIsLocked,
         PointerFollowsMode, IdleWithoutClient, RemoteTracksNoButton,
         LocalInputHeld, Local, Remote, TypeOK
<1>3. WorldInv'
  <2>1. CASE AllReleased BY <2>1, ReleasedWorld
  <2>2. CASE queried = inputBlocked /\ clean' = clean
    BY <2>2 DEF WorldInv, ApartNothingHeld, TrackingIsExact, MacHeldIsTracked,
         NothingStuckOnMac, ClientMirrorsKeys, Sharing
  <2>3. CASE queried # inputBlocked /\ phys = {} /\ clean' = clean
    BY <2>3 DEF WorldInv, ApartNothingHeld, TrackingIsExact, MacHeldIsTracked,
         NothingStuckOnMac, ClientMirrorsKeys, Sharing, EngineInv, TypeOK,
         PauseIsInert, Local, Remote
  <2>4. CASE ~clean'
    BY <2>4 DEF WorldInv, ApartNothingHeld, TrackingIsExact, MacHeldIsTracked,
         NothingStuckOnMac, ClientMirrorsKeys
  <2> QED BY <2>1, <2>2, <2>3, <2>4 DEF Clean, AllReleased, TypeOK
<1> QED BY <1>1, <1>2, <1>3

\* A return that the client asks for keeps it (handleSwitchRequest).
LEMMA SwitchRequestInv == IInv /\ SwitchRequest => IInv'
<1> SUFFICES ASSUME IInv, SwitchRequest PROVE IInv' OBVIOUS
<1> USE DEF IInv, SwitchRequest, LeaveRemote, trackVars, guardVars, linkVars
<1>1. TypeOK' BY DEF TypeOK, Clean, Zones
<1>2. EngineInv'
  BY DEF EngineInv, PauseIsInert, PendingIsAwaited, LockIsHeld, FiredIsLocked,
         PointerFollowsMode, IdleWithoutClient, RemoteTracksNoButton,
         LocalInputHeld, Local, Remote
<1>3. WorldInv'
  <2>1. CASE AllReleased BY <2>1, ReleasedWorld
  <2>2. CASE clean' = clean
    BY <2>2 DEF WorldInv, ApartNothingHeld, TrackingIsExact, MacHeldIsTracked,
         NothingStuckOnMac, ClientMirrorsKeys, Sharing, Local, Remote
  <2> QED BY <2>1, <2>2 DEF Clean, AllReleased, TypeOK
<1> QED BY <1>1, <1>2, <1>3

\* A change of the layout keeps the invariant (setRemoteEdge).
LEMMA SetRemoteEdgeInv ==
  ASSUME IInv, NEW e \in Edges, SetRemoteEdge(e)
  PROVE  IInv'
<1> USE DEF IInv, SetRemoteEdge, trackVars, guardVars, linkVars, heldVars
<1>1. TypeOK' BY DEF TypeOK
<1>2. EngineInv'
  BY DEF EngineInv, PauseIsInert, PendingIsAwaited, LockIsHeld, FiredIsLocked,
         PointerFollowsMode, IdleWithoutClient, RemoteTracksNoButton,
         LocalInputHeld
<1>3. WorldInv'
  BY DEF WorldInv, ApartNothingHeld, TrackingIsExact, MacHeldIsTracked,
         NothingStuckOnMac, ClientMirrorsKeys, Sharing
<1> QED BY <1>1, <1>2, <1>3

\* A connection comes or goes, or dropConn resets the mode.
LEMMA LinkInv == IInv /\ (Attach \/ DropBegin \/ DropFinish) => IInv'
<1> SUFFICES ASSUME IInv, Attach \/ DropBegin \/ DropFinish PROVE IInv' OBVIOUS
<1> USE BoundAssumption
    DEF IInv, trackVars, edgeVars, guardVars, linkVars, heldVars
<1>1. CASE Attach
  <2> USE <1>1 DEF Attach
  <2>1. TypeOK' BY DEF TypeOK, Clean
  <2>2. EngineInv'
    BY DEF EngineInv, PauseIsInert, PendingIsAwaited, LockIsHeld, FiredIsLocked,
           PointerFollowsMode, IdleWithoutClient, RemoteTracksNoButton,
           LocalInputHeld
  <2>3. WorldInv'
    <3>1. CASE AllReleased BY <3>1, ReleasedWorld
    <3>2. CASE ~AllReleased
      BY <3>2 DEF WorldInv, ApartNothingHeld, TrackingIsExact,
           MacHeldIsTracked, NothingStuckOnMac, ClientMirrorsKeys, Sharing,
           Clean, AllReleased
    <3> QED BY <3>1, <3>2
  <2> QED BY <2>1, <2>2, <2>3
<1>2. CASE DropBegin
  <2> USE <1>2 DEF DropBegin
  <2>1. TypeOK'
    <3>1. drops' \in 0..MaxDrops BY DEF TypeOK
    <3>2. clean' \in BOOLEAN BY DEF TypeOK, Clean
    <3> QED BY <3>1, <3>2 DEF TypeOK
  <2>2. EngineInv'
    BY DEF EngineInv, PauseIsInert, PendingIsAwaited, LockIsHeld, FiredIsLocked,
           PointerFollowsMode, IdleWithoutClient, RemoteTracksNoButton,
           LocalInputHeld, TypeOK
  <2>3. WorldInv'
    <3>1. CASE AllReleased BY <3>1, ReleasedWorld
    <3>2. CASE ~AllReleased
      BY <3>2 DEF WorldInv, ApartNothingHeld, TrackingIsExact,
           MacHeldIsTracked, NothingStuckOnMac, ClientMirrorsKeys, Sharing,
           Clean, AllReleased
    <3> QED BY <3>1, <3>2
  <2> QED BY <2>1, <2>2, <2>3
<1>3. CASE DropFinish
  <2> USE <1>3 DEF DropFinish, Reclaim, ForgetHeld, ForgetSwitch
  <2>1. TypeOK'
    <3>1. drops' \in 0..MaxDrops BY DEF TypeOK
    <3>2. clean' \in BOOLEAN /\ captured' \in BOOLEAN BY DEF TypeOK, Clean
    <3> QED BY <3>1, <3>2 DEF TypeOK
  <2>2. EngineInv'
    BY DEF EngineInv, PauseIsInert, PendingIsAwaited, LockIsHeld, FiredIsLocked,
           PointerFollowsMode, IdleWithoutClient, RemoteTracksNoButton,
           LocalInputHeld, TypeOK, Local, Remote
  <2>3. WorldInv'
    <3>1. CASE AllReleased BY <3>1, ReleasedWorld
    <3>2. CASE ~AllReleased
      BY <3>2 DEF WorldInv, ApartNothingHeld, TrackingIsExact,
           MacHeldIsTracked, NothingStuckOnMac, ClientMirrorsKeys, Sharing,
           Clean, AllReleased, Local, Remote
    <3> QED BY <3>1, <3>2
  <2> QED BY <2>1, <2>2, <2>3
<1> QED BY <1>1, <1>2, <1>3

\* macOS and the user act behind the engine's back.
LEMMA MacInv ==
  ASSUME IInv,
         \/ ReasonChanges
         \/ \E z \in Zones : CursorMoves(z)
         \/ \E i \in Inputs : Bypass(i)
  PROVE  IInv'
<1> USE DEF IInv, trackVars, edgeVars, guardVars, linkVars, heldVars
<1>1. CASE ReasonChanges \/ \E z \in Zones : CursorMoves(z)
  <2> USE <1>1 DEF ReasonChanges, CursorMoves
  <2>1. TypeOK' BY DEF TypeOK
  <2>2. EngineInv'
    BY DEF EngineInv, PauseIsInert, PendingIsAwaited, LockIsHeld, FiredIsLocked,
           PointerFollowsMode, IdleWithoutClient, RemoteTracksNoButton,
           LocalInputHeld
  <2>3. WorldInv'
    BY DEF WorldInv, ApartNothingHeld, TrackingIsExact, MacHeldIsTracked,
           NothingStuckOnMac, ClientMirrorsKeys, Sharing
  <2> QED BY <2>1, <2>2, <2>3
<1>2. ASSUME NEW i \in Inputs, Bypass(i) PROVE IInv'
  <2> USE <1>2 DEF Bypass
  <2>1. TypeOK' BY DEF TypeOK, Clean
  <2>2. EngineInv'
    BY DEF EngineInv, PauseIsInert, PendingIsAwaited, LockIsHeld, FiredIsLocked,
           PointerFollowsMode, IdleWithoutClient, RemoteTracksNoButton,
           LocalInputHeld
  <2>3. WorldInv'
    <3>1. CASE AllReleased BY <3>1, ReleasedWorld
    <3>2. CASE ~clean'
      BY <3>2 DEF WorldInv, ApartNothingHeld, TrackingIsExact,
           MacHeldIsTracked, NothingStuckOnMac, ClientMirrorsKeys
    <3> QED BY <3>1, <3>2 DEF Clean, AllReleased
  <2> QED BY <2>1, <2>2, <2>3
<1> QED BY <1>1, <1>2

\* Where nothing happens the invariant stays.
LEMMA StutterInv == IInv /\ UNCHANGED vars => IInv'
  BY DEF IInv, vars, trackVars, edgeVars, guardVars, linkVars, heldVars,
         TypeOK, EngineInv, WorldInv, PauseIsInert, PendingIsAwaited,
         LockIsHeld, FiredIsLocked, PointerFollowsMode, IdleWithoutClient,
         RemoteTracksNoButton, LocalInputHeld, ApartNothingHeld,
         TrackingIsExact, MacHeldIsTracked, NothingStuckOnMac,
         ClientMirrorsKeys, Sharing

\* IInv holds in every reachable state of the engine, of which the properties
\* below are parts: every handler of engine.go keeps all of it at once.
THEOREM InvariantIsInductive == Spec => []IInv
<1>1. IInv /\ [Next]_vars => IInv'
  BY TapInv, DwellInv, GuardQueryInv, GuardApplyInv, SwitchRequestInv,
     SetRemoteEdgeInv, LinkInv, MacInv, StutterInv DEF Next
<1> QED BY InitInv, <1>1, PTL DEF Spec

-----------------------------------------------------------------------------
(***************************************************************************)
(* The theorems: the properties that the runs check, for every instance.   *)
(***************************************************************************)

\* Every variable of the engine keeps its type.
THEOREM TypeCorrect == Spec => []TypeOK
<1>1. IInv => TypeOK BY DEF IInv
<1> QED BY <1>1, InvariantIsInductive, PTL

\* While the guard has paused sharing, the Mac has control and nothing learnt
\* before the pause is left (applyInputGuardLocked).
THEOREM PauseInert == Spec => []PauseIsInert
<1>1. IInv => PauseIsInert BY DEF IInv, EngineInv
<1> QED BY <1>1, InvariantIsInductive, PTL

\* A delayed switch waits, under local control, for a release that the engine
\* will see (pendingRemote, finishPendingRemote).
THEOREM PendingAwaited == Spec => []PendingIsAwaited
<1>1. IInv => PendingIsAwaited BY DEF IInv, EngineInv
<1> QED BY <1>1, InvariantIsInductive, PTL

\* The hotkey is never locked without one of its keys down (hotkeyLocked).
THEOREM LockHeld == Spec => []LockIsHeld
<1>1. IInv => LockIsHeld BY DEF IInv, EngineInv
<1> QED BY <1>1, InvariantIsInductive, PTL

\* The cursor is captured exactly in remote mode (enterRemoteLocked,
\* leaveRemoteLocked, dropConn).
THEOREM PointerFollows == Spec => []PointerFollowsMode
<1>1. IInv => PointerFollowsMode BY DEF IInv, EngineInv
<1> QED BY <1>1, InvariantIsInductive, PTL

\* Remote control without a client ends with a dropConn under way.
THEOREM RemoteNeedsClient == Spec => []RemoteHasClientOrDrop
<1>1. IInv => RemoteHasClientOrDrop
  BY DEF IInv, EngineInv, IdleWithoutClient, RemoteHasClientOrDrop, Local, Remote
<1> QED BY <1>1, InvariantIsInductive, PTL

\* The engine's view of held inputs is right while no event escapes it
\* (watchLocalLocked, forwardRemoteLocked, modifierDown).
THEOREM TrackingExact == Spec => []TrackingIsExact
<1>1. IInv => TrackingIsExact BY DEF IInv, WorldInv
<1> QED BY <1>1, InvariantIsInductive, PTL

\* No input is stuck on the Mac under remote control, while no event escapes
\* the engine (breakFreeLocked, finishPendingRemote).
THEOREM NothingStuck == Spec => []NothingStuckOnMac
<1>1. IInv => NothingStuckOnMac BY DEF IInv, WorldInv
<1> QED BY <1>1, InvariantIsInductive, PTL

\* The client in control was told the keys that are held, while no event
\* escapes the engine (forwardRemoteLocked).
THEOREM ClientMirrors == Spec => []ClientMirrorsKeys
<1>1. IInv => ClientMirrorsKeys BY DEF IInv, WorldInv
<1> QED BY <1>1, InvariantIsInductive, PTL

\* The hotkey is unlocked only by a step after which none of its keys is
\* tracked as down (afterKeysUpdate, and the two places that forget all).
LEMMA UnlockingStep ==
  ASSUME TypeOK, Next, hotkeyLocked, ~hotkeyLocked'
  PROVE  SwitchKeys \cap keysDown' = {}
<1>1. CASE TapNext
  <2>1. PICK ev, p : EventOf(ev, p) /\ Tap(ev, p) BY <1>1, TapIsEvent
  <2>2. PICK taken \in BOOLEAN : Consume(ev, taken) BY <2>1 DEF Tap
  <2>3. Sharing
    BY <2>2 DEF Consume, trackVars
  <2>4. CASE mode = Remote
    BY <2>2, <2>3, <2>4 DEF Consume, ForwardRemote, LockedAfter, Local, Remote
  <2>5. CASE mode = Local
    <3>1. WatchLocal(ev, taken)
      BY <2>2, <2>3, <2>5 DEF Consume, Local, Remote
    <3> QED BY <3>1 DEF WatchLocal, WatchHotkey, FinishPendingRemote, LockedAfter
  <2> QED BY <2>4, <2>5 DEF TypeOK
<1>2. CASE GuardApply \/ DropFinish
  BY <1>2 DEF GuardApply, DropFinish, ForgetHeld, ForgetSwitch, trackVars
<1>3. CASE ~TapNext /\ ~GuardApply /\ ~DropFinish
  BY <1>3 DEF Next, DwellExpires, GuardQuery, SwitchRequest, SetRemoteEdge,
     Attach, DropBegin, ReasonChanges, CursorMoves, Bypass, trackVars
<1> QED BY <1>1, <1>2, <1>3

\* While no event escapes the engine, the hotkey is unlocked only when all its
\* keys have physically been released (hotkeyDown, afterKeysUpdate).
THEOREM Unlocks == Spec => UnlocksWhenReleased
<1>1. ASSUME IInv, IInv', [Next]_vars, clean, clean', hotkeyLocked, ~hotkeyLocked'
      PROVE  SwitchKeys \cap phys' = {}
  <2>1. Next BY <1>1 DEF vars, trackVars
  <2>2. SwitchKeys \cap keysDown' = {} BY <1>1, <2>1, UnlockingStep DEF IInv
  <2>3. keysDown' = phys' \cap Keys
    BY <1>1 DEF IInv, WorldInv, TrackingIsExact
  <2> QED BY <2>2, <2>3, SwitchKeysAssumption
<1>2. IInv /\ IInv' /\ [Next]_vars =>
        [clean /\ clean' /\ hotkeyLocked /\ ~hotkeyLocked'
           => SwitchKeys \cap phys' = {}]_vars
  BY <1>1
<1> QED BY <1>2, InvariantIsInductive, PTL DEF Spec, UnlocksWhenReleased

-----------------------------------------------------------------------------
\* Engine implements Sharing.  Of the invariant that takes a pause being inert.
\* That a client that stays away does not keep the input (Reclaimed) is a
\* liveness property, which TLC checks.

\* The step changes nothing of which the promise speaks.
Unseen == UNCHANGED <<mode, keysDown, buttonsDown, inputBlocked, connected>>

\* A step of the promise, or none.
PromiseStep == Promise!Next \/ UNCHANGED Promise!vars

\* A step that the promise does not see is a stuttering step of it.
LEMMA UnseenStep == Unseen => PromiseStep
  BY DEF Unseen, PromiseStep, Promise!vars

\* The engine starts as the promise does (newEngine, refreshInputGuard).
LEMMA InitPromise == Init => Promise!Init
  BY DEF Init, Promise!Init, Promise!Local, Local

\* breakFreeLocked hands control over with nothing held, or not at all.
LEMMA BreakFreePromise ==
  ASSUME NEW pushed, BreakFree(pushed), TypeOK,
         UNCHANGED <<keysDown, buttonsDown, inputBlocked, connected>>
  PROVE  PromiseStep
<1>1. CASE StayInMode
  BY <1>1, UnseenStep DEF StayInMode, Unseen
<1>2. CASE ~LocalInputHeld(keysDown, buttonsDown) /\ EnterRemote
  BY <1>2 DEF LocalInputHeld, EnterRemote, PromiseStep, Promise!Next,
     Promise!HandOver, Promise!Local, Promise!Remote, Local, Remote
<1> QED BY <1>1, <1>2 DEF BreakFree

\* An event of the tap (consume).
LEMMA TapPromise ==
  ASSUME TypeOK, TapNext
  PROVE  PromiseStep
<1>1. PICK ev, p : EventOf(ev, p) /\ Tap(ev, p) BY TapIsEvent
<1>2. PICK taken \in BOOLEAN : Consume(ev, taken) BY <1>1 DEF Tap
<1>3. UNCHANGED <<inputBlocked, connected>> BY <1>1 DEF Tap, guardVars, linkVars
<1>4. KeysAfter(ev) \subseteq Keys /\ ButtonsAfter(ev) \subseteq Buttons
  BY <1>1, TrackTypes
<1>5. CASE ~Sharing
  BY <1>2, <1>3, <1>5, UnseenStep DEF Consume, StayInMode, trackVars, Unseen
<1>6. CASE Sharing /\ mode = Remote
  <2>1. ForwardRemote(ev) BY <1>2, <1>6 DEF Consume, Local, Remote
  <2>2. keysDown' \subseteq Keys /\ buttonsDown' \subseteq Buttons
    BY <2>1, <1>4 DEF ForwardRemote, TypeOK
  <2>3. keysDown' \cup buttonsDown' \in SUBSET Inputs BY <2>2 DEF Inputs
  <2>4. CASE LeaveRemote
    BY <2>3, <2>4, <1>3 DEF LeaveRemote, PromiseStep, Promise!Next,
       Promise!TakeBack, Promise!Local, Promise!Remote, Local, Remote
  <2>5. CASE UNCHANGED mode
    BY <2>3, <2>5, <1>3, <1>6 DEF Sharing, PromiseStep, Promise!Next, Promise!Track
  <2> QED BY <2>1, <2>4, <2>5 DEF ForwardRemote
<1>7. CASE Sharing /\ mode = Local
  <2>1. WatchLocal(ev, taken) BY <1>2, <1>7 DEF Consume, Local, Remote
  <2>2. keysDown' = KeysAfter(ev) /\ buttonsDown' = ButtonsAfter(ev)
    BY <2>1 DEF WatchLocal
  <2>3. CASE /\ pendingRemote /\ ~LocalInputHeld(KeysAfter(ev), ButtonsAfter(ev))
             /\ FinishPendingRemote(ev)
    BY <2>2, <2>3, <1>3 DEF FinishPendingRemote, LocalInputHeld, EnterRemote,
       PromiseStep, Promise!Next, Promise!HandOver, Promise!Local, Promise!Remote,
       Local, Remote
  <2>4. CASE PushesFree(ev) /\ BreakFree(stickyPush + ev.push)
    <3>1. UNCHANGED <<keysDown, buttonsDown>>
      BY <2>2, <2>4 DEF PushesFree, KeysAfter, ButtonsAfter, IsPress, IsRelease
    <3> QED BY <3>1, <2>4, <1>3, BreakFreePromise
  <2>5. CASE StayInMode
    <3>1. keysDown' \cup buttonsDown' \in SUBSET Inputs BY <2>2, <1>4 DEF Inputs
    <3> QED BY <3>1, <2>5, <1>3, <1>7 DEF StayInMode, Sharing, PromiseStep,
            Promise!Next, Promise!Track
  <2> QED BY <2>1, <2>3, <2>4, <2>5 DEF WatchLocal
<1> QED BY <1>5, <1>6, <1>7 DEF TypeOK

\* The guard applies what macOS said (applyInputGuardLocked): a pause takes
\* control back in the same step, and finds the Mac in control when it ends.
LEMMA GuardPromise ==
  ASSUME TypeOK, PauseIsInert, GuardApply
  PROVE  PromiseStep
<1>1. CASE queried = inputBlocked
  BY <1>1, UnseenStep DEF GuardApply, StayInMode, trackVars, linkVars, Unseen
<1>2. CASE queried # inputBlocked
  <2>1. keysDown' \cup buttonsDown' = {} BY <1>2 DEF GuardApply, ForgetHeld
  <2>2. UNCHANGED connected BY DEF GuardApply, linkVars
  <2>3. mode' = Local
    <3>1. CASE queried # NoReason /\ mode = Remote
      BY <1>2, <3>1 DEF GuardApply, LeaveRemote
    <3>2. CASE ~(queried # NoReason /\ mode = Remote)
      BY <1>2, <3>2 DEF GuardApply, StayInMode, PauseIsInert, TypeOK
    <3> QED BY <3>1, <3>2
  <2> QED BY <2>1, <2>2, <2>3 DEF PromiseStep, Promise!Next, Promise!Suspend,
          Promise!Local, Local
<1> QED BY <1>1, <1>2

\* The connection comes or goes, or dropConn resets the mode.
LEMMA LinkPromise ==
  ASSUME TypeOK, PauseIsInert, Attach \/ DropBegin \/ DropFinish
  PROVE  PromiseStep
<1>1. CASE Attach
  <2>1. UNCHANGED <<mode, keysDown, buttonsDown, inputBlocked>> /\ connected' = TRUE
    BY <1>1 DEF Attach, trackVars, guardVars
  <2> QED BY <2>1, UnseenStep DEF TypeOK, Unseen, PromiseStep, Promise!Next, Promise!Link
<1>2. CASE DropBegin
  <2>1. UNCHANGED <<mode, keysDown, buttonsDown, inputBlocked>> /\ connected' = FALSE
    BY <1>2 DEF DropBegin, trackVars, guardVars
  <2> QED BY <2>1, UnseenStep DEF TypeOK, Unseen, PromiseStep, Promise!Next, Promise!Link
<1>3. CASE DropFinish
  <2>1. /\ mode' = Local /\ keysDown' = {} /\ buttonsDown' = {}
        /\ UNCHANGED <<inputBlocked, connected>>
    BY <1>3 DEF DropFinish, Reclaim, ForgetHeld, guardVars
  <2>2. CASE mode = Remote
    BY <2>1, <2>2 DEF PromiseStep, Promise!Next, Promise!TakeBack, Promise!Local,
       Promise!Remote, Local, Remote
  <2>3. CASE mode = Local /\ inputBlocked = NoReason
    BY <2>1, <2>3 DEF PromiseStep, Promise!Next, Promise!Track
  <2>4. CASE mode = Local /\ inputBlocked # NoReason
    BY <2>1, <2>4, UnseenStep DEF PauseIsInert, Unseen
  <2> QED BY <2>2, <2>3, <2>4 DEF TypeOK
<1> QED BY <1>1, <1>2, <1>3

\* Every step of the engine.
LEMMA NextPromise ==
  ASSUME TypeOK, PauseIsInert, [Next]_vars
  PROVE  PromiseStep
<1>1. CASE TapNext BY <1>1, TapPromise
<1>2. CASE DwellExpires
  BY <1>2, BreakFreePromise DEF DwellExpires, guardVars, linkVars
<1>3. CASE GuardApply BY <1>3, GuardPromise
<1>4. CASE SwitchRequest
  BY <1>4 DEF SwitchRequest, LeaveRemote, trackVars, guardVars, linkVars, TypeOK,
     Inputs, PromiseStep, Promise!Next, Promise!TakeBack, Promise!Local,
     Promise!Remote, Local, Remote
<1>5. CASE Attach \/ DropBegin \/ DropFinish BY <1>5, LinkPromise
<1>6. CASE GuardQuery \/ ReasonChanges \/ (\E e \in Edges : SetRemoteEdge(e))
  BY <1>6, UnseenStep DEF GuardQuery, ReasonChanges, SetRemoteEdge, trackVars,
     guardVars, linkVars, Unseen
<1>7. CASE (\E z \in Zones : CursorMoves(z)) \/ (\E i \in Inputs : Bypass(i))
  BY <1>7, UnseenStep DEF CursorMoves, Bypass, trackVars, guardVars, linkVars, Unseen
<1>8. CASE UNCHANGED vars
  BY <1>8, UnseenStep DEF vars, trackVars, guardVars, linkVars, Unseen
<1> QED BY <1>1, <1>2, <1>3, <1>4, <1>5, <1>6, <1>7, <1>8 DEF Next

\* The safety half of ImplementsSharing: control is handed over only while
\* sharing is available and nothing is held, and a pause takes it back in the
\* step that suspends sharing, whatever the tap, the timers, the guard, the
\* connections and the client do.
THEOREM EngineKeepsPromise ==
  Spec => Promise!Init /\ [][Promise!Next]_(Promise!vars)
<1>1. Init => Promise!Init BY InitPromise
<1>2. IInv /\ [Next]_vars => [Promise!Next]_(Promise!vars)
  BY NextPromise DEF IInv, EngineInv, PromiseStep
<1> QED BY <1>1, <1>2, InvariantIsInductive, PTL DEF Spec
=============================================================================
