------------------------------- MODULE Pointer -------------------------------
(***************************************************************************)
(* Where the pointer appears when it crosses between the two screens: the  *)
(* sizes that the sides keep of their own and of the other's screen, and   *)
(* the arithmetic of the crossing (src/internal/server/engine.go,          *)
(* src/internal/server/server.go, src/internal/client/client.go).          *)
(*                                                                         *)
(* Each side asks its operating system for the size now and then and tells *)
(* the other side of a change; the greeting carries the first sizes.  The  *)
(* size is read, stored and told in three steps, and other goroutines may  *)
(* greet, cross or lose the connection in between.  A crossing carries the *)
(* height at which the pointer left, and the other side maps it to its own *)
(* height.                                                                 *)
(*                                                                         *)
(* Abstractions.  Of the Mac's screen only the height is used in a         *)
(* computation.  A height on the Mac is cut to an integer: what leaves the *)
(* Mac is.  Floating-point numbers are exact.  Which event makes the       *)
(* pointer cross, and how a lost connection is noticed, is in modules      *)
(* Engine and Session; one connection at a time is followed.               *)
(***************************************************************************)
EXTENDS Integers, Sequences

CONSTANTS MacHeights,     \* heights that the Mac's screen may have
          ClientScreens,  \* sizes that the client's screen may have
          CrossingYs,     \* heights at which the Mac's pointer crosses
          Inset,          \* parkX's inset
          EdgeMargin,     \* the client's zone of return
          ConfigEdge,     \* the client's shared edge by the Mac's configuration
          MaxEvents,      \* bound: see events
          MaxCrossings    \* bound: switches under way when the pointer crosses

\* A client whose screen detection failed.
Unknown == [w |-> 0, h |-> 0]
NoY == -1
Sides == {"left", "right"}

ASSUME ScreenAssumption ==
  /\ MacHeights \subseteq Nat \ {0}
  /\ ClientScreens \subseteq [w : Nat, h : Nat \ {0}]
  /\ CrossingYs \subseteq Int
  /\ Inset \in Nat /\ EdgeMargin \in Nat /\ EdgeMargin < Inset
  /\ \A s \in ClientScreens : s.w > Inset + EdgeMargin
  /\ ConfigEdge \in Sides /\ MaxEvents \in Nat /\ MaxCrossings \in Nat

VARIABLES
  macReal,    \* the height of the Mac's screen
  macKnown,   \* what the engine knows of it
  macLoop,    \* the Mac's screenLoop: its step, and the size it has read
  cliKnown,   \* what the engine knows of the client's screen
  macEdge,    \* the client's shared edge, as the Mac has it
  mode,       \* the Mac's control mode
  macY,       \* the height of the Mac's pointer at the seam
  cliReal,    \* the size of the client's screen
  ownKnown,   \* what the client knows of it
  cliLoop,    \* the client's screenLoop
  peerKnown,  \* what the client knows of the Mac's height
  edge,       \* the client's shared edge, as the client has it
  remote,     \* the client is under remote control
  cursor,     \* the client's cursor
  parked,     \* history: it rests where enterRemote put it, and the width the
              \* client knows is positive and has not changed since
  conn,       \* "off", "dialed", "greeting", "asked", "greeted" or "up": how
              \* far the greetings are, see below
  met,        \* the client has the connection
  toClient,   \* frames under way
  toMac,
  macUntold,  \* history: a race of the Mac's refreshScreen with its greeting has
              \* left the client with another size than the Mac knows
  cliUntold,  \* history: the same on the client
  silent,     \* the client's writer is broken: nothing it sends arrives
  events      \* changes of screens and layout, failed queries of the client's
              \* size, broken writers and lost connections so far

macVars == <<macReal, macKnown, cliKnown, macEdge, mode, macY>>
sizeVars == <<cliReal, ownKnown, peerKnown>>
controlVars == <<edge, remote, cursor, parked>>
linkVars == <<conn, met, macUntold, cliUntold, silent>>
loopVars == <<macLoop, cliLoop>>
vars == <<macVars, sizeVars, controlVars, linkVars, loopVars, toClient, toMac, events>>

\* A screenLoop between two ticks, and one that has read, or stored, a size.
Waits == [pc |-> "waits", size |-> Unknown]
HasRead(size) == [pc |-> "read", size |-> size]
HasStored(size) == [pc |-> "stored", size |-> size]

Init ==
  /\ macReal \in MacHeights /\ macKnown = macReal
  /\ cliKnown = Unknown /\ macEdge = ConfigEdge /\ mode = "local" /\ macY = 0
  /\ cliReal \in ClientScreens /\ ownKnown = Unknown /\ peerKnown = 0
  /\ edge = "right" /\ remote = FALSE /\ parked = FALSE
  /\ cursor = [x |-> 0, y |-> 0]
  /\ conn = "off" /\ met = FALSE /\ toClient = <<>> /\ toMac = <<>>
  /\ macLoop = Waits /\ cliLoop = Waits
  /\ macUntold = FALSE /\ cliUntold = FALSE /\ silent = FALSE /\ events = 0
-----------------------------------------------------------------------------
\* Arithmetic.

Clamp(v, hi) == IF v < 0 THEN 0 ELSE IF v > hi THEN hi ELSE v

\* n / d, rounded to the nearest integer and to the even one of two (%.0f).
Round(n, d) ==
  LET q == n \div d
      twice == 2 * (n % d)
  IN  IF twice < d \/ (twice = d /\ q % 2 = 0) THEN q ELSE q + 1

\* Mutant: the client's own height is taken for the Mac's.
MutMapMacY(y) == IF ownKnown.h > 0 /\ peerKnown > 0 THEN Round(y * peerKnown, ownKnown.h) ELSE y

\* mapMacY, with the rounding of the cursor command.
MapMacY(y) == IF ownKnown.h > 0 /\ peerKnown > 0 THEN Round(y * ownKnown.h, peerKnown) ELSE y

\* Mutant: the heights are not scaled.
MutMapClientYToMac(y) == y

\* mapClientYToMac.
MapClientYToMac(y) ==
  IF cliKnown.h > 0 /\ macKnown > 0 THEN (y * macKnown) \div cliKnown.h ELSE y

\* Mutant: no inset.
MutParkX == IF edge = "left" THEN 0 ELSE ownKnown.w

ParkX == IF edge = "left" THEN Inset ELSE ownKnown.w - Inset

\* The compositor keeps the cursor on the screen.
OnScreen(x, y, s) == [x |-> Clamp(x, s.w - 1), y |-> Clamp(y, s.h - 1)]

\* edgeWatch's atEdge.
AtEdge ==
  IF edge = "right" THEN cursor.x >= ownKnown.w - EdgeMargin ELSE cursor.x <= EdgeMargin

\* Frames.  A switch has the height of the crossing (NoY for none) and, for
\* the properties, the screen on which the sender read it and whether it had
\* told the size of that screen last.
ScreenFrame(size) == [type |-> "screen", size |-> size]
EdgeFrame(e) == [type |-> "edge", edge |-> e]
RemoteFrame(y, of, sure) == [type |-> "remote", y |-> y, of |-> of, sure |-> sure]
BackFrame(y, of, sure) == [type |-> "back", y |-> y, of |-> of, sure |-> sure]

\* engine.send: a frame for nobody is dropped.
MacSends(frame) ==
  toClient' = IF conn = "up" THEN Append(toClient, frame) ELSE toClient

\* Client.send: errors are only logged.
ClientSends(frame) ==
  toMac' = IF met /\ ~silent THEN Append(toMac, frame) ELSE toMac
-----------------------------------------------------------------------------
\* The screens and the layout change.

EventHappens == events < MaxEvents /\ events' = events + 1

MacScreenChanges ==
  /\ EventHappens
  /\ macReal' \in MacHeights \ {macReal}
  /\ UNCHANGED <<macKnown, cliKnown, macEdge, mode, macY, sizeVars, controlVars, linkVars,
                 loopVars, toClient, toMac>>

ClientScreenChanges ==
  /\ EventHappens
  /\ cliReal' \in ClientScreens \ {cliReal}
  /\ cursor' = OnScreen(cursor.x, cursor.y, cliReal')
  /\ parked' = FALSE
  /\ UNCHANGED <<macVars, ownKnown, peerKnown, edge, remote, linkVars, loopVars, toClient, toMac>>

\* setRemoteEdge.
SetRemoteEdge ==
  /\ EventHappens
  /\ macEdge' \in Sides \ {macEdge}
  /\ MacSends(EdgeFrame(macEdge'))
  /\ UNCHANGED <<macReal, macKnown, cliKnown, mode, macY, sizeVars, controlVars, linkVars,
                 loopVars, toMac>>
-----------------------------------------------------------------------------
\* refreshScreen, from screenLoop: on each side a goroutine of its own.

\* Mutant: the new size is not sent.
MutTellClient(size) == UNCHANGED toClient

TellClient(size) == MacSends(ScreenFrame(size))

\* engine.refreshScreen: screen().  A read of the known size has an effect only
\* if something happens before the store; after the last event it is left out.
MacMeasures ==
  /\ macLoop.pc = "waits" /\ (events < MaxEvents \/ macReal # macKnown)
  /\ macLoop' = HasRead(macReal)
  /\ UNCHANGED <<macVars, sizeVars, controlVars, linkVars, cliLoop, toClient, toMac, events>>

\* Under mu.
MacStores ==
  /\ macLoop.pc = "read"
  /\ macKnown' = macLoop.size
  /\ macLoop' = IF macKnown # macLoop.size THEN HasStored(macLoop.size) ELSE Waits
  /\ UNCHANGED <<macReal, cliKnown, macEdge, mode, macY, sizeVars, controlVars, linkVars, cliLoop,
                 toClient, toMac, events>>

\* send, after mu was given up.  It is lost on a client that was greeted and
\* is not installed, and it undoes a greeting that has stored another size.
MacTells ==
  /\ macLoop.pc = "stored" /\ macLoop' = Waits
  /\ TellClient(macLoop.size)
  /\ macUntold' = IF conn = "up" THEN macKnown # macLoop.size
                  ELSE macUntold \/ (conn = "greeted" /\ macKnown = macLoop.size)
  /\ UNCHANGED <<macVars, sizeVars, controlVars, conn, met, cliUntold, silent, cliLoop, toMac,
                 events>>

\* Client.refreshScreen: connected() and the query.  A connection that is lost
\* in between is lost after.
ClientMeasures ==
  /\ met /\ cliLoop.pc = "waits" /\ (events < MaxEvents \/ cliReal # ownKnown)
  /\ cliLoop' = HasRead(cliReal)
  /\ UNCHANGED <<macVars, sizeVars, controlVars, linkVars, macLoop, toClient, toMac, events>>

\* Under mu.
ClientStores ==
  /\ cliLoop.pc = "read"
  /\ ownKnown' = cliLoop.size
  /\ cliLoop' = IF ownKnown # cliLoop.size THEN HasStored(cliLoop.size) ELSE Waits
  /\ parked' = (parked /\ ownKnown' = ownKnown)
  /\ UNCHANGED <<macVars, cliReal, peerKnown, edge, remote, cursor, linkVars, macLoop, toClient,
                 toMac, events>>

\* send, after mu was given up; by then the client may have greeted anew.
ClientTells ==
  /\ cliLoop.pc = "stored" /\ cliLoop' = Waits
  /\ ClientSends(ScreenFrame(cliLoop.size))
  /\ cliUntold' = IF met THEN ownKnown # cliLoop.size
                  ELSE cliUntold \/ (conn \notin {"off", "dialed"} /\ ownKnown = cliLoop.size)
  /\ UNCHANGED <<macVars, sizeVars, controlVars, conn, met, macUntold, silent, macLoop, toClient,
                 events>>

\* History: a side has told the size that it knows.
MacTold == ~macUntold /\ ~(macLoop.pc = "stored" /\ macLoop.size = macKnown)
ClientTold == ~cliUntold /\ ~(cliLoop.pc = "stored" /\ cliLoop.size = ownKnown)
-----------------------------------------------------------------------------
\* The connection.  In "dialed" and "asked" the queue of the side that is about
\* to greet holds the greeting, which it has not sent yet.

\* runOnce: the client asks for its size, which may fail, and will greet.
ClientDials ==
  /\ conn = "off" /\ conn' = "dialed"
  /\ \/ toMac' = <<ScreenFrame(cliReal)>> /\ UNCHANGED events
     \/ toMac' = <<ScreenFrame(Unknown)>> /\ EventHappens
  /\ UNCHANGED <<macVars, sizeVars, controlVars, met, macUntold, cliUntold, silent, loopVars,
                 toClient>>

\* runOnce stores the size and sends its greeting.
ClientGreets ==
  /\ conn = "dialed" /\ conn' = "greeting"
  /\ ownKnown' = Head(toMac).size
  /\ UNCHANGED <<macVars, cliReal, peerKnown, controlVars, met, macUntold, cliUntold, silent,
                 loopVars, toClient, toMac, events>>

\* handleConn reads it and asks for the Mac's size, with which it will greet.
MacAsks ==
  /\ conn = "greeting" /\ conn' = "asked"
  /\ cliKnown' = Head(toMac).size /\ toMac' = Tail(toMac)
  /\ toClient' = <<ScreenFrame(macReal)>>
  /\ UNCHANGED <<macReal, macKnown, macEdge, mode, macY, sizeVars, controlVars, met, macUntold,
                 cliUntold, silent, loopVars, events>>

\* refreshScreen asks again and stores what it learns; nobody is installed yet,
\* so that it tells nobody.  The greeting has the size of the first question.
\* The second answer may be older than what screenLoop has stored since.
MacGreets ==
  /\ conn = "asked" /\ conn' = "greeted"
  /\ LET first == Head(toClient).size
     IN  /\ macKnown' \in {first, macReal}
         /\ macUntold' = (macKnown' # first)
  /\ toClient' = Append(toClient, EdgeFrame(macEdge))
  /\ UNCHANGED <<macReal, cliKnown, macEdge, mode, macY, sizeVars, controlVars, met, cliUntold,
                 silent, loopVars, toMac, events>>

\* setConn.
MacInstalls ==
  /\ conn = "greeted" /\ conn' = "up"
  /\ UNCHANGED <<macVars, sizeVars, controlVars, met, macUntold, cliUntold, silent, loopVars,
                 toClient, toMac, events>>

\* runOnce: the client reads the Mac's size and installs the connection.
ClientMeets ==
  /\ ~met /\ conn \in {"greeted", "up"}
  /\ met' = TRUE
  /\ peerKnown' = Head(toClient).size /\ toClient' = Tail(toClient)
  /\ UNCHANGED <<macVars, cliReal, ownKnown, controlVars, conn, macUntold, cliUntold, silent,
                 loopVars, toMac, events>>

\* A write of the client ran into its deadline.
WriterBreaks ==
  /\ met /\ ~silent /\ silent' = TRUE /\ EventHappens
  /\ UNCHANGED <<macVars, sizeVars, controlVars, conn, met, macUntold, cliUntold, loopVars,
                 toClient, toMac>>

\* dropConn and runOnce: control is local again on both sides.
Disconnect ==
  /\ conn # "off" /\ EventHappens
  /\ conn' = "off" /\ met' = FALSE
  /\ toClient' = <<>> /\ toMac' = <<>>
  /\ mode' = "local" /\ remote' = FALSE
  /\ parked' = FALSE /\ macUntold' = FALSE /\ cliUntold' = FALSE /\ silent' = FALSE
  /\ UNCHANGED <<macReal, macKnown, cliKnown, macEdge, macY, sizeVars, edge, cursor, loopVars>>
-----------------------------------------------------------------------------
\* Crossing.

IsSwitch(f) == f.type \in {"remote", "back"}

\* enterRemoteLocked.  On several displays the pointer may be above or below
\* the main one.  Its height may have been read before the screen changed.
MacEnters(y) ==
  /\ mode = "local" /\ conn = "up" /\ Len(SelectSeq(toClient \o toMac, IsSwitch)) < MaxCrossings
  /\ mode' = "remote"
  /\ macY' = Clamp(y, macReal - 1)
  /\ \E of \in {macReal} \cup (IF MacTold THEN {macKnown} ELSE {}) :
       MacSends(RemoteFrame(y, of, of = macKnown /\ MacTold))
  /\ UNCHANGED <<macReal, macKnown, cliKnown, macEdge, sizeVars, controlVars, linkVars, loopVars,
                 toMac, events>>

\* leaveRemoteLocked.
LeaveRemote(edgeY) ==
  /\ mode = "remote" /\ mode' = "local"
  /\ MacSends(BackFrame(NoY, macReal, FALSE))
  /\ macY' = Clamp(IF edgeY >= 0 THEN MapClientYToMac(edgeY) ELSE macY, macReal - 1)

\* By the hotkey.
MacLeaves ==
  /\ LeaveRemote(NoY)
  /\ UNCHANGED <<macReal, macKnown, cliKnown, macEdge, sizeVars, controlVars, linkVars, loopVars,
                 toMac, events>>

\* recvLoop.
MacHandles ==
  /\ conn = "up" /\ toMac # <<>>
  /\ toMac' = Tail(toMac)
  /\ LET f == Head(toMac)
     IN  \/ /\ f.type = "screen"
            /\ cliKnown' = IF f.size.w > 0 /\ f.size.h > 0 THEN f.size ELSE cliKnown
            /\ UNCHANGED <<mode, macY, toClient>>
         \/ f.type = "back" /\ LeaveRemote(f.y) /\ UNCHANGED cliKnown
         \/ /\ f.type = "back" /\ mode = "local"
            /\ UNCHANGED <<mode, macY, toClient, cliKnown>>
  /\ UNCHANGED <<macReal, macKnown, macEdge, sizeVars, controlVars, linkVars, loopVars, events>>

\* The height at which enterRemote parks the cursor.
LandingY(y) ==
  LET wanted == IF y < 0 THEN cursor.y ELSE MapMacY(y)
  IN  IF ownKnown.h > 0 THEN Clamp(wanted, ownKnown.h - 1) ELSE wanted

\* enterRemote; the cursor stays where it is if the compositor does not answer.
\* Of a size that changes while the cursor is being placed nothing is said: it
\* is placed by the old one, or moved after (CursorMoves).
EnterRemote(y) ==
  /\ remote' = TRUE
  /\ IF remote THEN UNCHANGED <<cursor, parked>>
     ELSE \/ /\ cursor' = OnScreen(ParkX, LandingY(y), cliReal)
             /\ parked' = (ownKnown.w > 0)
          \/ UNCHANGED cursor /\ parked' = FALSE

\* handle.
ClientHandles ==
  /\ met /\ toClient # <<>>
  /\ toClient' = Tail(toClient)
  /\ LET f == Head(toClient)
     IN  \/ f.type = "screen" /\ peerKnown' = f.size /\ UNCHANGED controlVars
         \/ f.type = "edge" /\ edge' = f.edge /\ UNCHANGED <<peerKnown, remote, cursor, parked>>
         \/ f.type = "remote" /\ EnterRemote(f.y) /\ UNCHANGED <<peerKnown, edge>>
         \/ f.type = "back" /\ remote' = FALSE /\ UNCHANGED <<peerKnown, edge, cursor, parked>>
  /\ UNCHANGED <<macVars, cliReal, ownKnown, linkVars, loopVars, toMac, events>>

\* The Mac's user moves the cursor to a corner of the client's screen.  What
\* happens in between is of no interest to the code.  What the client's own user
\* does is left out: only a crossing that has no height depends on it.
CursorMoves ==
  /\ remote
  /\ cursor' \in [x : {0, cliReal.w - 1}, y : {0, cliReal.h - 1}]
  /\ parked' = FALSE
  /\ UNCHANGED <<macVars, sizeVars, edge, remote, linkVars, loopVars, toClient, toMac, events>>

\* edgeWatch: the cursor has dwelled at the shared edge.  Its height is not
\* sent if the compositor does not answer, and may have been read before the
\* screen changed.  A move or another layout between the polls and the send is
\* as good as one after it.
WatcherReturns ==
  /\ remote /\ AtEdge
  /\ remote' = FALSE
  /\ \E of \in {cliReal} \cup (IF ClientTold THEN {ownKnown} \ {Unknown} ELSE {}) :
       \E y \in {NoY} \cup (IF of = cliReal THEN {cursor.y} ELSE 0 .. of.h - 1) :
         ClientSends(BackFrame(y, of, of = ownKnown /\ ClientTold))
  /\ UNCHANGED <<macVars, sizeVars, edge, cursor, parked, linkVars, loopVars, toClient, events>>

Next ==
  \/ MacScreenChanges \/ ClientScreenChanges \/ SetRemoteEdge
  \/ MacMeasures \/ MacStores \/ MacTells
  \/ ClientMeasures \/ ClientStores \/ ClientTells
  \/ ClientDials \/ ClientGreets \/ MacAsks \/ MacGreets \/ MacInstalls \/ ClientMeets
  \/ WriterBreaks \/ Disconnect
  \/ \E y \in CrossingYs : MacEnters(y)
  \/ MacLeaves \/ MacHandles \/ ClientHandles \/ CursorMoves \/ WatcherReturns

Spec == Init /\ [][Next]_vars

\* Both screen loops tick, both receive loops run and the handshake goes on.
Fairness ==
  /\ WF_vars(MacMeasures) /\ WF_vars(MacStores) /\ WF_vars(MacTells)
  /\ WF_vars(ClientMeasures) /\ WF_vars(ClientStores) /\ WF_vars(ClientTells)
  /\ WF_vars(ClientMeets) /\ WF_vars(MacHandles) /\ WF_vars(ClientHandles)

FairSpec == Spec /\ Fairness
-----------------------------------------------------------------------------
Frames(sizes) ==
  [type : {"screen"}, size : sizes] \cup [type : {"edge"}, edge : Sides] \cup
  [type : {"remote", "back"}, y : Int, of : sizes, sure : BOOLEAN]

Loops(sizes) == {Waits} \cup [pc : {"read", "stored"}, size : sizes]

\* Every variable has its type: a cursor is on the screen, and only the
\* client's own size can be unknown.
TypeOK ==
  /\ macReal \in MacHeights /\ macKnown \in MacHeights
  /\ cliKnown \in ClientScreens \cup {Unknown} /\ macEdge \in Sides
  /\ mode \in {"local", "remote"} /\ macY \in Nat
  /\ cliReal \in ClientScreens /\ ownKnown \in ClientScreens \cup {Unknown}
  /\ peerKnown \in MacHeights \cup {0}
  /\ edge \in Sides /\ remote \in BOOLEAN /\ parked \in BOOLEAN
  /\ cursor \in [x : 0 .. cliReal.w - 1, y : 0 .. cliReal.h - 1]
  /\ conn \in {"off", "dialed", "greeting", "asked", "greeted", "up"} /\ met \in BOOLEAN
  /\ toClient \in Seq(Frames(MacHeights))
  /\ toMac \in Seq(Frames(ClientScreens \cup {Unknown}))
  /\ macLoop \in Loops(MacHeights) /\ cliLoop \in Loops(ClientScreens)
  /\ macUntold \in BOOLEAN /\ cliUntold \in BOOLEAN
  /\ silent \in BOOLEAN /\ events \in 0..MaxEvents

\* What a side knows once it has read the frames before the n-th: the size in
\* the last Screen frame among them, or what it knows already.
Told(queue, n, known, size) ==
  \/ /\ known = size
     /\ \A k \in 1 .. n - 1 : queue[k].type # "screen"
  \/ \E k \in 1 .. n - 1 :
       /\ queue[k].type = "screen" /\ queue[k].size = size
       /\ \A j \in k + 1 .. n - 1 : queue[j].type # "screen"

\* Each side knows the other's size as the other does, or a frame that says so
\* is under way and no later one denies it, or refreshScreen has stored it and is
\* about to tell it.  The exceptions are the races with the greeting, which the
\* code does not repair before the screen changes again.
SizesAgree ==
  met /\ conn = "up" =>
    /\ MacTold => Told(toClient, Len(toClient) + 1, peerKnown, macKnown)
    /\ ClientTold /\ ~silent => Told(toMac, Len(toMac) + 1, cliKnown, ownKnown)

\* In a session that lasts, with the screens at rest, each side comes to know
\* the true size of the other's screen, but for those races.
SizesSettle ==
  <>[](conn = "up" /\ ~silent) =>
    <>[](/\ cliUntold \/ cliKnown = cliReal
         /\ macUntold \/ peerKnown = macReal)

\* A cursor that enterRemote has parked, and that nobody has moved, does not
\* trip the return detector, whatever the layout becomes.
ParkedStays == remote /\ parked => ~AtEdge

Abs(v) == IF v < 0 THEN -v ELSE v

\* The pointer appears on the client where it left the Mac, in proportion and
\* to a pixel of the client, however the screens have changed before: if the Mac
\* had told the size of the screen it left.  One that crosses between
\* refreshScreen's store and its send lands by the old size.  A height above the
\* main display is taken for no height at all.
LandsBeside ==
  [][LET f == Head(toClient)
     IN  /\ ClientHandles /\ f.type = "remote" /\ f.sure /\ f.y \in 0 .. f.of - 1
         /\ ~remote /\ parked' /\ ownKnown = cliReal
         => Abs(cursor'.y * f.of - f.y * cliReal.h) <= f.of]_vars

\* And it appears on the Mac where it left the client, to a point of the Mac, if
\* the client had told the size of the screen it left.
ReturnsBeside ==
  [][LET f == Head(toMac)
     IN  /\ MacHandles /\ f.type = "back" /\ f.sure /\ f.y >= 0
         /\ mode = "remote" /\ macKnown = macReal
         => Abs(macY' * f.of.h - f.y * macReal) <= f.of.h]_vars
=============================================================================
