# EdgeHop in TLA+

EdgeHop shares the keyboard and pointer of a Mac with one Linux (Hyprland)
machine: when the cursor breaks through the shared edge of the screen, or a
hotkey is pressed, the Mac's input is suppressed locally and forwarded. The two
clipboards are synchronized as well. This directory holds TLA+ specifications of
the parts of the program in which an order of events nobody tried can go wrong,
the TLC instances that check them, and TLAPS proofs about them.

## 1. The system

| Part | Code | State it keeps | What happens to it |
|---|---|---|---|
| Engine | `internal/server/engine.go` | mode, held keys and buttons, hotkey lock, delayed switch, sticky edge, pause reason | the event tap (`consume`), the dwell ticker, the input-guard poller, the client's request, layout changes, connections |
| Sessions | `server.go`, `conn.go`, `engine.go`, `internal/client/client.go` | current connection, `sendQ`, status; on the client: connection, remote flag, session counter, edge | accept/handshake, writer, receive loops, `dropConn`, one edge watcher per remote session |
| Clipboard | `internal/clipsync/tracker.go`, both `clipboard_*.go` | last local text, text whose echo is expected | a poller and a receive loop on each side, sharing a tracker |
| Layout | `cmd/edgehop/main.go`, `server.go` | `config.json`, the menu's choice, a channel of one | menu goroutine, layout goroutine, restarts |
| Pairing key | `internal/secureconn/secret.go`, `cmd/edgehop/main.go` | two files | start-up of any number of programs, kills |
| Secure transport and greeting | `internal/secureconn/session.go`, `server.go`, `client.go` | read deadlines; none after the handshake | TLS, mutual proof bound to the channel, versions and screens, timeouts |
| Injection | `internal/protocol/frame.go`, `internal/keymap/keymap.go`, `client.go`, `internal/client/uinput_linux.go` | what the virtual device holds | frames arrive, sessions end, the client closes |
| Crossing of the pointer | `engine.go`, `server.go`, `client.go` | each side's own screen size, read, stored or told, and its copy of the other's; where the cursor is parked | screen loops, Screen and Edge frames, switches |
| C event tap, menu texts, command lines, scripts | the remaining files | I/O | |

**How they interact.** The tap calls `consume` synchronously and needs an
immediate answer, so frames go into `sendQ` without blocking and one writer
goroutine drains them; a full queue closes the connection. All of the engine's
goroutines serialize on `stateMu`, but `e.conn` is under `mu` and the status under
`statusMu`, and several operations span two of them. The client handles frames on
one goroutine, which serializes on `inputMu` with the edge watchers. The menu
talks to the engine through `edgeUpdates` only. Nothing is acknowledged: a lost
connection loses what was in it, and both sides fall back to local control.

**What is hard.** Switching while inputs are held; the toggled modifiers; events
that escape the engine (no client, a pause); four different ways back to local
control; the gap between the halves of `dropConn`; a new connection that overlaps
the end of the old one; requests in flight while the mode changes; a queue that
overflows; a poll of the clipboard that encloses a remote write; a copy of the other
side's screen size that is out of date when the pointer crosses; codes that a
release sweep misses; kills between two system calls. `PROJECT.json` lists these hazards at their lines with the
properties that cover them.

**What makes each part correct.** Engine: the Mac always gets its input and
pointer back, no input is stuck on either side, the hotkey neither locks up nor
bounces. Sessions: when all is quiet the two sides agree, and forwarded input
never goes to nobody for ever. Clipboard: a copy ends up on both sides and the
traffic stops. Layout: menu, engine, client and file agree in the end. Key: all
programs use one key, which never changes. Handshake: a session is between peers
that agree on key and version, and every attempt ends. Injection: the device holds
what the Mac's user holds, and nothing outside a session; movements keep sign and
axis. Crossing: the pointer appears beside where it left and does not bounce.

## 2. The modules

```
Sharing   <==refines== Engine  --- EngineProofs
          <==refines== Session --- SessionProofs
Handshake --- HandshakeProofs      (ends where a connection of Session is served)
Keymap <-- Injection --- InjectionProofs
                                   (the frames of Engine and Session, to the kernel)
Pointer --- PointerProofs          (the Y of the switch frames, and the screen sizes)
ClipboardSync --- ClipboardProofs
Layout --- LayoutProofs            PairingKey --- PairingKeyProofs
MCEngine, MCSession, MCHandshake, MCInjection, MCPointer, MCClipboardSync, MCLayout,
MCPairingKey: instances for TLC
```

**Sharing** is the abstract promise: one owner of the input; control is handed over
only while sharing is available and with nothing known to be held; the step that
suspends sharing takes control back; a client that stays away does not keep the
input.

**Engine** has one action per critical section of `stateMu`. `Tap` is one callback of
the event tap: `Consume` is `consume`, with `WatchLocal` (`watchLocalLocked`) and
`ForwardRemote` (`forwardRemoteLocked`). `BreakFree`, `FinishPendingRemote`,
`EnterRemote`, `LeaveRemote` and `Reclaim` (the reset in `dropConn`) are the code's
operators of about the same names and are used by every action that calls them.
Beside the tap are `DwellExpires`, `GuardQuery`/`GuardApply` (macOS is asked
outside the lock), `SwitchRequest`, `SetRemoteEdge`, `Attach` (which may replace a live
connection) and
`DropBegin`/`DropFinish`. `CursorMoves`, `ReasonChanges` and `Bypass` are macOS.
The world is part of the state so that the properties can compare the engine's
tables with the truth: `phys` (inputs physically held), `macHeld` (what the Mac's
applications saw pressed), `clientHeld` (what the client was told). The history
variable `clean` says that no input event has escaped the engine since the last
moment at which nothing was held anywhere. It qualifies the tracking properties,
because without it they are false (section 4).

Abstractions of Engine: three zones for the cursor; an outward movement of 0 or 1;
a dwell that may be over at any moment; every tracked key is in the key map; Caps
Lock and the wheel are events without state. `DropBegin` may be called at any
time once a client has been served, because the writer calls `dropConn` for frames
of connections that are long gone.

**Session** has the connections. On the Mac: the phases of each `handleConn`
(`handler`), the queue and the writer, the two-step layout change, and `dropConn` in
three parts (`DropBegin` under `mu`, `DropReset` under `stateMu`, `DropStatus`).
On the client: `runOnce` (`Dial`, `Connected`, `Handle`, `ReadFails`,
`RunOnceEnds`) and the edge watchers. When the mode changes is left open
(`HandOver` and `TakeBack` at any moment at which Engine allows them), so the
session properties hold for every behaviour of the user. A connection carries
frames in order and may fail at any moment; after that, what is in flight may
still be read. `wedged` is a client writer that has failed. The session counter of
`client.go` is a token that no live watcher holds, which is what comparing the
counter with a copy observes. The history variable `missed` says that a `dropConn` has
taken control back from the connection that is installed now, which it was not about
and which was told nothing.

**Handshake** is one attempt to connect at a time, from the dial to the session: the
TLS flights, `authenticateServer` and `authenticateClient`, and the greetings of
`handleConn` and `runOnce`, one action per read or write, with the deadline that each
side's reads have at that point. Any read may time out where a deadline is set, any
read or write may find the connection closed, the network may stop carrying for a
while or for good, and the client redials with any key and version. Attempts share
nothing but the key, so that one at a time is enough; overlapping connections are
the subject of Session, which has the whole greeting as one message.

**ClipboardSync** separates the poller's read from its question to the tracker, and
the receive loop's note to the tracker from its write of the clipboard, because no
lock spans them. A text in `TooLong` does not fit a frame: the Mac's writer takes that
for a broken connection, the client's `send` only logs it. Users copy at any moment; a
copy made before the one before it had settled is counted in `crossed`, with the bound
`MaxCrossed`.

**Injection** is the way of an input event from `forwardRemoteLocked` through the codec
and the client's `handle` to the kernel. `FrameOf` is the Mac's translation with
`ToEvdev` of **Keymap** (the whole table of `keymap.go`, as a relation) and
`ButtonOf`; `Inject`, `DeviceKey` and `ReleaseAll` are the client's. The 16-bit fields
are encoded and decoded (`EncodeInt16`, `DecodeInt16`), with `Half` in place of 2^15;
`due` remembers what macOS reported for each frame under way, along one axis that is
chosen at the start. Control changes hands at any moment; Session has what a
connection can do beyond losing all it carries.

**Pointer** has four screen sizes beside the two true ones: each side's own, as last
asked of its system, and its copy of the other's. `refreshScreen` is three steps on each
side, as it is in the code: the query (`MacMeasures`, `ClientMeasures`), the store under
`mu` (`MacStores`, `ClientStores`) and, after the unlock, the send (`MacTells`,
`ClientTells`); anything may happen between them, and the screen loops go on when the
connection does not. The greeting is steps too (`ClientDials`, `ClientGreets`, `MacAsks`,
`MacGreets`, `MacInstalls`, `ClientMeets`), since it reads and stores the sizes as well.
`MacEnters`, `EnterRemote`, `WatcherReturns` and `LeaveRemote` are the crossings with the
arithmetic of `mapMacY`, `mapClientYToMac`, `parkX`, `clamp` and the return detector. A
switch carries, as history, the size of the screen it left (`of`) and whether the sender
had told that size last (`sure`): a sender between its store and its send had not
(`MacTold`, `ClientTold`). `macUntold` and `cliUntold` mark a race of `refreshScreen` with
the greeting that has left the sides with different sizes, `silent` a client whose writer
is dead.

**Layout** has the menu goroutine step by step, the channel of
one, the layout goroutine, kills and restarts. **PairingKey** has each system call
of a start as a step, with writes and closes that fail and kills in between;
`withdrawn` remembers the keys whose file could not be closed and is removed.

## 3. The runs that pass

| Run | Question and bounds |
|---|---|
| `engine` | One toggled modifier, one plain key, one button, a two-key hotkey, one pause reason, one `dropConn` under way. Two hotkey keys are what partial hotkeys need; key and button are what makes a hold that is not the hotkey. 0.9 million states. |
| `engine_promise` | Engine implements Sharing with its liveness, and the guard converges; a flag-bit key (Fn) and a button, and a push of two, so that a push accumulates. |
| `session` | One connection at a time, used again after every end; a key, layout changes, and client writes that time out (`Stalls`). Queue and network of one: a queue overflows with one frame in it, and one frame is overtaken by one in the other direction. Liveness too: control handed over is taken or comes back, and Sharing is kept. 0.85 million states. |
| `session_overlap` | Two connections that overlap in any way and two session tokens (a watcher that outlives its session), each pair symmetric; no key and no layout, which the other run has. 5.5 million states. Any number of connections, and queues and networks of any size, are in the proofs. |
| `handshake` | Two keys and two versions, so that a pair agrees or differs in each. Exact otherwise: the sequence is finite and at most four messages are under way. |
| `layout` | Exact: two edges and a channel of one, as in the code. |
| `clipboard` | Three texts: one per side and one more, which is too long for a frame. Users copy on both sides at any moment; one copy at a time crosses another (`MaxCrossed` = 1), as do the texts that both sides have at the start, and with two the properties hold as well. Connections and writes of the clipboard fail. |
| `pairing_key` | Three starters, two of them the app that migrates; four keys, one more than can be generated at once. Writes and closes fail. |
| `injection` | Command, the largest code of the key table and a key without a code; the left button and two that share the middle code; an `int16` of four values, with displacements inside and outside it. Two inputs held and two frames under way are what a release that hits another input needs. 0.8 million states. |
| `pointer` | Two heights of the Mac and two screens of the client, so that the mapping scales up, down and not to whole numbers; crossings on the display and above it; one switch under way, any number of Screen and Edge frames. Two events (`MaxEvents`), each a change of a screen or the layout, a failed query, a broken writer or a lost connection: a size can change again before the first change was told, and a connection can be lost between a store and its send. The user moves the remote cursor from corner to corner. 1.4 million states. |

The properties are stated, with the code they are about, where the modules define
them. The ones to look at first: `PauseIsInert`, `TrackingIsExact`,
`NothingStuckOnMac`, `ClientMirrorsKeys` and `UnlocksWhenReleased` in Engine;
`ControlAgrees`, `ControlIsAsTold`, `NothingAfterGap`, `SessionIsGuarded`, `NoGhostIsShown` and
`RemoteIsTaken` in Session; `ServedPeersAgree` and `GoodPairConnects` in Handshake;
`DeviceMirrorsMac` and `PointerKeepsUp` in Injection; `SizesAgree`, `LandsBeside` and
`ReturnsBeside` in Pointer; `SettledIsSynced`, `EngineFollowsMenu`,
`StartedWithTheKey`. The type invariants of Engine and Session are checked by runs;
those of the other modules are only proved.

No run switches deadlock checking off.

**Fairness.** Engine: the guard poller's two steps and the second half of
`dropConn`, goroutines that are never blocked for good. Session: each handler, each
`dropConn`, the writer, the client's reader (including that a read on a connection
that is down returns, as the closed socket makes it) and the end of watchers. Not
fair: the user, timers, dialling, the network, handshake timeouts. Handshake: each
side's next step, a deadline that is set (a Go timer) and the error that a read or
write on a closed connection returns; a network that has stopped need never carry
again. Pointer: each of the three steps of both screen loops, both receive loops and
the client's reading of the greeting. Layout and ClipboardSync: their goroutines.
All of it is weak fairness, which a Go scheduler gives a runnable goroutine.

## 4. What the source says and the code does not keep

Each is a run that TLC ends with a counterexample; `PROJECT.json` quotes the
comment.

| Run | What happens |
|---|---|
| `engine_armed` | `sticky` survives a switch by the hotkey. After control has come back, the dwell switches again at once, though the edge is not armed. |
| `layout_returns` | The coalescing `select` can block the menu goroutine for ever. |

Some properties hold under a condition, which is in the property or in its
history variable. What lies outside it happens in the code:

- Events that escape the engine (`clean` in Engine). A modifier pressed while no
  client is connected and released afterwards is recorded as *down*, since press
  and release are told apart by toggling. An input pressed before the engine looks
  does not delay a switch: its release goes to the client, and it stays held on
  the Mac.
- Connections that overlap. A client that is installed between the halves of
  `dropConn` (engine.go:320 clears the connection, the reset follows) is told *remote*
  by the re-sync (server.go:155); the reset then makes the Mac local and nobody tells
  the client, which stays remote until the next switch. `ControlAgrees` is therefore
  about one connection at a time. `ControlIsAsTold` is about connections that overlap
  and shows that this client (`missed`) is the only exception, and that even there the
  Mac's input never goes to a client that does not take it.
- A client whose writer is dead (`wedged` in Session). After one write timeout its
  requests are lost, while it goes on taking input frames; control stays with a
  client that has left. `ControlAgrees` and `ControlIsAsTold` are about the others, and
  `RemoteIsTaken` ends in `wedged` too.
- `EdgeIsAsTold` is about the last edge a client was told. A layout change between
  the handshake's edge frame and `setConn` is told to no one.
- `NoGhostIsShown`: a client that is shown is there or about to be dropped. The
  converse fails: the late half of an old `dropConn` can report "no client" over the
  new one.
- A clipboard text that was swallowed (`lost` in ClipboardSync). A change is counted
  as sent though the connection was gone, and is not sent again. `failed` is the
  mark that a failed write leaves: it suppresses one later copy. An echo mark can
  also be cleared by a poll that read the clipboard earlier; the text is then sent
  back once, which `SettledIsSynced` and `TrafficStops` show to be harmless as long
  as copies do not cross. A text too long for a frame ends the Mac's connection.
- Clipboard copies that cross. The two sides may end up with each other's text, and a
  copy of the poller's last text, made over a remote text the poller has not seen, is
  not sent. If polls keep enclosing the arrival of the other side's text, the two texts
  can even change places without end, which TLC shows when `TrafficStops`
  leaves out `crossed`. Both properties say that the next copy is not affected.
- A start that was killed. Between creating and writing the key (secret.go:35, and
  the same code in the migration) a kill leaves a file that is no key; O_EXCL never
  replaces it, so no later start succeeds until the user removes it.
  `StartedWithTheKey` and `KeyIsStable` say only that nobody works with such a file.
- A key whose file could not be closed. The starter that wrote it removes the file
  (secret.go:48), though another one may have loaded the key from it and goes on with a
  key that is in no file. `StartedWithTheKey` and `KeyIsStable` say that this is the
  only way in which two programs' keys differ or a complete key goes away.
- Inputs that share a code. All mouse buttons beyond the second are the middle one on
  the client, so that the release of one ends the other (`DeviceMirrorsMac` makes an
  exception of that code). A displacement outside the `int16` is cut (wheel) or
  implementation-defined (a float), which is what `exact` excludes.
- Screens that were not told or not known. `refreshScreen` gives up its lock between
  the store and the send (engine.go:366, client.go:480). A crossing queued in between
  is ahead of the new size and lands by the old one;
  `LandsBeside` and `ReturnsBeside` are about the others (`sure`), and TLC refutes both
  when the gap is not excepted. A size that races the greeting may be told to nobody: on
  the Mac between server.go:134 and `setConn`, on the client between the query of
  client.go:161 and the installation. The other side then keeps the old size until the
  screen changes again or a new connection greets (`macUntold`, `cliUntold`, the
  exceptions in `SizesAgree` and `SizesSettle`; TLC refutes both without them). A client whose own
  width is unknown (0) parks the cursor in the zone of return of a right edge and
  bounces until the next refresh (client.go:347), so `parked` requires a width. With
  `-edge-margin` of 24 or more it always does, since `parkX`'s inset is 24
  (client.go:341); the module assumes `EdgeMargin < Inset`. A height above the main
  display is taken for no height (client.go:308), so `LandsBeside` is about the others.

## 5. What is proved

The proofs hold for all values of the constants. Assumptions are the named
`ASSUME`s of the modules, which TLC evaluates in the runs.

- **EngineProofs**: every safety invariant of the run `engine`, and the action
  property `UnlocksWhenReleased`. The invariants alone are not inductive. `IInv` adds
  five facts: without a client and without a `dropConn` under way nothing waits to
  switch (`IdleWithoutClient`); the hotkey's keys are never all down without it having
  fired (`FiredIsLocked`), so a release can never fire it; buttons are tracked under
  local control only (`RemoteTracksNoButton`); an engine that is not looking has lost
  track as soon as anything is held (`ApartNothingHeld`); and what the Mac saw
  pressed is tracked (`MacHeldIsTracked`), so waiting until nothing is tracked means
  that nothing is held on the Mac. One lemma per action, and per conjunct below.
  Its last part shows that every step of Engine is a step of Sharing or a stutter,
  with the refinement mapping of `Engine!Promise`: the safety half of
  `ImplementsSharing`.
- **SessionProofs**: `TypeOK`, `SessionIsGuarded`, `NoGhostIsShown` and
  `NothingAfterGap`, for any number of connections, overlapping in any way, of
  remote sessions, and any capacity of the queue and of the network. `IInv` adds that
  the connection for which a frame was dropped is closed (`GapIsClosed`), that the
  client is under local control until its next connection is served
  (`GreetIsLocal`), and that `runOnce` works on a connection (`DialedIsConn`). A further
  theorem is the safety half of `ImplementsSharing` for Session: no step changes both
  the mode and the connection (`OneAtATime`), and a step that changes one of them is
  a step of Sharing.

  `EdgeIsAsTold`, again for any number of overlapping connections, follows the last
  edge that a connection was told: it is the last edge queued for that connection, or
  none is and it is the last on the connection, or none is there either and it is the
  client's (`EdgeOnItsWay`). It needs that a connection that is up is the one the client
  works on (`UpIsDialed`), that nothing is queued before it is installed
  (`NothingEarly`) and that the greeting comes first (`GreetingFirst`).

  `ControlIsAsTold` is proved for any number of connections that overlap in any way. For
  a connection C, what the client still has to handle is one sequence, the frames on C
  followed by those in the queue (`Stream`), in which the frames that the queue holds
  for other connections count as one that changes nothing (`Seen`); a frame that is
  queued for C and dropped has closed C. While C is installed and up and the client's
  writer lives (`Agreed`), that sequence ends the client's session if the Mac is in
  local mode (`LocalSoon`), and in remote mode, unless the client's request is on its
  way, it starts one or keeps it and leaves the client with no more of the key than the
  Mac holds (`RemoteSoon`). The two exceptions are the client that missed a reset, about which
  nothing is said in local mode, and one that is installed but not yet told the mode by
  the re-sync. `Routes` says where a handler, the connection, the queue and the client
  can stand with one another.

  `ControlAgrees` follows from the same invariant with `Conns = {C}`: then no `dropConn`
  is under way when C is installed (`Alone`), so that nothing is missed, a client that is
  not yet re-synced finds the Mac in local mode, and the key is exactly the Mac's.
- **HandshakeProofs**: `ProofComesFirst`, `ServedPeersAgree` and `DeadlinesAreLifted`,
  for any sets of keys and versions. The invariant says what can be on its way to a
  side (`MessagesFor`): its peer's proof and its peer's Hello, the Mac's only once the
  Mac has admitted the client. What a side knows follows from what it has read.
  `GoodPairConnects` needs more: between peers that agree, with nothing disturbed, each
  direction carries a fixed script, and a channel holds the slice of it that one side
  has said and the other has not read (`Conversation`, `GoodInv`). Hence no read meets
  a message it refuses, and no side closes.
- **InjectionProofs**: all three invariants of `injection`, for any keys and buttons, any
  displacements, any width of the integers and any number of frames under way.
  `NothingLeftHeld` rests on the range of the codes in frames under way (from the
  `ASSUME` about the key table, which TLC evaluates), `PointerKeepsUp` on each frame
  under way meaning what is due (`CarriesDue`), with the codec's round trip as a lemma.
  `DeviceMirrorsMac` replays the frames under way (`MirrorInv`): in local mode they end
  the client's session; in remote mode, unless a request is on its way, there is a
  sequence of device states from the session's start that ends in the codes of what the
  Mac's user holds.
- **PointerProofs**: all the safety properties of `pointer`, for any heights and screens.
  The invariant says of each direction that a side that has told its size has it at
  the end of the queue or with the other side, that one between its store and its send
  is excepted until it has sent, and that at each sure crossing in the queue the size
  told is the size of the screen that was left (`ClientQueue`, `MacQueue`). What the
  greeting adds is how far it is and which size it carries. The theorems on `LandsBeside` and
  `ReturnsBeside` add the arithmetic of rounding division and clamping.
- **ClipboardProofs**: `SettledIsSynced`, for any set of texts of any length. The
  invariant follows the last copy: not sent yet and taken for neither an echo nor an old
  text (`Fresh`), on its way (`OnItsWay`), on the other clipboard (`Arrived`), and looked at
  there and possibly sent back (`Echoed`). That a copy starts as `Fresh` needs that a mark
  for an echo goes with the text it is about unless a write failed (`EchoInv`), and holds
  for every copy that is made when the one before has settled, whatever crossed, was
  lost or failed before (`Followed`).
- **LayoutProofs**: `EngineFollowsMenu` and `RestartKeepsLayout`. The invariant follows
  a choice on its way: first the file, then the newest update sent, has the layout.
- **PairingKeyProofs**: `StartedWithTheKey` and `KeyIsStable`, for any number of
  starters and whatever fails. O_EXCL lets one starter at most own a file, until it has
  closed or removed it (`OneOwner`); the file is partial until the owner writes and has
  the owner's key afterwards, and what is removed is partial or withdrawn (`OwnersFile`).

Each module's type invariant is proved as well; for ClipboardSync it is part of the
invariant (`Types`).

Only model-checked: all liveness (`GuardConverges`, `RemoteIsTaken`, `TrafficStops`,
`AttemptEnds`, `SizesSettle` and the liveness of `ImplementsSharing`), which is out of the
prover's reach. Every safety property that a passing run checks is also proved.

## 6. What is not modelled

- The inside of TLS, of HMAC and of the channel binding, and generating the
  certificate: a proof is the key and the role it was made with.
- The bytes of a frame's header, and `MsgMouseAbs`, which nobody sends.
- The flag bits that tell a modifier's press (a parameter of Engine's events), and the
  parsing of what hyprctl prints.
- Retries of the accept loop; creating the event tap again after macOS disabled it.
- What two copies that cross end in: the code promises nothing.
- The config.json half of the migration (the same code as for pairing.key).
- The login item and its migration (a partial plist, main.go:441, is the same hazard as
  a partial key), logging, the validation of command-line options.
- Drawing, menu texts, scripts and tools.

## 7. Plan

1. A composition of Engine and Session, in which the hand-overs of Session are the
   Engine's, with bounds small enough for TLC.
2. `migrateLegacyData` with both files, and the login item.
