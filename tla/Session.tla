------------------------------- MODULE Session -------------------------------
(***************************************************************************)
(* One Mac and one client over connections that come, fail and overlap:    *)
(* src/internal/server/server.go, conn.go and the connection half of       *)
(* engine.go on the Mac, src/internal/client/client.go on the client.      *)
(*                                                                         *)
(* The Mac's goroutines are the handler of each connection, the writer     *)
(* that drains sendQ, the layout goroutine, and the event tap and timers   *)
(* that switch the mode; module Engine says when they do, so that here     *)
(* control may be handed over and taken back at any time.  The client's    *)
(* are runOnce and one edge watcher per remote session.                    *)
(*                                                                         *)
(* Abstractions.  Authentication has succeeded when a handler starts.  The *)
(* Hello and Screen frames of a handshake are one message.  A ClientEdge   *)
(* frame is the edge it names; there is one key.  A connection is up until *)
(* one side closes it or the network fails; then what is in flight may     *)
(* still be read, and a write fails or is lost.  The session counter of    *)
(* the client only ever meets the copies its watchers hold, so a session   *)
(* is a token that no live watcher holds.  A connection of which nothing   *)
(* is left is used again for a later one.                                  *)
(***************************************************************************)
EXTENDS Naturals, Sequences, SequencesExt

CONSTANTS Conns,        \* connections that can exist at a time
          NoConn,       \* no connection
          Writer,       \* the writer goroutine, where it calls dropConn
          Tokens,       \* bound: remote sessions whose watcher still runs
          NoToken,      \* no remote session
          QueueCap,     \* bound: capacity of sendQ (256 in the code)
          NetCap,       \* bound: frames in flight on a connection
          UseKeys,      \* whether keys are pressed in this instance
          UseLayout,    \* whether the layout changes in this instance
          Stalls        \* whether a write of the client may run into its deadline

Droppers == Conns \cup {Writer}
Edges == {"left", "right"}
Opposite(e) == IF e = "left" THEN "right" ELSE "left"
Local == "local"
Remote == "remote"
Frames == {"hello", "remote", "back", "press", "release"} \cup Edges

ASSUME SessionAssumption ==
  /\ NoConn \notin Conns /\ Writer \notin Conns /\ NoToken \notin Tokens
  /\ QueueCap \in Nat \ {0} /\ NetCap \in Nat \ {0}
  /\ UseKeys \in BOOLEAN /\ UseLayout \in BOOLEAN /\ Stalls \in BOOLEAN

VARIABLES
  \* the Mac
  mode,         \* control mode
  key,          \* the key is held, and its press was sent under this mode
  missed,       \* history: dropConn took control back from conn, which was not told
  conn,         \* e.conn
  edge,         \* the Mac edge on which the client sits
  told,         \* history: told[c]: the client edge last sent to c
  layoutPc,     \* the layout goroutine: "idle", or "send" after the edge is set
  shown,        \* Status.ClientConnected
  handler,      \* handler[c]: where handleConn is for connection c
  dropPc,       \* dropPc[d]: the half of dropConn still to do by d, or "no"
  sendQ,        \* frames for the writer, with the connection each is for
  \* the network
  up,           \* up[c]: no side has closed c and the network works
  toClient,     \* toClient[c]: frames in flight to the client
  toServer,     \* toServer[c]: frames in flight to the Mac
  gap,          \* history: send dropped a frame for c
  \* the client
  clientPc,     \* where runOnce is
  dialed,       \* the connection runOnce is working on
  clientConn,   \* c.conn
  wedged,       \* c.w has failed: a bufio.Writer takes nothing after an error
  remote,       \* c.remote
  session,      \* token of the current remote session
  watchers,     \* tokens of the edge watchers that run
  clientEdge,   \* c.edge
  held          \* the key is held on the virtual device

macVars == <<mode, key, missed>>
layoutVars == <<edge, told, layoutPc>>
netVars == <<up, toClient, toServer, gap>>
queueVars == <<sendQ, up, gap>>
serverVars == <<macVars, layoutVars, conn, shown, handler, dropPc, sendQ>>
injectVars == <<remote, session, watchers, held>>
clientVars == <<clientPc, dialed, clientConn, wedged, clientEdge, injectVars>>
vars == <<serverVars, netVars, clientVars>>

Init ==
  /\ mode = Local /\ key = FALSE /\ missed = FALSE /\ conn = NoConn
  /\ edge \in (IF UseLayout THEN Edges ELSE {"right"})
  /\ layoutPc = "idle" /\ shown = FALSE
  /\ handler = [c \in Conns |-> "none"]
  /\ dropPc = [d \in Droppers |-> "no"]
  /\ sendQ = <<>>
  /\ up = [c \in Conns |-> FALSE]
  /\ toClient = [c \in Conns |-> <<>>]
  /\ toServer = [c \in Conns |-> <<>>]
  /\ gap = [c \in Conns |-> FALSE]
  /\ told = [c \in Conns |-> Opposite(edge)]
  /\ clientPc = "idle" /\ dialed = NoConn /\ clientConn = NoConn /\ wedged = FALSE
  /\ remote = FALSE /\ session = NoToken /\ watchers = {}
  /\ clientEdge = Opposite(edge) /\ held = FALSE
-----------------------------------------------------------------------------
\* Mutant: a frame is dropped and the connection stays.
MutOverflow ==
  /\ gap' = [gap EXCEPT ![conn] = TRUE]
  /\ UNCHANGED <<sendQ, up>>

\* send, where the queue is full: the frame is dropped, the connection closed.
Overflow ==
  /\ up' = [up EXCEPT ![conn] = FALSE]
  /\ gap' = [gap EXCEPT ![conn] = TRUE]
  /\ UNCHANGED sendQ

\* Mutant: one frame too many is queued.
MutSend(m) ==
  \/ /\ conn = NoConn
     /\ UNCHANGED queueVars
  \/ /\ conn # NoConn /\ Len(sendQ) <= QueueCap
     /\ sendQ' = Append(sendQ, [conn |-> conn, frame |-> m])
     /\ UNCHANGED <<up, gap>>
  \/ conn # NoConn /\ Len(sendQ) > QueueCap /\ Overflow

\* send: queue frame m for the current connection.
Send(m) ==
  \/ /\ conn = NoConn
     /\ UNCHANGED queueVars
  \/ /\ conn # NoConn /\ Len(sendQ) < QueueCap
     /\ sendQ' = Append(sendQ, [conn |-> conn, frame |-> m])
     /\ UNCHANGED <<up, gap>>
  \/ conn # NoConn /\ Len(sendQ) >= QueueCap /\ Overflow

\* enterRemoteLocked.  Engine: only with a client, or in the middle of dropConn.
HandOver ==
  /\ mode = Local
  /\ conn # NoConn \/ \E d \in Droppers : dropPc[d] = "reset"
  /\ mode' = Remote /\ key' = FALSE
  /\ Send("remote")
  /\ UNCHANGED <<missed, layoutVars, conn, shown, handler, dropPc, toClient,
                 toServer, clientVars>>

\* leaveRemoteLocked, for the hotkey or a pause.
TakeBack ==
  /\ mode = Remote
  /\ mode' = Local /\ key' = FALSE /\ missed' = FALSE
  /\ Send("back")
  /\ UNCHANGED <<layoutVars, conn, shown, handler, dropPc, toClient, toServer,
                 clientVars>>

\* forwardRemoteLocked, of a key.
ForwardKey ==
  /\ UseKeys /\ mode = Remote /\ conn # NoConn
  /\ key' = ~key
  /\ Send(IF key THEN "release" ELSE "press")
  /\ UNCHANGED <<mode, missed, layoutVars, conn, shown, handler, dropPc, toClient,
                 toServer, clientVars>>

\* setRemoteEdge, under stateMu.
SetRemoteEdge ==
  /\ UseLayout /\ layoutPc = "idle"
  /\ layoutPc' = "send"
  /\ edge' = Opposite(edge)
  /\ UNCHANGED <<macVars, told, conn, shown, handler, dropPc, sendQ, netVars,
                 clientVars>>

\* setRemoteEdge, after the lock.
SendEdge ==
  /\ layoutPc = "send"
  /\ layoutPc' = "idle"
  /\ Send(Opposite(edge))
  /\ told' = [c \in Conns |-> IF c = conn THEN Opposite(edge) ELSE told[c]]
  /\ UNCHANGED <<macVars, edge, conn, shown, handler, dropPc, toClient,
                 toServer, clientVars>>
-----------------------------------------------------------------------------
\* dropConn by d for connection c, in its three parts.

\* Mutant: the mode is not reset.
MutDropBegin(d, c) ==
  /\ conn' = IF conn = c THEN NoConn ELSE conn
  /\ up' = [up EXCEPT ![c] = FALSE]
  /\ UNCHANGED dropPc

\* Under mu: c is no longer the connection; the rest is done only where no
\* connection is left.
DropBegin(d, c) ==
  /\ conn' = IF conn = c THEN NoConn ELSE conn
  /\ up' = [up EXCEPT ![c] = FALSE]
  /\ dropPc' = [dropPc EXCEPT ![d] = IF conn' = NoConn THEN "reset" ELSE "no"]

\* Under stateMu: back to local control, without telling any client.
DropReset(d) ==
  /\ dropPc[d] = "reset"
  /\ dropPc' = [dropPc EXCEPT ![d] = "status"]
  /\ mode' = Local /\ key' = FALSE
  /\ missed' = IF mode = Remote /\ conn # NoConn THEN TRUE ELSE missed
  /\ UNCHANGED <<layoutVars, conn, shown, handler, sendQ, netVars, clientVars>>

\* updateStatus.
DropStatus(d) ==
  /\ dropPc[d] = "status"
  /\ dropPc' = [dropPc EXCEPT ![d] = "no"]
  /\ shown' = FALSE
  /\ UNCHANGED <<macVars, layoutVars, conn, handler, sendQ, netVars, clientVars>>

\* clientConn.Send: a write on a connection that is not up fails or is lost.
Written(c, m) ==
  \/ /\ up[c] /\ Len(toClient[c]) < NetCap
     /\ toClient' = [toClient EXCEPT ![c] = Append(@, m)]
  \/ ~up[c] /\ UNCHANGED toClient

\* The write fails: the connection is not up, or the network takes nothing
\* for longer than the write deadline.
WriteFails(c) == ~up[c] \/ Len(toClient[c]) >= NetCap
-----------------------------------------------------------------------------
\* writer.
Write ==
  /\ sendQ # <<>> /\ dropPc[Writer] = "no"
  /\ sendQ' = Tail(sendQ)
  /\ Written(Head(sendQ).conn, Head(sendQ).frame)
  /\ UNCHANGED <<macVars, layoutVars, conn, shown, handler, dropPc, up,
                 toServer, gap, clientVars>>

WriteError ==
  /\ sendQ # <<>> /\ dropPc[Writer] = "no"
  /\ sendQ' = Tail(sendQ)
  /\ WriteFails(Head(sendQ).conn)
  /\ DropBegin(Writer, Head(sendQ).conn)
  /\ UNCHANGED <<macVars, layoutVars, shown, handler, toClient, toServer, gap,
                 clientVars>>
-----------------------------------------------------------------------------
\* handleConn for connection c.
At(c, here, there) ==
  /\ handler[c] = here
  /\ handler' = [handler EXCEPT ![c] = there]

\* The client's Hello and Screen arrive, and the Mac's are sent.
Greet(c) ==
  /\ At(c, "handshake", "edge")
  /\ toServer[c] # <<>> /\ Head(toServer[c]) = "hello"
  /\ toServer' = [toServer EXCEPT ![c] = Tail(@)]
  /\ Written(c, "hello")
  /\ UNCHANGED <<macVars, layoutVars, conn, shown, dropPc, sendQ, up, gap,
                 clientVars>>

\* The ClientEdge frame that ends the handshake.
GreetEdge(c) ==
  /\ At(c, "edge", "install")
  /\ Written(c, Opposite(edge))
  /\ told' = [told EXCEPT ![c] = Opposite(edge)]
  /\ UNCHANGED <<macVars, edge, layoutPc, conn, shown, dropPc, sendQ, up,
                 toServer, gap, clientVars>>

\* The handshake times out or a write of it fails.
GreetFails(c) ==
  /\ handler[c] \in {"handshake", "edge"}
  /\ handler' = [handler EXCEPT ![c] = "none"]
  /\ up' = [up EXCEPT ![c] = FALSE]
  /\ UNCHANGED <<macVars, layoutVars, conn, shown, dropPc, sendQ, toClient,
                 toServer, gap, clientVars>>

\* setConn: the connection it replaces is closed.
SetConn(c) ==
  /\ At(c, "install", "status")
  /\ conn' = c /\ missed' = FALSE
  /\ up' = [x \in Conns |-> up[x] /\ (x # conn \/ x = c)]
  /\ UNCHANGED <<mode, key, layoutVars, shown, dropPc, sendQ, toClient, toServer,
                 gap, clientVars>>

ShowConnected(c) ==
  /\ At(c, "status", "resync")
  /\ shown' = TRUE
  /\ UNCHANGED <<macVars, layoutVars, conn, dropPc, sendQ, netVars, clientVars>>

\* Mutant: a client that connects in remote mode is not told.
MutResync(c) ==
  /\ At(c, "resync", "recv")
  /\ UNCHANGED <<macVars, layoutVars, queueVars, conn, shown, dropPc, toClient,
                 toServer, clientVars>>

\* Under stateMu: a client that connects in remote mode is told so.
Resync(c) ==
  /\ At(c, "resync", "recv")
  /\ IF mode = Remote THEN Send("remote") ELSE UNCHANGED queueVars
  /\ UNCHANGED <<macVars, layoutVars, conn, shown, dropPc, toClient, toServer,
                 clientVars>>

\* Mutant: the client that asked is not told that control was returned.
MutRecvSwitch(c) ==
  /\ handler[c] = "recv" /\ dropPc[c] = "no"
  /\ toServer[c] # <<>>
  /\ toServer' = [toServer EXCEPT ![c] = Tail(@)]
  /\ IF Head(toServer[c]) = "back" /\ mode = Remote
     THEN mode' = Local /\ key' = FALSE /\ missed' = FALSE ELSE UNCHANGED macVars
  /\ UNCHANGED <<layoutVars, queueVars, conn, shown, handler, dropPc, toClient,
                 clientVars>>

\* recvLoop: a request for control to return to the Mac.
RecvSwitch(c) ==
  /\ handler[c] = "recv" /\ dropPc[c] = "no"
  /\ toServer[c] # <<>>
  /\ toServer' = [toServer EXCEPT ![c] = Tail(@)]
  /\ IF Head(toServer[c]) = "back" /\ mode = Remote
     THEN mode' = Local /\ key' = FALSE /\ missed' = FALSE /\ Send("back")
     ELSE UNCHANGED <<macVars, queueVars>>
  /\ UNCHANGED <<layoutVars, conn, shown, handler, dropPc, toClient, clientVars>>

\* recvLoop: the connection ends.
RecvEnds(c) ==
  /\ ~up[c]
  /\ At(c, "recv", "none")
  /\ DropBegin(c, c)
  /\ UNCHANGED <<macVars, layoutVars, shown, sendQ, toClient, toServer, gap,
                 clientVars>>
-----------------------------------------------------------------------------
\* The client: enterRemote and leaveRemoteLocked, under inputMu.
EnterRemote ==
  IF remote THEN UNCHANGED injectVars
  ELSE /\ session' \in Tokens \ watchers
       /\ remote' = TRUE
       /\ watchers' = watchers \cup {session'}
       /\ UNCHANGED held

\* Mutant: what the session pressed is not released.
MutLeaveRemote ==
  IF ~remote THEN UNCHANGED injectVars
  ELSE /\ remote' = FALSE
       /\ session' = NoToken
       /\ UNCHANGED <<held, watchers>>

LeaveRemote ==
  IF ~remote THEN UNCHANGED injectVars
  ELSE /\ remote' = FALSE
       /\ session' = NoToken
       /\ held' = FALSE                    \* releaseAll
       /\ UNCHANGED watchers

\* Nothing is left of connection c: it stands for the next one.
Unused(c) ==
  /\ handler[c] = "none" /\ dropPc[c] = "no" /\ dropPc[Writer] = "no"
  /\ conn # c
  /\ \A i \in DOMAIN sendQ : sendQ[i].conn # c

\* runOnce: dial, and send Hello and Screen.
Dial(c) ==
  /\ clientPc = "idle" /\ Unused(c)
  /\ clientPc' = "greet" /\ dialed' = c
  /\ handler' = [handler EXCEPT ![c] = "handshake"]
  /\ up' = [up EXCEPT ![c] = TRUE]
  /\ toServer' = [toServer EXCEPT ![c] = <<"hello">>]
  /\ toClient' = [toClient EXCEPT ![c] = <<>>]
  /\ gap' = [gap EXCEPT ![c] = FALSE]
  /\ UNCHANGED <<macVars, layoutVars, conn, shown, dropPc, sendQ, clientConn,
                 wedged, clientEdge, injectVars>>

\* The Mac's greeting arrives.
Connected ==
  /\ clientPc = "greet"
  /\ toClient[dialed] # <<>>
  /\ toClient' = [toClient EXCEPT ![dialed] = Tail(@)]
  /\ clientPc' = "serve" /\ clientConn' = dialed /\ wedged' = FALSE
  /\ UNCHANGED <<serverVars, up, toServer, gap, dialed, clientEdge, injectVars>>

\* handle, of the next frame.
Handle ==
  /\ clientPc = "serve"
  /\ toClient[dialed] # <<>>
  /\ LET m == Head(toClient[dialed]) IN
     /\ CASE m = "remote" -> EnterRemote /\ UNCHANGED clientEdge
          [] m = "back"   -> LeaveRemote /\ UNCHANGED clientEdge
          [] m \in Edges  -> clientEdge' = m /\ UNCHANGED injectVars
          [] m \in {"press", "release"} ->
               /\ held' = IF remote THEN m = "press" ELSE held
               /\ UNCHANGED <<remote, session, watchers, clientEdge>>
          [] OTHER -> UNCHANGED <<injectVars, clientEdge>>
     /\ toClient' = [toClient EXCEPT ![dialed] = Tail(@)]
  /\ UNCHANGED <<serverVars, up, toServer, gap, clientPc, dialed, clientConn,
                 wedged>>

\* A read fails, or the greeting does not arrive in time: the deferred calls
\* of runOnce clear c.conn, then leave remote mode and close the connection.
ReadFails ==
  /\ \/ clientPc = "greet"
     \/ clientPc = "serve" /\ ~up[dialed]
  /\ clientPc' = "leave" /\ clientConn' = NoConn
  /\ UNCHANGED <<serverVars, netVars, dialed, wedged, clientEdge, injectVars>>

RunOnceEnds ==
  /\ clientPc = "leave"
  /\ clientPc' = "idle" /\ dialed' = NoConn
  /\ LeaveRemote
  /\ up' = [up EXCEPT ![dialed] = FALSE]
  /\ UNCHANGED <<serverVars, toClient, toServer, gap, clientConn, wedged,
                 clientEdge>>

\* The client's send: an error is only logged, and without a connection the
\* request is dropped.
Request ==
  \/ /\ clientConn = NoConn
     /\ UNCHANGED <<toServer, wedged>>
  \/ /\ clientConn # NoConn /\ ~wedged /\ Len(toServer[clientConn]) < NetCap
     /\ toServer' = [toServer EXCEPT ![clientConn] =
                       IF up[clientConn] THEN Append(@, "back") ELSE @]
     /\ UNCHANGED wedged
  \/ /\ clientConn # NoConn
     /\ wedged \/ (Stalls /\ Len(toServer[clientConn]) >= NetCap)
     /\ wedged' = TRUE
     /\ UNCHANGED toServer

\* edgeWatch: the dwell at the shared edge is over.
WatchReturns(t) ==
  /\ t \in watchers
  /\ remote /\ session = t
  /\ Request
  /\ remote' = FALSE /\ session' = NoToken /\ held' = FALSE
  /\ watchers' = watchers \ {t}
  /\ UNCHANGED <<serverVars, up, toClient, gap, clientPc, dialed, clientConn,
                 clientEdge>>

\* edgeWatch: the poll finds the session over, or no connection.
WatchStops(t) ==
  /\ t \in watchers
  /\ ~remote \/ session # t \/ clientConn = NoConn
  /\ watchers' = watchers \ {t}
  /\ UNCHANGED <<serverVars, netVars, clientPc, dialed, clientConn, wedged,
                 remote, session, clientEdge, held>>
-----------------------------------------------------------------------------
\* The network fails.
NetFails(c) ==
  /\ up[c]
  /\ up' = [up EXCEPT ![c] = FALSE]
  /\ UNCHANGED <<serverVars, toClient, toServer, gap, clientVars>>

HandlerStep(c) ==
  \/ Greet(c) \/ GreetEdge(c) \/ SetConn(c) \/ ShowConnected(c) \/ Resync(c)
  \/ RecvSwitch(c) \/ RecvEnds(c)

DropStep(d) == DropReset(d) \/ DropStatus(d)
WriterStep == Write \/ WriteError
ClientStep == Connected \/ Handle \/ RunOnceEnds \/ (ReadFails /\ ~up[dialed])

Next ==
  \/ HandOver \/ TakeBack \/ ForwardKey \/ SetRemoteEdge \/ SendEdge
  \/ WriterStep
  \/ \E d \in Droppers : DropStep(d)
  \/ \E c \in Conns : HandlerStep(c) \/ GreetFails(c) \/ Dial(c) \/ NetFails(c)
  \/ Connected \/ Handle \/ ReadFails \/ RunOnceEnds
  \/ \E t \in Tokens : WatchReturns(t) \/ WatchStops(t)

\* Goroutines that can run do run, and a read on a connection that is down
\* returns.  Users, timers, the dial and the network owe nothing.
Fairness ==
  /\ \A c \in Conns : WF_vars(HandlerStep(c))
  /\ \A d \in Droppers : WF_vars(DropStep(d))
  /\ WF_vars(WriterStep)
  /\ WF_vars(ClientStep)
  /\ \A t \in Tokens : WF_vars(WatchStops(t))

Spec == Init /\ [][Next]_vars
FairSpec == Spec /\ Fairness
-----------------------------------------------------------------------------
(***************************************************************************)
(* Properties.                                                             *)
(***************************************************************************)

\* Every variable has its type.
TypeOK ==
  /\ mode \in {Local, Remote} /\ key \in BOOLEAN /\ missed \in BOOLEAN
  /\ conn \in Conns \cup {NoConn}
  /\ edge \in Edges /\ told \in [Conns -> Edges]
  /\ layoutPc \in {"idle", "send"} /\ shown \in BOOLEAN
  /\ handler \in [Conns -> {"none", "handshake", "edge", "install", "status",
                            "resync", "recv"}]
  /\ dropPc \in [Droppers -> {"no", "reset", "status"}]
  /\ sendQ \in BoundedSeq([conn : Conns, frame : Frames], QueueCap)
  /\ up \in [Conns -> BOOLEAN] /\ gap \in [Conns -> BOOLEAN]
  /\ toClient \in [Conns -> BoundedSeq(Frames, NetCap)]
  /\ toServer \in [Conns -> BoundedSeq({"hello", "back"}, NetCap)]
  /\ clientPc \in {"idle", "greet", "serve", "leave"}
  /\ dialed \in Conns \cup {NoConn} /\ clientConn \in Conns \cup {NoConn}
  /\ wedged \in BOOLEAN
  /\ remote \in BOOLEAN /\ session \in Tokens \cup {NoToken}
  /\ watchers \subseteq Tokens /\ clientEdge \in Edges /\ held \in BOOLEAN

\* The client never acts on a stream with a hole in it: once send has dropped
\* a frame for a connection, nothing more is delivered on it (send closes the
\* connection, and the writer's later writes fail).
NothingAfterGap ==
  [][\A c \in Conns :
       gap[c] /\ gap'[c] => Len(toClient'[c]) <= Len(toClient[c])]_vars

\* The key can be held on the client only in a remote session, and every
\* session has its own watcher for the return: input frames that arrive after
\* the session are not injected, an ended session releases what it pressed,
\* and a live session cannot lose the way back.
SessionIsGuarded ==
  /\ held => remote
  /\ remote /\ clientConn # NoConn => session \in watchers

\* Nothing moves between the Mac and client c any more.
Quiet(c) ==
  /\ conn = c /\ handler[c] = "recv" /\ up[c]
  /\ \A d \in Droppers : dropPc[d] = "no"
  /\ sendQ = <<>> /\ toClient[c] = <<>> /\ toServer[c] = <<>>
  /\ layoutPc = "idle"
  /\ clientPc = "serve" /\ dialed = c

\* Once every frame has been handled, the Mac and the client agree on who has
\* control and on the key, however hand-overs, returns from both sides, stale
\* requests, the re-sync and failures interleaved, as long as no write of the
\* client has run into its deadline and, with one element in Conns, no
\* connection overlaps the end of the one before.
ControlAgrees ==
  \A c \in Conns : Quiet(c) /\ ~wedged =>
    /\ remote = (mode = Remote)
    /\ held = key

\* With connections that overlap, in whatever way: the Mac never forwards to a
\* settled client that does not take the input, and such a client has control,
\* or holds the key, only if the Mac means it to, unless it was installed in
\* the gap of a dropConn that then took control back without telling it.
ControlIsAsTold ==
  \A c \in Conns : Quiet(c) /\ ~wedged =>
    /\ mode = Remote => remote
    /\ ~missed => (remote => mode = Remote) /\ (held => key)

\* The edge at which the client watches for the return is the one that it was
\* told last, in the handshake or later, through overflows and reconnects.
EdgeIsAsTold == \A c \in Conns : Quiet(c) => clientEdge = told[c]

\* A client that is gone is shown as connected only as long as somebody is
\* still going to correct it, whichever of the writer and the overlapping
\* handlers dropped it and in whichever order they report.
NoGhostIsShown ==
  shown /\ conn = NoConn =>
    \/ \E d \in Droppers : dropPc[d] # "no"
    \/ \E c \in Conns : handler[c] \in {"resync", "recv"}

\* The Mac never goes on forwarding to a client that does not take the input:
\* control reaches the client or comes back, through failures, stale requests
\* and overflows, unless a write of the client ran into its deadline.
RemoteIsTaken == mode = Remote ~> (remote \/ mode = Local \/ wedged)

\* The session layer keeps the promise of module Sharing: in particular a
\* client that stays away does not keep the input.
Promise == INSTANCE Sharing WITH
  Inputs <- {}, owner <- mode, suspended <- FALSE, linked <- conn # NoConn,
  held <- {}
ImplementsSharing == Promise!Spec

=============================================================================
