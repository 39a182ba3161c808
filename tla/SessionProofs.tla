--------------------------- MODULE SessionProofs ---------------------------
(***************************************************************************)
(* Safety of module Session for any number of connections and sessions and *)
(* any capacity of the queue and of the network.                           *)
(*                                                                         *)
(* The properties are inductive once two facts are added: a connection for *)
(* which a frame was dropped is closed and stays so (GapIsClosed), and the *)
(* client is under local control until its next connection is served       *)
(* (GreetIsLocal), so that no session survives without its watcher.        *)
(*                                                                         *)
(* Where the client ends up is read off what is on its way to it: the last *)
(* edge it was told is in the queue, on the connection or taken (EdgeInv), *)
(* and the frames of queue and connection, one after the other, bring its  *)
(* session to where the Mac is (ControlInv).                               *)
(***************************************************************************)
EXTENDS Session, SequenceTheorems, TLAPS

GapIsClosed == \A c \in Conns : gap[c] => ~up[c]

GreetIsLocal == clientPc \in {"idle", "greet"} => ~remote

\* runOnce works on a connection from the dial to its end.
DialedIsConn == clientPc # "idle" => dialed \in Conns

Queue == BoundedSeq([conn : Conns, frame : Frames], QueueCap)
Down == BoundedSeq(Frames, NetCap)
Up == BoundedSeq({"hello", "back"}, NetCap)

\* TypeOK in three parts, so that a step is looked at only where it acts.
MacTypes ==
  /\ mode \in {Local, Remote} /\ key \in BOOLEAN /\ missed \in BOOLEAN
  /\ conn \in Conns \cup {NoConn}
  /\ edge \in Edges /\ told \in [Conns -> Edges]
  /\ layoutPc \in {"idle", "send"} /\ shown \in BOOLEAN
  /\ handler \in [Conns -> {"none", "handshake", "edge", "install", "status",
                            "resync", "recv"}]
  /\ dropPc \in [Droppers -> {"no", "reset", "status"}]
  /\ sendQ \in Queue

NetTypes ==
  /\ up \in [Conns -> BOOLEAN] /\ gap \in [Conns -> BOOLEAN]
  /\ toClient \in [Conns -> Down] /\ toServer \in [Conns -> Up]

ClientTypes ==
  /\ clientPc \in {"idle", "greet", "serve", "leave"}
  /\ dialed \in Conns \cup {NoConn} /\ clientConn \in Conns \cup {NoConn}
  /\ wedged \in BOOLEAN
  /\ remote \in BOOLEAN /\ session \in Tokens \cup {NoToken}
  /\ watchers \subseteq Tokens /\ clientEdge \in Edges /\ held \in BOOLEAN

MacInv == MacTypes /\ NoGhostIsShown
NetInv == NetTypes /\ GapIsClosed
ClientInv == ClientTypes /\ SessionIsGuarded /\ GreetIsLocal /\ DialedIsConn
IInv == MacInv /\ NetInv /\ ClientInv

\* One step of NothingAfterGap.
NoFill ==
  \A c \in Conns : gap[c] /\ gap'[c] => Len(toClient'[c]) <= Len(toClient[c])

\* A bounded sequence is a sequence of bounded length.
LEMMA BoundedSeqIsSeq ==
  ASSUME NEW S, NEW n \in Nat, NEW q
  PROVE  q \in BoundedSeq(S, n) <=> q \in Seq(S) /\ Len(q) <= n
<1>1. ASSUME q \in BoundedSeq(S, n) PROVE q \in Seq(S) /\ Len(q) <= n
  <2>1. PICK m \in 0..n : q \in [1..m -> S] BY <1>1 DEF BoundedSeq, SeqOf
  <2>2. q \in Seq(S) BY <2>1, IsASeq
  <2>3. Len(q) = m BY <2>1, <2>2, LenProperties
  <2> QED BY <2>2, <2>3
<1>2. ASSUME q \in Seq(S), Len(q) <= n PROVE q \in BoundedSeq(S, n)
  <2>1. q \in [1..Len(q) -> S] /\ Len(q) \in 0..n BY <1>2, LenProperties
  <2> QED BY <2>1 DEF BoundedSeq, SeqOf
<1> QED BY <1>1, <1>2

\* What the queue and the channels do with a frame.
LEMMA BoundedSeqSteps ==
  ASSUME NEW S, NEW n \in Nat
  PROVE  /\ <<>> \in BoundedSeq(S, n) /\ Len(<<>>) = 0
         /\ \A q \in BoundedSeq(S, n) :
              /\ Len(q) \in Nat
              /\ q # <<>> => /\ Head(q) \in S /\ Tail(q) \in BoundedSeq(S, n)
                             /\ Len(Tail(q)) <= Len(q)
              /\ Len(q) < n => \A e \in S : Append(q, e) \in BoundedSeq(S, n)
<1>1. <<>> \in Seq(S) /\ Len(<<>>) = 0 BY EmptySeq, LenProperties
<1>2. ASSUME NEW q \in Seq(S), q # <<>>, Len(q) <= n
      PROVE  /\ Head(q) \in S /\ Tail(q) \in Seq(S) /\ Len(Tail(q)) <= Len(q)
             /\ Len(Tail(q)) <= n
  <2>1. /\ Head(q) \in S /\ Tail(q) \in Seq(S) /\ Len(Tail(q)) = Len(q) - 1
        /\ Len(q) \in Nat
    BY <1>2, HeadTailProperties, LenProperties
  <2> QED BY <2>1, <1>2
<1>3. ASSUME NEW q \in Seq(S), NEW e \in S, Len(q) < n
      PROVE  Append(q, e) \in Seq(S) /\ Len(Append(q, e)) <= n
  <2>1. /\ Append(q, e) \in Seq(S) /\ Len(Append(q, e)) = Len(q) + 1
        /\ Len(q) \in Nat
    BY <1>3, AppendProperties, LenProperties
  <2> QED BY <2>1, <1>3
<1>4. \A q \in BoundedSeq(S, n) : q \in Seq(S) /\ Len(q) <= n /\ Len(q) \in Nat
  BY BoundedSeqIsSeq, LenProperties
<1>5. \A q \in Seq(S) : Len(q) <= n => q \in BoundedSeq(S, n) BY BoundedSeqIsSeq
<1>6. <<>> \in BoundedSeq(S, n)
  <2>1. Len(<<>>) <= n BY <1>1
  <2> QED BY <2>1, <1>1, BoundedSeqIsSeq
<1>7. ASSUME NEW q \in BoundedSeq(S, n), q # <<>>
      PROVE  /\ Head(q) \in S /\ Tail(q) \in BoundedSeq(S, n)
             /\ Len(Tail(q)) <= Len(q)
  BY <1>2, <1>4, <1>5, <1>7
<1>8. ASSUME NEW q \in BoundedSeq(S, n), Len(q) < n, NEW e \in S
      PROVE  Append(q, e) \in BoundedSeq(S, n)
  BY <1>3, <1>4, <1>5, <1>8
<1> QED BY <1>1, <1>4, <1>6, <1>7, <1>8

\* The same for the send queue and the two directions of a connection.
LEMMA Channels ==
  /\ <<>> \in Queue
  /\ \A q \in Queue :
       /\ q # <<>> => /\ Head(q).conn \in Conns /\ Head(q).frame \in Frames
                      /\ Tail(q) \in Queue
       /\ Len(q) < QueueCap =>
            \A c \in Conns, m \in Frames : Append(q, [conn |-> c, frame |-> m]) \in Queue
  /\ <<>> \in Down /\ Len(<<>>) = 0
  /\ \A q \in Down :
       /\ Len(q) \in Nat
       /\ q # <<>> => /\ Head(q) \in Frames /\ Tail(q) \in Down
                      /\ Len(Tail(q)) <= Len(q)
       /\ Len(q) < NetCap => \A m \in Frames : Append(q, m) \in Down
  /\ <<>> \in Up /\ <<"hello">> \in Up
  /\ \A q \in Up :
       /\ q # <<>> => Tail(q) \in Up
       /\ Len(q) < NetCap => Append(q, "back") \in Up
<1>1. QueueCap \in Nat /\ NetCap \in Nat /\ 1 <= NetCap BY SessionAssumption
<1>2. <<"hello">> \in Up
  <2>1. <<"hello">> \in Seq({"hello", "back"}) /\ Len(<<"hello">>) = 1 OBVIOUS
  <2> QED BY <2>1, <1>1, BoundedSeqIsSeq DEF Up
<1>3. \A q \in Queue :
        /\ q # <<>> => /\ Head(q).conn \in Conns /\ Head(q).frame \in Frames
                       /\ Tail(q) \in Queue
        /\ Len(q) < QueueCap =>
             \A c \in Conns, m \in Frames : Append(q, [conn |-> c, frame |-> m]) \in Queue
  <2> DEFINE Frame == [conn : Conns, frame : Frames]
  <2>1. \A q \in BoundedSeq(Frame, QueueCap) :
          /\ q # <<>> => Head(q) \in Frame /\ Tail(q) \in BoundedSeq(Frame, QueueCap)
          /\ Len(q) < QueueCap =>
               \A e \in Frame : Append(q, e) \in BoundedSeq(Frame, QueueCap)
    <3> HIDE DEF Frame
    <3> QED BY <1>1, BoundedSeqSteps
  <2>2. \A e \in Frame : e.conn \in Conns /\ e.frame \in Frames OBVIOUS
  <2>3. \A c \in Conns, m \in Frames : [conn |-> c, frame |-> m] \in Frame OBVIOUS
  <2>4. Queue = BoundedSeq(Frame, QueueCap) BY DEF Queue
  <2> HIDE DEF Frame
  <2> QED BY <2>1, <2>2, <2>3, <2>4
<1>4. /\ <<>> \in Down /\ Len(<<>>) = 0
      /\ \A q \in Down :
           /\ Len(q) \in Nat
           /\ q # <<>> => /\ Head(q) \in Frames /\ Tail(q) \in Down
                          /\ Len(Tail(q)) <= Len(q)
           /\ Len(q) < NetCap => \A m \in Frames : Append(q, m) \in Down
  BY <1>1, BoundedSeqSteps DEF Down
<1>5. /\ <<>> \in Up
      /\ \A q \in Up :
           /\ q # <<>> => Tail(q) \in Up
           /\ Len(q) < NetCap => Append(q, "back") \in Up
  BY <1>1, BoundedSeqSteps DEF Up
<1>6. <<>> \in Queue BY <1>1, BoundedSeqSteps DEF Queue
<1> QED BY <1>2, <1>3, <1>4, <1>5, <1>6
-----------------------------------------------------------------------------
\* The parts are the type invariant.
LEMMA TypeParts == TypeOK <=> MacTypes /\ NetTypes /\ ClientTypes
BY DEF TypeOK, MacTypes, NetTypes, ClientTypes, Queue, Down, Up

\* Everything is idle before the first connection.
LEMMA InitInv == Init => IInv
<1> SUFFICES ASSUME Init PROVE IInv OBVIOUS
<1>1. MacInv
  BY Channels DEF Init, MacInv, MacTypes, NoGhostIsShown, Edges, Opposite, Local, Remote
<1>2. NetInv BY Channels DEF Init, NetInv, NetTypes, GapIsClosed
<1>3. ClientInv
  BY DEF Init, ClientInv, ClientTypes, SessionIsGuarded, GreetIsLocal, DialedIsConn,
     Edges, Opposite
<1> QED BY <1>1, <1>2, <1>3 DEF IInv

\* Whatever leaves one of the three alone.
LEMMA MacAlone == MacInv /\ UNCHANGED serverVars => MacInv'
BY DEF MacInv, MacTypes, NoGhostIsShown, serverVars, macVars, layoutVars

LEMMA ClientAlone == ClientInv /\ UNCHANGED clientVars => ClientInv'
BY DEF ClientInv, ClientTypes, SessionIsGuarded, GreetIsLocal, DialedIsConn,
   clientVars, injectVars

LEMMA NoFillUnchanged == NetInv /\ UNCHANGED toClient => NoFill
BY Channels DEF NetInv, NetTypes, NoFill

LEMMA NetAlone == NetInv /\ UNCHANGED netVars => NetInv' /\ NoFill
BY NoFillUnchanged DEF NetInv, NetTypes, GapIsClosed, netVars

\* send closes the connection for which it drops a frame.
LEMMA SendKeeps ==
  ASSUME MacInv, NetInv, NEW m \in Frames, Send(m)
  PROVE  /\ sendQ' \in Queue
         /\ UNCHANGED <<toClient, toServer>> => NetInv' /\ NoFill
         /\ UNCHANGED toClient /\ toServer' \in [Conns -> Up] => NetInv' /\ NoFill
<1>1. /\ sendQ' \in Queue
      /\ up' \in [Conns -> BOOLEAN] /\ gap' \in [Conns -> BOOLEAN]
      /\ GapIsClosed'
  <2>1. CASE conn = NoConn
    BY <2>1 DEF Send, MacInv, MacTypes, NetInv, NetTypes, GapIsClosed, queueVars
  <2>2. CASE conn # NoConn /\ Len(sendQ) < QueueCap /\ UNCHANGED <<up, gap>>
             /\ sendQ' = Append(sendQ, [conn |-> conn, frame |-> m])
    BY <2>2, Channels DEF MacInv, MacTypes, NetInv, NetTypes, GapIsClosed
  <2>3. CASE conn # NoConn /\ Overflow
    BY <2>3 DEF Overflow, MacInv, MacTypes, NetInv, NetTypes, GapIsClosed
  <2> QED BY <2>1, <2>2, <2>3 DEF Send
<1> QED BY <1>1, NoFillUnchanged DEF NetInv, NetTypes

\* dropConn leaves a connection, or goes on to its other two parts.
LEMMA DropBeginKeeps ==
  ASSUME MacInv, NetInv, NEW d \in Droppers, NEW c \in Conns, DropBegin(d, c),
         UNCHANGED <<macVars, layoutVars, shown, toClient, toServer, gap>>,
         sendQ' \in Queue,
         handler' \in [Conns -> {"none", "handshake", "edge", "install", "status",
                                 "resync", "recv"}]
  PROVE  MacInv' /\ NetInv' /\ NoFill
<1>1. /\ conn' \in Conns \cup {NoConn}
      /\ dropPc' \in [Droppers -> {"no", "reset", "status"}]
      /\ conn' = NoConn => dropPc'[d] = "reset"
  BY DEF DropBegin, MacInv, MacTypes
<1>2. MacTypes' BY <1>1 DEF MacInv, MacTypes, macVars, layoutVars
<1>3. NoGhostIsShown' BY <1>1 DEF NoGhostIsShown
<1>4. NetInv' BY DEF DropBegin, NetInv, NetTypes, GapIsClosed
<1> QED BY <1>2, <1>3, <1>4, NoFillUnchanged DEF MacInv

\* A write adds to what is in flight only where the connection is up.
LEMMA WrittenKeeps ==
  ASSUME NetInv, NEW c \in Conns, NEW m \in Frames, Written(c, m)
  PROVE  toClient' \in [Conns -> Down] /\ NoFill
<1>1. CASE /\ up[c] /\ Len(toClient[c]) < NetCap
           /\ toClient' = [toClient EXCEPT ![c] = Append(@, m)]
  <2>1. toClient \in [Conns -> Down] BY DEF NetInv, NetTypes
  <2>2. ~gap[c] BY <1>1 DEF NetInv, GapIsClosed
  <2>3. \A x \in Conns : gap[x] => toClient'[x] = toClient[x] BY <1>1, <2>1, <2>2
  <2>4. \A x \in Conns : Len(toClient[x]) \in Nat BY <2>1, Channels
  <2>5. toClient' \in [Conns -> Down] BY <1>1, <2>1, Channels
  <2> QED BY <2>3, <2>4, <2>5 DEF NoFill
<1>2. CASE UNCHANGED toClient BY <1>2, NoFillUnchanged DEF NetInv, NetTypes
<1> QED BY <1>1, <1>2 DEF Written

\* A frame is taken from a connection.
LEMMA TakeKeeps ==
  ASSUME NetInv, NEW c \in Conns, toClient[c] # <<>>,
         toClient' = [toClient EXCEPT ![c] = Tail(@)], UNCHANGED <<up, toServer, gap>>
  PROVE  NetInv' /\ NoFill /\ Head(toClient[c]) \in Frames
<1>1. toClient \in [Conns -> Down] BY DEF NetInv, NetTypes
<1>2. \A x \in Conns : Len(toClient[x]) \in Nat BY <1>1, Channels
<1>3. /\ Tail(toClient[c]) \in Down /\ Len(Tail(toClient[c])) <= Len(toClient[c])
      /\ Head(toClient[c]) \in Frames
  BY <1>1, Channels
<1>4. \A x \in Conns : Len(toClient'[x]) <= Len(toClient[x]) BY <1>1, <1>2, <1>3
<1>5. toClient' \in [Conns -> Down] BY <1>1, <1>3
<1> QED BY <1>3, <1>4, <1>5 DEF NoFill, NetInv, NetTypes, GapIsClosed
-----------------------------------------------------------------------------
\* The engine switches the mode, forwards a key or takes a new layout.
LEMMA EngineSteps ==
  ASSUME IInv, HandOver \/ TakeBack \/ ForwardKey \/ SetRemoteEdge \/ SendEdge
  PROVE  IInv' /\ NoFill
<1> USE DEF IInv
<1>1. CASE HandOver \/ TakeBack \/ ForwardKey
  <2>1. PICK m \in Frames : Send(m)
    BY <1>1 DEF HandOver, TakeBack, ForwardKey, Frames
  <2>2. /\ mode' \in {Local, Remote} /\ key' \in BOOLEAN /\ missed' \in BOOLEAN
        /\ UNCHANGED <<layoutVars, conn, shown, handler, dropPc, toClient,
                       toServer, clientVars>>
    BY <1>1 DEF HandOver, TakeBack, ForwardKey, MacInv, MacTypes
  <2>3. sendQ' \in Queue /\ NetInv' /\ NoFill BY <2>1, <2>2, SendKeeps
  <2>4. MacInv' BY <2>2, <2>3 DEF MacInv, MacTypes, NoGhostIsShown, layoutVars
  <2> QED BY <2>2, <2>3, <2>4, ClientAlone
<1>2. CASE SetRemoteEdge
  <2>1. MacInv'
    BY <1>2 DEF SetRemoteEdge, MacInv, MacTypes, NoGhostIsShown, macVars,
       Opposite, Edges
  <2> QED BY <1>2, <2>1, NetAlone, ClientAlone DEF SetRemoteEdge
<1>3. CASE SendEdge
  <2>1. Opposite(edge) \in Frames /\ Opposite(edge) \in Edges
    BY DEF Opposite, Edges, Frames
  <2>2. sendQ' \in Queue /\ NetInv' /\ NoFill BY <1>3, <2>1, SendKeeps DEF SendEdge
  <2>3. MacInv'
    BY <1>3, <2>1, <2>2 DEF SendEdge, MacInv, MacTypes, NoGhostIsShown, macVars
  <2> QED BY <1>3, <2>2, <2>3, ClientAlone DEF SendEdge
<1> QED BY <1>1, <1>2, <1>3

\* The writer takes the next frame of the queue (writer).
LEMMA WriterSteps ==
  ASSUME IInv, WriterStep
  PROVE  IInv' /\ NoFill
<1> USE DEF IInv
<1>1. sendQ # <<>> /\ sendQ' = Tail(sendQ) BY DEF WriterStep, Write, WriteError
<1>2. /\ sendQ' \in Queue /\ Head(sendQ).conn \in Conns
      /\ Head(sendQ).frame \in Frames
  BY <1>1, Channels DEF MacInv, MacTypes
<1>3. CASE Write
  <2>1. toClient' \in [Conns -> Down] /\ NoFill BY <1>2, <1>3, WrittenKeeps DEF Write
  <2>2. NetInv' BY <1>3, <2>1 DEF Write, NetInv, NetTypes, GapIsClosed
  <2>3. MacInv'
    BY <1>2, <1>3 DEF Write, MacInv, MacTypes, NoGhostIsShown, macVars, layoutVars
  <2> QED BY <1>3, <2>1, <2>2, <2>3, ClientAlone DEF Write
<1>4. CASE WriteError
  <2>1. MacInv' /\ NetInv' /\ NoFill
    BY <1>2, <1>4, DropBeginKeeps DEF WriteError, Droppers, MacInv, MacTypes
  <2> QED BY <1>4, <2>1, ClientAlone DEF WriteError
<1> QED BY <1>3, <1>4 DEF WriterStep

\* The later parts of dropConn.
LEMMA DropSteps ==
  ASSUME IInv, NEW d \in Droppers, DropStep(d)
  PROVE  IInv' /\ NoFill
<1> USE DEF IInv
<1>1. MacInv'
  BY DEF DropStep, DropReset, DropStatus, MacInv, MacTypes, NoGhostIsShown,
     macVars, layoutVars, Local
<1> QED BY <1>1, NetAlone, ClientAlone DEF DropStep, DropReset, DropStatus
-----------------------------------------------------------------------------
\* The handler of connection c greets the client (handleConn).
LEMMA GreetSteps ==
  ASSUME IInv, NEW c \in Conns, Greet(c) \/ GreetEdge(c) \/ GreetFails(c)
  PROVE  IInv' /\ NoFill
<1> USE DEF IInv
<1>1. handler[c] \notin {"resync", "recv"} /\ handler'[c] \notin {"resync", "recv"}
  BY DEF Greet, GreetEdge, GreetFails, At, MacInv, MacTypes
<1>2. NoGhostIsShown'
  BY <1>1 DEF Greet, GreetEdge, GreetFails, At, MacInv, MacTypes, NoGhostIsShown
<1>3. MacTypes'
  BY DEF Greet, GreetEdge, GreetFails, At, MacInv, MacTypes, macVars, layoutVars,
     Opposite, Edges
<1>4. ClientInv' BY ClientAlone DEF Greet, GreetEdge, GreetFails
<1>5. NetInv' /\ NoFill
  <2>1. CASE Greet(c)
    <3>1. toClient' \in [Conns -> Down] /\ NoFill
      BY <2>1, WrittenKeeps DEF Greet, Frames
    <3>2. toServer' \in [Conns -> Up]
      BY <2>1, Channels DEF Greet, NetInv, NetTypes
    <3> QED BY <2>1, <3>1, <3>2 DEF Greet, NetInv, NetTypes, GapIsClosed
  <2>2. CASE GreetEdge(c)
    <3>1. Opposite(edge) \in Frames BY DEF Opposite, Edges, Frames
    <3>2. toClient' \in [Conns -> Down] /\ NoFill
      BY <2>2, <3>1, WrittenKeeps DEF GreetEdge
    <3> QED BY <2>2, <3>2 DEF GreetEdge, NetInv, NetTypes, GapIsClosed
  <2>3. CASE GreetFails(c)
    BY <2>3, NoFillUnchanged DEF GreetFails, NetInv, NetTypes, GapIsClosed
  <2> QED BY <2>1, <2>2, <2>3
<1> QED BY <1>2, <1>3, <1>4, <1>5 DEF MacInv

\* It installs the connection, reports it and re-syncs the client.
LEMMA InstallSteps ==
  ASSUME IInv, NEW c \in Conns, SetConn(c) \/ ShowConnected(c) \/ Resync(c)
  PROVE  IInv' /\ NoFill
<1> USE DEF IInv
<1>1. ClientInv' BY ClientAlone DEF SetConn, ShowConnected, Resync
<1>2. CASE SetConn(c)
  <2>1. c # NoConn BY SessionAssumption
  <2>2. MacInv'
    BY <1>2, <2>1 DEF SetConn, At, MacInv, MacTypes, NoGhostIsShown, macVars, layoutVars
  <2>3. NetInv' /\ NoFill
    BY <1>2, NoFillUnchanged DEF SetConn, NetInv, NetTypes, GapIsClosed
  <2> QED BY <1>1, <2>2, <2>3
<1>3. CASE ShowConnected(c)
  <2>1. MacInv'
    BY <1>3 DEF ShowConnected, At, MacInv, MacTypes, NoGhostIsShown, macVars, layoutVars
  <2> QED BY <1>1, <1>3, <2>1, NetAlone DEF ShowConnected
<1>4. CASE Resync(c)
  <2>1. sendQ' \in Queue /\ NetInv' /\ NoFill
    <3>1. CASE mode = Remote
      BY <1>4, <3>1, SendKeeps DEF Resync, Frames
    <3>2. CASE mode # Remote
      BY <1>4, <3>2, NetAlone DEF Resync, queueVars, netVars, MacInv, MacTypes
    <3> QED BY <3>1, <3>2
  <2>2. MacInv'
    BY <1>4, <2>1 DEF Resync, At, MacInv, MacTypes, NoGhostIsShown, macVars, layoutVars
  <2> QED BY <1>1, <2>1, <2>2
<1> QED BY <1>2, <1>3, <1>4

\* It receives a request, or the end of the connection (recvLoop).
LEMMA RecvSteps ==
  ASSUME IInv, NEW c \in Conns, RecvSwitch(c) \/ RecvEnds(c)
  PROVE  IInv' /\ NoFill
<1> USE DEF IInv
<1>1. ClientInv' BY ClientAlone DEF RecvSwitch, RecvEnds
<1>2. CASE RecvSwitch(c)
  <2>1. toServer' \in [Conns -> Up]
    BY <1>2, Channels DEF RecvSwitch, NetInv, NetTypes
  <2>2. /\ sendQ' \in Queue /\ NetInv' /\ NoFill
        /\ mode' \in {Local, Remote} /\ key' \in BOOLEAN /\ missed' \in BOOLEAN
    <3>1. CASE Head(toServer[c]) = "back" /\ mode = Remote
      BY <1>2, <2>1, <3>1, SendKeeps DEF RecvSwitch, Frames
    <3>2. CASE ~(Head(toServer[c]) = "back" /\ mode = Remote)
      BY <1>2, <2>1, <3>2, NoFillUnchanged
      DEF RecvSwitch, macVars, queueVars, MacInv, MacTypes, NetInv, NetTypes, GapIsClosed
    <3> QED BY <3>1, <3>2
  <2>3. MacInv'
    BY <1>2, <2>2 DEF RecvSwitch, MacInv, MacTypes, NoGhostIsShown, layoutVars
  <2> QED BY <1>1, <2>2, <2>3
<1>3. CASE RecvEnds(c)
  <2>1. MacInv' /\ NetInv' /\ NoFill
    BY <1>3, DropBeginKeeps DEF RecvEnds, At, Droppers, MacInv, MacTypes
  <2> QED BY <1>1, <2>1
<1> QED BY <1>2, <1>3
-----------------------------------------------------------------------------
\* A session starts with its watcher and ends with its releases.
LEMMA ModeSteps ==
  ASSUME ClientInv, EnterRemote \/ LeaveRemote
  PROVE  /\ remote' \in BOOLEAN /\ held' \in BOOLEAN
         /\ session' \in Tokens \cup {NoToken} /\ watchers' \subseteq Tokens
         /\ held' => remote'
         /\ remote' /\ (~remote \/ clientConn # NoConn) => session' \in watchers'
<1>1. CASE UNCHANGED injectVars
  BY <1>1 DEF injectVars, ClientInv, ClientTypes, SessionIsGuarded
<1>2. CASE EnterRemote /\ ~remote
  <2>1. session' \in Tokens /\ remote' = TRUE /\ watchers' = watchers \cup {session'}
    BY <1>2 DEF EnterRemote
  <2>2. held' \in BOOLEAN BY <1>2 DEF EnterRemote, ClientInv, ClientTypes
  <2> QED BY <2>1, <2>2 DEF ClientInv, ClientTypes
<1>3. CASE LeaveRemote /\ remote
  BY <1>3 DEF LeaveRemote, ClientInv, ClientTypes
<1> QED BY <1>1, <1>2, <1>3 DEF EnterRemote, LeaveRemote

\* The client dials, and a connection ends (runOnce).
LEMMA DialSteps ==
  ASSUME IInv, NEW c \in Conns, Dial(c)
  PROVE  IInv' /\ NoFill
<1> USE DEF IInv
<1>1. ClientInv'
  BY DEF Dial, ClientInv, ClientTypes, SessionIsGuarded, GreetIsLocal, DialedIsConn,
     injectVars
<1>2. MacInv'
  BY DEF Dial, Unused, MacInv, MacTypes, NoGhostIsShown, macVars, layoutVars
<1>3. NetInv' BY Channels DEF Dial, NetInv, NetTypes, GapIsClosed
<1>4. NoFill
  <2>1. \A x \in Conns : Len(toClient[x]) \in Nat BY Channels DEF NetInv, NetTypes
  <2>2. \A x \in Conns : gap'[x] => toClient'[x] = toClient[x]
    BY DEF Dial, NetInv, NetTypes
  <2> QED BY <2>1, <2>2 DEF NoFill
<1> QED BY <1>1, <1>2, <1>3, <1>4

\* The client is greeted, and then handles frames (runOnce, handle).
LEMMA ServeSteps ==
  ASSUME IInv, Connected \/ Handle
  PROVE  IInv' /\ NoFill
<1> USE DEF IInv
<1>1. dialed \in Conns
  BY DEF Connected, Handle, ClientInv, ClientTypes, DialedIsConn
<1>2. NetInv' /\ NoFill /\ Head(toClient[dialed]) \in Frames
  BY <1>1, TakeKeeps DEF Connected, Handle
<1>3. MacInv' BY MacAlone DEF Connected, Handle
<1>4. CASE Connected
  <2>1. ClientInv'
    BY <1>1, <1>4 DEF Connected, ClientInv, ClientTypes, SessionIsGuarded, GreetIsLocal,
       DialedIsConn, injectVars
  <2> QED BY <1>2, <1>3, <2>1
<1>5. CASE Handle
  <2> DEFINE m == Head(toClient[dialed])
  <2>1. UNCHANGED <<clientPc, dialed, clientConn, wedged>> /\ clientPc = "serve"
    BY <1>5 DEF Handle
  <2>2. /\ remote' \in BOOLEAN /\ held' \in BOOLEAN
        /\ session' \in Tokens \cup {NoToken} /\ watchers' \subseteq Tokens
        /\ clientEdge' \in Edges /\ SessionIsGuarded'
    <3>1. CASE m \in {"remote", "back"}
      <4>1. (EnterRemote \/ LeaveRemote) /\ UNCHANGED clientEdge
        BY <1>5, <3>1 DEF Handle, Edges
      <4> QED BY <2>1, <4>1, ModeSteps DEF ClientInv, ClientTypes, SessionIsGuarded
    <3>2. CASE m \in Edges
      BY <1>5, <2>1, <3>2
      DEF Handle, Edges, injectVars, ClientInv, ClientTypes, SessionIsGuarded
    <3>3. CASE m \in {"press", "release"}
      <4>1. /\ held' = IF remote THEN m = "press" ELSE held
            /\ UNCHANGED <<remote, session, watchers, clientEdge>>
        BY <1>5, <3>3 DEF Handle, Edges
      <4> QED BY <2>1, <4>1 DEF ClientInv, ClientTypes, SessionIsGuarded
    <3>4. CASE m = "hello"
      <4>1. UNCHANGED <<injectVars, clientEdge>> BY <1>5, <3>4 DEF Handle, Edges
      <4> QED BY <2>1, <4>1 DEF injectVars, ClientInv, ClientTypes, SessionIsGuarded
    <3> QED BY <1>2, <3>1, <3>2, <3>3, <3>4 DEF Frames
  <2>3. ClientInv'
    BY <2>1, <2>2 DEF ClientInv, ClientTypes, GreetIsLocal, DialedIsConn
  <2> QED BY <1>2, <1>3, <2>3
<1> QED BY <1>4, <1>5

\* Its connection ends (runOnce).
LEMMA EndSteps ==
  ASSUME IInv, ReadFails \/ RunOnceEnds
  PROVE  IInv' /\ NoFill
<1> USE DEF IInv
<1>1. MacInv' BY MacAlone DEF ReadFails, RunOnceEnds
<1>2. CASE ReadFails
  <2>1. ClientInv'
    BY <1>2 DEF ReadFails, ClientInv, ClientTypes, SessionIsGuarded, GreetIsLocal,
       DialedIsConn, injectVars
  <2> QED BY <1>1, <1>2, <2>1, NetAlone DEF ReadFails
<1>3. CASE RunOnceEnds
  <2>1. ClientInv'
    BY <1>3 DEF RunOnceEnds, LeaveRemote, injectVars, ClientInv, ClientTypes,
       SessionIsGuarded, GreetIsLocal, DialedIsConn
  <2>2. NetInv' /\ NoFill
    BY <1>3, NoFillUnchanged DEF RunOnceEnds, NetInv, NetTypes, GapIsClosed
  <2> QED BY <1>1, <2>1, <2>2
<1> QED BY <1>2, <1>3

\* A watcher asks for the return or ends (edgeWatch), or the network fails.
LEMMA WatchSteps ==
  ASSUME IInv, \/ \E t \in Tokens : WatchReturns(t) \/ WatchStops(t)
               \/ \E c \in Conns : NetFails(c)
  PROVE  IInv' /\ NoFill
<1> USE DEF IInv
<1>1. CASE \E t \in Tokens : WatchReturns(t)
  <2>1. PICK t \in Tokens : WatchReturns(t) BY <1>1
  <2>2. toServer' \in [Conns -> Up] /\ wedged' \in BOOLEAN
    <3>1. Request BY <2>1 DEF WatchReturns
    <3>2. CASE UNCHANGED toServer
      BY <3>1, <3>2 DEF Request, NetInv, NetTypes, ClientInv, ClientTypes
    <3>3. CASE /\ clientConn # NoConn /\ Len(toServer[clientConn]) < NetCap
               /\ toServer' = [toServer EXCEPT ![clientConn] =
                                 IF up[clientConn] THEN Append(@, "back") ELSE @]
               /\ UNCHANGED wedged
      <4>1. clientConn \in Conns /\ wedged' \in BOOLEAN
        BY <3>3 DEF ClientInv, ClientTypes
      <4>2. toServer[clientConn] \in Up /\ Append(toServer[clientConn], "back") \in Up
        BY <3>3, <4>1, Channels DEF NetInv, NetTypes
      <4> QED BY <3>3, <4>1, <4>2 DEF NetInv, NetTypes
    <3> QED BY <3>1, <3>2, <3>3 DEF Request
  <2>3. NetInv' /\ NoFill
    BY <2>1, <2>2, NoFillUnchanged DEF WatchReturns, NetInv, NetTypes, GapIsClosed
  <2>4. ClientInv'
    BY <2>1, <2>2 DEF WatchReturns, ClientInv, ClientTypes, SessionIsGuarded, GreetIsLocal,
       DialedIsConn
  <2> QED BY <2>1, <2>3, <2>4, MacAlone DEF WatchReturns
<1>2. CASE \E t \in Tokens : WatchStops(t)
  <2>1. PICK t \in Tokens : WatchStops(t) BY <1>2
  <2>2. ClientInv'
    BY <2>1 DEF WatchStops, ClientInv, ClientTypes, SessionIsGuarded, GreetIsLocal,
       DialedIsConn
  <2> QED BY <2>1, <2>2, MacAlone, NetAlone DEF WatchStops
<1>3. CASE \E c \in Conns : NetFails(c)
  BY <1>3, MacAlone, ClientAlone, NoFillUnchanged
  DEF NetFails, NetInv, NetTypes, GapIsClosed
<1> QED BY <1>1, <1>2, <1>3
-----------------------------------------------------------------------------
\* Every step.
LEMMA NextInv == IInv /\ [Next]_vars => IInv' /\ (Next => NoFill)
<1> SUFFICES ASSUME IInv, [Next]_vars PROVE IInv' /\ (Next => NoFill) OBVIOUS
<1>1. ASSUME Next PROVE IInv' /\ NoFill
  BY <1>1, EngineSteps, WriterSteps, DropSteps, GreetSteps, InstallSteps, RecvSteps,
     DialSteps, ServeSteps, EndSteps, WatchSteps
  DEF Next, HandlerStep
<1>2. CASE UNCHANGED vars
  BY <1>2, MacAlone, NetAlone, ClientAlone DEF IInv, vars, serverVars, netVars
<1> QED BY <1>1, <1>2

\* The invariant of the session layer (server.go, conn.go, client.go), for any
\* number of connections that overlap.
THEOREM InvariantIsInductive == Spec => []IInv
<1>1. Init => IInv BY InitInv
<1>2. IInv /\ [Next]_vars => IInv' BY NextInv
<1> QED BY <1>1, <1>2, PTL DEF Spec

\* Every variable has its type; the queue and the network keep their bounds.
THEOREM TypeCorrect == Spec => []TypeOK
<1>1. IInv => TypeOK BY TypeParts DEF IInv, MacInv, NetInv, ClientInv
<1> QED BY <1>1, InvariantIsInductive, PTL

\* Nothing is held on the client outside a remote session, and a session that
\* can return control has its own watcher to do so (enterRemote, edgeWatch).
THEOREM SessionGuarded == Spec => []SessionIsGuarded
<1>1. IInv => SessionIsGuarded BY DEF IInv, ClientInv
<1> QED BY <1>1, InvariantIsInductive, PTL

\* A client that is gone is shown only as long as a handler or a dropConn is
\* still to report (updateStatus).
THEOREM NoGhost == Spec => []NoGhostIsShown
<1>1. IInv => NoGhostIsShown BY DEF IInv, MacInv
<1> QED BY <1>1, InvariantIsInductive, PTL

\* After a frame was dropped for a connection nothing more arrives on it
\* (send, writer).
THEOREM NothingAfter == Spec => NothingAfterGap
<1>1. IInv /\ [Next]_vars =>
        [\A c \in Conns :
           gap[c] /\ gap'[c] => Len(toClient'[c]) <= Len(toClient[c])]_vars
  BY NextInv DEF NoFill
<1> QED BY <1>1, InvariantIsInductive, PTL DEF Spec, NothingAfterGap
-----------------------------------------------------------------------------
\* A step of the promise of module Sharing, or none.
PromiseStep == Promise!Next \/ UNCHANGED Promise!vars

\* A step that leaves the mode alone is one of the connection, or not seen.
LEMMA LinkPromise == ASSUME UNCHANGED mode PROVE PromiseStep
  BY DEF PromiseStep, Promise!Next, Promise!Link, Promise!vars

\* A step that leaves the connection alone hands control over, or takes it back.
LEMMA OwnerPromise ==
  ASSUME UNCHANGED conn, mode \in {Local, Remote}, mode' \in {Local, Remote}
  PROVE  PromiseStep
<1>1. CASE mode' = mode BY <1>1, LinkPromise
<1>2. CASE mode = Local /\ mode' = Remote
  BY <1>2 DEF PromiseStep, Promise!Next, Promise!HandOver, Promise!Local,
     Promise!Remote, Local, Remote
<1>3. CASE mode = Remote /\ mode' = Local
  BY <1>3 DEF PromiseStep, Promise!Next, Promise!TakeBack, Promise!Local,
     Promise!Remote, Local, Remote
<1> QED BY <1>1, <1>2, <1>3 DEF Local, Remote

\* No step changes both the mode and the connection: dropConn gives up the
\* connection under mu and the mode later, under stateMu.
LEMMA OneAtATime == [Next]_vars => UNCHANGED mode \/ UNCHANGED conn
<1> SUFFICES ASSUME [Next]_vars PROVE UNCHANGED mode \/ UNCHANGED conn OBVIOUS
<1> USE DEF serverVars, macVars, layoutVars
<1>1. CASE HandOver \/ TakeBack \/ ForwardKey \/ SetRemoteEdge \/ SendEdge
  BY <1>1 DEF HandOver, TakeBack, ForwardKey, SetRemoteEdge, SendEdge
<1>2. CASE WriterStep BY <1>2 DEF WriterStep, Write, WriteError
<1>3. CASE \E d \in Droppers : DropStep(d) BY <1>3 DEF DropStep, DropReset, DropStatus
<1>4. CASE \E c \in Conns : HandlerStep(c)
  BY <1>4 DEF HandlerStep, Greet, GreetEdge, SetConn, ShowConnected, Resync,
     RecvSwitch, RecvEnds
<1>5. CASE \E c \in Conns : GreetFails(c) \/ Dial(c) \/ NetFails(c)
  BY <1>5 DEF GreetFails, Dial, NetFails
<1>6. CASE Connected \/ Handle \/ ReadFails \/ RunOnceEnds
  BY <1>6 DEF Connected, Handle, ReadFails, RunOnceEnds
<1>7. CASE \E t \in Tokens : WatchReturns(t) \/ WatchStops(t)
  BY <1>7 DEF WatchReturns, WatchStops
<1>8. CASE UNCHANGED vars BY <1>8 DEF vars
<1> QED BY <1>1, <1>2, <1>3, <1>4, <1>5, <1>6, <1>7, <1>8 DEF Next

\* The safety half of ImplementsSharing for the session layer, whatever its
\* goroutines, the client and the network do (dropConn, recvLoop).
THEOREM SessionKeepsPromise ==
  Spec => Promise!Init /\ [][Promise!Next]_(Promise!vars)
<1>1. Init => Promise!Init BY DEF Init, Promise!Init, Promise!Local, Local
<1>2. IInv /\ IInv' /\ [Next]_vars => [Promise!Next]_(Promise!vars)
  BY OneAtATime, LinkPromise, OwnerPromise
  DEF IInv, MacInv, MacTypes, PromiseStep
<1> QED BY <1>1, <1>2, InvariantIsInductive, PTL DEF Spec
-----------------------------------------------------------------------------
(* The edge that the client has been told last is on its way, in the queue *)
(* or on the connection, or it is the client's.                            *)

\* The last edge in q is e; there is none.
LastIs(q, e) == \E k \in 1..Len(q) : q[k] = e /\ \A j \in k + 1 .. Len(q) : q[j] \notin Edges
NoEdge(q) == \A j \in 1..Len(q) : q[j] \notin Edges

\* The same for the frames for c in a queue.
QueuedLast(q, c, e) ==
  \E k \in 1..Len(q) : /\ q[k].conn = c /\ q[k].frame = e
                       /\ \A j \in k + 1 .. Len(q) : q[j].conn = c => q[j].frame \notin Edges
NoneQueued(q, c) == \A j \in 1..Len(q) : q[j].conn = c => q[j].frame \notin Edges

EdgeUnderWay(c) ==
  \/ QueuedLast(sendQ, c, told[c])
  \/ NoneQueued(sendQ, c) /\ \/ LastIs(toClient[c], told[c])
                             \/ NoEdge(toClient[c]) /\ clientEdge = told[c]

Early == {"handshake", "edge", "install"}
Installed == {"status", "resync", "recv"}

\* A connection that is up is the client's.
UpIsDialed == \A c \in Conns : up[c] => dialed = c /\ clientPc # "idle" /\ handler[c] # "none"

\* Nothing is queued for a connection that is not installed.
NothingEarly ==
  \A c \in Conns : handler[c] \in Early =>
    conn # c /\ \A i \in 1..Len(sendQ) : sendQ[i].conn # c

\* The greeting comes first.
GreetingFirst ==
  \A c \in Conns : up[c] =>
    /\ handler[c] = "handshake" => toClient[c] = <<>> /\ clientPc # "serve"
    /\ handler[c] # "handshake" /\ clientPc = "greet" => toClient[c] # <<>> /\ toClient[c][1] = "hello"

EdgeOnItsWay ==
  \A c \in Conns : up[c] /\ handler[c] \in Installed \cup {"install"} => EdgeUnderWay(c)

EdgeInv == UpIsDialed /\ NothingEarly /\ GreetingFirst /\ EdgeOnItsWay

LEMMA Sequences ==
  ASSUME IInv
  PROVE  /\ sendQ \in Seq([conn : Conns, frame : Frames])
         /\ \A c \in Conns : toClient[c] \in Seq(Frames)
         /\ told \in [Conns -> Edges] /\ up \in [Conns -> BOOLEAN] /\ DOMAIN toClient = Conns
         /\ handler \in [Conns -> {"none"} \cup Early \cup Installed]
<1>1. QueueCap \in Nat /\ NetCap \in Nat BY SessionAssumption
<1> QED BY <1>1, BoundedSeqIsSeq DEF IInv, MacInv, MacTypes, NetInv, NetTypes, Queue, Down, Early, Installed

LEMMA Appended ==
  ASSUME NEW S, NEW q \in Seq(S), NEW x \in S
  PROVE  /\ x \in Edges => LastIs(Append(q, x), x)
         /\ x \notin Edges => /\ \A e : LastIs(q, e) => LastIs(Append(q, x), e)
                              /\ NoEdge(q) => NoEdge(Append(q, x))
         /\ Append(q, x) # <<>>
         /\ q # <<>> => Append(q, x)[1] = q[1]
         /\ q = <<>> => Append(q, x)[1] = x
<1> DEFINE r == Append(q, x)
           n == Len(q)
<1>1. n \in Nat /\ Len(r) = n + 1 /\ r[n + 1] = x /\ \A k \in 1..n : r[k] = q[k]
  BY AppendProperties, LenProperties
<1>2. (q # <<>> => n >= 1) /\ (q = <<>> => n = 0) /\ r # <<>> BY AppendProperties, EmptySeq
<1> HIDE DEF r, n
<1>3. ASSUME x \in Edges PROVE LastIs(r, x)
  <2>1. n + 1 \in 1..Len(r) /\ (n + 1) + 1 .. Len(r) = {} BY <1>1
  <2> QED BY <1>1, <2>1 DEF LastIs
<1>4. ASSUME x \notin Edges, NEW e, LastIs(q, e) PROVE LastIs(r, e)
  <2>1. PICK k \in 1..n : q[k] = e /\ \A j \in k + 1 .. n : q[j] \notin Edges
    BY <1>4 DEF LastIs, n
  <2>2. k \in 1..Len(r) /\ r[k] = e BY <1>1, <2>1
  <2>3. ASSUME NEW j \in k + 1 .. Len(r) PROVE r[j] \notin Edges
    <3>0. k \in Int /\ 1 <= k /\ n \in Int /\ Len(r) = n + 1 BY <1>1, <2>1
    <3>1. j = n + 1 \/ (j \in k + 1 .. n /\ j \in 1..n) BY <2>3, <3>0
    <3> QED BY <1>1, <1>4, <2>1, <3>1
  <2> QED BY <2>2, <2>3 DEF LastIs
<1>5. ASSUME x \notin Edges, NoEdge(q) PROVE NoEdge(r)
  <2> SUFFICES ASSUME NEW j \in 1..Len(r) PROVE r[j] \notin Edges BY DEF NoEdge
  <2>1. j = n + 1 \/ j \in 1..n BY <1>1
  <2> QED BY <1>1, <1>5, <2>1 DEF NoEdge, n
<1> QED BY <1>1, <1>2, <1>3, <1>4, <1>5 DEF r

LEMMA Taken ==
  ASSUME NEW S, NEW q \in Seq(S), q # <<>>
  PROVE  /\ Head(q) = q[1]
         /\ \A e : LastIs(q, e) => LastIs(Tail(q), e) \/ (Head(q) = e /\ NoEdge(Tail(q)))
         /\ NoEdge(q) => Head(q) \notin Edges /\ NoEdge(Tail(q))
<1> DEFINE r == Tail(q)
           n == Len(q)
<1>1. /\ n \in Nat \ {0} /\ Len(r) = n - 1 /\ Head(q) = q[1]
      /\ \A k \in 1..Len(r) : r[k] = q[k + 1]
  BY HeadTailProperties, EmptySeq
<1> HIDE DEF r, n
<1>2. ASSUME NEW e, LastIs(q, e) PROVE LastIs(r, e) \/ (Head(q) = e /\ NoEdge(r))
  <2>1. PICK k \in 1..n : q[k] = e /\ \A j \in k + 1 .. n : q[j] \notin Edges
    BY <1>2 DEF LastIs, n
  <2>2. ASSUME NEW j \in k .. Len(r) PROVE r[j] \notin Edges
    <3>1. j + 1 \in k + 1 .. n /\ j \in 1..Len(r) BY <1>1, <2>1, <2>2
    <3> QED BY <1>1, <2>1, <3>1
  <2>3. CASE k = 1 BY <1>1, <2>1, <2>2, <2>3 DEF NoEdge
  <2>4. CASE k # 1
    <3>1. k - 1 \in 1..Len(r) /\ (k - 1) + 1 = k BY <1>1, <2>4
    <3>2. r[k - 1] = e BY <1>1, <2>1, <3>1
    <3> QED BY <2>2, <3>1, <3>2 DEF LastIs
  <2> QED BY <2>3, <2>4
<1>3. ASSUME NoEdge(q) PROVE Head(q) \notin Edges /\ NoEdge(r)
  <2>1. 1 \in 1..n /\ \A j \in 1..Len(r) : j + 1 \in 1..n BY <1>1
  <2> QED BY <1>1, <1>3, <2>1 DEF NoEdge, n
<1> QED BY <1>1, <1>2, <1>3 DEF r

LEMMA Queued ==
  ASSUME NEW q \in Seq([conn : Conns, frame : Frames]), NEW d \in Conns, NEW m \in Frames, NEW c
  PROVE  LET r == Append(q, [conn |-> d, frame |-> m])
         IN  /\ \A i \in 1..Len(r) : r[i].conn = d \/ \E j \in 1..Len(q) : r[i].conn = q[j].conn
             /\ d = c /\ m \in Edges => QueuedLast(r, c, m)
             /\ d # c \/ m \notin Edges =>
                  /\ \A e : QueuedLast(q, c, e) => QueuedLast(r, c, e)
                  /\ NoneQueued(q, c) => NoneQueued(r, c)
<1> DEFINE x == [conn |-> d, frame |-> m]
           r == Append(q, x)
           n == Len(q)
<1>1. n \in Nat /\ Len(r) = n + 1 /\ r[n + 1] = x /\ \A k \in 1..n : r[k] = q[k]
  BY AppendProperties, LenProperties
<1>2. x.conn = d /\ x.frame = m OBVIOUS
<1> HIDE DEF x, r, n
<1>3. ASSUME NEW i \in 1..Len(r) PROVE i = n + 1 \/ i \in 1..n BY <1>1, <1>3
<1>4. ASSUME d = c, m \in Edges PROVE QueuedLast(r, c, m)
  <2>1. n + 1 \in 1..Len(r) /\ (n + 1) + 1 .. Len(r) = {} BY <1>1
  <2> QED BY <1>1, <1>2, <1>4, <2>1 DEF QueuedLast
<1>5. ASSUME d # c \/ m \notin Edges, NEW e, QueuedLast(q, c, e) PROVE QueuedLast(r, c, e)
  <2>1. PICK k \in 1..n : /\ q[k].conn = c /\ q[k].frame = e
                          /\ \A j \in k + 1 .. n : q[j].conn = c => q[j].frame \notin Edges
    BY <1>5 DEF QueuedLast, n
  <2>2. k \in 1..Len(r) /\ r[k] = q[k] BY <1>1, <2>1
  <2>3. ASSUME NEW j \in k + 1 .. Len(r), r[j].conn = c PROVE r[j].frame \notin Edges
    <3>0. k \in Int /\ 1 <= k /\ n \in Int /\ Len(r) = n + 1 BY <1>1, <2>1
    <3>1. j = n + 1 \/ (j \in k + 1 .. n /\ j \in 1..n) BY <2>3, <3>0
    <3> QED BY <1>1, <1>2, <1>5, <2>1, <2>3, <3>1
  <2> QED BY <2>1, <2>2, <2>3 DEF QueuedLast
<1>6. ASSUME d # c \/ m \notin Edges, NoneQueued(q, c) PROVE NoneQueued(r, c)
  <2> SUFFICES ASSUME NEW j \in 1..Len(r), r[j].conn = c PROVE r[j].frame \notin Edges
    BY DEF NoneQueued
  <2> QED BY <1>1, <1>2, <1>3, <1>6 DEF NoneQueued, n
<1>7. \A i \in 1..Len(r) : r[i].conn = d \/ \E j \in 1..n : r[i].conn = q[j].conn
  BY <1>1, <1>2, <1>3
<1> QED BY <1>4, <1>5, <1>6, <1>7 DEF r, x, n

LEMMA Unqueued ==
  ASSUME NEW q \in Seq([conn : Conns, frame : Frames]), q # <<>>, NEW c
  PROVE  /\ \A i \in 1..Len(Tail(q)) : \E j \in 1..Len(q) : Tail(q)[i] = q[j]
         /\ \E j \in 1..Len(q) : Head(q) = q[j]
         /\ \A e : QueuedLast(q, c, e) =>
              \/ QueuedLast(Tail(q), c, e)
              \/ Head(q).conn = c /\ Head(q).frame = e /\ NoneQueued(Tail(q), c)
         /\ NoneQueued(q, c) =>
              NoneQueued(Tail(q), c) /\ (Head(q).conn = c => Head(q).frame \notin Edges)
<1> DEFINE r == Tail(q)
           n == Len(q)
<1>1. /\ n \in Nat \ {0} /\ Len(r) = n - 1 /\ Head(q) = q[1] /\ 1 \in 1..n
      /\ \A k \in 1..Len(r) : r[k] = q[k + 1]
  BY HeadTailProperties, EmptySeq
<1> HIDE DEF r, n
<1>2. \A k \in 1..Len(r) : k + 1 \in 1..n BY <1>1
<1>3. ASSUME NEW e, QueuedLast(q, c, e)
      PROVE  \/ QueuedLast(r, c, e)
             \/ Head(q).conn = c /\ Head(q).frame = e /\ NoneQueued(r, c)
  <2>1. PICK k \in 1..n : /\ q[k].conn = c /\ q[k].frame = e
                          /\ \A j \in k + 1 .. n : q[j].conn = c => q[j].frame \notin Edges
    BY <1>3 DEF QueuedLast, n
  <2>2. ASSUME NEW j \in k .. Len(r), r[j].conn = c PROVE r[j].frame \notin Edges
    <3>1. j + 1 \in k + 1 .. n /\ j \in 1..Len(r) BY <1>1, <2>1, <2>2
    <3>2. r[j] = q[j + 1] BY <1>1, <3>1
    <3> QED BY <2>1, <2>2, <3>1, <3>2
  <2>3. CASE k = 1 BY <1>1, <2>1, <2>2, <2>3 DEF NoneQueued
  <2>4. CASE k # 1
    <3>1. k - 1 \in 1..Len(r) /\ (k - 1) + 1 = k BY <1>1, <2>4
    <3>2. r[k - 1] = q[k] BY <1>1, <3>1
    <3> QED BY <2>1, <2>2, <3>1, <3>2 DEF QueuedLast
  <2> QED BY <2>3, <2>4
<1>4. ASSUME NoneQueued(q, c)
      PROVE  NoneQueued(r, c) /\ (Head(q).conn = c => Head(q).frame \notin Edges)
  BY <1>1, <1>2, <1>4 DEF NoneQueued, n
<1> QED BY <1>1, <1>2, <1>3, <1>4 DEF r, n

-----------------------------------------------------------------------------
\* Steps that neither send nor take a frame, and raise no connection.
LEMMA CalmStep ==
  ASSUME IInv, EdgeInv, UNCHANGED <<toClient, sendQ, told, clientEdge, dialed>>,
         clientPc' \in {clientPc, "leave"},
         \A c \in Conns :
           /\ up'[c] => up[c]
           /\ conn' = c => conn = c \/ handler'[c] \notin Early
           /\ \/ handler'[c] = handler[c]
              \/ handler'[c] = "none" /\ ~up'[c]
              \/ handler[c] \in Installed \cup {"install"} /\ handler'[c] \in Installed
  PROVE  EdgeInv'
<1>1. UpIsDialed' BY Sequences DEF EdgeInv, UpIsDialed, Installed
<1>2. NothingEarly' BY DEF EdgeInv, NothingEarly, Early, Installed
<1>3. GreetingFirst' BY DEF EdgeInv, GreetingFirst, Installed
<1>4. EdgeOnItsWay'
  <2> SUFFICES ASSUME NEW c \in Conns, up'[c], handler'[c] \in Installed \cup {"install"}
               PROVE  EdgeUnderWay(c)'
    BY DEF EdgeOnItsWay
  <2>1. up[c] /\ handler[c] \in Installed \cup {"install"} BY DEF Installed
  <2>2. EdgeUnderWay(c) BY <2>1 DEF EdgeInv, EdgeOnItsWay
  <2> QED BY <2>2 DEF EdgeUnderWay
<1> QED BY <1>1, <1>2, <1>3, <1>4 DEF EdgeInv

\* Steps that send a frame, an edge only to tell it.
LEMMA SendStep ==
  ASSUME IInv, EdgeInv, NEW m \in Frames, Send(m),
         UNCHANGED <<toClient, clientEdge, dialed, clientPc, conn>>,
         \A c \in Conns : handler'[c] = handler[c] \/ (handler[c] = "resync" /\ handler'[c] = "recv"),
         \A c \in Conns : told'[c] = IF m \in Edges /\ c = conn THEN m ELSE told[c]
  PROVE  EdgeInv'
<1>1. CASE conn = NoConn
  <2>1. \A c \in Conns : told'[c] = told[c] BY <1>1, SessionAssumption
  <2>2. UNCHANGED <<sendQ, up>> BY <1>1 DEF Send, queueVars, Overflow
  <2>3. UpIsDialed' /\ NothingEarly' /\ GreetingFirst'
    BY <2>2 DEF EdgeInv, UpIsDialed, NothingEarly, GreetingFirst, Early
  <2>4. EdgeOnItsWay'
    BY <2>1, <2>2 DEF EdgeInv, EdgeOnItsWay, EdgeUnderWay, Installed
  <2> QED BY <2>3, <2>4 DEF EdgeInv
<1>2. CASE conn # NoConn /\ Overflow
  <2>1. conn \in Conns BY <1>2 DEF IInv, MacInv, MacTypes
  <2>2. \A c \in Conns : up'[c] => up[c] /\ c # conn BY <1>2, <2>1, Sequences DEF Overflow
  <2>3. sendQ' = sendQ BY <1>2 DEF Overflow
  <2>4. UpIsDialed' /\ NothingEarly' /\ GreetingFirst'
    BY <2>2, <2>3 DEF EdgeInv, UpIsDialed, NothingEarly, GreetingFirst, Early
  <2>5. EdgeOnItsWay'
    <3> SUFFICES ASSUME NEW c \in Conns, up'[c], handler'[c] \in Installed \cup {"install"}
                 PROVE  EdgeUnderWay(c)'
      BY DEF EdgeOnItsWay
    <3>1. up[c] /\ handler[c] \in Installed \cup {"install"} /\ told'[c] = told[c]
      BY <2>2 DEF Installed
    <3>2. EdgeUnderWay(c) BY <3>1 DEF EdgeInv, EdgeOnItsWay
    <3> QED BY <2>3, <3>1, <3>2 DEF EdgeUnderWay
  <2> QED BY <2>4, <2>5 DEF EdgeInv
<1>3. CASE /\ conn # NoConn /\ UNCHANGED up
           /\ sendQ' = Append(sendQ, [conn |-> conn, frame |-> m])
  <2>1. conn \in Conns /\ sendQ \in Seq([conn : Conns, frame : Frames])
    BY <1>3, Sequences DEF IInv, MacInv, MacTypes
  <2>2. \A i \in 1..Len(sendQ') : sendQ'[i].conn = conn \/ \E j \in 1..Len(sendQ) : sendQ'[i].conn = sendQ[j].conn
    BY <1>3, <2>1, Queued
  <2>3. NothingEarly' BY <2>2 DEF EdgeInv, NothingEarly, Early
  <2>4. UpIsDialed' /\ GreetingFirst' BY <1>3 DEF EdgeInv, UpIsDialed, GreetingFirst
  <2>5. EdgeOnItsWay'
    <3> SUFFICES ASSUME NEW c \in Conns, up'[c], handler'[c] \in Installed \cup {"install"}
                 PROVE  EdgeUnderWay(c)'
      BY DEF EdgeOnItsWay
    <3>1. up[c] /\ handler[c] \in Installed \cup {"install"} BY <1>3 DEF Installed
    <3>2. EdgeUnderWay(c) BY <3>1 DEF EdgeInv, EdgeOnItsWay
    <3>3. CASE m \in Edges /\ c = conn
      <4>1. QueuedLast(sendQ', c, m) BY <1>3, <2>1, <3>3, Queued
      <4>2. told'[c] = m BY <3>3
      <4> QED BY <4>1, <4>2 DEF EdgeUnderWay
    <3>4. CASE m \notin Edges \/ c # conn
      <4>1. told'[c] = told[c] BY <3>4
      <4>2. /\ QueuedLast(sendQ, c, told[c]) => QueuedLast(sendQ', c, told[c])
            /\ NoneQueued(sendQ, c) => NoneQueued(sendQ', c)
        BY <1>3, <2>1, <3>4, Queued
      <4> QED BY <3>2, <4>1, <4>2 DEF EdgeUnderWay
    <3> QED BY <3>3, <3>4
  <2> QED BY <2>3, <2>4, <2>5 DEF EdgeInv
<1> QED BY <1>1, <1>2, <1>3 DEF Send

LEMMA EngineEdge ==
  ASSUME IInv, EdgeInv, HandOver \/ TakeBack \/ ForwardKey \/ SetRemoteEdge \/ SendEdge
  PROVE  EdgeInv'
<1>1. CASE HandOver \/ TakeBack \/ ForwardKey
  <2>1. PICK m \in {"remote", "back", "press", "release"} : Send(m)
    BY <1>1 DEF HandOver, TakeBack, ForwardKey
  <2>2. m \in Frames /\ m \notin Edges BY <2>1 DEF Frames, Edges
  <2>3. UNCHANGED <<toClient, clientEdge, dialed, clientPc, conn, handler, told>>
    BY <1>1 DEF HandOver, TakeBack, ForwardKey, layoutVars, clientVars
  <2> QED BY <2>1, <2>2, <2>3, SendStep
<1>2. CASE SetRemoteEdge
  <2>1. UNCHANGED <<toClient, sendQ, told, clientEdge, dialed, clientPc, conn, handler, up>>
    BY <1>2 DEF SetRemoteEdge, netVars, clientVars
  <2> QED BY <2>1, CalmStep
<1>3. CASE SendEdge
  <2>1. Opposite(edge) \in Frames /\ Opposite(edge) \in Edges
    BY DEF Opposite, Edges, Frames
  <2>2. Send(Opposite(edge)) /\ UNCHANGED <<toClient, clientEdge, dialed, clientPc, conn, handler>>
    BY <1>3 DEF SendEdge, clientVars
  <2>3. \A c \in Conns : told'[c] = IF c = conn THEN Opposite(edge) ELSE told[c]
    BY <1>3 DEF SendEdge
  <2> QED BY <2>1, <2>2, <2>3, SendStep
<1> QED BY <1>1, <1>2, <1>3

LEMMA WriterEdge == ASSUME IInv, EdgeInv, WriterStep PROVE EdgeInv'
<1> DEFINE d == Head(sendQ).conn
           m == Head(sendQ).frame
<1>1. /\ sendQ # <<>> /\ sendQ' = Tail(sendQ) /\ sendQ \in Seq([conn : Conns, frame : Frames])
      /\ UNCHANGED <<told, clientEdge, dialed, clientPc, handler>>
  BY Sequences DEF WriterStep, Write, WriteError, layoutVars, clientVars
<1>2. d \in Conns /\ m \in Frames BY <1>1, Channels DEF IInv, MacInv, MacTypes
<1>3. /\ \A i \in 1..Len(sendQ') : \E j \in 1..Len(sendQ) : sendQ'[i] = sendQ[j]
      /\ \E j \in 1..Len(sendQ) : Head(sendQ) = sendQ[j]
  BY <1>1, Unqueued
<1>4. /\ \A c \in Conns : /\ up'[c] => up[c]
                          /\ toClient'[c] = IF c = d /\ up'[c] THEN Append(toClient[c], m) ELSE toClient[c]
      /\ conn' \in {conn, NoConn}
  <2>1. CASE Write BY <1>2, <2>1, Sequences DEF Write, Written
  <2>2. CASE WriteError BY <1>2, <2>2, Sequences DEF WriteError, DropBegin
  <2> QED BY <2>1, <2>2 DEF WriterStep
<1> HIDE DEF d, m
<1>5. \A c \in Conns : handler[c] \in Early => d # c
  BY <1>3 DEF EdgeInv, NothingEarly, d
<1>6. NothingEarly'
  <2>1. NoConn \notin Conns BY SessionAssumption
  <2> QED BY <1>1, <1>3, <1>4, <2>1 DEF EdgeInv, NothingEarly
<1>7. UpIsDialed' BY <1>1, <1>4 DEF EdgeInv, UpIsDialed
<1>8. GreetingFirst'
  <2> SUFFICES ASSUME NEW c \in Conns, up'[c]
               PROVE /\ handler[c] = "handshake" => toClient'[c] = <<>> /\ clientPc # "serve"
                     /\ handler[c] # "handshake" /\ clientPc = "greet" =>
                          toClient'[c] # <<>> /\ toClient'[c][1] = "hello"
    BY <1>1 DEF GreetingFirst
  <2>1. up[c] BY <1>4
  <2>2. CASE c # d BY <1>4, <2>1, <2>2 DEF EdgeInv, GreetingFirst
  <2>3. CASE c = d
    <3>1. handler[c] # "handshake" BY <1>5, <2>3 DEF Early
    <3>2. toClient'[c] = Append(toClient[c], m) /\ toClient[c] \in Seq(Frames)
      BY <1>4, <2>3, Sequences
    <3>3. /\ toClient'[c] # <<>>
          /\ toClient[c] # <<>> => toClient'[c][1] = toClient[c][1]
      BY <1>2, <3>2, Appended
    <3> QED BY <2>1, <3>1, <3>3 DEF EdgeInv, GreetingFirst
  <2> QED BY <2>2, <2>3
<1>9. EdgeOnItsWay'
  <2> SUFFICES ASSUME NEW c \in Conns, up'[c], handler'[c] \in Installed \cup {"install"}
               PROVE  EdgeUnderWay(c)'
    BY DEF EdgeOnItsWay
  <2>1. up[c] /\ EdgeUnderWay(c) BY <1>1, <1>4 DEF EdgeInv, EdgeOnItsWay
  <2>2. /\ QueuedLast(sendQ, c, told[c]) =>
             \/ QueuedLast(sendQ', c, told[c])
             \/ d = c /\ m = told[c] /\ NoneQueued(sendQ', c)
        /\ NoneQueued(sendQ, c) => NoneQueued(sendQ', c) /\ (d = c => m \notin Edges)
    BY <1>1, Unqueued DEF d, m
  <2>3. told[c] \in Edges /\ told'[c] = told[c] /\ clientEdge' = clientEdge BY <1>1, Sequences
  <2>4. CASE QueuedLast(sendQ', c, told[c]) BY <2>3, <2>4 DEF EdgeUnderWay
  <2>5. CASE ~QueuedLast(sendQ', c, told[c]) /\ c # d
    <3>1. toClient'[c] = toClient[c] BY <1>4, <2>5
    <3> QED BY <2>1, <2>2, <2>3, <2>5, <3>1 DEF EdgeUnderWay
  <2>6. CASE ~QueuedLast(sendQ', c, told[c]) /\ c = d
    <3>1. toClient'[c] = Append(toClient[c], m) /\ toClient[c] \in Seq(Frames)
      BY <1>4, <2>6, Sequences
    <3>2. NoneQueued(sendQ', c) BY <2>1, <2>2, <2>6 DEF EdgeUnderWay
    <3>3. CASE m = told[c]
      <4>1. LastIs(toClient'[c], told[c]) BY <1>2, <2>3, <3>1, <3>3, Appended
      <4> QED BY <2>3, <3>2, <4>1 DEF EdgeUnderWay
    <3>4. CASE m # told[c]
      <4>1. NoneQueued(sendQ, c) /\ m \notin Edges BY <2>1, <2>2, <2>6, <3>4 DEF EdgeUnderWay
      <4>2. ~QueuedLast(sendQ, c, told[c]) BY <2>2, <2>6, <3>4
      <4>3. LastIs(toClient[c], told[c]) \/ (NoEdge(toClient[c]) /\ clientEdge = told[c])
        BY <2>1, <4>2 DEF EdgeUnderWay
      <4>4. LastIs(toClient'[c], told[c]) \/ (NoEdge(toClient'[c]) /\ clientEdge = told[c])
        BY <1>2, <3>1, <4>1, <4>3, Appended
      <4> QED BY <2>3, <3>2, <4>4 DEF EdgeUnderWay
    <3> QED BY <3>3, <3>4
  <2> QED BY <2>4, <2>5, <2>6
<1> QED BY <1>6, <1>7, <1>8, <1>9 DEF EdgeInv
-----------------------------------------------------------------------------
\* The handler greets the client: the edge is the last frame of the greeting.
LEMMA GreetEdges ==
  ASSUME IInv, EdgeInv, NEW c \in Conns, Greet(c) \/ GreetEdge(c)
  PROVE  EdgeInv'
<1> DEFINE m == IF handler[c] = "handshake" THEN "hello" ELSE Opposite(edge)
<1>1. /\ UNCHANGED <<sendQ, conn, up, dialed, clientPc, clientEdge>>
      /\ handler[c] \in {"handshake", "edge"} /\ Written(c, m)
      /\ handler'[c] = IF handler[c] = "handshake" THEN "edge" ELSE "install"
      /\ \A x \in Conns : x # c => handler'[x] = handler[x] /\ told'[x] = told[x]
      /\ handler[c] = "edge" => told'[c] = m
  BY Sequences DEF Greet, GreetEdge, At, clientVars, layoutVars
<1>2. m \in Frames /\ (handler[c] = "edge" => m \in Edges)
  BY DEF Opposite, Edges, Frames
<1>3. \A x \in Conns : toClient'[x] = IF x = c /\ up[c] THEN Append(toClient[c], m) ELSE toClient[x]
  BY <1>1, Sequences DEF Written
<1>4. UpIsDialed' BY <1>1 DEF EdgeInv, UpIsDialed
<1>5. NothingEarly' BY <1>1 DEF EdgeInv, NothingEarly, Early
<1>6. toClient[c] \in Seq(Frames) BY Sequences
<1>7. GreetingFirst'
  <2> SUFFICES ASSUME NEW x \in Conns, up'[x]
               PROVE /\ handler'[x] = "handshake" => toClient'[x] = <<>> /\ clientPc' # "serve"
                     /\ handler'[x] # "handshake" /\ clientPc' = "greet" =>
                          toClient'[x] # <<>> /\ toClient'[x][1] = "hello"
    BY DEF GreetingFirst
  <2>1. up[x] BY <1>1
  <2>2. CASE x # c BY <1>1, <1>3, <2>1, <2>2 DEF EdgeInv, GreetingFirst
  <2>3. CASE x = c
    <3>1. toClient'[c] = Append(toClient[c], m) BY <1>3, <2>1, <2>3
    <3>2. /\ Append(toClient[c], m) # <<>>
          /\ toClient[c] # <<>> => Append(toClient[c], m)[1] = toClient[c][1]
          /\ toClient[c] = <<>> => Append(toClient[c], m)[1] = m
      BY <1>2, <1>6, Appended
    <3>3. handler[c] = "handshake" => toClient[c] = <<>> /\ m = "hello"
      BY <2>1, <2>3 DEF EdgeInv, GreetingFirst
    <3>4. handler[c] = "edge" /\ clientPc = "greet" => toClient[c] # <<>> /\ toClient[c][1] = "hello"
      BY <2>1, <2>3 DEF EdgeInv, GreetingFirst
    <3> HIDE DEF m
    <3> QED BY <1>1, <2>3, <3>1, <3>2, <3>3, <3>4
  <2> QED BY <2>2, <2>3
<1>8. EdgeOnItsWay'
  <2> SUFFICES ASSUME NEW x \in Conns, up'[x], handler'[x] \in Installed \cup {"install"}
               PROVE  EdgeUnderWay(x)'
    BY DEF EdgeOnItsWay
  <2>1. up[x] BY <1>1
  <2>2. CASE x # c
    <3>1. EdgeUnderWay(x) BY <1>1, <2>1, <2>2 DEF EdgeInv, EdgeOnItsWay
    <3> QED BY <1>1, <1>3, <2>2, <3>1 DEF EdgeUnderWay
  <2>3. CASE x = c
    <3>1. handler[c] = "edge" BY <1>1, <2>3 DEF Installed
    <3>2. toClient'[c] = Append(toClient[c], m) BY <1>3, <2>1, <2>3
    <3>3. LastIs(toClient'[c], told'[c]) BY <1>1, <1>2, <1>6, <3>1, <3>2, Appended
    <3>4. NoneQueued(sendQ, c) BY <3>1 DEF EdgeInv, NothingEarly, Early, NoneQueued
    <3> QED BY <1>1, <2>3, <3>3, <3>4 DEF EdgeUnderWay
  <2> QED BY <2>2, <2>3
<1> QED BY <1>4, <1>5, <1>7, <1>8 DEF EdgeInv

\* The later parts of dropConn.
LEMMA DropEdge == ASSUME IInv, EdgeInv, NEW d \in Droppers, DropStep(d) PROVE EdgeInv'
<1>1. UNCHANGED <<toClient, sendQ, told, clientEdge, dialed, clientPc, up, conn, handler>>
  BY DEF DropStep, DropReset, DropStatus, layoutVars, netVars, clientVars
<1> QED BY <1>1, CalmStep

\* The handler goes on or gives up, or the network fails.
LEMMA HandlerEdge ==
  ASSUME IInv, EdgeInv, NEW c \in Conns,
         SetConn(c) \/ ShowConnected(c) \/ RecvEnds(c) \/ GreetFails(c) \/ NetFails(c)
  PROVE  EdgeInv'
<1>1. UNCHANGED <<toClient, sendQ, told, clientEdge, dialed, clientPc>>
  BY DEF SetConn, ShowConnected, RecvEnds, GreetFails, NetFails, serverVars, layoutVars,
     netVars, clientVars
<1>2. /\ up \in [Conns -> BOOLEAN] /\ NoConn \notin Conns
      /\ handler \in [Conns -> {"none"} \cup Early \cup Installed]
  BY Sequences, SessionAssumption
<1>3. ASSUME NEW x \in Conns
      PROVE  /\ up'[x] => up[x]
             /\ conn' = x => conn = x \/ handler'[x] \notin Early
             /\ \/ handler'[x] = handler[x]
                \/ handler'[x] = "none" /\ ~up'[x]
                \/ handler[x] \in Installed \cup {"install"} /\ handler'[x] \in Installed
  <2>1. CASE SetConn(c) \/ ShowConnected(c)
    BY <1>2, <2>1 DEF SetConn, ShowConnected, At, netVars, Early, Installed
  <2>2. CASE RecvEnds(c) BY <1>2, <2>2 DEF RecvEnds, At, DropBegin
  <2>3. CASE GreetFails(c) BY <1>2, <2>3 DEF GreetFails
  <2>4. CASE NetFails(c) BY <1>2, <2>4 DEF NetFails, serverVars
  <2> QED BY <2>1, <2>2, <2>3, <2>4
<1> QED BY <1>1, <1>3, CalmStep

\* It tells the client the mode, or takes a request of the client.
LEMMA TellEdge ==
  ASSUME IInv, EdgeInv, NEW c \in Conns, Resync(c) \/ RecvSwitch(c)
  PROVE  EdgeInv'
<1>1. /\ UNCHANGED <<toClient, told, clientEdge, dialed, clientPc, conn>>
      /\ \A x \in Conns : \/ handler'[x] = handler[x]
                          \/ handler[x] = "resync" /\ handler'[x] = "recv"
  BY Sequences DEF Resync, RecvSwitch, At, layoutVars, clientVars
<1>2. CASE Send("remote") \/ Send("back")
  <2>1. PICK m \in {"remote", "back"} : Send(m) BY <1>2
  <2>2. m \in Frames /\ m \notin Edges BY <2>1 DEF Frames, Edges
  <2> QED BY <1>1, <2>1, <2>2, SendStep
<1>3. CASE UNCHANGED <<sendQ, up>>
  <2>1. \A x \in Conns : \/ handler'[x] = handler[x]
                         \/ handler[x] \in Installed /\ handler'[x] \in Installed
    BY <1>1 DEF Installed
  <2> QED BY <1>1, <1>3, <2>1, CalmStep
<1> QED BY <1>2, <1>3 DEF Resync, RecvSwitch, queueVars

\* A new connection is up, and no other.
LEMMA DialEdge == ASSUME IInv, EdgeInv, NEW c \in Conns, Dial(c) PROVE EdgeInv'
<1>1. /\ UNCHANGED <<sendQ, conn, told, clientEdge>>
      /\ clientPc = "idle" /\ clientPc' = "greet" /\ dialed' = c
      /\ \A x \in Conns : /\ handler'[x] = IF x = c THEN "handshake" ELSE handler[x]
                          /\ up'[x] = (x = c \/ up[x])
                          /\ toClient'[x] = IF x = c THEN <<>> ELSE toClient[x]
  BY Sequences DEF Dial, layoutVars
<1>2. \A x \in Conns : up'[x] => x = c BY <1>1 DEF EdgeInv, UpIsDialed
<1>3. conn # c /\ \A i \in 1..Len(sendQ) : sendQ[i].conn # c
  BY Sequences, LenProperties DEF Dial, Unused
<1>4. UpIsDialed' BY <1>1, <1>2 DEF UpIsDialed
<1>5. NothingEarly' BY <1>1, <1>3 DEF EdgeInv, NothingEarly
<1>6. GreetingFirst' BY <1>1, <1>2 DEF GreetingFirst
<1>7. EdgeOnItsWay' BY <1>1, <1>2 DEF EdgeOnItsWay, Installed
<1> QED BY <1>4, <1>5, <1>6, <1>7 DEF EdgeInv

\* The client takes the greeting, and then frame after frame.
LEMMA ServeEdge == ASSUME IInv, EdgeInv, Connected \/ Handle PROVE EdgeInv'
<1> DEFINE m == Head(toClient[dialed])
<1>1. /\ dialed \in Conns /\ toClient[dialed] # <<>> /\ toClient[dialed] \in Seq(Frames)
      /\ UNCHANGED <<sendQ, conn, told, dialed, handler, up>>
      /\ clientPc' = "serve" /\ clientPc \in {"greet", "serve"}
      /\ toClient'[dialed] = Tail(toClient[dialed])
  BY Sequences DEF Connected, Handle, serverVars, layoutVars, IInv, ClientInv, DialedIsConn
<1>2. \A c \in Conns : up[c] => c = dialed BY DEF EdgeInv, UpIsDialed
<1>3. up[dialed] => handler[dialed] # "handshake" BY <1>1 DEF EdgeInv, GreetingFirst
<1>4. /\ m = toClient[dialed][1]
      /\ \A e : LastIs(toClient[dialed], e) =>
           LastIs(Tail(toClient[dialed]), e) \/ (m = e /\ NoEdge(Tail(toClient[dialed])))
      /\ NoEdge(toClient[dialed]) => m \notin Edges /\ NoEdge(Tail(toClient[dialed]))
  BY <1>1, Taken
<1>5. up[dialed] => clientEdge' = IF m \in Edges THEN m ELSE clientEdge
  <2> SUFFICES ASSUME up[dialed] PROVE clientEdge' = IF m \in Edges THEN m ELSE clientEdge
    OBVIOUS
  <2>1. CASE Connected
    <3>1. m = "hello" BY <1>1, <1>3, <1>4, <2>1 DEF Connected, EdgeInv, GreetingFirst
    <3> QED BY <2>1, <3>1 DEF Connected, Edges
  <2>2. CASE Handle BY <2>2 DEF Handle, Edges
  <2> QED BY <2>1, <2>2
<1> HIDE DEF m
<1>6. UpIsDialed' BY <1>1 DEF EdgeInv, UpIsDialed
<1>7. NothingEarly' BY <1>1 DEF EdgeInv, NothingEarly
<1>8. GreetingFirst' BY <1>1, <1>2, <1>3 DEF GreetingFirst
<1>9. EdgeOnItsWay'
  <2> SUFFICES ASSUME up[dialed], handler[dialed] \in Installed \cup {"install"}
               PROVE  EdgeUnderWay(dialed)'
    BY <1>1, <1>2 DEF EdgeOnItsWay
  <2>1. EdgeUnderWay(dialed) BY <1>1 DEF EdgeInv, EdgeOnItsWay
  <2>2. told[dialed] \in Edges BY <1>1, Sequences
  <2> QED BY <1>1, <1>4, <1>5, <2>1, <2>2 DEF EdgeUnderWay
<1> QED BY <1>6, <1>7, <1>8, <1>9 DEF EdgeInv

\* The client leaves, or a watcher acts: nothing of this is touched but up.
LEMMA LeaveEdge ==
  ASSUME IInv, EdgeInv,
         ReadFails \/ RunOnceEnds \/ \E t \in Tokens : WatchReturns(t) \/ WatchStops(t)
  PROVE  EdgeInv'
<1>1. CASE RunOnceEnds
  <2>1. UNCHANGED <<sendQ, conn, handler>> BY <1>1 DEF RunOnceEnds, serverVars
  <2>2. \A c \in Conns : ~up'[c]
    BY <1>1, Sequences DEF RunOnceEnds, EdgeInv, UpIsDialed
  <2>3. NothingEarly' BY <2>1 DEF EdgeInv, NothingEarly
  <2> QED BY <2>2, <2>3 DEF EdgeInv, UpIsDialed, GreetingFirst, EdgeOnItsWay
<1>2. CASE ReadFails \/ \E t \in Tokens : WatchReturns(t) \/ WatchStops(t)
  <2>1. /\ UNCHANGED <<toClient, sendQ, told, clientEdge, dialed, up, conn, handler>>
        /\ clientPc' \in {clientPc, "leave"}
    BY <1>2 DEF ReadFails, WatchReturns, WatchStops, serverVars, layoutVars, netVars
  <2> QED BY <2>1, CalmStep
<1> QED BY <1>1, <1>2

LEMMA InitEdge == Init => EdgeInv
BY EmptySeq, SessionAssumption
DEF Init, EdgeInv, UpIsDialed, NothingEarly, GreetingFirst, EdgeOnItsWay, Early

LEMMA NextEdge == IInv /\ EdgeInv /\ [Next]_vars => EdgeInv'
<1> SUFFICES ASSUME IInv, EdgeInv, [Next]_vars PROVE EdgeInv' OBVIOUS
<1>1. CASE Next
  BY <1>1, EngineEdge, WriterEdge, GreetEdges, DropEdge, HandlerEdge, TellEdge, DialEdge,
     ServeEdge, LeaveEdge
  DEF Next, HandlerStep
<1>2. CASE UNCHANGED vars
  <2>1. UNCHANGED <<toClient, sendQ, told, clientEdge, dialed, up, conn, handler, clientPc>>
    BY <1>2 DEF vars, serverVars, layoutVars, netVars, clientVars
  <2> QED BY <2>1, CalmStep
<1> QED BY <1>1, <1>2

\* The client watches for the return at the edge that it was told last, in the
\* handshake or by setRemoteEdge (handleConn, writer, handle), for any number
\* of connections that overlap.
THEOREM EdgeAsTold == Spec => []EdgeIsAsTold
<1>1. Init => EdgeInv BY InitEdge
<1>2. IInv /\ EdgeInv /\ [Next]_vars => EdgeInv' BY NextEdge
<1>3. EdgeInv => EdgeIsAsTold
  <2> SUFFICES ASSUME EdgeInv, NEW c \in Conns, Quiet(c) PROVE clientEdge = told[c]
    BY DEF EdgeIsAsTold
  <2>1. EdgeUnderWay(c) BY DEF Quiet, EdgeInv, EdgeOnItsWay, Installed
  <2>2. sendQ = <<>> /\ toClient[c] = <<>> BY DEF Quiet
  <2>3. Len(<<>>) = 0 OBVIOUS
  <2>4. 1..0 = {} OBVIOUS
  <2> QED BY <2>1, <2>2, <2>3, <2>4 DEF EdgeUnderWay, QueuedLast, LastIs
<1> QED BY <1>1, <1>2, <1>3, InvariantIsInductive, PTL DEF Spec
-----------------------------------------------------------------------------
(* Who has control after the frames that are on their way to the client.   *)

KeyFrames == {"press", "release"}

\* After the first i frames of q a client that is remote (r) or not is local.
LocalUntil(q, r, i) ==
  \/ \E j \in 1..i : q[j] = "back" /\ \A n \in j + 1 .. i : q[n] # "remote"
  \/ ~r /\ \A n \in 1..i : q[n] # "remote"

LocalAfter(q, r) == LocalUntil(q, r, Len(q))

\* After q it is remote.
RemoteIn(q, r) ==
  \/ r /\ \A n \in 1..Len(q) : q[n] # "back"
  \/ \E i \in 1..Len(q) : q[i] = "remote" /\ \A n \in i + 1 .. Len(q) : q[n] # "back"

\* The frames of q after the i-th keep the session, and leave k of the key h.
KeyAfter(q, i, h, k) ==
  /\ \A n \in i + 1 .. Len(q) : q[n] # "back"
  /\ \/ \E j \in i + 1 .. Len(q) :
          /\ q[j] = IF k THEN "press" ELSE "release"
          /\ \A n \in j + 1 .. Len(q) : q[n] \notin KeyFrames
     \/ h = k /\ \A n \in i + 1 .. Len(q) : q[n] \notin KeyFrames

\* After q it is remote and holds k of the key: its session goes on, or one
\* starts in q.
RemoteAfter(q, r, h, k) ==
  \/ r /\ KeyAfter(q, 0, h, k)
  \/ \E i \in 1..Len(q) :
       q[i] = "remote" /\ LocalUntil(q, r, i - 1) /\ KeyAfter(q, i, FALSE, k)

\* What the client of C still has to handle: a frame for another connection
\* counts as one that does nothing.
Seen(x, C) == IF x.conn = C THEN x.frame ELSE "hello"
FramesFor(s, C) == [i \in 1..Len(s) |-> Seen(s[i], C)]
Stream(C) == toClient[C] \o FramesFor(sendQ, C)

\* No request of it is on its way, and a later one would be.
NoBack(C) == \A i \in 1..Len(toServer[C]) : toServer[C][i] # "back"
Obeys(C) == NoBack(C) /\ (clientPc = "greet" \/ ~wedged)

\* How the connection, the handlers and the mode go together.
Routes(C) ==
  /\ mode = Local => ~key
  /\ up[C] /\ handler[C] \in Installed => conn = C
  /\ conn = C => handler[C] \in Installed
  /\ clientPc = "serve" => clientConn = dialed
  /\ clientPc # "serve" => clientConn = NoConn

\* Where no connection overlaps the end of another, the drops go with it too.
Alone(C) ==
  Conns = {C} =>
    /\ conn = C \/ handler[C] \in Early => \A d \in Droppers : dropPc[d] = "no"
    /\ conn = NoConn => mode = Local \/ \E d \in Droppers : dropPc[d] = "reset"
    /\ ~missed

\* The stream leaves the client under local control; or it hands it control,
\* and no more of the key than the Mac holds.
LocalSoon(C) == LocalAfter(Stream(C), remote)
RemoteSoon(C) ==
  /\ RemoteIn(Stream(C), remote)
  /\ ~missed => \E k \in {key, FALSE} : /\ Conns = {C} => k = key
                                        /\ RemoteAfter(Stream(C), remote, held, k)

\* Before the client is installed nothing gives it control.  Afterwards the
\* stream brings it to where the Mac is, or the re-sync is still to come, or a
\* request is on its way; a client that missed a reset is left out while the
\* Mac is local.
Agreed(C) ==
  up[C] /\ clientPc \in {"greet", "serve"} =>
    /\ handler[C] \in Early => LocalAfter(toClient[C], remote)
    /\ handler[C] \in Installed =>
         /\ mode = Local /\ ~missed => LocalSoon(C)
         /\ mode = Remote /\ Obeys(C) =>
              \/ handler[C] # "recv" /\ Conns # {C} /\ LocalSoon(C)
              \/ RemoteSoon(C)

ControlInv(C) == Routes(C) /\ Alone(C) /\ Agreed(C)

LEMMA SeenIsFrame ==
  \A x \in [conn : Conns, frame : Frames] : \A C : Seen(x, C) \in Frames
BY DEF Seen, Frames

LEMMA FramesOfQueue ==
  ASSUME NEW s \in Seq([conn : Conns, frame : Frames]), NEW C
  PROVE  /\ FramesFor(s, C) \in Seq(Frames) /\ Len(FramesFor(s, C)) = Len(s)
         /\ \A i \in 1..Len(s) : FramesFor(s, C)[i] = Seen(s[i], C)
<1>1. Len(s) \in Nat /\ \A i \in 1..Len(s) : s[i] \in [conn : Conns, frame : Frames]
  BY LenProperties, ElementOfSeq
<1>2. \A i \in 1..Len(s) : Seen(s[i], C) \in Frames BY <1>1, SeenIsFrame
<1>3. FramesFor(s, C) \in [1..Len(s) -> Frames] BY <1>2 DEF FramesFor
<1>4. FramesFor(s, C) \in Seq(Frames) BY <1>1, <1>3, SeqDef
<1>5. DOMAIN FramesFor(s, C) = 1..Len(s) /\ DOMAIN FramesFor(s, C) = 1..Len(FramesFor(s, C))
  BY <1>4, LenProperties DEF FramesFor
<1>6. Len(FramesFor(s, C)) = Len(s) BY <1>1, <1>4, <1>5, LenProperties
<1> QED BY <1>4, <1>6 DEF FramesFor

\* Two frame sequences one after the other, element by element.
LEMMA Joined ==
  ASSUME NEW p \in Seq(Frames), NEW r \in Seq(Frames)
  PROVE  /\ p \o r \in Seq(Frames) /\ Len(p \o r) = Len(p) + Len(r)
         /\ Len(p) \in Nat /\ Len(r) \in Nat
         /\ \A i \in 1..Len(p) : (p \o r)[i] = p[i]
         /\ \A i \in Len(p) + 1 .. Len(p) + Len(r) : (p \o r)[i] = r[i - Len(p)]
<1>1. Len(p) \in Nat /\ Len(r) \in Nat BY LenProperties
<1> QED BY <1>1, ConcatProperties

\* send adds a frame at the end of the stream.
LEMMA StreamGrows ==
  ASSUME NEW p \in Seq(Frames), NEW s \in Seq([conn : Conns, frame : Frames]),
         NEW x \in [conn : Conns, frame : Frames], NEW C
  PROVE  p \o FramesFor(Append(s, x), C) = Append(p \o FramesFor(s, C), Seen(x, C))
<1> DEFINE r == FramesFor(s, C)
           t == FramesFor(Append(s, x), C)
           n == Len(s)
           m == Len(p)
<1>1. /\ n \in Nat /\ Append(s, x) \in Seq([conn : Conns, frame : Frames])
      /\ Len(Append(s, x)) = n + 1 /\ Append(s, x)[n + 1] = x
      /\ \A i \in 1..n : Append(s, x)[i] = s[i]
  BY AppendProperties, LenProperties
<1>2. /\ r \in Seq(Frames) /\ Len(r) = n /\ \A i \in 1..n : r[i] = Seen(s[i], C)
      /\ t \in Seq(Frames) /\ Len(t) = n + 1 /\ \A i \in 1..n + 1 : t[i] = Seen(Append(s, x)[i], C)
  BY <1>1, FramesOfQueue
<1>3. (\A i \in 1..n : t[i] = r[i]) /\ t[n + 1] = Seen(x, C)
  <2>1. n + 1 \in 1..n + 1 /\ \A i \in 1..n : i \in 1..n + 1 BY <1>1
  <2> QED BY <1>1, <1>2, <2>1
<1>4. Seen(x, C) \in Frames BY SeenIsFrame
<1> HIDE DEF r, t, n, m
<1>5. /\ m \in Nat /\ p \o r \in Seq(Frames) /\ Len(p \o r) = m + n
      /\ p \o t \in Seq(Frames) /\ Len(p \o t) = m + (n + 1)
      /\ \A i \in 1..m : (p \o r)[i] = p[i] /\ (p \o t)[i] = p[i]
      /\ \A i \in m + 1 .. m + n : (p \o r)[i] = r[i - m]
      /\ \A i \in m + 1 .. m + (n + 1) : (p \o t)[i] = t[i - m]
  <2>1. /\ m \in Nat /\ p \o r \in Seq(Frames) /\ Len(p \o r) = m + Len(r)
        /\ \A i \in 1..m : (p \o r)[i] = p[i]
        /\ \A i \in m + 1 .. m + Len(r) : (p \o r)[i] = r[i - m]
    BY <1>2, Joined DEF m
  <2>2. /\ p \o t \in Seq(Frames) /\ Len(p \o t) = m + Len(t)
        /\ \A i \in 1..m : (p \o t)[i] = p[i]
        /\ \A i \in m + 1 .. m + Len(t) : (p \o t)[i] = t[i - m]
    BY <1>2, Joined DEF m
  <2>3. Len(r) = n /\ Len(t) = n + 1 BY <1>2
  <2> QED BY <2>1, <2>2, <2>3
<1> DEFINE u == Append(p \o r, Seen(x, C))
<1>6. /\ u \in Seq(Frames) /\ Len(u) = m + n + 1 /\ u[m + n + 1] = Seen(x, C)
      /\ \A i \in 1..m + n : u[i] = (p \o r)[i]
  BY <1>4, <1>5, AppendProperties
<1> HIDE DEF u
<1>7. ASSUME NEW i \in 1..Len(p \o t) PROVE (p \o t)[i] = u[i]
  <2>1. CASE i \in 1..m
    <3>1. i \in 1..m + n BY <1>1, <1>5, <2>1
    <3> QED BY <1>5, <1>6, <2>1, <3>1
  <2>2. CASE i \in m + 1 .. m + n
    <3>1. i - m \in 1..n /\ i \in 1..m + n /\ i \in m + 1 .. m + (n + 1) BY <1>1, <1>5, <2>2
    <3> QED BY <1>3, <1>5, <1>6, <2>2, <3>1
  <2>3. CASE i = m + n + 1
    <3>1. i - m = n + 1 /\ i \in m + 1 .. m + (n + 1) BY <1>1, <1>5, <2>3
    <3> QED BY <1>3, <1>5, <1>6, <2>3, <3>1
  <2>4. n \in Nat /\ m \in Nat /\ Len(p \o t) = m + (n + 1) BY <1>1, <1>5
  <2>5. i \in 1..m \/ i \in m + 1 .. m + n \/ i = m + n + 1 BY <1>7, <2>4
  <2> QED BY <2>1, <2>2, <2>3, <2>5
<1>8. Len(p \o t) = Len(u) BY <1>1, <1>5, <1>6
<1>9. p \o t = u BY <1>5, <1>6, <1>7, <1>8, SeqEqual
<1> QED BY <1>9 DEF u, t, r

\* The writer moves a frame from the queue to the connection; one for another
\* connection counts as the neutral frame.
LEMMA StreamStays ==
  ASSUME NEW p \in Seq(Frames), NEW s \in Seq([conn : Conns, frame : Frames]), s # <<>>,
         NEW C
  PROVE  Append(p, Seen(Head(s), C)) \o FramesFor(Tail(s), C) = p \o FramesFor(s, C)
<1> DEFINE r == FramesFor(s, C)
           t == FramesFor(Tail(s), C)
           q == Append(p, Seen(Head(s), C))
           n == Len(s)
           m == Len(p)
<1>1. /\ n \in Nat \ {0} /\ Tail(s) \in Seq([conn : Conns, frame : Frames])
      /\ Head(s) = s[1] /\ Head(s) \in [conn : Conns, frame : Frames]
      /\ Len(Tail(s)) = n - 1 /\ \A i \in 1..n - 1 : Tail(s)[i] = s[i + 1]
  <2> DEFINE S == [conn : Conns, frame : Frames]
  <2>1. s \in Seq(S) OBVIOUS
  <2> HIDE DEF S
  <2>2. /\ n \in Nat \ {0} /\ Tail(s) \in Seq(S) /\ Head(s) = s[1] /\ Head(s) \in S
        /\ Len(Tail(s)) = n - 1 /\ \A i \in 1..Len(Tail(s)) : Tail(s)[i] = s[i + 1]
    BY <2>1, HeadTailProperties, EmptySeq
  <2> QED BY <2>2 DEF S
<1>2. /\ r \in Seq(Frames) /\ Len(r) = n /\ \A i \in 1..n : r[i] = Seen(s[i], C)
      /\ t \in Seq(Frames) /\ Len(t) = n - 1 /\ \A i \in 1..n - 1 : t[i] = Seen(Tail(s)[i], C)
  BY <1>1, FramesOfQueue
<1>3. \A i \in 1..n - 1 : i + 1 \in 1..n /\ t[i] = r[i + 1]
  <2>1. \A i \in 1..n - 1 : i + 1 \in 1..n BY <1>1
  <2> QED BY <1>1, <1>2, <2>1
<1>4. Seen(Head(s), C) \in Frames /\ r[1] = Seen(Head(s), C)
  <2>1. 1 \in 1..n BY <1>1
  <2> QED BY <1>1, <1>2, <2>1, SeenIsFrame
<1>5. /\ m \in Nat /\ q \in Seq(Frames) /\ Len(q) = m + 1 /\ q[m + 1] = Seen(Head(s), C)
      /\ \A i \in 1..m : q[i] = p[i]
  BY <1>4, AppendProperties, LenProperties
<1> HIDE DEF r, t, q, n, m
<1>6. /\ p \o r \in Seq(Frames) /\ Len(p \o r) = m + n
      /\ q \o t \in Seq(Frames) /\ Len(q \o t) = (m + 1) + (n - 1)
      /\ \A i \in 1..m : (p \o r)[i] = p[i]
      /\ \A i \in 1..m + 1 : (q \o t)[i] = q[i]
      /\ \A i \in m + 1 .. m + n : (p \o r)[i] = r[i - m]
      /\ \A i \in (m + 1) + 1 .. (m + 1) + (n - 1) : (q \o t)[i] = t[i - (m + 1)]
  <2>1. /\ p \o r \in Seq(Frames) /\ Len(p \o r) = m + Len(r)
        /\ \A i \in 1..m : (p \o r)[i] = p[i]
        /\ \A i \in m + 1 .. m + Len(r) : (p \o r)[i] = r[i - m]
    BY <1>2, Joined DEF m
  <2>2. /\ q \o t \in Seq(Frames) /\ Len(q \o t) = Len(q) + Len(t)
        /\ \A i \in 1..Len(q) : (q \o t)[i] = q[i]
        /\ \A i \in Len(q) + 1 .. Len(q) + Len(t) : (q \o t)[i] = t[i - Len(q)]
    BY <1>2, <1>5, Joined
  <2>3. Len(r) = n /\ Len(t) = n - 1 /\ Len(q) = m + 1 BY <1>2, <1>5
  <2> QED BY <2>1, <2>2, <2>3
<1>7. ASSUME NEW i \in 1..Len(p \o r) PROVE (p \o r)[i] = (q \o t)[i]
  <2>1. CASE i \in 1..m
    <3>1. i \in 1..m + 1 BY <1>5, <2>1
    <3> QED BY <1>5, <1>6, <2>1, <3>1
  <2>2. CASE i = m + 1
    <3>1. i \in 1..m + 1 /\ i \in m + 1 .. m + n /\ i - m = 1 BY <1>1, <1>5, <2>2
    <3> QED BY <1>4, <1>5, <1>6, <2>2, <3>1
  <2>3. CASE i \in m + 2 .. m + n
    <3>1. /\ i \in m + 1 .. m + n /\ i \in (m + 1) + 1 .. (m + 1) + (n - 1)
          /\ i - (m + 1) \in 1..n - 1 /\ (i - (m + 1)) + 1 = i - m
      <4>1. n \in Int /\ m \in Int BY <1>1, <1>5
      <4> QED BY <2>3, <4>1
    <3> QED BY <1>3, <1>6, <3>1
  <2>4. n \in Nat /\ m \in Nat /\ Len(p \o r) = m + n BY <1>1, <1>5, <1>6
  <2>5. i \in 1..m \/ i = m + 1 \/ i \in m + 2 .. m + n BY <1>7, <2>4
  <2> QED BY <2>1, <2>2, <2>3, <2>5
<1>8. Len(p \o r) = Len(q \o t) BY <1>1, <1>5, <1>6
<1>9. p \o r = q \o t BY <1>6, <1>7, <1>8, SeqEqual
<1> QED BY <1>9 DEF q, t, r

\* The client takes the first frame.
LEMMA StreamShrinks ==
  ASSUME NEW p \in Seq(Frames), NEW r \in Seq(Frames), p # <<>>
  PROVE  p \o r # <<>> /\ Head(p \o r) = Head(p) /\ Tail(p \o r) = Tail(p) \o r
<1> DEFINE n == Len(r)
           m == Len(p)
           u == p \o r
           q == Tail(p)
<1>1. /\ n \in Nat /\ m \in Nat \ {0} /\ Head(p) = p[1] /\ q \in Seq(Frames)
      /\ Len(q) = m - 1 /\ \A i \in 1..m - 1 : q[i] = p[i + 1]
  BY HeadTailProperties, EmptySeq, LenProperties
<1>2. /\ u \in Seq(Frames) /\ Len(u) = m + n
      /\ \A i \in 1..m : u[i] = p[i]
      /\ \A i \in m + 1 .. m + n : u[i] = r[i - m]
      /\ q \o r \in Seq(Frames) /\ Len(q \o r) = (m - 1) + n
      /\ \A i \in 1..m - 1 : (q \o r)[i] = q[i]
      /\ \A i \in (m - 1) + 1 .. (m - 1) + n : (q \o r)[i] = r[i - (m - 1)]
  BY <1>1, Joined
<1>3. u # <<>> /\ 1 \in 1..m BY <1>1, <1>2, EmptySeq
<1>4. /\ Head(u) = u[1] /\ Tail(u) \in Seq(Frames) /\ Len(Tail(u)) = m + n - 1
      /\ \A i \in 1..m + n - 1 : Tail(u)[i] = u[i + 1]
  BY <1>2, <1>3, HeadTailProperties
<1>5. Head(u) = Head(p) BY <1>1, <1>2, <1>3, <1>4
<1> HIDE DEF n, m, u, q
<1>6. ASSUME NEW i \in 1..Len(Tail(u)) PROVE Tail(u)[i] = (q \o r)[i]
  <2>1. CASE i \in 1..m - 1
    <3>1. i + 1 \in 1..m /\ i \in 1..m + n - 1 BY <1>1, <2>1
    <3> QED BY <1>1, <1>2, <1>4, <2>1, <3>1
  <2>2. CASE i \in m .. m + n - 1
    <3>1. /\ i + 1 \in m + 1 .. m + n /\ i \in 1..m + n - 1
          /\ i \in (m - 1) + 1 .. (m - 1) + n /\ (i + 1) - m = i - (m - 1)
      BY <1>1, <2>2
    <3> QED BY <1>2, <1>4, <3>1
  <2>3. n \in Nat /\ m \in Nat /\ Len(Tail(u)) = m + n - 1 BY <1>1, <1>4
  <2>4. i \in 1..m - 1 \/ i \in m .. m + n - 1 BY <1>6, <2>3
  <2> QED BY <2>1, <2>2, <2>4
<1>7. Len(Tail(u)) = Len(q \o r) BY <1>1, <1>2, <1>4
<1>8. Tail(u) = q \o r BY <1>2, <1>4, <1>6, <1>7, SeqEqual
<1> QED BY <1>3, <1>5, <1>8 DEF u, q

\* A frame more at the end: what it does to where the client will be.
LEMMA AfterAppend ==
  ASSUME NEW q \in Seq(Frames), NEW f \in Frames, NEW r, NEW h, NEW k \in BOOLEAN
  PROVE  /\ f # "remote" /\ LocalAfter(q, r) => LocalAfter(Append(q, f), r)
         /\ f = "back" => LocalAfter(Append(q, f), r)
         /\ f = "remote" /\ LocalAfter(q, r) => RemoteAfter(Append(q, f), r, h, FALSE)
         /\ f # "back" /\ f \notin KeyFrames /\ RemoteAfter(q, r, h, k) =>
              RemoteAfter(Append(q, f), r, h, k)
         /\ f = "press" /\ RemoteAfter(q, r, h, k) => RemoteAfter(Append(q, f), r, h, TRUE)
         /\ f = "release" /\ RemoteAfter(q, r, h, k) => RemoteAfter(Append(q, f), r, h, FALSE)
<1> DEFINE u == Append(q, f)
           m == Len(q)
<1>1. m \in Nat /\ Len(u) = m + 1 /\ u[m + 1] = f /\ \A i \in 1..m : u[i] = q[i]
  BY AppendProperties, LenProperties
<1> HIDE DEF u, m
<1>2. ASSUME NEW i \in 0..m, LocalUntil(q, r, i) PROVE LocalUntil(u, r, i)
  <2>1. \A j \in 1..i : j \in 1..m /\ u[j] = q[j] BY <1>1, <1>2
  <2>2. \A j \in 1..i : \A n \in j + 1 .. i : n \in 1..i BY <1>2
  <2> QED BY <1>2, <2>1, <2>2 DEF LocalUntil
<1>3. ASSUME f # "remote", LocalAfter(q, r) PROVE LocalAfter(u, r)
  <2>1. m \in 0..m BY <1>1
  <2>2. LocalUntil(u, r, m) BY <1>2, <1>3, <2>1 DEF LocalAfter, m
  <2>3. ASSUME NEW j \in 1..m, u[j] = "back", \A n \in j + 1 .. m : u[n] # "remote"
        PROVE  LocalUntil(u, r, m + 1)
    <3>1. j \in 1..m + 1 BY <1>1
    <3>2. \A n \in j + 1 .. m + 1 : n \in j + 1 .. m \/ n = m + 1 BY <1>1
    <3> QED BY <1>1, <1>3, <2>3, <3>1, <3>2 DEF LocalUntil
  <2>4. ASSUME ~r, \A n \in 1..m : u[n] # "remote" PROVE LocalUntil(u, r, m + 1)
    <3>1. \A n \in 1..m + 1 : n \in 1..m \/ n = m + 1 BY <1>1
    <3> QED BY <1>1, <1>3, <2>4, <3>1 DEF LocalUntil
  <2>5. LocalUntil(u, r, m + 1) BY <2>2, <2>3, <2>4 DEF LocalUntil
  <2> QED BY <1>1, <2>5 DEF LocalAfter
<1>4. ASSUME f = "back" PROVE LocalAfter(u, r)
  <2>1. m + 1 \in 1..m + 1 /\ (m + 1) + 1 .. m + 1 = {} BY <1>1
  <2>2. LocalUntil(u, r, m + 1) BY <1>1, <1>4, <2>1 DEF LocalUntil
  <2> QED BY <1>1, <2>2 DEF LocalAfter
<1>5. ASSUME f = "remote", LocalAfter(q, r) PROVE RemoteAfter(u, r, h, FALSE)
  <2>1. m \in 0..m /\ m + 1 \in 1..Len(u) /\ (m + 1) - 1 = m /\ (m + 1) + 1 .. Len(u) = {}
    BY <1>1
  <2>2. LocalUntil(u, r, m) BY <1>2, <1>5, <2>1 DEF LocalAfter, m
  <2>3. KeyAfter(u, m + 1, FALSE, FALSE) BY <2>1 DEF KeyAfter
  <2> QED BY <1>1, <1>5, <2>1, <2>2, <2>3 DEF RemoteAfter
<1>6. ASSUME f # "back", f \notin KeyFrames, NEW g \in BOOLEAN \cup {h}, NEW i \in 0..m,
             KeyAfter(q, i, g, k)
      PROVE  KeyAfter(u, i, g, k)
  <2>1. /\ \A n \in i + 1 .. m : n \in 1..m /\ u[n] = q[n]
        /\ \A n \in i + 1 .. m + 1 : n \in i + 1 .. m \/ n = m + 1
        /\ \A j \in i + 1 .. m : /\ j \in i + 1 .. m + 1
                                 /\ \A n \in j + 1 .. m + 1 : n \in j + 1 .. m \/ n = m + 1
                                 /\ \A n \in j + 1 .. m : n \in i + 1 .. m
    BY <1>1
  <2>2. \A n \in i + 1 .. m + 1 : u[n] # "back" BY <1>1, <1>6, <2>1 DEF KeyAfter, m
  <2>3. ASSUME NEW j \in i + 1 .. m, q[j] = (IF k THEN "press" ELSE "release"),
               \A n \in j + 1 .. m : q[n] \notin KeyFrames
        PROVE  KeyAfter(u, i, g, k)
    <3>1. u[j] = q[j] /\ j \in i + 1 .. m + 1 BY <2>1
    <3>2. \A n \in j + 1 .. m + 1 : u[n] \notin KeyFrames
      BY <1>1, <1>6, <2>1, <2>3 DEF KeyFrames
    <3> QED BY <1>1, <2>2, <2>3, <3>1, <3>2 DEF KeyAfter
  <2>4. ASSUME g = k, \A n \in i + 1 .. m : q[n] \notin KeyFrames
        PROVE  KeyAfter(u, i, g, k)
    <3>1. \A n \in i + 1 .. m + 1 : u[n] \notin KeyFrames
      BY <1>1, <1>6, <2>1, <2>4 DEF KeyFrames
    <3> QED BY <1>1, <2>2, <2>4, <3>1 DEF KeyAfter
  <2> QED BY <1>6, <2>3, <2>4 DEF KeyAfter, m
<1>7. ASSUME NEW l \in BOOLEAN, f = (IF l THEN "press" ELSE "release"), NEW g, NEW i \in 0..m,
             KeyAfter(q, i, g, k)
      PROVE  KeyAfter(u, i, g, l)
  <2>1. /\ \A n \in i + 1 .. m : n \in 1..m /\ u[n] = q[n]
        /\ \A n \in i + 1 .. m + 1 : n \in i + 1 .. m \/ n = m + 1
        /\ m + 1 \in i + 1 .. m + 1 /\ (m + 1) + 1 .. m + 1 = {}
    BY <1>1
  <2>2. f # "back" BY <1>7
  <2>3. \A n \in i + 1 .. m + 1 : u[n] # "back" BY <1>1, <1>7, <2>1, <2>2 DEF KeyAfter, m
  <2> QED BY <1>1, <1>7, <2>1, <2>3 DEF KeyAfter
<1>8. ASSUME f # "back", f \notin KeyFrames, RemoteAfter(q, r, h, k)
      PROVE  RemoteAfter(u, r, h, k)
  <2>1. CASE r /\ KeyAfter(q, 0, h, k)
    <3>1. 0 \in 0..m BY <1>1
    <3> QED BY <1>6, <1>8, <2>1, <3>1 DEF RemoteAfter
  <2>2. ASSUME NEW i \in 1..m, q[i] = "remote", LocalUntil(q, r, i - 1), KeyAfter(q, i, FALSE, k)
        PROVE  RemoteAfter(u, r, h, k)
    <3>1. i \in 1..Len(u) /\ i \in 0..m /\ i - 1 \in 0..m BY <1>1
    <3> QED BY <1>1, <1>2, <1>6, <1>8, <2>2, <3>1 DEF RemoteAfter
  <2> QED BY <1>8, <2>1, <2>2 DEF RemoteAfter, m
<1>9. ASSUME NEW l \in BOOLEAN, f = (IF l THEN "press" ELSE "release"), RemoteAfter(q, r, h, k)
      PROVE  RemoteAfter(u, r, h, l)
  <2>1. CASE r /\ KeyAfter(q, 0, h, k)
    <3>1. 0 \in 0..m BY <1>1
    <3> QED BY <1>7, <1>9, <2>1, <3>1 DEF RemoteAfter
  <2>2. ASSUME NEW i \in 1..m, q[i] = "remote", LocalUntil(q, r, i - 1), KeyAfter(q, i, FALSE, k)
        PROVE  RemoteAfter(u, r, h, l)
    <3>1. i \in 1..Len(u) /\ i \in 0..m /\ i - 1 \in 0..m BY <1>1
    <3> QED BY <1>1, <1>2, <1>7, <1>9, <2>2, <3>1 DEF RemoteAfter
  <2> QED BY <1>9, <2>1, <2>2 DEF RemoteAfter, m
<1>10. f = "press" /\ RemoteAfter(q, r, h, k) => RemoteAfter(u, r, h, TRUE)
  <2> SUFFICES ASSUME f = "press", RemoteAfter(q, r, h, k) PROVE RemoteAfter(u, r, h, TRUE)
    OBVIOUS
  <2>1. TRUE \in BOOLEAN /\ f = (IF TRUE THEN "press" ELSE "release") OBVIOUS
  <2> QED BY <1>9, <2>1
<1>11. f = "release" /\ RemoteAfter(q, r, h, k) => RemoteAfter(u, r, h, FALSE)
  <2> SUFFICES ASSUME f = "release", RemoteAfter(q, r, h, k) PROVE RemoteAfter(u, r, h, FALSE)
    OBVIOUS
  <2>1. FALSE \in BOOLEAN /\ f = (IF FALSE THEN "press" ELSE "release") OBVIOUS
  <2> QED BY <1>9, <2>1
<1> QED BY <1>3, <1>4, <1>5, <1>8, <1>10, <1>11 DEF u

\* What a client with session r and key h makes of a frame (handle).
RemoteOf(f, r) == f = "remote" \/ (r /\ f # "back")
KeyOf(f, r, h) == IF r /\ f \in KeyFrames THEN f = "press" ELSE h /\ (r => f # "back")

\* The client takes a frame: what is left brings it to the same place.
LEMMA AfterTail ==
  ASSUME NEW q \in Seq(Frames), q # <<>>, NEW r \in BOOLEAN, NEW h \in BOOLEAN, h => r,
         NEW k \in BOOLEAN
  PROVE  LET f == Head(q)
         IN  /\ LocalAfter(q, r) => LocalAfter(Tail(q), RemoteOf(f, r))
             /\ RemoteAfter(q, r, h, k) => RemoteAfter(Tail(q), RemoteOf(f, r), KeyOf(f, r, h), k)
<1> DEFINE f == Head(q)
           u == Tail(q)
           m == Len(q)
           s == RemoteOf(f, r)
           g == KeyOf(f, r, h)
<1>1. /\ m \in Nat \ {0} /\ f = q[1] /\ 1 \in 1..m
      /\ Len(u) = m - 1 /\ \A i \in 1..m - 1 : u[i] = q[i + 1]
  BY HeadTailProperties, EmptySeq
<1> HIDE DEF u, m, f, s, g
<1>2. ASSUME NEW i \in 1..m, LocalUntil(q, r, i) PROVE LocalUntil(u, s, i - 1)
  <2>1. \A n \in 1..i - 1 : n + 1 \in 2..i /\ n + 1 \in 1..i /\ u[n] = q[n + 1] BY <1>1, <1>2
  <2>2. ASSUME NEW j \in 1..i, q[j] = "back", \A n \in j + 1 .. i : q[n] # "remote"
        PROVE  LocalUntil(u, s, i - 1)
    <3>1. CASE j = 1
      <4>1. ~s BY <1>1, <2>2, <3>1 DEF s, RemoteOf
      <4>2. \A n \in 1..i - 1 : n + 1 \in j + 1 .. i BY <3>1, <1>1
      <4> QED BY <2>1, <2>2, <4>1, <4>2 DEF LocalUntil
    <3>2. CASE j # 1
      <4>1. j - 1 \in 1..i - 1 /\ (j - 1) + 1 = j BY <1>1, <3>2
      <4>2. \A n \in (j - 1) + 1 .. i - 1 : n \in 1..i - 1 /\ n + 1 \in j + 1 .. i
        BY <1>1, <4>1
      <4>3. u[j - 1] = "back" BY <2>1, <2>2, <4>1
      <4>4. \A n \in (j - 1) + 1 .. i - 1 : u[n] # "remote" BY <2>1, <2>2, <4>2
      <4> QED BY <4>1, <4>3, <4>4 DEF LocalUntil
    <3> QED BY <3>1, <3>2
  <2>3. ASSUME ~r, \A n \in 1..i : q[n] # "remote" PROVE LocalUntil(u, s, i - 1)
    <3>1. 1 \in 1..i BY <1>1
    <3>2. ~s BY <1>1, <2>3, <3>1 DEF s, RemoteOf
    <3> QED BY <2>1, <2>3, <3>2 DEF LocalUntil
  <2> QED BY <1>2, <2>2, <2>3 DEF LocalUntil
<1>3. ASSUME LocalAfter(q, r) PROVE LocalAfter(u, s)
  <2>1. m \in 1..m BY <1>1
  <2>2. LocalUntil(u, s, m - 1) BY <1>2, <1>3, <2>1 DEF LocalAfter, m
  <2> QED BY <1>1, <2>2 DEF LocalAfter
\* The frames after the i-th, seen one place further to the left.
<1>4. ASSUME NEW i \in 1..m, NEW a, KeyAfter(q, i, a, k) PROVE KeyAfter(u, i - 1, a, k)
  <2>1. \A n \in (i - 1) + 1 .. m - 1 : n \in 1..m - 1 /\ n + 1 \in i + 1 .. m /\ u[n] = q[n + 1]
    BY <1>1
  <2>2. \A n \in (i - 1) + 1 .. m - 1 : u[n] # "back" BY <1>4, <2>1 DEF KeyAfter, m
  <2>3. ASSUME NEW j \in i + 1 .. m, q[j] = (IF k THEN "press" ELSE "release"),
               \A n \in j + 1 .. m : q[n] \notin KeyFrames
        PROVE  KeyAfter(u, i - 1, a, k)
    <3>1. /\ j - 1 \in (i - 1) + 1 .. m - 1 /\ (j - 1) + 1 = j
          /\ \A n \in (j - 1) + 1 .. m - 1 : n \in (i - 1) + 1 .. m - 1 /\ n + 1 \in j + 1 .. m
      BY <1>1
    <3>2. u[j - 1] = q[j] BY <2>1, <3>1
    <3>3. \A n \in (j - 1) + 1 .. m - 1 : u[n] \notin KeyFrames BY <2>1, <2>3, <3>1
    <3> QED BY <1>1, <2>2, <2>3, <3>1, <3>2, <3>3 DEF KeyAfter
  <2>4. ASSUME a = k, \A n \in i + 1 .. m : q[n] \notin KeyFrames
        PROVE  KeyAfter(u, i - 1, a, k)
    <3>1. \A n \in (i - 1) + 1 .. m - 1 : u[n] \notin KeyFrames BY <2>1, <2>4
    <3> QED BY <1>1, <2>2, <2>4, <3>1 DEF KeyAfter
  <2> QED BY <1>4, <2>3, <2>4 DEF KeyAfter, m
\* The session goes on with the first frame.
<1>5. ASSUME r, KeyAfter(q, 0, h, k) PROVE s /\ KeyAfter(u, 0, g, k)
  <2>1. /\ \A n \in 1..m : n \in 0 + 1 .. m
        /\ \A n \in 1 + 1 .. m : n \in 0 + 1 .. m
        /\ \A n \in 0 + 1 .. m : n = 1 \/ n \in 1 + 1 .. m
        /\ 1 - 1 = 0
    BY <1>1
  <2>2. f # "back" BY <1>1, <1>5, <2>1 DEF KeyAfter, m
  <2>3. s BY <1>5, <2>2 DEF s, RemoteOf
  <2>4. \A n \in 1 + 1 .. m : q[n] # "back" BY <1>5, <2>1 DEF KeyAfter, m
  <2>5. ASSUME NEW j \in 0 + 1 .. m, q[j] = (IF k THEN "press" ELSE "release"),
               \A n \in j + 1 .. m : q[n] \notin KeyFrames
        PROVE  KeyAfter(q, 1, g, k)
    <3>1. CASE j = 1
      <4>1. g = k BY <1>1, <1>5, <2>5, <3>1 DEF g, KeyOf, KeyFrames
      <4>2. \A n \in 1 + 1 .. m : q[n] \notin KeyFrames BY <2>5, <3>1
      <4> QED BY <2>4, <4>1, <4>2 DEF KeyAfter, m
    <3>2. CASE j # 1
      <4>1. j \in 1 + 1 .. m BY <2>1, <3>2
      <4> QED BY <2>4, <2>5, <4>1 DEF KeyAfter, m
    <3> QED BY <3>1, <3>2
  <2>6. ASSUME h = k, \A n \in 0 + 1 .. m : q[n] \notin KeyFrames PROVE KeyAfter(q, 1, g, k)
    <3>1. g = h BY <1>1, <1>5, <2>1, <2>2, <2>6 DEF g, KeyOf
    <3>2. \A n \in 1 + 1 .. m : q[n] \notin KeyFrames BY <2>1, <2>6
    <3> QED BY <2>4, <2>6, <3>1, <3>2 DEF KeyAfter, m
  <2>7. KeyAfter(q, 1, g, k) BY <1>5, <2>5, <2>6 DEF KeyAfter, m
  <2> QED BY <1>1, <1>4, <2>1, <2>3, <2>7
<1>6. ASSUME RemoteAfter(q, r, h, k) PROVE RemoteAfter(u, s, g, k)
  <2>1. CASE r /\ KeyAfter(q, 0, h, k) BY <1>5, <2>1 DEF RemoteAfter
  <2>2. ASSUME NEW i \in 1..m, q[i] = "remote", LocalUntil(q, r, i - 1), KeyAfter(q, i, FALSE, k)
        PROVE  RemoteAfter(u, s, g, k)
    <3>1. KeyAfter(u, i - 1, FALSE, k) BY <1>4, <2>2
    <3>2. CASE i = 1
      <4>1. 1..i - 1 = {} BY <3>2
      <4>2. ~r BY <2>2, <4>1 DEF LocalUntil
      <4>3. s /\ g = FALSE BY <1>1, <2>2, <3>2, <4>2 DEF s, g, RemoteOf, KeyOf
      <4>4. i - 1 = 0 BY <3>2
      <4> QED BY <3>1, <4>3, <4>4 DEF RemoteAfter
    <3>3. CASE i # 1
      <4>1. /\ i - 1 \in 1..m /\ i - 1 \in 1..Len(u) /\ i - 1 \in 1..m - 1 /\ (i - 1) + 1 = i
        BY <1>1, <3>3
      <4>2. LocalUntil(u, s, (i - 1) - 1) BY <1>2, <2>2, <4>1
      <4>3. u[i - 1] = "remote" BY <1>1, <2>2, <4>1
      <4> QED BY <3>1, <4>1, <4>2, <4>3 DEF RemoteAfter
    <3> QED BY <3>2, <3>3
  <2> QED BY <1>6, <2>1, <2>2 DEF RemoteAfter, m
<1> QED BY <1>3, <1>6 DEF u, s, g, f

\* q, r and h become p, s and g, and wherever q would bring the client, p does.
Course(q, r, h, p, s, g) ==
  /\ LocalAfter(q, r) => LocalAfter(p, s)
  /\ RemoteIn(q, r) => RemoteIn(p, s)
  /\ \A k \in BOOLEAN : RemoteAfter(q, r, h, k) => RemoteAfter(p, s, g, k)

\* The same for RemoteIn: a frame more at the end, and the first one taken.
LEMMA RemoteInSteps ==
  ASSUME NEW q \in Seq(Frames), NEW r \in BOOLEAN
  PROVE  /\ \A f \in Frames :
              /\ f = "remote" => RemoteIn(Append(q, f), r)
              /\ f # "back" /\ RemoteIn(q, r) => RemoteIn(Append(q, f), r)
         /\ q # <<>> /\ RemoteIn(q, r) => RemoteIn(Tail(q), RemoteOf(Head(q), r))
<1> DEFINE m == Len(q)
<1>0. m \in Nat BY LenProperties
<1>1. ASSUME NEW f \in Frames
      PROVE  /\ f = "remote" => RemoteIn(Append(q, f), r)
             /\ f # "back" /\ RemoteIn(q, r) => RemoteIn(Append(q, f), r)
  <2> DEFINE u == Append(q, f)
  <2>1. Len(u) = m + 1 /\ u[m + 1] = f /\ \A i \in 1..m : u[i] = q[i]
    BY AppendProperties
  <2> HIDE DEF u, m
  <2>2. /\ m + 1 \in 1..m + 1 /\ (m + 1) + 1 .. m + 1 = {}
        /\ \A i \in 1..m : i \in 1..m + 1
        /\ \A i \in 0..m : \A n \in i + 1 .. m + 1 : n = m + 1 \/ n \in i + 1 .. m
        /\ \A i \in 0..m : \A n \in i + 1 .. m : n \in 1..m
    BY <1>0
  <2>3. f = "remote" => RemoteIn(u, r) BY <2>1, <2>2 DEF RemoteIn
  <2>4. ASSUME f # "back", r, \A n \in 1..m : q[n] # "back" PROVE RemoteIn(u, r)
    <3>1. \A n \in 1..m + 1 : n = m + 1 \/ n \in 1..m BY <1>0
    <3> QED BY <2>1, <2>4, <3>1 DEF RemoteIn
  <2>5. ASSUME f # "back", NEW i \in 1..m, q[i] = "remote", \A n \in i + 1 .. m : q[n] # "back"
        PROVE  RemoteIn(u, r)
    <3>1. i \in 0..m BY <1>0
    <3>2. \A n \in i + 1 .. m + 1 : u[n] # "back" BY <2>1, <2>2, <2>5, <3>1
    <3> QED BY <2>1, <2>2, <2>5, <3>2 DEF RemoteIn
  <2> QED BY <2>3, <2>4, <2>5 DEF RemoteIn, u, m
<1>2. ASSUME q # <<>>, RemoteIn(q, r) PROVE RemoteIn(Tail(q), RemoteOf(Head(q), r))
  <2> DEFINE u == Tail(q)
             f == Head(q)
  <2>1. m # 0 /\ f = q[1] /\ Len(u) = m - 1 /\ \A i \in 1..m - 1 : u[i] = q[i + 1]
    BY <1>2, HeadTailProperties, EmptySeq
  <2> HIDE DEF u, f, m
  <2>2. /\ 1 \in 1..m /\ \A n \in 1..m - 1 : n + 1 \in 1..m
        /\ \A i \in 1..m : \A n \in (i - 1) + 1 .. m - 1 : n \in 1..m - 1 /\ n + 1 \in i + 1 .. m
        /\ \A i \in 1..m : i # 1 => i - 1 \in 1..m - 1 /\ (i - 1) + 1 = i
    BY <1>0, <2>1
  <2>3. ASSUME r, \A n \in 1..m : q[n] # "back" PROVE RemoteIn(u, RemoteOf(f, r))
    <3>1. RemoteOf(f, r) BY <2>1, <2>2, <2>3 DEF RemoteOf
    <3> QED BY <2>1, <2>2, <2>3, <3>1 DEF RemoteIn
  <2>4. ASSUME NEW i \in 1..m, q[i] = "remote", \A n \in i + 1 .. m : q[n] # "back"
        PROVE  RemoteIn(u, RemoteOf(f, r))
    <3>1. \A n \in (i - 1) + 1 .. m - 1 : u[n] # "back" BY <2>1, <2>2, <2>4
    <3>2. CASE i = 1
      <4>1. RemoteOf(f, r) BY <2>1, <2>4, <3>2 DEF RemoteOf
      <4>2. \A n \in 1..m - 1 : u[n] # "back"
        <5>1. (i - 1) + 1 = 1 BY <3>2
        <5> QED BY <3>1, <5>1
      <4> QED BY <2>1, <4>1, <4>2 DEF RemoteIn
    <3>3. CASE i # 1
      <4>1. i - 1 \in 1..m - 1 /\ u[i - 1] = "remote" BY <2>1, <2>2, <2>4, <3>3
      <4> QED BY <2>1, <3>1, <4>1 DEF RemoteIn
    <3> QED BY <3>2, <3>3
  <2> QED BY <1>2, <2>3, <2>4 DEF RemoteIn, u, f, m
<1> QED BY <1>1, <1>2

\* A frame that is neutral in the middle may as well not be there.
LEMMA AfterSkip ==
  ASSUME NEW p \in Seq(Frames), NEW t \in Seq(Frames), NEW f \in Frames,
         f \notin {"remote", "back"} \cup KeyFrames, NEW r \in BOOLEAN, NEW h \in BOOLEAN
  PROVE  Course(Append(p, f) \o t, r, h, p \o t, r, h)
<1> DEFINE a == Append(p, f)
           u == a \o t
           v == p \o t
           m == Len(p)
           n == Len(t)
<1>1. /\ m \in Nat /\ n \in Nat /\ a \in Seq(Frames) /\ Len(a) = m + 1 /\ a[m + 1] = f
      /\ \A i \in 1..m : a[i] = p[i]
  BY AppendProperties, LenProperties
<1> HIDE DEF a
<1>2. /\ Len(u) = (m + 1) + n /\ \A i \in 1..m + 1 : u[i] = a[i]
      /\ \A i \in (m + 1) + 1 .. (m + 1) + n : u[i] = t[i - (m + 1)]
      /\ Len(v) = m + n /\ \A i \in 1..m : v[i] = p[i]
      /\ \A i \in m + 1 .. m + n : v[i] = t[i - m]
  <2>1. /\ Len(u) = Len(a) + n /\ \A i \in 1..Len(a) : u[i] = a[i]
        /\ \A i \in Len(a) + 1 .. Len(a) + n : u[i] = t[i - Len(a)]
    BY <1>1, Joined
  <2>2. /\ Len(v) = m + n /\ \A i \in 1..m : v[i] = p[i]
        /\ \A i \in m + 1 .. m + n : v[i] = t[i - m]
    BY Joined
  <2>3. Len(a) = m + 1 BY <1>1
  <2> QED BY <2>1, <2>2, <2>3
<1> HIDE DEF u, v, m, n
<1> DEFINE Over(i) == IF i <= m THEN i ELSE i + 1
           Back(i) == IF i <= m THEN i ELSE i - 1
           M == m + n + 1
<1>3. Len(u) = M /\ Len(v) = M - 1 /\ u[m + 1] = f /\ M \in Nat \ {0} /\ M = m + 1 + n
  <2>1. m + 1 \in 1..m + 1 BY <1>1
  <2> QED BY <1>1, <1>2, <2>1
<1>4. ASSUME NEW i \in 1..M - 1 PROVE v[i] = u[Over(i)] /\ Over(i) \in 1..M
  <2>1. CASE i <= m
    <3>1. i \in 1..m /\ i \in 1..m + 1 /\ Over(i) = i BY <1>1, <1>3, <2>1
    <3> QED BY <1>1, <1>2, <1>3, <3>1
  <2>2. CASE ~(i <= m)
    <3>1. /\ i \in m + 1 .. m + n /\ Over(i) = i + 1 /\ i + 1 \in (m + 1) + 1 .. (m + 1) + n
          /\ (i + 1) - (m + 1) = i - m /\ i + 1 \in 1..M
      BY <1>1, <1>3, <2>2
    <3>2. u[i + 1] = t[(i + 1) - (m + 1)] /\ v[i] = t[i - m] BY <1>2, <3>1
    <3> QED BY <3>1, <3>2
  <2> QED BY <2>1, <2>2
<1>5. ASSUME NEW i \in 1..M, u[i] # f
      PROVE  Back(i) \in 1..M - 1 /\ v[Back(i)] = u[i]
  <2>1. i # m + 1 BY <1>3, <1>5
  <2>2. Back(i) \in 1..M - 1 /\ Over(Back(i)) = i BY <1>1, <1>3, <2>1
  <2> QED BY <1>4, <2>2
<1>6. /\ \A i \in 0..M : Back(i) \in 0..M - 1
      /\ \A i \in 0..M : \A j \in 0..i : \A x \in Back(j) + 1 .. Back(i) :
           x \in 1..M - 1 /\ Over(x) \in j + 1 .. i
      /\ \A i \in 1..M : \A j \in 1..i : j # m + 1 => Back(j) \in 1..Back(i)
      /\ \A i \in 0..M : \A j \in i + 1 .. M : j # m + 1 => Back(j) \in Back(i) + 1 .. M - 1
      /\ Back(0) = 0 /\ Back(M) = M - 1 /\ \A i \in 1..M : i # m + 1 => Back(i) - 1 = Back(i - 1)
  <2>1. m \in Nat /\ n \in Nat /\ M = m + 1 + n /\ M \in Nat BY <1>1, <1>3
  <2> HIDE DEF M
  <2>2. /\ \A i \in 0..M : Back(i) \in 0..M - 1
        /\ Back(0) = 0 /\ Back(M) = M - 1
    BY <2>1
  <2>3. \A i \in 1..M : i # m + 1 => Back(i) - 1 = Back(i - 1) BY <2>1
  <2>4. \A i \in 1..M : \A j \in 1..i : j # m + 1 => Back(j) \in 1..Back(i) BY <2>1
  <2>5. \A i \in 0..M : \A j \in i + 1 .. M : j # m + 1 => Back(j) \in Back(i) + 1 .. M - 1 BY <2>1
  <2>6. ASSUME NEW i \in 0..M, NEW j \in 0..i, NEW x \in Back(j) + 1 .. Back(i)
        PROVE  x \in 1..M - 1 /\ Over(x) \in j + 1 .. i
    BY <2>1, <2>6
  <2> QED BY <2>2, <2>3, <2>4, <2>5, <2>6
<1> HIDE DEF Over, Back, M
\* No element of a stretch of v is new.
<1>7. \A i \in 0..M : \A j \in 0..i : \A x \in Back(j) + 1 .. Back(i) :
        Over(x) \in j + 1 .. i /\ v[x] = u[Over(x)]
  BY <1>4, <1>6
<1>8. ASSUME NEW i \in 0..M, LocalUntil(u, r, i) PROVE LocalUntil(v, r, Back(i))
  <2>1. ASSUME NEW j \in 1..i, u[j] = "back", \A x \in j + 1 .. i : u[x] # "remote"
        PROVE  LocalUntil(v, r, Back(i))
    <3>1. j \in 1..M /\ j \in 0..i /\ i \in 1..M BY <1>3
    <3>2. j # m + 1 BY <1>3, <2>1
    <3>3. Back(j) \in 1..Back(i) BY <1>6, <3>1, <3>2
    <3>4. v[Back(j)] = "back" BY <1>5, <2>1, <3>1
    <3>5. \A x \in Back(j) + 1 .. Back(i) : v[x] # "remote" BY <1>7, <2>1, <3>1
    <3> QED BY <3>3, <3>4, <3>5 DEF LocalUntil
  <2>2. ASSUME ~r, \A x \in 1..i : u[x] # "remote" PROVE LocalUntil(v, r, Back(i))
    <3>1. 0 \in 0..i /\ Back(0) + 1 = 1 /\ 0 + 1 = 1 BY <1>3, <1>6
    <3>2. \A x \in 1..Back(i) : Over(x) \in 1..i /\ v[x] = u[Over(x)] BY <1>7, <3>1
    <3> QED BY <2>2, <3>2 DEF LocalUntil
  <2> QED BY <1>8, <2>1, <2>2 DEF LocalUntil
<1>9. ASSUME NEW k \in BOOLEAN, NEW g, NEW i \in 0..M, KeyAfter(u, i, g, k)
      PROVE  KeyAfter(v, Back(i), g, k)
  <2>1. M \in 0..M /\ Back(M) = M - 1 /\ i \in 0..M BY <1>3, <1>6
  <2>2. \A x \in Back(i) + 1 .. M - 1 : Over(x) \in i + 1 .. M /\ v[x] = u[Over(x)]
    BY <1>7, <2>1
  <2>3. \A x \in Back(i) + 1 .. M - 1 : v[x] # "back" BY <1>3, <1>9, <2>2 DEF KeyAfter
  <2>4. ASSUME NEW j \in i + 1 .. M, u[j] = (IF k THEN "press" ELSE "release"),
               \A x \in j + 1 .. M : u[x] \notin KeyFrames
        PROVE  KeyAfter(v, Back(i), g, k)
    <3>1. j \in 1..M /\ j \in 0..M BY <1>3
    <3>2. j # m + 1 /\ u[j] # f BY <1>3, <2>4 DEF KeyFrames
    <3>3. Back(j) \in Back(i) + 1 .. M - 1 BY <1>6, <3>2
    <3>4. v[Back(j)] = u[j] BY <1>5, <3>1, <3>2
    <3>5. \A x \in Back(j) + 1 .. M - 1 : v[x] \notin KeyFrames BY <1>7, <2>1, <2>4, <3>1
    <3> QED BY <1>3, <2>3, <2>4, <3>3, <3>4, <3>5 DEF KeyAfter
  <2>5. ASSUME g = k, \A x \in i + 1 .. M : u[x] \notin KeyFrames
        PROVE  KeyAfter(v, Back(i), g, k)
    <3>1. \A x \in Back(i) + 1 .. M - 1 : v[x] \notin KeyFrames BY <2>2, <2>5
    <3> QED BY <1>3, <2>3, <2>5, <3>1 DEF KeyAfter
  <2> QED BY <1>3, <1>9, <2>4, <2>5 DEF KeyAfter
<1>10. LocalAfter(u, r) => LocalAfter(v, r)
  <2>1. M \in 0..M BY <1>3
  <2> QED BY <1>3, <1>6, <1>8, <2>1 DEF LocalAfter
<1>11. RemoteIn(u, r) => RemoteIn(v, r)
  <2>0. M \in 0..M /\ 0 \in 0..M /\ 0 + 1 = 1 /\ Back(0) + 1 = 1 /\ Back(M) = M - 1
    BY <1>3, <1>6
  <2>1. ASSUME r, \A x \in 1..M : u[x] # "back" PROVE RemoteIn(v, r)
    <3>1. \A x \in 1..M - 1 : Over(x) \in 1..M /\ v[x] = u[Over(x)] BY <1>4
    <3> QED BY <1>3, <2>1, <3>1 DEF RemoteIn
  <2>2. ASSUME NEW i \in 1..M, u[i] = "remote", \A x \in i + 1 .. M : u[x] # "back"
        PROVE  RemoteIn(v, r)
    <3>1. Back(i) \in 1..M - 1 /\ v[Back(i)] = "remote" BY <1>5, <2>2
    <3>2. i \in 0..M BY <1>3
    <3>3. \A x \in Back(i) + 1 .. M - 1 : v[x] # "back" BY <1>7, <2>0, <2>2, <3>2
    <3> QED BY <1>3, <3>1, <3>3 DEF RemoteIn
  <2> QED BY <1>3, <2>1, <2>2 DEF RemoteIn
<1>12. ASSUME NEW k \in BOOLEAN, RemoteAfter(u, r, h, k) PROVE RemoteAfter(v, r, h, k)
  <2>1. CASE r /\ KeyAfter(u, 0, h, k)
    <3>1. 0 \in 0..M /\ Back(0) = 0 BY <1>3, <1>6
    <3>2. KeyAfter(v, 0, h, k) BY <1>9, <2>1, <3>1
    <3> QED BY <2>1, <3>2 DEF RemoteAfter
  <2>2. ASSUME NEW i \in 1..M, u[i] = "remote", LocalUntil(u, r, i - 1), KeyAfter(u, i, FALSE, k)
        PROVE  RemoteAfter(v, r, h, k)
    <3>1. i \in 0..M /\ i - 1 \in 0..M /\ i # m + 1 BY <1>3, <2>2
    <3>2. Back(i) \in 1..M - 1 /\ v[Back(i)] = "remote" BY <1>5, <2>2
    <3>3. LocalUntil(v, r, Back(i - 1)) BY <1>8, <2>2, <3>1
    <3>4. Back(i) - 1 = Back(i - 1) BY <1>6, <3>1
    <3>5. LocalUntil(v, r, Back(i) - 1) BY <3>3, <3>4
    <3>6. KeyAfter(v, Back(i), FALSE, k) BY <1>9, <2>2, <3>1
    <3> QED BY <1>3, <3>2, <3>5, <3>6 DEF RemoteAfter
  <2> QED BY <1>3, <1>12, <2>1, <2>2 DEF RemoteAfter
<1>13. Course(u, r, h, v, r, h) BY <1>10, <1>11, <1>12 DEF Course
<1> QED BY <1>13 DEF u, v, a

\* Neutral frames after the others.
LEMMA AfterPad ==
  ASSUME NEW p \in Seq(Frames), NEW t \in Seq(Frames), NEW r,
         \A i \in 1..Len(t) : t[i] = "hello", LocalAfter(p, r)
  PROVE  LocalAfter(p \o t, r)
<1> DEFINE q == p \o t
           m == Len(p)
           n == Len(t)
<1>1. /\ m \in Nat /\ n \in Nat /\ Len(q) = m + n /\ \A i \in 1..m : q[i] = p[i]
      /\ \A i \in m + 1 .. m + n : q[i] = t[i - m]
  BY Joined
<1>2. \A i \in m + 1 .. m + n : q[i] = "hello"
  <2>1. \A i \in m + 1 .. m + n : i - m \in 1..n BY <1>1
  <2> QED BY <1>1, <2>1
<1> HIDE DEF q, m, n
<1>3. ASSUME NEW j \in 1..m, p[j] = "back", \A x \in j + 1 .. m : p[x] # "remote"
      PROVE  LocalAfter(q, r)
  <2>1. j \in 1..m + n /\ \A x \in j + 1 .. m + n : x \in m + 1 .. m + n \/ (x \in j + 1 .. m /\ x \in 1..m)
    BY <1>1
  <2>2. \A x \in j + 1 .. m + n : q[x] # "remote" BY <1>1, <1>2, <1>3, <2>1
  <2> QED BY <1>1, <1>3, <2>1, <2>2 DEF LocalAfter, LocalUntil
<1>4. ASSUME ~r, \A x \in 1..m : p[x] # "remote" PROVE LocalAfter(q, r)
  <2>1. \A x \in 1..m + n : x \in m + 1 .. m + n \/ x \in 1..m BY <1>1
  <2>2. \A x \in 1..m + n : q[x] # "remote" BY <1>1, <1>2, <1>4, <2>1
  <2> QED BY <1>1, <1>4, <2>2 DEF LocalAfter, LocalUntil
<1>5. LocalAfter(q, r) BY <1>3, <1>4 DEF LocalAfter, LocalUntil, m
<1> QED BY <1>5 DEF q

\* A neutral frame more at the end, and the client takes the first frame.
LEMMA CourseSteps ==
  ASSUME NEW q \in Seq(Frames), NEW r \in BOOLEAN, NEW h \in BOOLEAN, h => r
  PROVE  /\ Course(q, r, h, q, r, h)
         /\ \A f \in Frames : f \notin {"remote", "back"} \cup KeyFrames =>
              Course(q, r, h, Append(q, f), r, h)
         /\ q # <<>> =>
              Course(q, r, h, Tail(q), RemoteOf(Head(q), r), KeyOf(Head(q), r, h))
<1>1. Course(q, r, h, q, r, h) BY DEF Course
<1>2. ASSUME NEW f \in Frames, f \notin {"remote", "back"} \cup KeyFrames
      PROVE  Course(q, r, h, Append(q, f), r, h)
  <2>0. f # "remote" /\ f # "back" /\ f \notin KeyFrames BY <1>2
  <2>1. ASSUME NEW k \in BOOLEAN
        PROVE  /\ LocalAfter(q, r) => LocalAfter(Append(q, f), r)
               /\ RemoteAfter(q, r, h, k) => RemoteAfter(Append(q, f), r, h, k)
    <3>1. f \in Frames BY <1>2
    <3>2. f # "remote" /\ LocalAfter(q, r) => LocalAfter(Append(q, f), r) BY <3>1, AfterAppend
    <3>3. f # "back" /\ f \notin KeyFrames /\ RemoteAfter(q, r, h, k) =>
            RemoteAfter(Append(q, f), r, h, k)
      <4>1. CASE k = TRUE BY <3>1, <4>1, AfterAppend
      <4>2. CASE k = FALSE BY <3>1, <4>2, AfterAppend
      <4> QED BY <4>1, <4>2
    <3> QED BY <2>0, <3>2, <3>3
  <2>2. RemoteIn(q, r) => RemoteIn(Append(q, f), r) BY <1>2, RemoteInSteps
  <2>3. TRUE \in BOOLEAN OBVIOUS
  <2> QED BY <2>1, <2>2, <2>3 DEF Course
<1>3. ASSUME q # <<>>
      PROVE  Course(q, r, h, Tail(q), RemoteOf(Head(q), r), KeyOf(Head(q), r, h))
  <2>1. ASSUME NEW k \in BOOLEAN
        PROVE  /\ LocalAfter(q, r) => LocalAfter(Tail(q), RemoteOf(Head(q), r))
               /\ RemoteAfter(q, r, h, k) =>
                    RemoteAfter(Tail(q), RemoteOf(Head(q), r), KeyOf(Head(q), r, h), k)
    BY <1>3, AfterTail
  <2>2. RemoteIn(q, r) => RemoteIn(Tail(q), RemoteOf(Head(q), r)) BY <1>3, RemoteInSteps
  <2>3. TRUE \in BOOLEAN OBVIOUS
  <2> QED BY <2>1, <2>2, <2>3 DEF Course
<1> QED BY <1>1, <1>2, <1>3
-----------------------------------------------------------------------------
LEMMA AnyConn ==
  ASSUME NEW C \in Conns, IInv, EdgeInv
  PROVE  /\ C # NoConn /\ C \in Droppers /\ Writer \in Droppers
         /\ mode \in {Local, Remote} /\ Local # Remote /\ key \in BOOLEAN /\ missed \in BOOLEAN
         /\ conn \in Conns \cup {NoConn} /\ dropPc \in [Droppers -> {"no", "reset", "status"}]
         /\ handler \in [Conns -> {"none"} \cup Early \cup Installed]
         /\ up \in [Conns -> BOOLEAN]
         /\ up[C] => dialed = C /\ clientPc # "idle" /\ handler[C] \in Early \cup Installed
         /\ handler[C] \in Early => conn # C /\ \A i \in 1..Len(sendQ) : sendQ[i].conn # C
         /\ remote \in BOOLEAN /\ held \in BOOLEAN /\ (held => remote)
         /\ DOMAIN toClient = Conns /\ toClient[C] \in Seq(Frames)
         /\ toServer \in [Conns -> Seq({"hello", "back"})]
         /\ sendQ \in Seq([conn : Conns, frame : Frames])
         /\ FramesFor(sendQ, C) \in Seq(Frames) /\ Stream(C) \in Seq(Frames)
<1>1. C # NoConn /\ C \in Droppers /\ Writer \in Droppers /\ NetCap \in Nat
  BY SessionAssumption DEF Droppers
<1>2. /\ sendQ \in Seq([conn : Conns, frame : Frames]) /\ toClient[C] \in Seq(Frames)
      /\ DOMAIN toClient = Conns /\ up \in [Conns -> BOOLEAN]
      /\ handler \in [Conns -> {"none"} \cup Early \cup Installed]
  BY Sequences
<1>3. FramesFor(sendQ, C) \in Seq(Frames) BY <1>2, FramesOfQueue
<1>4. Stream(C) \in Seq(Frames) BY <1>2, <1>3, Joined DEF Stream
<1>5. toServer \in [Conns -> Seq({"hello", "back"})]
  BY <1>1, BoundedSeqIsSeq DEF IInv, NetInv, NetTypes, Up
<1>6. up[C] => dialed = C /\ clientPc # "idle" /\ handler[C] \in Early \cup Installed
  BY <1>2 DEF EdgeInv, UpIsDialed
<1>7. handler[C] \in Early => conn # C /\ \A i \in 1..Len(sendQ) : sendQ[i].conn # C
  BY DEF EdgeInv, NothingEarly
<1>8. mode \in {Local, Remote} /\ Local # Remote /\ key \in BOOLEAN /\ missed \in BOOLEAN
  BY DEF IInv, MacInv, MacTypes, Local, Remote
<1>9. conn \in Conns \cup {NoConn} /\ dropPc \in [Droppers -> {"no", "reset", "status"}]
  BY DEF IInv, MacInv, MacTypes
<1>10. remote \in BOOLEAN /\ held \in BOOLEAN /\ (held => remote)
  BY DEF IInv, ClientInv, ClientTypes, SessionIsGuarded
<1> QED BY <1>1, <1>2, <1>3, <1>4, <1>5, <1>6, <1>7, <1>8, <1>9, <1>10

\* What send does to the stream of a client that is not overflown.
LEMMA SendGrows ==
  ASSUME NEW C \in Conns, IInv, EdgeInv, NEW f \in Frames, Send(f), UNCHANGED toClient
  PROVE  /\ up'[C] => up[C]
         /\ conn = C /\ up'[C] => Stream(C)' = Append(Stream(C), f)
         /\ conn # C => Stream(C)' = Stream(C) \/ Stream(C)' = Append(Stream(C), "hello")
<1>1. /\ C # NoConn /\ up \in [Conns -> BOOLEAN] /\ toClient[C] \in Seq(Frames)
      /\ sendQ \in Seq([conn : Conns, frame : Frames]) /\ conn \in Conns \cup {NoConn}
  BY AnyConn
<1>2. CASE conn = NoConn
  <2>1. UNCHANGED <<sendQ, up>> BY <1>2 DEF Send, queueVars
  <2> QED BY <1>1, <1>2, <2>1 DEF Stream
<1>3. CASE conn # NoConn /\ sendQ' = Append(sendQ, [conn |-> conn, frame |-> f]) /\ UNCHANGED up
  <2> DEFINE x == [conn |-> conn, frame |-> f]
  <2>1. x \in [conn : Conns, frame : Frames] BY <1>1, <1>3
  <2>2. Seen(x, C) = IF conn = C THEN f ELSE "hello" BY DEF Seen
  <2>3. sendQ' = Append(sendQ, x) BY <1>3
  <2> HIDE DEF x
  <2>4. Stream(C)' = Append(Stream(C), Seen(x, C)) BY <1>1, <2>1, <2>3, StreamGrows DEF Stream
  <2> QED BY <1>3, <2>2, <2>4
<1>4. CASE conn # NoConn /\ Overflow
  <2>1. UNCHANGED sendQ /\ up' = [up EXCEPT ![conn] = FALSE] BY <1>4 DEF Overflow
  <2> QED BY <1>1, <1>4, <2>1 DEF Stream
<1> QED BY <1>2, <1>3, <1>4 DEF Send

\* A frame that is neutral, or for another connection, changes no course.
LEMMA SendCourse ==
  ASSUME NEW C \in Conns, IInv, EdgeInv, NEW f \in Frames, Send(f), UNCHANGED toClient,
         conn # C \/ f \notin {"remote", "back"} \cup KeyFrames, up'[C]
  PROVE  Course(Stream(C), remote, held, Stream(C)', remote, held)
<1>1. Stream(C) \in Seq(Frames) /\ remote \in BOOLEAN /\ held \in BOOLEAN /\ (held => remote)
  BY AnyConn
<1>2. "hello" \in Frames /\ "hello" \notin {"remote", "back"} \cup KeyFrames
  BY DEF Frames, KeyFrames
<1>3. /\ Course(Stream(C), remote, held, Stream(C), remote, held)
      /\ Course(Stream(C), remote, held, Append(Stream(C), "hello"), remote, held)
      /\ f \notin {"remote", "back"} \cup KeyFrames =>
           Course(Stream(C), remote, held, Append(Stream(C), f), remote, held)
  BY <1>1, <1>2, CourseSteps
<1>4. CASE conn = C
  <2>1. Stream(C)' = Append(Stream(C), f) BY <1>4, SendGrows
  <2> QED BY <1>3, <1>4, <2>1
<1>5. CASE conn # C
  <2>1. Stream(C)' = Stream(C) \/ Stream(C)' = Append(Stream(C), "hello") BY <1>5, SendGrows
  <2> QED BY <1>3, <2>1
<1> QED BY <1>4, <1>5

\* The writer takes a frame: one for C moves on, another one goes.
LEMMA WriteCourse ==
  ASSUME NEW C \in Conns, IInv, EdgeInv, sendQ # <<>>, sendQ' = Tail(sendQ),
         toClient'[C] = IF Head(sendQ).conn = C THEN Append(toClient[C], Head(sendQ).frame)
                                                ELSE toClient[C]
  PROVE  Course(Stream(C), remote, held, Stream(C)', remote, held)
<1> DEFINE p == toClient[C]
           t == FramesFor(Tail(sendQ), C)
           f == Seen(Head(sendQ), C)
<1>1. /\ sendQ \in Seq([conn : Conns, frame : Frames]) /\ p \in Seq(Frames)
      /\ Stream(C) \in Seq(Frames) /\ remote \in BOOLEAN /\ held \in BOOLEAN /\ (held => remote)
  BY AnyConn
<1>2. Head(sendQ) \in [conn : Conns, frame : Frames] /\ Tail(sendQ) \in Seq([conn : Conns, frame : Frames])
  <2> DEFINE S == [conn : Conns, frame : Frames]
  <2>1. sendQ \in Seq(S) BY <1>1
  <2> HIDE DEF S
  <2>2. Head(sendQ) \in S /\ Tail(sendQ) \in Seq(S) BY <2>1, HeadTailProperties
  <2> QED BY <2>2 DEF S
<1>3. t \in Seq(Frames) /\ f \in Frames BY <1>2, FramesOfQueue, SeenIsFrame
<1>4. Stream(C) = Append(p, f) \o t BY <1>1, StreamStays DEF Stream
<1>5. Stream(C)' = toClient'[C] \o t BY DEF Stream
<1>6. CASE Head(sendQ).conn = C
  <2>1. f = Head(sendQ).frame BY <1>6 DEF Seen
  <2>2. Stream(C)' = Stream(C) BY <1>4, <1>5, <1>6, <2>1
  <2> QED BY <1>1, <2>2, CourseSteps
<1>7. CASE Head(sendQ).conn # C
  <2>1. f = "hello" BY <1>7 DEF Seen
  <2>2. f \notin {"remote", "back"} \cup KeyFrames BY <2>1 DEF KeyFrames
  <2>3. Stream(C)' = p \o t BY <1>5, <1>7
  <2> HIDE DEF p, t, f
  <2> QED BY <1>1, <1>3, <1>4, <2>2, <2>3, AfterSkip
<1> QED BY <1>6, <1>7

\* Steps that keep the mode, and the course of the client's stream.
LEMMA AgreedFollows ==
  ASSUME NEW C \in Conns, IInv, EdgeInv, Agreed(C), UNCHANGED <<mode, key, missed>>,
         up'[C] =>
           /\ up[C]
           /\ clientPc' \in {"greet", "serve"} => clientPc \in {"greet", "serve"}
           /\ clientPc' \in {"greet", "serve"} /\ mode = Remote /\ Obeys(C)' => Obeys(C)
           /\ \/ /\ handler[C] \in Early /\ handler'[C] \in Early
                 /\ LocalAfter(toClient[C], remote) => LocalAfter(toClient'[C], remote')
              \/ /\ handler[C] \in Installed /\ handler'[C] \in Installed
                 /\ handler[C] = "recv" \/ handler'[C] # "recv"
                 /\ Course(Stream(C), remote, held, Stream(C)', remote', held')
  PROVE  Agreed(C)'
<1> SUFFICES ASSUME up'[C], clientPc' \in {"greet", "serve"}
             PROVE  /\ handler'[C] \in Early => LocalAfter(toClient'[C], remote')
                    /\ handler'[C] \in Installed =>
                         /\ mode = Local /\ ~missed => LocalAfter(Stream(C)', remote')
                         /\ mode = Remote /\ Obeys(C)' =>
                              \/ /\ handler'[C] # "recv" /\ Conns # {C}
                                 /\ LocalAfter(Stream(C)', remote')
                              \/ RemoteSoon(C)'
  BY DEF Agreed, LocalSoon
<1>1. CASE handler[C] \in Early
  BY <1>1 DEF Agreed, Early, Installed
<1>2. CASE handler[C] \in Installed
  <2>1. /\ handler'[C] \in Installed /\ handler'[C] \notin Early
        /\ handler[C] = "recv" \/ handler'[C] # "recv"
        /\ Course(Stream(C), remote, held, Stream(C)', remote', held')
    BY <1>2 DEF Early, Installed
  <2>2. key \in BOOLEAN BY AnyConn
  <2>3. RemoteSoon(C) => RemoteSoon(C)'
    <3> SUFFICES ASSUME RemoteSoon(C)
                 PROVE  /\ RemoteIn(Stream(C)', remote')
                        /\ ~missed => \E k \in {key, FALSE} :
                             /\ Conns = {C} => k = key
                             /\ RemoteAfter(Stream(C)', remote', held', k)
      BY DEF RemoteSoon
    <3>1. RemoteIn(Stream(C)', remote') BY <2>1 DEF RemoteSoon, Course
    <3>2. ASSUME ~missed
          PROVE  \E k \in {key, FALSE} : /\ Conns = {C} => k = key
                                         /\ RemoteAfter(Stream(C)', remote', held', k)
      <4>1. PICK k \in {key, FALSE} : /\ Conns = {C} => k = key
                                      /\ RemoteAfter(Stream(C), remote, held, k)
        BY <3>2 DEF RemoteSoon
      <4>2. k \in BOOLEAN BY <2>2
      <4>3. RemoteAfter(Stream(C)', remote', held', k) BY <2>1, <4>1, <4>2 DEF Course
      <4> QED BY <4>1, <4>3
    <3> QED BY <3>1, <3>2
  <2>4. LocalSoon(C) => LocalAfter(Stream(C)', remote') BY <2>1 DEF LocalSoon, Course
  <2> QED BY <1>2, <2>1, <2>3, <2>4 DEF Agreed
<1>3. handler[C] \in Early \cup Installed BY AnyConn
<1> QED BY <1>1, <1>2, <1>3

\* Steps that leave alone what is under way to and from C.
LEMMA AgreedStays ==
  ASSUME NEW C \in Conns, IInv, EdgeInv, Agreed(C), UNCHANGED <<mode, key, missed>>,
         up'[C] =>
           /\ up[C] /\ UNCHANGED <<remote, held>>
           /\ clientPc' \in {"greet", "serve"} => UNCHANGED <<clientPc, wedged>>
           /\ Stream(C)' = Stream(C) /\ toClient'[C] = toClient[C] /\ toServer'[C] = toServer[C]
           /\ \/ handler'[C] = handler[C]
              \/ handler[C] = "status" /\ handler'[C] = "resync"
              \/ handler[C] \in Early /\ handler'[C] \in Early
  PROVE  Agreed(C)'
<1>1. /\ Stream(C) \in Seq(Frames) /\ remote \in BOOLEAN /\ held \in BOOLEAN /\ (held => remote)
      /\ up[C] => handler[C] \in Early \cup Installed
  BY AnyConn
<1>2. Course(Stream(C), remote, held, Stream(C), remote, held) BY <1>1, CourseSteps
<1>3. ASSUME up'[C]
      PROVE  /\ clientPc' \in {"greet", "serve"} /\ Obeys(C)' => Obeys(C)
             /\ \/ /\ handler[C] \in Early /\ handler'[C] \in Early
                   /\ LocalAfter(toClient[C], remote) => LocalAfter(toClient'[C], remote')
                \/ /\ handler[C] \in Installed /\ handler'[C] \in Installed
                   /\ handler[C] = "recv" \/ handler'[C] # "recv"
                   /\ Course(Stream(C), remote, held, Stream(C)', remote', held')
  <2>1. clientPc' \in {"greet", "serve"} /\ Obeys(C)' => Obeys(C) BY <1>3 DEF Obeys, NoBack
  <2>2. Course(Stream(C), remote, held, Stream(C)', remote', held') BY <1>2, <1>3
  <2>3. /\ handler[C] \in Early => handler'[C] \in Early
        /\ handler[C] \in Installed => handler'[C] \in Installed
        /\ handler[C] = "recv" \/ handler'[C] # "recv"
    BY <1>3 DEF Early, Installed
  <2> QED BY <1>1, <1>3, <2>1, <2>2, <2>3
<1> QED BY <1>3, AgreedFollows

-----------------------------------------------------------------------------
LEMMA SendUp ==
  ASSUME NEW c \in Conns, up \in [Conns -> BOOLEAN], NEW m, Send(m)
  PROVE  up'[c] => up[c]
BY DEF Send, Overflow, queueVars

\* The connection and the handlers are left as they go together.
LEMMA RoutesStay ==
  ASSUME NEW C \in Conns, Routes(C), up'[C] => up[C], conn' = conn,
         handler'[C] \in Installed <=> handler[C] \in Installed,
         mode' = Local => ~key', UNCHANGED <<clientPc, clientConn, dialed>>
  PROVE  Routes(C)'
BY DEF Routes

LEMMA NextRoutes ==
  ASSUME NEW C \in Conns, IInv, EdgeInv, Routes(C), [Next]_vars
  PROVE  Routes(C)'
<1>0. /\ C # NoConn /\ mode \in {Local, Remote} /\ Local # Remote /\ key \in BOOLEAN
      /\ conn \in Conns \cup {NoConn} /\ up \in [Conns -> BOOLEAN]
      /\ handler \in [Conns -> {"none"} \cup Early \cup Installed]
      /\ handler[C] \in Early => conn # C
      /\ Early \cap Installed = {} /\ "none" \notin Early \cup Installed
  BY AnyConn DEF Early, Installed
<1>1. CASE HandOver \/ TakeBack \/ ForwardKey \/ SendEdge
  <2>1. /\ UNCHANGED <<conn, handler, clientPc, clientConn, dialed>> /\ (mode' = Local => ~key')
    BY <1>0, <1>1 DEF HandOver, TakeBack, ForwardKey, SendEdge, clientVars, macVars, Routes
  <2>2. CASE HandOver \/ TakeBack \/ ForwardKey
    <3>1. PICK m \in Frames : Send(m) BY <2>2 DEF HandOver, TakeBack, ForwardKey, Frames
    <3>2. up'[C] => up[C] BY <1>0, <3>1, SendUp
    <3> QED BY <2>1, <3>2, RoutesStay
  <2>3. CASE SendEdge
    <3>1. Send(Opposite(edge)) BY <2>3 DEF SendEdge
    <3>2. up'[C] => up[C] BY <1>0, <3>1, SendUp
    <3> QED BY <2>1, <3>2, RoutesStay
  <2> QED BY <1>1, <2>2, <2>3
<1>2. CASE \/ SetRemoteEdge \/ Write \/ \E t \in Tokens : WatchReturns(t) \/ WatchStops(t)
           \/ UNCHANGED vars
  <2>1. UNCHANGED <<mode, key, conn, handler, up, clientPc, clientConn, dialed>>
    BY <1>2 DEF SetRemoteEdge, Write, WatchReturns, WatchStops, vars, serverVars, macVars,
         netVars, clientVars
  <2> QED BY <2>1, RoutesStay DEF Routes
<1>3. ASSUME NEW d \in Droppers, DropStep(d) PROVE Routes(C)'
  <2>1. /\ UNCHANGED <<conn, handler, up, clientPc, clientConn, dialed>>
        /\ ~key' \/ UNCHANGED <<mode, key>>
    BY <1>3 DEF DropStep, DropReset, DropStatus, macVars, netVars, clientVars
  <2> QED BY <2>1, RoutesStay DEF Routes
<1>4. ASSUME NEW c \in Conns, Greet(c) \/ GreetEdge(c) \/ ShowConnected(c) \/ NetFails(c)
      PROVE  Routes(C)'
  <2>1. /\ UNCHANGED <<conn, mode, key, clientPc, clientConn, dialed>>
        /\ handler'[C] \in Installed <=> handler[C] \in Installed
    BY <1>0, <1>4 DEF Greet, GreetEdge, ShowConnected, NetFails, At, Installed, serverVars,
         macVars, clientVars
  <2>2. up'[C] => up[C]
    BY <1>0, <1>4 DEF Greet, GreetEdge, ShowConnected, NetFails, netVars
  <2> QED BY <2>1, <2>2, RoutesStay DEF Routes
<1>5. ASSUME NEW c \in Conns, Resync(c) \/ RecvSwitch(c) PROVE Routes(C)'
  <2>1. /\ UNCHANGED <<conn, clientPc, clientConn, dialed>> /\ (mode' = Local => ~key')
        /\ handler'[C] \in Installed <=> handler[C] \in Installed
    BY <1>0, <1>5 DEF Resync, RecvSwitch, At, Installed, macVars, clientVars, Routes
  <2>2. up'[C] => up[C]
    BY <1>0, <1>5, SendUp DEF Resync, RecvSwitch, queueVars
  <2> QED BY <2>1, <2>2, RoutesStay
<1>6. ASSUME NEW d \in Droppers, NEW c \in Conns, DropBegin(d, c),
             handler'[C] = handler[C] \/ (handler'[C] = "none" /\ c = C),
             UNCHANGED <<mode, key, clientPc, clientConn, dialed>>
      PROVE  Routes(C)'
  <2>1. /\ up'[C] => up[C] /\ c # C
        /\ conn' = C <=> conn = C /\ c # C
    BY <1>0, <1>6 DEF DropBegin
  <2> QED BY <1>0, <1>6, <2>1 DEF Routes
<1>7. CASE WriteError
  <2>1. Head(sendQ).conn \in Conns /\ Writer \in Droppers
    BY <1>7, Channels DEF WriteError, IInv, MacInv, MacTypes, Droppers
  <2> QED BY <1>6, <1>7, <2>1 DEF WriteError, macVars, clientVars
<1>8. ASSUME NEW c \in Conns, RecvEnds(c) PROVE Routes(C)'
  <2>1. c \in Droppers BY DEF Droppers
  <2> QED BY <1>0, <1>6, <1>8, <2>1 DEF RecvEnds, At, macVars, clientVars
<1>9. ASSUME NEW c \in Conns, GreetFails(c) PROVE Routes(C)'
  <2>1. /\ UNCHANGED <<mode, key, conn, clientPc, clientConn, dialed>>
        /\ up'[C] => up[C] /\ handler'[C] = handler[C]
        /\ handler'[C] = handler[C] \/ handler[C] \in Early
    BY <1>0, <1>9 DEF GreetFails, macVars, clientVars, Early
  <2> QED BY <1>0, <2>1 DEF Routes
<1>10. ASSUME NEW c \in Conns, SetConn(c) PROVE Routes(C)'
  <2>1. /\ UNCHANGED <<mode, key, clientPc, clientConn, dialed>> /\ conn' = c
        /\ c = C => handler'[C] \in Installed
        /\ c # C => handler'[C] = handler[C] /\ (up'[C] => up[C] /\ conn # C)
    BY <1>0, <1>10 DEF SetConn, At, clientVars, Installed
  <2> QED BY <1>0, <2>1 DEF Routes
<1>11. ASSUME NEW c \in Conns, Dial(c) PROVE Routes(C)'
  <2>1. /\ UNCHANGED <<mode, key, conn, clientConn>> /\ clientPc = "idle" /\ clientPc' = "greet"
        /\ c = C => handler'[C] \notin Installed /\ conn # C
        /\ c # C => handler'[C] = handler[C] /\ up'[C] = up[C]
    BY <1>0, <1>11 DEF Dial, Unused, macVars, Installed
  <2> QED BY <2>1 DEF Routes
<1>12. CASE Connected \/ Handle \/ ReadFails \/ RunOnceEnds
  <2>1. /\ UNCHANGED <<mode, key, conn, handler>> /\ (up'[C] => up[C])
        /\ clientPc' = "serve" => clientConn' = dialed'
        /\ clientPc' # "serve" => clientConn' = NoConn
    BY <1>0, <1>12 DEF Connected, Handle, ReadFails, RunOnceEnds, serverVars, macVars, netVars,
         Routes
  <2> QED BY <2>1 DEF Routes
<1> QED BY <1>1, <1>2, <1>3, <1>4, <1>5, <1>7, <1>8, <1>9, <1>10, <1>11, <1>12
    DEF Next, WriterStep, HandlerStep

LEMMA NextAlone ==
  ASSUME NEW C \in Conns, IInv, EdgeInv, Routes(C), Alone(C), [Next]_vars
  PROVE  Alone(C)'
<1> SUFFICES ASSUME Conns = {C}
             PROVE  /\ conn' = C \/ handler'[C] \in Early => \A d \in Droppers : dropPc'[d] = "no"
                    /\ conn' = NoConn => mode' = Local \/ \E d \in Droppers : dropPc'[d] = "reset"
                    /\ ~missed'
  BY DEF Alone
<1>0. /\ C # NoConn /\ conn \in {C, NoConn} /\ Droppers = {C, Writer}
      /\ dropPc \in [Droppers -> {"no", "reset", "status"}]
      /\ handler \in [Conns -> {"none"} \cup Early \cup Installed]
      /\ handler[C] \in Early => \A i \in 1..Len(sendQ) : sendQ[i].conn # C
      /\ Early \cap Installed = {} /\ "none" \notin Early \cup Installed
  BY AnyConn DEF Droppers, Early, Installed
<1>1. /\ conn = C \/ handler[C] \in Early => \A d \in Droppers : dropPc[d] = "no"
      /\ conn = NoConn => mode = Local \/ \E d \in Droppers : dropPc[d] = "reset"
      /\ ~missed
  BY DEF Alone
<1>2. CASE HandOver \/ TakeBack
  BY <1>0, <1>1, <1>2 DEF HandOver, TakeBack
<1>3. CASE ForwardKey \/ SetRemoteEdge \/ SendEdge \/ Write \/ UNCHANGED vars
           \/ Connected \/ Handle \/ ReadFails \/ RunOnceEnds
           \/ \E t \in Tokens : WatchReturns(t) \/ WatchStops(t)
  <2>1. UNCHANGED <<mode, missed, conn, handler, dropPc>>
    BY <1>3 DEF ForwardKey, SetRemoteEdge, SendEdge, Write, Connected, Handle, ReadFails,
         RunOnceEnds, WatchReturns, WatchStops, vars, serverVars, macVars
  <2> QED BY <1>1, <2>1
<1>4. ASSUME NEW d \in Droppers, NEW c \in Conns, DropBegin(d, c), handler'[C] \notin Early,
             UNCHANGED missed
      PROVE  /\ conn' = C \/ handler'[C] \in Early => \A x \in Droppers : dropPc'[x] = "no"
             /\ conn' = NoConn => mode' = Local \/ \E x \in Droppers : dropPc'[x] = "reset"
             /\ ~missed'
  <2>1. conn' = NoConn /\ dropPc'[d] = "reset" BY <1>0, <1>4 DEF DropBegin
  <2> QED BY <1>0, <1>1, <1>4, <2>1
<1>5. CASE WriteError
  <2>1. Head(sendQ).conn \in Conns /\ Writer \in Droppers
    BY <1>5, Channels DEF WriteError, IInv, MacInv, MacTypes, Droppers
  <2>2. \E i \in 1..Len(sendQ) : Head(sendQ) = sendQ[i] BY <1>5, Sequences, Unqueued DEF WriteError
  <2>3. handler'[C] \notin Early BY <1>0, <1>5, <2>1, <2>2 DEF WriteError
  <2> QED BY <1>4, <1>5, <2>1, <2>3 DEF WriteError, macVars
<1>6. CASE \E c \in Conns : RecvEnds(c)
  <2>1. C \in Droppers /\ RecvEnds(C) BY <1>0, <1>6
  <2> QED BY <1>0, <1>4, <2>1 DEF RecvEnds, At, macVars
<1>7. ASSUME NEW d \in Droppers, DropStep(d)
      PROVE  /\ conn' = C \/ handler'[C] \in Early => \A x \in Droppers : dropPc'[x] = "no"
             /\ conn' = NoConn => mode' = Local \/ \E x \in Droppers : dropPc'[x] = "reset"
             /\ ~missed'
  <2>1. dropPc[d] # "no" /\ UNCHANGED <<conn, handler>>
    BY <1>7 DEF DropStep, DropReset, DropStatus
  <2>2. conn = NoConn /\ handler[C] \notin Early BY <1>0, <1>1, <2>1
  <2>3. CASE DropReset(d) BY <1>0, <1>1, <2>1, <2>2, <2>3 DEF DropReset
  <2>4. CASE DropStatus(d) BY <1>0, <1>1, <2>1, <2>2, <2>4 DEF DropStatus, macVars
  <2> QED BY <1>7, <2>3, <2>4 DEF DropStep
<1>8. CASE \E c \in Conns : Greet(c) \/ GreetEdge(c) \/ GreetFails(c) \/ NetFails(c)
                            \/ ShowConnected(c) \/ Resync(c)
  <2>1. UNCHANGED <<mode, missed, conn, dropPc>> /\ (handler'[C] \in Early => handler[C] \in Early)
    BY <1>0, <1>8 DEF Greet, GreetEdge, GreetFails, NetFails, ShowConnected, Resync, At, Early,
         Installed, serverVars, macVars
  <2> QED BY <1>1, <2>1
<1>9. CASE \E c \in Conns : RecvSwitch(c)
  BY <1>1, <1>9 DEF RecvSwitch, macVars
<1>10. CASE \E c \in Conns : SetConn(c)
  <2>1. SetConn(C) BY <1>10
  <2> QED BY <1>0, <1>1, <2>1 DEF SetConn, At, Early
<1>11. CASE \E c \in Conns : Dial(c)
  <2>1. Dial(C) BY <1>11
  <2> QED BY <1>0, <1>1, <2>1 DEF Dial, Unused, macVars
<1> QED BY <1>2, <1>3, <1>5, <1>6, <1>7, <1>8, <1>9, <1>10, <1>11
    DEF Next, WriterStep, HandlerStep
-----------------------------------------------------------------------------
\* Control changes hands, or a key is forwarded.
LEMMA SwitchAgreed ==
  ASSUME NEW C \in Conns, IInv, EdgeInv, Routes(C), Agreed(C), HandOver \/ TakeBack \/ ForwardKey
  PROVE  Agreed(C)'
<1> DEFINE f == IF HandOver THEN "remote" ELSE IF TakeBack THEN "back"
                ELSE IF key THEN "release" ELSE "press"
<1>1. /\ Stream(C) \in Seq(Frames) /\ key \in BOOLEAN /\ missed \in BOOLEAN /\ Local # Remote
      /\ up[C] => handler[C] \in Early \cup Installed
  BY AnyConn
<1>2. UNCHANGED <<conn, handler, toClient, toServer, clientPc, wedged, remote, held>>
  BY DEF HandOver, TakeBack, ForwardKey, clientVars, injectVars
<1>3. Send(f) /\ f \in Frames BY DEF HandOver, TakeBack, ForwardKey, Frames
<1>4. /\ HandOver => /\ f = "remote" /\ mode = Local /\ mode' = Remote /\ key' = FALSE
                     /\ missed' = missed
      /\ ~HandOver /\ TakeBack => f = "back" /\ mode' = Local
      /\ ~HandOver /\ ~TakeBack => /\ f = (IF key THEN "release" ELSE "press")
                                   /\ mode = Remote /\ mode' = Remote
                                   /\ key' = ~key /\ missed' = missed
  BY DEF HandOver, TakeBack, ForwardKey
<1> HIDE DEF f
<1>5. (up'[C] => up[C]) /\ (conn = C /\ up'[C] => Stream(C)' = Append(Stream(C), f))
  BY <1>2, <1>3, SendGrows
<1> SUFFICES ASSUME up'[C], clientPc \in {"greet", "serve"}
             PROVE  /\ handler[C] \in Early => LocalAfter(toClient[C], remote)
                    /\ handler[C] \in Installed =>
                         /\ mode' = Local => LocalAfter(Stream(C)', remote)
                         /\ mode' = Remote /\ Obeys(C) =>
                              \/ /\ handler[C] # "recv" /\ Conns # {C}
                                 /\ LocalAfter(Stream(C)', remote)
                              \/ RemoteSoon(C)'
  <2>1. Obeys(C)' <=> Obeys(C) BY <1>2 DEF Obeys, NoBack
  <2> QED BY <1>2, <2>1 DEF Agreed, LocalSoon
<1>6. CASE handler[C] \in Early
  BY <1>5, <1>6 DEF Agreed, Early, Installed
<1>7. CASE handler[C] \in Installed
  <2>1. Stream(C)' = Append(Stream(C), f) BY <1>5, <1>7 DEF Routes
  <2>2. handler[C] \notin Early BY <1>7 DEF Early, Installed
  <2>3. /\ mode = Local /\ ~missed => LocalSoon(C)
        /\ mode = Remote /\ Obeys(C) =>
             \/ handler[C] # "recv" /\ Conns # {C} /\ LocalSoon(C)
             \/ RemoteSoon(C)
    BY <1>5, <1>7 DEF Agreed
  <2>4. /\ f = "remote" => RemoteIn(Append(Stream(C), f), remote)
        /\ f # "back" /\ RemoteIn(Stream(C), remote) => RemoteIn(Append(Stream(C), f), remote)
    BY <1>1, <1>3, RemoteInSteps, AnyConn
  <2>5. ASSUME RemoteIn(Stream(C)', remote),
               ~missed' => RemoteAfter(Stream(C)', remote, held, key')
        PROVE  RemoteSoon(C)'
    <3>1. RemoteIn(Stream(C), remote)' BY <1>2, <2>5
    <3>2. ~missed' => RemoteAfter(Stream(C), remote, held, key)' BY <1>2, <2>5
    <3> QED BY <3>1, <3>2 DEF RemoteSoon
  <2>6. CASE HandOver
    <3>1. ~missed => RemoteAfter(Append(Stream(C), f), remote, held, FALSE)
      BY <1>1, <1>3, <1>4, <2>3, <2>6, AfterAppend DEF LocalSoon
    <3>2. mode' = Remote /\ mode' # Local /\ key' = FALSE /\ missed' = missed
      BY <1>1, <1>4, <2>6
    <3>3. RemoteIn(Stream(C)', remote) BY <1>4, <2>1, <2>4, <2>6
    <3>4. ~missed' => RemoteAfter(Stream(C)', remote, held, key') BY <2>1, <3>1, <3>2
    <3>5. RemoteSoon(C)' BY <2>5, <3>3, <3>4
    <3> QED BY <2>2, <3>2, <3>5
  <2>7. CASE ~HandOver /\ TakeBack
    <3>1. LocalAfter(Append(Stream(C), f), remote) BY <1>1, <1>3, <1>4, <2>7, AfterAppend
    <3> QED BY <1>1, <1>4, <2>1, <2>2, <2>7, <3>1
  <2>8. CASE ~HandOver /\ ~TakeBack
    <3>1. f # "back" /\ f # "remote" BY <1>4, <2>8
    <3>2. LocalSoon(C) => LocalAfter(Append(Stream(C), f), remote)
      BY <1>1, <1>3, <3>1, AfterAppend DEF LocalSoon
    <3>3. ASSUME RemoteSoon(C), ~missed
          PROVE  RemoteAfter(Append(Stream(C), f), remote, held, key')
      <4>1. PICK k \in {key, FALSE} : RemoteAfter(Stream(C), remote, held, k)
        BY <3>3 DEF RemoteSoon
      <4>2. CASE key = TRUE
        <5>1. f = "release" /\ key' = FALSE BY <1>4, <2>8, <4>2
        <5>2. CASE k = TRUE BY <1>1, <1>3, <4>1, <5>1, <5>2, AfterAppend
        <5>3. CASE k = FALSE BY <1>1, <1>3, <4>1, <5>1, <5>3, AfterAppend
        <5> QED BY <4>1, <4>2, <5>2, <5>3
      <4>3. CASE key = FALSE
        <5>1. f = "press" /\ key' = TRUE /\ k = FALSE BY <1>4, <2>8, <4>1, <4>3
        <5> QED BY <1>1, <1>3, <4>1, <5>1, AfterAppend
      <4> QED BY <1>1, <4>2, <4>3
    <3>4. ASSUME RemoteSoon(C) PROVE RemoteSoon(C)'
      <4>1. RemoteIn(Stream(C)', remote) BY <2>1, <2>4, <3>1, <3>4 DEF RemoteSoon
      <4>2. ~missed' => RemoteAfter(Stream(C)', remote, held, key')
        BY <1>4, <2>1, <2>8, <3>3, <3>4
      <4> QED BY <2>5, <4>1, <4>2
    <3> QED BY <1>1, <1>4, <2>1, <2>2, <2>3, <2>8, <3>2, <3>4
  <2> QED BY <2>6, <2>7, <2>8
<1> QED BY <1>1, <1>5, <1>6, <1>7

\* The rest of what the Mac does outside the handlers.
LEMMA MacAgreed ==
  ASSUME NEW C \in Conns, IInv, EdgeInv, Routes(C), Agreed(C),
         \/ SetRemoteEdge \/ SendEdge \/ WriterStep \/ \E d \in Droppers : DropStep(d)
  PROVE  Agreed(C)'
<1>1. /\ C # NoConn /\ up \in [Conns -> BOOLEAN] /\ toClient[C] \in Seq(Frames)
      /\ DOMAIN toClient = Conns /\ mode \in {Local, Remote} /\ Local # Remote
      /\ sendQ \in Seq([conn : Conns, frame : Frames])
      /\ up[C] => handler[C] \in Early \cup Installed
      /\ handler[C] \in Early => \A i \in 1..Len(sendQ) : sendQ[i].conn # C
  BY AnyConn
<1>2. /\ UNCHANGED <<handler, toServer, clientPc, wedged, remote, held>>
  BY DEF SetRemoteEdge, SendEdge, WriterStep, Write, WriteError, DropStep, DropReset,
     DropStatus, netVars, clientVars, injectVars
<1>3. CASE SetRemoteEdge \/ \E d \in Droppers : DropStatus(d)
  <2>1. UNCHANGED <<mode, key, missed, toClient, sendQ, up>>
    BY <1>3 DEF SetRemoteEdge, DropStatus, macVars, netVars
  <2> QED BY <1>2, <2>1, AgreedStays DEF Stream
<1>4. CASE SendEdge
  <2>1. /\ UNCHANGED <<mode, key, missed, toClient>> /\ Send(Opposite(edge))
    BY <1>4 DEF SendEdge, macVars
  <2>2. Opposite(edge) \in Frames /\ Opposite(edge) \notin {"remote", "back"} \cup KeyFrames
    BY DEF Opposite, Frames, Edges, KeyFrames
  <2>3. up'[C] => up[C] /\ Course(Stream(C), remote, held, Stream(C)', remote', held')
    BY <1>2, <2>1, <2>2, SendGrows, SendCourse
  <2>4. Obeys(C)' <=> Obeys(C) BY <1>2 DEF Obeys, NoBack
  <2> QED BY <1>1, <1>2, <2>1, <2>3, <2>4, AgreedFollows
<1>5. CASE Write \/ (WriteError /\ Head(sendQ).conn # C)
  <2> DEFINE x == Head(sendQ)
  <2>1. /\ UNCHANGED <<mode, key, missed>> /\ sendQ # <<>> /\ sendQ' = Tail(sendQ)
    BY <1>5 DEF Write, WriteError, macVars
  <2>2. x.conn \in Conns BY <2>1, Channels DEF IInv, MacInv, MacTypes
  <2>3. up'[C] => /\ up[C]
                  /\ toClient'[C] = IF x.conn = C THEN Append(toClient[C], x.frame)
                                    ELSE toClient[C]
    BY <1>1, <1>5, <2>2 DEF Write, WriteError, Written, DropBegin
  <2>4. handler[C] \in Early => x.conn # C BY <1>1, <2>1, Unqueued
  <2> HIDE DEF x
  <2>5. up'[C] => Course(Stream(C), remote, held, Stream(C)', remote', held')
    BY <1>2, <2>1, <2>3, WriteCourse DEF x
  <2>6. Obeys(C)' <=> Obeys(C) BY <1>2 DEF Obeys, NoBack
  <2> QED BY <1>1, <1>2, <2>1, <2>3, <2>4, <2>5, <2>6, AgreedFollows
<1>6. CASE WriteError /\ Head(sendQ).conn = C
  <2>1. ~up'[C] BY <1>1, <1>6 DEF WriteError, DropBegin
  <2> QED BY <2>1 DEF Agreed
<1>7. ASSUME NEW d \in Droppers, DropReset(d) PROVE Agreed(C)'
  <2>1. /\ UNCHANGED <<conn, toClient, sendQ, up>> /\ mode' = Local
        /\ missed' = IF mode = Remote /\ conn # NoConn THEN TRUE ELSE missed
    BY <1>7 DEF DropReset, netVars
  <2>2. Stream(C)' = Stream(C) BY <2>1 DEF Stream
  <2>3. ASSUME up[C], handler[C] \in Installed, ~missed' PROVE mode = Local /\ ~missed
    <3>1. conn = C BY <2>3 DEF Routes
    <3> QED BY <1>1, <2>1, <2>3, <3>1
  <2> QED BY <1>1, <1>2, <2>1, <2>2, <2>3 DEF Agreed, LocalSoon
<1> QED BY <1>3, <1>4, <1>5, <1>6, <1>7 DEF WriterStep, DropStep
-----------------------------------------------------------------------------
\* A request other than for control is taken.
LEMMA NoBackStays ==
  ASSUME NEW C, toServer[C] \in Seq({"hello", "back"}), toServer[C] # <<>>,
         toServer'[C] = Tail(toServer[C]), Head(toServer[C]) # "back", NoBack(C)'
  PROVE  NoBack(C)
<1> DEFINE q == toServer[C]
           m == Len(q)
<1>1. /\ m \in Nat \ {0} /\ Head(q) = q[1] /\ Len(Tail(q)) = m - 1
      /\ \A i \in 1..m - 1 : Tail(q)[i] = q[i + 1]
  BY HeadTailProperties, EmptySeq
<1>2. \A i \in 1..m - 1 : Tail(q)[i] # "back" BY <1>1 DEF NoBack
<1>3. ASSUME NEW i \in 1..m PROVE q[i] # "back"
  <2>1. i = 1 \/ (i - 1 \in 1..m - 1 /\ (i - 1) + 1 = i) BY <1>1
  <2>2. CASE i = 1 BY <1>1, <2>2
  <2>3. CASE i - 1 \in 1..m - 1 /\ (i - 1) + 1 = i BY <1>1, <1>2, <2>3
  <2> QED BY <2>1, <2>2, <2>3
<1> QED BY <1>3 DEF NoBack

\* A client is greeted, or a connection ends.
LEMMA GreetAgreed ==
  ASSUME NEW C \in Conns, IInv, EdgeInv, Routes(C), Agreed(C), NEW c \in Conns,
         Greet(c) \/ GreetEdge(c) \/ GreetFails(c) \/ ShowConnected(c) \/ NetFails(c) \/ RecvEnds(c)
  PROVE  Agreed(C)'
<1>1. /\ up \in [Conns -> BOOLEAN] /\ toClient[C] \in Seq(Frames) /\ DOMAIN toClient = Conns
      /\ handler \in [Conns -> {"none"} \cup Early \cup Installed]
      /\ up[C] => handler[C] \in Early \cup Installed
      /\ DOMAIN toServer = Conns
  BY AnyConn
<1>2. UNCHANGED <<mode, key, missed, sendQ, clientPc, wedged, remote, held>>
  BY DEF Greet, GreetEdge, GreetFails, ShowConnected, NetFails, RecvEnds, serverVars, macVars,
     clientVars, injectVars
<1>3. CASE (Greet(c) \/ GreetEdge(c)) /\ c = C
  <2> DEFINE f == IF handler[C] = "handshake" THEN "hello" ELSE Opposite(edge)
  <2>1. /\ UNCHANGED up /\ handler[C] \in Early /\ handler'[C] \in Early /\ Written(C, f)
    BY <1>1, <1>3 DEF Greet, GreetEdge, At, Early
  <2>2. f \in Frames /\ f # "remote" /\ f # "back" BY DEF Frames, Opposite, Edges
  <2> HIDE DEF f
  <2>3. up[C] => toClient'[C] = Append(toClient[C], f) BY <1>1, <2>1 DEF Written
  <2>4. up[C] /\ LocalAfter(toClient[C], remote) => LocalAfter(toClient'[C], remote)
    BY <1>1, <2>2, <2>3, AfterAppend
  <2>5. handler'[C] \notin Installed BY <2>1 DEF Early, Installed
  <2> QED BY <1>2, <2>1, <2>4, <2>5 DEF Agreed
<1>4. CASE (Greet(c) \/ GreetEdge(c)) /\ c # C
  <2>1. UNCHANGED up /\ handler'[C] = handler[C] /\ toClient'[C] = toClient[C]
    BY <1>1, <1>4 DEF Greet, GreetEdge, At, Written
  <2>2. toServer'[C] = toServer[C] BY <1>1, <1>4 DEF Greet, GreetEdge
  <2> QED BY <1>2, <2>1, <2>2, AgreedStays DEF Stream
<1>5. CASE ShowConnected(c) \/ NetFails(c) \/ GreetFails(c) \/ RecvEnds(c)
  <2>1. /\ UNCHANGED <<toClient, toServer>>
        /\ up'[C] => /\ up[C]
                     /\ \/ handler'[C] = handler[C]
                        \/ handler[C] = "status" /\ handler'[C] = "resync"
    BY <1>1, <1>5 DEF ShowConnected, NetFails, GreetFails, RecvEnds, DropBegin, At, serverVars,
         netVars
  <2> QED BY <1>2, <2>1, AgreedStays DEF Stream
<1> QED BY <1>3, <1>4, <1>5

\* The client is installed: it is under local control, whatever the mode.
LEMMA InstallAgreed ==
  ASSUME NEW C \in Conns, IInv, EdgeInv, Routes(C), Alone(C), Agreed(C), NEW c \in Conns, SetConn(c)
  PROVE  Agreed(C)'
<1>1. /\ C # NoConn /\ up \in [Conns -> BOOLEAN] /\ toClient[C] \in Seq(Frames)
      /\ mode \in {Local, Remote} /\ conn \in Conns \cup {NoConn}
      /\ handler \in [Conns -> {"none"} \cup Early \cup Installed]
      /\ handler[C] \in Early => conn # C /\ \A i \in 1..Len(sendQ) : sendQ[i].conn # C
      /\ sendQ \in Seq([conn : Conns, frame : Frames])
      /\ handler[C] \in Early \cup Installed \/ ~up[C]
  BY AnyConn
<1>2. /\ UNCHANGED <<mode, key, toClient, toServer, sendQ, clientPc, wedged, remote, held>>
      /\ handler[c] = "install" /\ handler'[c] = "status"
      /\ c # C => handler'[C] = handler[C] /\ missed' = FALSE
      /\ up'[C] => up[C] /\ (C # conn \/ C = c)
  BY <1>1 DEF SetConn, At, clientVars, injectVars
<1>3. Stream(C)' = Stream(C) BY <1>2 DEF Stream
<1>4. CASE c # C
  <2>1. up'[C] => up[C] /\ handler[C] \notin Installed /\ handler'[C] = handler[C]
    BY <1>2, <1>4 DEF Routes
  <2> QED BY <1>2, <2>1 DEF Agreed
<1>5. CASE c = C
  <2>1. handler[C] \in Early /\ handler'[C] \notin Early /\ handler'[C] # "recv"
    BY <1>2, <1>5 DEF Early
  <2>2. ASSUME up[C], clientPc \in {"greet", "serve"} PROVE LocalAfter(Stream(C), remote)
    <3>1. LocalAfter(toClient[C], remote) BY <2>1, <2>2 DEF Agreed
    <3>2. /\ FramesFor(sendQ, C) \in Seq(Frames) /\ Len(FramesFor(sendQ, C)) = Len(sendQ)
          /\ \A i \in 1..Len(sendQ) : FramesFor(sendQ, C)[i] = Seen(sendQ[i], C)
      BY <1>1, FramesOfQueue
    <3>3. \A i \in 1..Len(FramesFor(sendQ, C)) : FramesFor(sendQ, C)[i] = "hello"
      BY <1>1, <2>1, <3>2 DEF Seen
    <3> QED BY <1>1, <3>1, <3>2, <3>3, AfterPad DEF Stream
  <2>3. Conns = {C} => mode = Local
    BY <1>1, <2>1 DEF Alone
  <2>4. Local # Remote BY AnyConn
  <2> QED BY <1>2, <1>3, <2>1, <2>2, <2>3, <2>4 DEF Agreed, LocalSoon
<1> QED BY <1>4, <1>5

\* The handler of c tells its client the mode, or gives control back for it.
LEMMA RecvAgreed ==
  ASSUME NEW C \in Conns, IInv, EdgeInv, Routes(C), Agreed(C), NEW c \in Conns,
         Resync(c) \/ RecvSwitch(c)
  PROVE  Agreed(C)'
<1>1. /\ Stream(C) \in Seq(Frames) /\ mode \in {Local, Remote} /\ Local # Remote
      /\ key \in BOOLEAN /\ up \in [Conns -> BOOLEAN]
      /\ handler \in [Conns -> {"none"} \cup Early \cup Installed]
      /\ up[C] => handler[C] \in Early \cup Installed
      /\ toServer \in [Conns -> Seq({"hello", "back"})]
      /\ remote \in BOOLEAN /\ held \in BOOLEAN /\ (held => remote)
  BY AnyConn
<1>2. /\ UNCHANGED <<conn, toClient, clientPc, wedged, remote, held>>
      /\ handler'[C] = handler[C] \/ (c = C /\ handler[C] = "resync" /\ handler'[C] = "recv")
  BY <1>1 DEF Resync, RecvSwitch, At, clientVars, injectVars
<1>3. CASE RecvSwitch(c) /\ Head(toServer[c]) = "back" /\ mode = Remote
  <2>1. /\ mode' = Local /\ Send("back") /\ "back" \in Frames /\ handler' = handler
    BY <1>3 DEF RecvSwitch, Frames
  <2>2. (up'[C] => up[C]) /\ (conn = C /\ up'[C] => Stream(C)' = Append(Stream(C), "back"))
    BY <1>2, <2>1, SendGrows
  <2>3. LocalAfter(Append(Stream(C), "back"), remote) BY <1>1, <2>1, AfterAppend
  <2>4. up'[C] /\ handler[C] \in Installed => LocalAfter(Stream(C)', remote)
    BY <2>2, <2>3 DEF Routes
  <2> QED BY <1>1, <1>2, <2>1, <2>2, <2>4 DEF Agreed, LocalSoon
<1>4. CASE RecvSwitch(c) /\ ~(Head(toServer[c]) = "back" /\ mode = Remote)
  <2>1. UNCHANGED <<mode, key, missed, sendQ, up, handler>>
    BY <1>4 DEF RecvSwitch, queueVars, macVars
  <2>2. /\ toServer[C] \in Seq({"hello", "back"})
        /\ c # C => toServer'[C] = toServer[C]
        /\ c = C => toServer[C] # <<>> /\ toServer'[C] = Tail(toServer[C])
    BY <1>1, <1>4 DEF RecvSwitch
  <2>3. mode = Remote /\ NoBack(C)' => NoBack(C)
    <3>1. CASE c = C BY <1>4, <2>2, <3>1, NoBackStays
    <3>2. CASE c # C BY <2>2, <3>2 DEF NoBack
    <3> QED BY <3>1, <3>2
  <2>4. mode = Remote /\ Obeys(C)' => Obeys(C) BY <1>2, <2>3 DEF Obeys
  <2>5. Stream(C)' = Stream(C) BY <1>2, <2>1 DEF Stream
  <2>6. Course(Stream(C), remote, held, Stream(C)', remote', held')
    BY <1>1, <1>2, <2>5, CourseSteps
  <2> QED BY <1>1, <1>2, <2>1, <2>4, <2>6, AgreedFollows
<1>5. CASE Resync(c) /\ mode # Remote
  <2>1. UNCHANGED <<mode, key, missed, sendQ, up, toServer>>
    BY <1>5 DEF Resync, queueVars, macVars
  <2>2. Stream(C)' = Stream(C) BY <1>2, <2>1 DEF Stream
  <2>3. handler'[C] \in Early <=> handler[C] \in Early BY <1>2 DEF Early
  <2>4. handler'[C] \in Installed <=> handler[C] \in Installed BY <1>2 DEF Installed
  <2> QED BY <1>1, <1>2, <1>5, <2>1, <2>2, <2>3, <2>4 DEF Agreed, LocalSoon
<1>6. CASE Resync(c) /\ mode = Remote
  <2>1. /\ UNCHANGED <<mode, key, missed, toServer>> /\ Send("remote") /\ "remote" \in Frames
        /\ handler[c] = "resync"
    BY <1>6 DEF Resync, macVars, Frames, At
  <2>2. (up'[C] => up[C]) /\ (conn = C /\ up'[C] => Stream(C)' = Append(Stream(C), "remote"))
    BY <1>2, <2>1, SendGrows
  <2>3. Obeys(C)' <=> Obeys(C) BY <1>2, <2>1 DEF Obeys, NoBack
  <2>4. handler[C] \in Early => handler'[C] \in Early /\ handler'[C] \notin Installed
    BY <1>2 DEF Early, Installed
  <2>5. handler[C] \in Installed => handler'[C] \in Installed /\ handler'[C] \notin Early
    BY <1>2 DEF Early, Installed
  <2>6. CASE handler[C] \in Early
    BY <1>2, <2>2, <2>4, <2>6 DEF Agreed
  <2>7. ASSUME handler[C] \in Installed, up'[C], clientPc \in {"greet", "serve"}, Obeys(C)
        PROVE  RemoteSoon(C)'
    <3>1. Stream(C)' = Append(Stream(C), "remote") /\ up[C] BY <2>2, <2>7 DEF Routes
    <3>2. RemoteIn(Append(Stream(C), "remote"), remote)
      BY <1>1, <2>1, RemoteInSteps
    <3>3. ASSUME ~missed
          PROVE  \E k \in {key, FALSE} :
                   /\ Conns = {C} => k = key
                   /\ RemoteAfter(Append(Stream(C), "remote"), remote, held, k)
      <4>1. CASE Conns # {C} /\ LocalSoon(C)
        <5>1. RemoteAfter(Append(Stream(C), "remote"), remote, held, FALSE)
          BY <1>1, <2>1, <4>1, AfterAppend DEF LocalSoon
        <5> QED BY <4>1, <5>1
      <4>2. CASE RemoteSoon(C)
        <5>1. PICK k \in {key, FALSE} : /\ Conns = {C} => k = key
                                        /\ RemoteAfter(Stream(C), remote, held, k)
          BY <3>3, <4>2 DEF RemoteSoon
        <5>2. "remote" # "back" /\ "remote" \notin KeyFrames BY DEF KeyFrames
        <5>3. RemoteAfter(Append(Stream(C), "remote"), remote, held, k)
          <6>1. CASE k = TRUE BY <1>1, <2>1, <5>1, <5>2, <6>1, AfterAppend
          <6>2. CASE k = FALSE BY <1>1, <2>1, <5>1, <5>2, <6>2, AfterAppend
          <6> QED BY <1>1, <6>1, <6>2
        <5> QED BY <5>1, <5>3
      <4>3. (Conns # {C} /\ LocalSoon(C)) \/ RemoteSoon(C)
        BY <1>6, <2>7, <3>1 DEF Agreed
      <4> QED BY <4>1, <4>2, <4>3
    <3>4. UNCHANGED <<remote, held, key, missed>> BY <1>2, <2>1
    <3> QED BY <3>1, <3>2, <3>3, <3>4 DEF RemoteSoon
  <2>8. CASE handler[C] \in Installed
    <3>1. mode' # Local BY <1>1, <1>6, <2>1
    <3> QED BY <1>2, <2>3, <2>5, <2>7, <2>8, <3>1 DEF Agreed
  <2>9. CASE ~up[C] BY <2>2, <2>9 DEF Agreed
  <2> QED BY <1>1, <2>6, <2>8, <2>9
<1> QED BY <1>3, <1>4, <1>5, <1>6
-----------------------------------------------------------------------------
\* A new connection starts with nothing under way, and under local control.
LEMMA DialAgreed ==
  ASSUME NEW C \in Conns, IInv, EdgeInv, Agreed(C), NEW c \in Conns, Dial(c)
  PROVE  Agreed(C)'
<1>1. /\ up \in [Conns -> BOOLEAN] /\ DOMAIN toClient = Conns
      /\ handler \in [Conns -> {"none"} \cup Early \cup Installed]
      /\ up[C] => clientPc # "idle"
  BY AnyConn
<1>2. CASE c # C
  <2>1. ~up'[C] BY <1>1, <1>2 DEF Dial
  <2> QED BY <2>1 DEF Agreed
<1>3. CASE c = C
  <2>1. handler'[C] \notin Installed /\ toClient'[C] = <<>> /\ remote' = remote
    BY <1>1, <1>3 DEF Dial, Installed, injectVars
  <2>2. ~remote BY DEF Dial, IInv, ClientInv, GreetIsLocal
  <2>3. LocalAfter(<<>>, remote)
    <3>1. Len(<<>>) = 0 /\ 1..0 = {} OBVIOUS
    <3> QED BY <2>2, <3>1 DEF LocalAfter, LocalUntil
  <2> QED BY <2>1, <2>3 DEF Agreed
<1> QED BY <1>2, <1>3

\* What a frame does to the client (handle).
LEMMA FrameTaken ==
  ASSUME NEW C \in Conns, IInv, EdgeInv, up[C], Connected \/ Handle
  PROVE  /\ toClient[C] # <<>>
         /\ remote' = RemoteOf(Head(toClient[C]), remote)
         /\ held' = KeyOf(Head(toClient[C]), remote, held)
<1> DEFINE f == Head(toClient[C])
<1>1. /\ toClient[C] \in Seq(Frames) /\ dialed = C /\ toClient[C] # <<>>
      /\ handler[C] \in Early \cup Installed
      /\ remote \in BOOLEAN /\ held \in BOOLEAN /\ (held => remote)
  BY AnyConn DEF Connected, Handle
<1>2. CASE Connected
  <2>1. f = toClient[C][1] BY <1>1, Taken
  <2>2. f = "hello" BY <1>1, <1>2, <2>1 DEF Connected, EdgeInv, GreetingFirst
  <2>3. UNCHANGED <<remote, held>> BY <1>2 DEF Connected, injectVars
  <2> HIDE DEF f
  <2>4. remote' = RemoteOf(f, remote) /\ held' = KeyOf(f, remote, held)
    BY <1>1, <2>2, <2>3 DEF RemoteOf, KeyOf, KeyFrames
  <2> QED BY <1>1, <2>4 DEF f
<1>3. CASE Handle
  <2>1. f \in Frames BY <1>1, HeadTailProperties
  <2>2. /\ f = "remote" => EnterRemote
        /\ f = "back" => LeaveRemote
        /\ f \in {"press", "release"} =>
             held' = (IF remote THEN f = "press" ELSE held) /\ UNCHANGED remote
        /\ f \in {"hello"} \cup Edges => UNCHANGED <<remote, held>>
    BY <1>1, <1>3 DEF Handle, Edges, injectVars
  <2> HIDE DEF f
  <2>3. f = "remote" => remote' = RemoteOf(f, remote) /\ held' = KeyOf(f, remote, held)
    BY <1>1, <2>2 DEF EnterRemote, injectVars, RemoteOf, KeyOf, KeyFrames
  <2>4. f = "back" => remote' = RemoteOf(f, remote) /\ held' = KeyOf(f, remote, held)
    BY <1>1, <2>2 DEF LeaveRemote, injectVars, RemoteOf, KeyOf, KeyFrames
  <2>5. f \in {"press", "release"} =>
          remote' = RemoteOf(f, remote) /\ held' = KeyOf(f, remote, held)
    BY <1>1, <2>2 DEF RemoteOf, KeyOf, KeyFrames
  <2>6. f \in {"hello"} \cup Edges =>
          remote' = RemoteOf(f, remote) /\ held' = KeyOf(f, remote, held)
    BY <1>1, <2>2 DEF RemoteOf, KeyOf, KeyFrames, Edges
  <2>7. remote' = RemoteOf(f, remote) /\ held' = KeyOf(f, remote, held)
    BY <2>1, <2>3, <2>4, <2>5, <2>6 DEF Frames
  <2> QED BY <1>1, <2>7 DEF f
<1> QED BY <1>2, <1>3

\* The client takes the next frame of the stream.
LEMMA ServeAgreed ==
  ASSUME NEW C \in Conns, IInv, EdgeInv, Agreed(C), Connected \/ Handle
  PROVE  Agreed(C)'
<1>1. /\ toClient[C] \in Seq(Frames) /\ DOMAIN toClient = Conns /\ Stream(C) \in Seq(Frames)
      /\ FramesFor(sendQ, C) \in Seq(Frames)
      /\ remote \in BOOLEAN /\ held \in BOOLEAN /\ (held => remote)
      /\ up[C] => dialed = C /\ handler[C] \in Early \cup Installed
  BY AnyConn
<1>2. /\ UNCHANGED <<mode, key, missed, handler, up, sendQ, toServer>>
      /\ clientPc \in {"greet", "serve"} /\ clientPc' = "serve"
      /\ clientPc = "serve" => wedged' = wedged
      /\ toClient' = [toClient EXCEPT ![dialed] = Tail(@)]
  BY DEF Connected, Handle, serverVars, macVars
<1>3. Obeys(C)' => Obeys(C) BY <1>2 DEF Obeys, NoBack
<1>4. ASSUME up[C]
      PROVE  /\ LocalAfter(toClient[C], remote) => LocalAfter(toClient'[C], remote')
             /\ Course(Stream(C), remote, held, Stream(C)', remote', held')
  <2> DEFINE f == Head(toClient[C])
  <2>1. /\ toClient[C] # <<>> /\ remote' = RemoteOf(f, remote) /\ held' = KeyOf(f, remote, held)
    BY <1>4, FrameTaken
  <2>2. toClient'[C] = Tail(toClient[C]) BY <1>1, <1>2, <1>4
  <2>3. Stream(C) # <<>> /\ Head(Stream(C)) = f /\ Stream(C)' = Tail(Stream(C))
    <3>1. Stream(C)' = Tail(toClient[C]) \o FramesFor(sendQ, C) BY <1>2, <2>2 DEF Stream
    <3>2. Stream(C) = toClient[C] \o FramesFor(sendQ, C) BY DEF Stream
    <3> QED BY <1>1, <2>1, <3>1, <3>2, StreamShrinks
  <2> HIDE DEF f
  <2>4. Course(Stream(C), remote, held, Tail(Stream(C)), RemoteOf(f, remote), KeyOf(f, remote, held))
    BY <1>1, <2>3, CourseSteps
  <2>5. Course(toClient[C], remote, held, Tail(toClient[C]), RemoteOf(f, remote), KeyOf(f, remote, held))
    BY <1>1, <2>1, CourseSteps DEF f
  <2> QED BY <2>1, <2>2, <2>3, <2>4, <2>5 DEF Course
<1> QED BY <1>1, <1>2, <1>3, <1>4, AgreedFollows

\* The client leaves the connection, or a watcher asks for the return.
LEMMA LeaveAgreed ==
  ASSUME NEW C \in Conns, IInv, EdgeInv, Routes(C), Agreed(C),
         ReadFails \/ RunOnceEnds \/ \E t \in Tokens : WatchReturns(t) \/ WatchStops(t)
  PROVE  Agreed(C)'
<1>1. /\ up \in [Conns -> BOOLEAN] /\ (up[C] => dialed = C)
      /\ toServer \in [Conns -> Seq({"hello", "back"})]
  BY AnyConn
<1>2. UNCHANGED <<mode, key, missed, handler, sendQ, toClient>>
  BY DEF ReadFails, RunOnceEnds, WatchReturns, WatchStops, serverVars, macVars, netVars
<1>3. CASE ReadFails \/ RunOnceEnds
  <2>1. clientPc' \notin {"greet", "serve"} BY <1>3 DEF ReadFails, RunOnceEnds
  <2> QED BY <2>1 DEF Agreed
<1>4. ASSUME NEW t \in Tokens, WatchReturns(t) PROVE Agreed(C)'
  <2>1. /\ UNCHANGED <<up, clientPc, clientConn, dialed>> /\ remote /\ ~remote' /\ Request
    BY <1>4 DEF WatchReturns
  <2>2. Stream(C)' = Stream(C) BY <1>2 DEF Stream
  <2>3. \A q : LocalAfter(q, remote) => LocalAfter(q, remote') BY <2>1 DEF LocalAfter, LocalUntil
  <2>4. ASSUME up[C], clientPc \in {"greet", "serve"} PROVE ~Obeys(C)'
    <3>1. clientPc = "serve" BY <2>1, <2>4 DEF IInv, ClientInv, GreetIsLocal
    <3>2. clientConn = C BY <1>1, <2>4, <3>1 DEF Routes
    <3>3. ASSUME toServer'[C] = Append(toServer[C], "back") PROVE ~NoBack(C)'
      <4>1. toServer[C] \in Seq({"hello", "back"}) /\ "back" \in {"hello", "back"} BY <1>1
      <4>2. /\ Len(toServer[C]) \in Nat /\ Len(toServer'[C]) = Len(toServer[C]) + 1
            /\ toServer'[C][Len(toServer[C]) + 1] = "back"
        BY <3>3, <4>1, AppendProperties, LenProperties
      <4>3. Len(toServer[C]) + 1 \in 1..Len(toServer'[C]) BY <4>2
      <4> QED BY <4>2, <4>3 DEF NoBack
    <3>4. toServer'[C] = Append(toServer[C], "back") \/ wedged'
      <4>1. C # NoConn /\ DOMAIN toServer = Conns BY <1>1, SessionAssumption
      <4> QED BY <2>1, <2>4, <3>2, <4>1 DEF Request
    <3>5. clientPc' # "greet" BY <2>1, <3>1
    <3> QED BY <3>3, <3>4, <3>5 DEF Obeys
  <2> QED BY <1>2, <2>1, <2>2, <2>3, <2>4 DEF Agreed, LocalSoon
<1>5. ASSUME NEW t \in Tokens, WatchStops(t) PROVE Agreed(C)'
  <2>1. UNCHANGED <<up, toServer, clientPc, wedged, remote, held>>
    BY <1>5 DEF WatchStops, netVars
  <2> QED BY <1>2, <2>1, AgreedStays DEF Stream
<1> QED BY <1>3, <1>4, <1>5

LEMMA InitControl == ASSUME NEW C \in Conns, Init PROVE ControlInv(C)
BY SessionAssumption
DEF Init, ControlInv, Routes, Alone, Agreed, Early, Installed

LEMMA NextControl ==
  ASSUME NEW C \in Conns, IInv, EdgeInv, ControlInv(C), [Next]_vars
  PROVE  ControlInv(C)'
<1>1. Routes(C)' BY NextRoutes DEF ControlInv
<1>2. Alone(C)' BY NextAlone DEF ControlInv
<1>3. CASE Next
  <2>1. Agreed(C)'
    BY <1>3, SwitchAgreed, MacAgreed, GreetAgreed, InstallAgreed, RecvAgreed, DialAgreed,
       ServeAgreed, LeaveAgreed
    DEF ControlInv, Next, HandlerStep
  <2> QED BY <1>1, <1>2, <2>1 DEF ControlInv
<1>4. CASE UNCHANGED vars
  <2>1. UNCHANGED <<mode, key, missed, handler, sendQ, toClient, up, toServer, clientPc, wedged,
                    remote, held>>
    BY <1>4 DEF vars, serverVars, macVars, netVars, clientVars, injectVars
  <2>2. Agreed(C)' BY <2>1, AgreedStays DEF ControlInv, Stream
  <2> QED BY <1>1, <1>2, <2>2 DEF ControlInv
<1> QED BY <1>3, <1>4

\* Nothing moves: the client is where its stream brings it.
LEMMA QuietAgrees ==
  ASSUME NEW C \in Conns, IInv, EdgeInv, ControlInv(C), Quiet(C), ~wedged
  PROVE  /\ mode = Remote => remote
         /\ ~missed => (remote => mode = Remote) /\ (held => key)
         /\ Conns = {C} => remote = (mode = Remote) /\ held = key
<1>1. /\ mode \in {Local, Remote} /\ Local # Remote /\ remote \in BOOLEAN /\ held \in BOOLEAN
      /\ key \in BOOLEAN /\ (held => remote)
  BY AnyConn
<1>2. /\ up[C] /\ clientPc = "serve" /\ sendQ = <<>> /\ toClient[C] = <<>> /\ toServer[C] = <<>>
      /\ handler[C] = "recv" /\ handler[C] \in Installed /\ handler[C] \notin Early
  BY DEF Quiet, Early, Installed
<1>3. Stream(C) \in Seq(Frames) /\ Len(Stream(C)) = 0
  <2>1. <<>> \in Seq(Frames) /\ <<>> \in Seq([conn : Conns, frame : Frames]) /\ Len(<<>>) = 0
    BY EmptySeq
  <2>2. FramesFor(<<>>, C) \in Seq(Frames) /\ Len(FramesFor(<<>>, C)) = 0
    BY <2>1, FramesOfQueue
  <2>3. /\ Len(<<>> \o FramesFor(<<>>, C)) = Len(<<>>) + Len(FramesFor(<<>>, C))
        /\ <<>> \o FramesFor(<<>>, C) \in Seq(Frames)
    BY <2>1, <2>2, Joined
  <2> QED BY <1>2, <2>1, <2>2, <2>3 DEF Stream
<1>4. 1..0 = {} /\ 0 + 1 .. 0 = {} OBVIOUS
<1>5. Obeys(C)
  <2>1. Len(<<>>) = 0 OBVIOUS
  <2> QED BY <1>2, <1>4, <2>1 DEF Obeys, NoBack
<1>6. Conns = {C} => ~missed BY DEF ControlInv, Alone
<1>7. CASE mode = Local
  <2>1. ~missed => LocalSoon(C) BY <1>2, <1>7 DEF ControlInv, Agreed
  <2>2. LocalSoon(C) => ~remote BY <1>3, <1>4 DEF LocalSoon, LocalAfter, LocalUntil
  <2>3. ~key BY <1>7 DEF ControlInv, Routes
  <2> QED BY <1>1, <1>6, <1>7, <2>1, <2>2, <2>3
<1>8. CASE mode = Remote
  <2>1. RemoteSoon(C) BY <1>2, <1>5, <1>8 DEF ControlInv, Agreed
  <2>2. remote BY <1>3, <1>4, <2>1 DEF RemoteSoon, RemoteIn
  <2>3. ASSUME ~missed PROVE (held => key) /\ (Conns = {C} => held = key)
    <3>1. PICK k \in {key, FALSE} : /\ Conns = {C} => k = key
                                    /\ RemoteAfter(Stream(C), remote, held, k)
      BY <2>1, <2>3 DEF RemoteSoon
    <3>2. held = k BY <1>3, <1>4, <3>1 DEF RemoteAfter, KeyAfter
    <3>3. k = key \/ ~held BY <3>1, <3>2
    <3> QED BY <3>1, <3>2, <3>3
  <2> QED BY <1>1, <1>6, <1>8, <2>2, <2>3
<1> QED BY <1>1, <1>7, <1>8

\* Once every frame has been handled, the Mac never forwards to a client that
\* does not take the input, and a client has control, or holds the key, only
\* if the Mac means it to or took control back without a word: for any number
\* of connections that overlap (setConn, dropConn, the re-sync of handleConn).
THEOREM ControlAsTold == Spec => []ControlIsAsTold
<1>1. Init => EdgeInv /\ \A C \in Conns : ControlInv(C) BY InitEdge, InitControl
<1>2. IInv /\ EdgeInv /\ (\A C \in Conns : ControlInv(C)) /\ [Next]_vars =>
        EdgeInv' /\ (\A C \in Conns : ControlInv(C))'
  BY NextEdge, NextControl
<1>3. IInv /\ EdgeInv /\ (\A C \in Conns : ControlInv(C)) => ControlIsAsTold
  BY QuietAgrees DEF ControlIsAsTold
<1> QED BY <1>1, <1>2, <1>3, InvariantIsInductive, PTL DEF Spec

\* Once every frame has been handled the Mac and the client agree on who has
\* control and on the key (enterRemoteLocked, leaveRemoteLocked, recvLoop,
\* edgeWatch), for any queue, any network and any number of sessions, as long
\* as no connection overlaps the end of the one before.
THEOREM ControlAlwaysAgrees ==
  ASSUME NEW C, Conns = {C}
  PROVE  Spec => []ControlAgrees
<1>0. C \in Conns OBVIOUS
<1>1. Init => EdgeInv /\ ControlInv(C) BY <1>0, InitEdge, InitControl
<1>2. IInv /\ EdgeInv /\ ControlInv(C) /\ [Next]_vars => EdgeInv' /\ ControlInv(C)'
  BY <1>0, NextEdge, NextControl
<1>3. IInv /\ EdgeInv /\ ControlInv(C) => ControlAgrees
  BY <1>0, QuietAgrees DEF ControlAgrees
<1> QED BY <1>1, <1>2, <1>3, InvariantIsInductive, PTL DEF Spec
=============================================================================
