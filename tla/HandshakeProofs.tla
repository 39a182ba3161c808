-------------------------- MODULE HandshakeProofs --------------------------
(***************************************************************************)
(* Safety of module Handshake for any set of keys and of versions.         *)
(*                                                                         *)
(* What a side has found out about its peer follows from what can be on    *)
(* its way to it: a proof and a Hello are those of the peer, and the Mac's *)
(* Hello is sent only after it has admitted the client.                    *)
(* GoodPairConnects needs more: what is on its way is the part of a fixed  *)
(* script that one side has said and the other has not read (GoodInv).     *)
(***************************************************************************)
EXTENDS Handshake, SequenceTheorems, TLAPS

\* What can be on its way to p.
MessagesFor(p) ==
  {Plain("tls"), Plain("screen"), Plain("edge")}
  \cup {Proof(secret[Peer(p)], Role(Peer(p)))}
  \cup {m \in {Hello(Peer(p))} : p = Mac \/ admitted}

Types ==
  /\ pc \in [Sides -> Pcs]
  /\ secret \in [Sides -> Secrets] /\ version \in [Sides -> Versions]
  /\ open \in [Sides -> BOOLEAN] /\ deadline \in [Sides -> BOOLEAN]
  /\ admitted \in BOOLEAN

Channels ==
  /\ DOMAIN channel = Sides
  /\ \A p \in Sides : channel[p] \in Seq(MessagesFor(p))

\* What the Mac and the client know where they are.
MacKnows ==
  /\ pc[Mac] \in {"greeting", "hello", "screen", "sendHello", "sendScreen", "sendEdge", "served"} =>
       SameKey /\ admitted
  /\ pc[Mac] \in {"screen", "sendHello", "sendScreen", "sendEdge", "served"} =>
       GoodPair
  /\ pc[Mac] \in {"sendHello", "sendScreen", "sendEdge", "served"} => ~deadline[Mac]
  /\ admitted => SameKey

LinuxKnows ==
  /\ pc[Linux] \in {"prove", "greet", "hello", "screen", "served"} => SameKey
  /\ pc[Linux] \in {"screen", "served"} => GoodPair /\ admitted
  /\ pc[Linux] = "served" => ~deadline[Linux]

IInv == Types /\ Channels /\ MacKnows /\ LinuxKnows

LEMMA TwoSides ==
  /\ Mac \in Sides /\ Linux \in Sides /\ Mac # Linux
  /\ Peer(Mac) = Linux /\ Peer(Linux) = Mac
  /\ Role(Mac) = "server" /\ Role(Linux) = "client"
  /\ \A p \in Sides : p = Mac \/ p = Linux
  BY HandshakeAssumption DEF Sides, Peer, Role

\* The messages that p reads and writes leave the channels in order.
LEMMA CarryKeeps ==
  ASSUME Channels, NEW p \in Sides, NEW ms \in Seq(MessagesFor(Peer(p))),
         UNCHANGED setupVars, NEW ch, DOMAIN ch = Sides,
         \A q \in Sides : ch[q] \in Seq(MessagesFor(q)),
         channel' = Carry(ch, p, ms),
         admitted => admitted'
  PROVE  Channels'
<1>1. \A q \in Sides : MessagesFor(q) \subseteq MessagesFor(q)'
  BY DEF MessagesFor, setupVars, Hello
<1>2. Peer(p) \in Sides BY TwoSides
<1>3. \A q \in Sides : Seq(MessagesFor(q)) \subseteq Seq(MessagesFor(q)')
  BY <1>1
<1>4. ch[Peer(p)] \o ms \in Seq(MessagesFor(Peer(p))) BY <1>2
<1>5. DOMAIN channel' = Sides /\ \A q \in Sides : channel'[q] \in Seq(MessagesFor(q))
  BY <1>2, <1>4 DEF Carry
<1> QED BY <1>3, <1>5 DEF Channels

\* p takes a message that its peer has sent, and answers.
LEMMA TakeKeeps ==
  ASSUME Channels, NEW p \in Sides, NEW ms \in Seq(MessagesFor(Peer(p))),
         Take(p, ms), admitted => admitted'
  PROVE  /\ Head(channel[p]) \in MessagesFor(p)
         /\ UNCHANGED <<setupVars, open, cut, disturbed>> /\ Channels'
<1> DEFINE ch == [channel EXCEPT ![p] = Tail(@)]
<1>1. channel[p] \in Seq(MessagesFor(p)) /\ channel[p] # <<>>
  BY DEF Channels, Take, Arrived
<1>2. Head(channel[p]) \in MessagesFor(p) /\ Tail(channel[p]) \in Seq(MessagesFor(p))
  BY <1>1
<1>3. DOMAIN ch = Sides /\ \A q \in Sides : ch[q] \in Seq(MessagesFor(q))
  BY <1>2 DEF Channels
<1>4. channel' = Carry(ch, p, ms) /\ UNCHANGED <<setupVars, open, cut, disturbed>>
  BY DEF Take, linkVars
<1> QED BY <1>2, <1>3, <1>4, CarryKeeps

LEMMA PutKeeps ==
  ASSUME Channels, NEW p \in Sides, NEW ms \in Seq(MessagesFor(Peer(p))), Put(p, ms)
  PROVE  UNCHANGED <<setupVars, open, cut, disturbed, admitted>> /\ Channels'
<1>1. channel' = Carry(channel, p, ms) /\ UNCHANGED <<setupVars, open, cut, disturbed, admitted>>
  BY DEF Put, linkVars
<1> QED BY <1>1, CarryKeeps DEF Channels

\* Where nothing is read or written.
LEMMA ChannelsStay ==
  Channels /\ UNCHANGED <<channel, setupVars, admitted>> => Channels'
  BY DEF Channels, MessagesFor, Hello, setupVars

\* What is on its way says who sent it.
LEMMA MessagesTell ==
  ASSUME NEW p \in Sides, NEW m \in MessagesFor(p)
  PROVE  /\ Trusts(p, m) => SameKey
         /\ SameVersion(p, m) => version[Mac] = version[Linux] /\ (p = Mac \/ admitted)
  BY TwoSides DEF MessagesFor, Trusts, SameVersion, Proof, Hello, Plain, Message, SameKey

\* What p may send: nothing, a flight of TLS, its proof, or its greeting.
LEMMA Sending ==
  ASSUME NEW p \in Sides
  PROVE  /\ <<>> \in Seq(MessagesFor(Peer(p)))
         /\ \A k \in {"tls", "screen", "edge"} : <<Plain(k)>> \in Seq(MessagesFor(Peer(p)))
         /\ <<Proof(secret[p], Role(p))>> \in Seq(MessagesFor(Peer(p)))
         /\ p = Linux \/ admitted =>
              /\ <<Hello(p)>> \in Seq(MessagesFor(Peer(p)))
              /\ <<Hello(p), Plain("screen")>> \in Seq(MessagesFor(Peer(p)))
<1>1. Peer(Peer(p)) = p /\ (Peer(p) = Mac <=> p = Linux) BY TwoSides
<1>2. \A k \in {"tls", "screen", "edge"} : Plain(k) \in MessagesFor(Peer(p))
  BY DEF MessagesFor
<1>3. Proof(secret[p], Role(p)) \in MessagesFor(Peer(p)) BY <1>1 DEF MessagesFor
<1>4. p = Linux \/ admitted => Hello(p) \in MessagesFor(Peer(p)) BY <1>1 DEF MessagesFor
<1> QED BY <1>2, <1>3, <1>4

\* What a side knows is not affected by the steps of the other.
LEMMA MacUnaffected ==
  MacKnows /\ pc'[Mac] = pc[Mac] /\ deadline'[Mac] = deadline[Mac]
  /\ UNCHANGED <<setupVars, admitted>> => MacKnows'
  BY DEF MacKnows, SameKey, GoodPair, setupVars

LEMMA LinuxUnaffected ==
  LinuxKnows /\ pc'[Linux] = pc[Linux] /\ deadline'[Linux] = deadline[Linux]
  /\ UNCHANGED setupVars /\ (admitted => admitted') => LinuxKnows'
  BY DEF LinuxKnows, SameKey, GoodPair, setupVars

\* p goes on; its peer stays where it is.
LEMMA GoesKeeps ==
  ASSUME Types, NEW p \in Sides, NEW here, NEW there \in Pcs, NEW timed \in BOOLEAN,
         Goes(p, here, there, timed),
         UNCHANGED <<setupVars, open>>, admitted' \in BOOLEAN
  PROVE  /\ Types'
         /\ pc[p] = here /\ pc'[p] = there /\ deadline'[p] = timed
         /\ pc'[Peer(p)] = pc[Peer(p)] /\ deadline'[Peer(p)] = deadline[Peer(p)]
  BY TwoSides DEF Types, Goes, setupVars
-----------------------------------------------------------------------------
LEMMA InitInv == Init => IInv
<1> SUFFICES ASSUME Init PROVE IInv OBVIOUS
<1>1. Types /\ MacKnows /\ LinuxKnows
  BY TwoSides DEF Init, Types, Pcs, Idle, MacKnows, LinuxKnows
<1>2. Channels BY DEF Init, Channels
<1> QED BY <1>1, <1>2 DEF IInv

\* The steps that end an attempt for p.
LEMMA CloseSteps ==
  ASSUME IInv, NEW p \in Sides, Close(p)
  PROVE  IInv'
<1>1. /\ UNCHANGED <<setupVars, channel, admitted>> /\ pc' = [pc EXCEPT ![p] = "closed"]
      /\ open' = [open EXCEPT ![p] = FALSE] /\ deadline' = [deadline EXCEPT ![p] = FALSE]
  BY DEF Close
<1>2. Types' BY <1>1 DEF IInv, Types, Pcs, Idle, setupVars
<1>3. Channels' BY <1>1, ChannelsStay DEF IInv
<1>4. CASE p = Mac
  <2>1. LinuxKnows' BY <1>1, <1>4, TwoSides, LinuxUnaffected DEF IInv, Types
  <2>2. MacKnows' BY <1>1, <1>4, TwoSides DEF IInv, Types, MacKnows, SameKey, setupVars
  <2> QED BY <1>2, <1>3, <2>1, <2>2 DEF IInv
<1>5. CASE p = Linux
  <2>1. MacKnows' BY <1>1, <1>5, TwoSides, MacUnaffected DEF IInv, Types
  <2>2. LinuxKnows' BY <1>1, <1>5, TwoSides DEF IInv, Types, LinuxKnows
  <2> QED BY <1>2, <1>3, <2>1, <2>2 DEF IInv
<1> QED BY <1>4, <1>5, TwoSides

\* A new attempt, and the network.
LEMMA LinkSteps == IInv /\ (Dial \/ Cut \/ Heal) => IInv'
<1>1. ASSUME IInv, Dial PROVE IInv'
  <2>1. Types' /\ pc'[Mac] = "accept" /\ pc'[Linux] = "finish" /\ ~admitted'
    BY <1>1, TwoSides DEF IInv, Types, Dial, Pcs, Reading
  <2>2. Channels'
    <3>1. channel' = [channel EXCEPT ![Mac] = <<Plain("tls")>>, ![Linux] = <<>>]
      BY <1>1 DEF Dial
    <3>2. DOMAIN channel' = Sides /\ channel'[Mac] = <<Plain("tls")>> /\ channel'[Linux] = <<>>
      BY <1>1, <3>1, TwoSides DEF IInv, Channels
    <3>3. Plain("tls") \in MessagesFor(Mac)' BY DEF MessagesFor, Plain, Message
    <3>4. channel'[Mac] \in Seq(MessagesFor(Mac)') /\ channel'[Linux] \in Seq(MessagesFor(Linux)')
      BY <3>2, <3>3
    <3> QED BY <3>2, <3>4, TwoSides DEF Channels
  <2>3. MacKnows' /\ LinuxKnows' BY <2>1 DEF MacKnows, LinuxKnows
  <2> QED BY <2>1, <2>2, <2>3 DEF IInv
<1>2. ASSUME IInv, Cut \/ Heal PROVE IInv'
  <2>1. UNCHANGED <<pc, setupVars, channel, open, deadline, admitted>>
    BY <1>2 DEF Cut, Heal
  <2>2. Types' /\ Channels' BY <1>2, <2>1, ChannelsStay DEF IInv, Types, setupVars
  <2>3. MacKnows' /\ LinuxKnows' BY <1>2, <2>1, MacUnaffected, LinuxUnaffected DEF IInv
  <2> QED BY <2>2, <2>3 DEF IInv
<1> QED BY <1>1, <1>2

\* A step in which the Mac goes on keeps the invariant if the Mac knows what it
\* has to know where it arrives.
LEMMA MacGoes ==
  ASSUME IInv, NEW here, NEW there \in Pcs, NEW timed \in BOOLEAN,
         Goes(Mac, here, there, timed), UNCHANGED <<setupVars, open>>,
         admitted' \in BOOLEAN, admitted => admitted', Channels',
         (pc'[Mac] = there /\ deadline'[Mac] = timed) => MacKnows'
  PROVE  IInv'
<1>1. Types' /\ MacKnows' BY TwoSides, GoesKeeps DEF IInv
<1>2. pc'[Linux] = pc[Linux] /\ deadline'[Linux] = deadline[Linux]
  BY TwoSides, GoesKeeps DEF IInv
<1>3. LinuxKnows' BY <1>2, LinuxUnaffected DEF IInv
<1> QED BY <1>1, <1>3 DEF IInv

LEMMA LinuxGoes ==
  ASSUME IInv, NEW here, NEW there \in Pcs, NEW timed \in BOOLEAN,
         Goes(Linux, here, there, timed), UNCHANGED <<setupVars, open, admitted>>,
         Channels', (pc'[Linux] = there /\ deadline'[Linux] = timed) => LinuxKnows'
  PROVE  IInv'
<1>0. admitted' \in BOOLEAN BY DEF IInv, Types
<1>1. Types' /\ LinuxKnows' BY <1>0, TwoSides, GoesKeeps DEF IInv
<1>2. pc'[Mac] = pc[Mac] /\ deadline'[Mac] = deadline[Mac]
  BY <1>0, TwoSides, GoesKeeps DEF IInv
<1>3. MacKnows' BY <1>2, MacUnaffected DEF IInv
<1> QED BY <1>1, <1>3 DEF IInv

\* Every place is one.
LEMMA Places ==
  {"tls", "finish", "prove", "check", "greeting", "hello", "screen", "sendHello",
   "sendScreen", "sendEdge", "greet", "served"} \subseteq Pcs
  BY DEF Pcs, Reading, Writing

\* Up to the client's proof.
LEMMA MacProvingSteps ==
  IInv /\ (MacAccepts \/ MacFlight \/ MacFinishes \/ MacProves \/ MacAdmits) => IInv'
<1> SUFFICES ASSUME IInv, MacAccepts \/ MacFlight \/ MacFinishes \/ MacProves \/ MacAdmits
             PROVE  IInv'
  OBVIOUS
<1> USE TwoSides, Places
<1>a. Channels /\ Types /\ MacKnows /\ Mac \in Sides BY DEF IInv
<1>b. admitted \in BOOLEAN BY <1>a DEF Types
<1>1. CASE MacAccepts
  <2>1. UNCHANGED <<channel, setupVars, open, admitted>> /\ Goes(Mac, "accept", "tls", TRUE)
    BY <1>1 DEF MacAccepts, linkVars
  <2>2. pc'[Mac] = "tls" => MacKnows' BY <1>a, <2>1 DEF MacKnows, SameKey, setupVars
  <2> QED BY <1>a, <1>b, <2>1, <2>2, ChannelsStay, MacGoes
<1>2. CASE MacFlight
  <2>1. Goes(Mac, "tls", "finish", TRUE) /\ Take(Mac, <<Plain("tls")>>) /\ UNCHANGED admitted
    BY <1>2 DEF MacFlight
  <2>2. Channels' /\ UNCHANGED <<setupVars, open>> BY <1>a, <2>1, Sending, TakeKeeps
  <2>3. pc'[Mac] = "finish" => MacKnows' BY <1>a, <2>1, <2>2 DEF MacKnows, SameKey, setupVars
  <2> QED BY <1>b, <2>1, <2>2, <2>3, MacGoes
<1>3. CASE MacFinishes
  <2>1. Goes(Mac, "finish", "prove", TRUE) /\ Take(Mac, <<>>) /\ UNCHANGED admitted
    BY <1>3 DEF MacFinishes
  <2>2. Channels' /\ UNCHANGED <<setupVars, open>> BY <1>a, <2>1, Sending, TakeKeeps
  <2>3. pc'[Mac] = "prove" => MacKnows' BY <1>a, <2>1, <2>2 DEF MacKnows, SameKey, setupVars
  <2> QED BY <1>b, <2>1, <2>2, <2>3, MacGoes
<1>4. CASE MacProves
  <2>1. Goes(Mac, "prove", "check", TRUE) /\ Put(Mac, <<Proof(secret[Mac], Role(Mac))>>)
    BY <1>4 DEF MacProves
  <2>2. Channels' /\ UNCHANGED <<setupVars, open, admitted>> BY <1>a, <2>1, Sending, PutKeeps
  <2>3. pc'[Mac] = "check" => MacKnows' BY <1>a, <2>1, <2>2 DEF MacKnows, SameKey, setupVars
  <2> QED BY <1>b, <2>1, <2>2, <2>3, MacGoes
<1>5. CASE MacAdmits
  <2>1. /\ Goes(Mac, "check", "greeting", FALSE) /\ Take(Mac, <<>>) /\ admitted'
        /\ Trusts(Mac, Head(channel[Mac])) /\ admitted' \in BOOLEAN
    BY <1>5 DEF MacAdmits
  <2>2. Channels' /\ UNCHANGED <<setupVars, open>> /\ Head(channel[Mac]) \in MessagesFor(Mac)
    BY <1>a, <2>1, Sending, TakeKeeps
  <2>3. SameKey' BY <2>1, <2>2, MessagesTell DEF SameKey, setupVars
  <2>4. pc'[Mac] = "greeting" => MacKnows' BY <2>1, <2>3 DEF MacKnows
  <2> QED BY <2>1, <2>2, <2>4, MacGoes
<1> QED BY <1>1, <1>2, <1>3, <1>4, <1>5

\* The greeting.
LEMMA MacGreetingSteps ==
  IInv /\ (MacGreets \/ MacReadsHello \/ MacReadsScreen) => IInv'
<1> SUFFICES ASSUME IInv, MacGreets \/ MacReadsHello \/ MacReadsScreen PROVE IInv'
  OBVIOUS
<1> USE TwoSides, Places
<1>a. Channels /\ Types /\ MacKnows /\ Mac \in Sides BY DEF IInv
<1>b. admitted \in BOOLEAN BY <1>a DEF Types
<1>1. CASE MacGreets
  <2>1. UNCHANGED <<channel, setupVars, open, admitted>> /\ Goes(Mac, "greeting", "hello", TRUE)
    BY <1>1 DEF MacGreets, linkVars
  <2>2. pc'[Mac] = "hello" => MacKnows' BY <1>a, <2>1 DEF Goes, MacKnows, SameKey, setupVars
  <2> QED BY <1>a, <1>b, <2>1, <2>2, ChannelsStay, MacGoes
<1>2. CASE MacReadsHello
  <2>1. /\ Goes(Mac, "hello", "screen", TRUE) /\ Take(Mac, <<>>) /\ UNCHANGED admitted
        /\ SameVersion(Mac, Head(channel[Mac]))
    BY <1>2 DEF MacReadsHello
  <2>2. Channels' /\ UNCHANGED <<setupVars, open>> /\ Head(channel[Mac]) \in MessagesFor(Mac)
    BY <1>a, <2>1, Sending, TakeKeeps
  <2>3. version[Mac] = version[Linux] /\ SameKey /\ admitted
    BY <1>a, <2>1, <2>2, MessagesTell DEF Goes, MacKnows
  <2>4. pc'[Mac] = "screen" => MacKnows'
    BY <2>1, <2>2, <2>3 DEF MacKnows, SameKey, GoodPair, setupVars
  <2> QED BY <1>b, <2>1, <2>2, <2>4, MacGoes
<1>3. CASE MacReadsScreen
  <2>1. Goes(Mac, "screen", "sendHello", FALSE) /\ Take(Mac, <<>>) /\ UNCHANGED admitted
    BY <1>3 DEF MacReadsScreen
  <2>2. Channels' /\ UNCHANGED <<setupVars, open>> BY <1>a, <2>1, Sending, TakeKeeps
  <2>3. pc'[Mac] = "sendHello" /\ ~deadline'[Mac] => MacKnows'
    BY <1>a, <2>1, <2>2 DEF Goes, MacKnows, SameKey, GoodPair, setupVars
  <2> QED BY <1>b, <2>1, <2>2, <2>3, MacGoes
<1> QED BY <1>1, <1>2, <1>3

\* The answers.
LEMMA MacSendingSteps ==
  IInv /\ (MacSendsHello \/ MacSendsScreen \/ MacSendsEdge) => IInv'
<1> SUFFICES ASSUME IInv, MacSendsHello \/ MacSendsScreen \/ MacSendsEdge PROVE IInv'
  OBVIOUS
<1> USE TwoSides, Places
<1>a. Channels /\ Types /\ MacKnows /\ Mac \in Sides BY DEF IInv
<1>b. admitted \in BOOLEAN /\ deadline[Mac] \in BOOLEAN BY <1>a DEF Types
<1>c. ASSUME NEW here, NEW there, Goes(Mac, here, there, deadline[Mac]), NEW ms, Put(Mac, ms),
             ms \in Seq(MessagesFor(Linux)),
             here \in {"sendHello", "sendScreen", "sendEdge"},
             there \in {"sendScreen", "sendEdge", "served"}
      PROVE  IInv'
  <2>1. Channels' /\ UNCHANGED <<setupVars, open, admitted>>
    <3>1. ms \in Seq(MessagesFor(Peer(Mac))) BY <1>c
    <3> QED BY <1>a, <1>c, <3>1, PutKeeps
  <2>2. pc'[Mac] = there /\ deadline'[Mac] = deadline[Mac] => MacKnows'
    BY <1>a, <1>c, <2>1 DEF Goes, MacKnows, SameKey, GoodPair, setupVars
  <2> QED BY <1>b, <1>c, <2>1, <2>2, MacGoes
<1>1. CASE MacSendsHello
  <2>1. admitted BY <1>a, <1>1 DEF MacSendsHello, Goes, MacKnows
  <2>2. <<Hello(Mac)>> \in Seq(MessagesFor(Linux)) BY <1>a, <2>1, Sending
  <2> QED BY <1>1, <1>c, <2>2 DEF MacSendsHello
<1>2. CASE MacSendsScreen
  <2>1. <<Plain("screen")>> \in Seq(MessagesFor(Linux)) BY <1>a, Sending
  <2> QED BY <1>2, <1>c, <2>1 DEF MacSendsScreen
<1>3. CASE MacSendsEdge
  <2>1. <<Plain("edge")>> \in Seq(MessagesFor(Linux)) BY <1>a, Sending
  <2> QED BY <1>3, <1>c, <2>1 DEF MacSendsEdge
<1> QED BY <1>1, <1>2, <1>3

\* The client's side of the proofs.
LEMMA LinuxProvingSteps ==
  IInv /\ (LinuxFinishes \/ LinuxTrusts \/ LinuxProves) => IInv'
<1> SUFFICES ASSUME IInv, LinuxFinishes \/ LinuxTrusts \/ LinuxProves PROVE IInv'
  OBVIOUS
<1> USE TwoSides, Places
<1>a. Channels /\ Types /\ LinuxKnows /\ Linux \in Sides BY DEF IInv
<1>1. CASE LinuxFinishes
  <2>1. /\ Goes(Linux, "finish", "check", TRUE) /\ Take(Linux, <<Plain("tls")>>)
        /\ UNCHANGED admitted
    BY <1>1 DEF LinuxFinishes
  <2>2. Channels' /\ UNCHANGED <<setupVars, open>> BY <1>a, <2>1, Sending, TakeKeeps
  <2>3. pc'[Linux] = "check" => LinuxKnows' BY DEF LinuxKnows
  <2> QED BY <2>1, <2>2, <2>3, LinuxGoes
<1>2. CASE LinuxTrusts
  <2>1. /\ Goes(Linux, "check", "prove", TRUE) /\ Take(Linux, <<>>) /\ UNCHANGED admitted
        /\ Trusts(Linux, Head(channel[Linux]))
    BY <1>2 DEF LinuxTrusts
  <2>2. Channels' /\ UNCHANGED <<setupVars, open>> /\ Head(channel[Linux]) \in MessagesFor(Linux)
    BY <1>a, <2>1, Sending, TakeKeeps
  <2>3. SameKey' BY <2>1, <2>2, MessagesTell DEF SameKey, setupVars
  <2>4. pc'[Linux] = "prove" => LinuxKnows' BY <2>3 DEF LinuxKnows
  <2> QED BY <2>1, <2>2, <2>4, LinuxGoes
<1>3. CASE LinuxProves
  <2>1. Goes(Linux, "prove", "greet", FALSE) /\ Put(Linux, <<Proof(secret[Linux], Role(Linux))>>)
    BY <1>3 DEF LinuxProves
  <2>2. Channels' /\ UNCHANGED <<setupVars, open, admitted>> BY <1>a, <2>1, Sending, PutKeeps
  <2>3. pc'[Linux] = "greet" => LinuxKnows'
    BY <1>a, <2>1, <2>2 DEF Goes, LinuxKnows, SameKey, setupVars
  <2> QED BY <2>1, <2>2, <2>3, LinuxGoes
<1> QED BY <1>1, <1>2, <1>3

\* The client's side of the greeting: the Mac's Hello says that it has admitted
\* the client.
LEMMA LinuxGreetingSteps ==
  IInv /\ (LinuxGreets \/ LinuxReadsHello \/ LinuxReadsScreen) => IInv'
<1> SUFFICES ASSUME IInv, LinuxGreets \/ LinuxReadsHello \/ LinuxReadsScreen PROVE IInv'
  OBVIOUS
<1> USE TwoSides, Places
<1>a. Channels /\ Types /\ LinuxKnows /\ Linux \in Sides BY DEF IInv
<1>1. CASE LinuxGreets
  <2>1. Goes(Linux, "greet", "hello", TRUE) /\ Put(Linux, <<Hello(Linux), Plain("screen")>>)
    BY <1>1 DEF LinuxGreets
  <2>2. Channels' /\ UNCHANGED <<setupVars, open, admitted>> BY <1>a, <2>1, Sending, PutKeeps
  <2>3. pc'[Linux] = "hello" => LinuxKnows'
    BY <1>a, <2>1, <2>2 DEF Goes, LinuxKnows, SameKey, setupVars
  <2> QED BY <2>1, <2>2, <2>3, LinuxGoes
<1>2. CASE LinuxReadsHello
  <2>1. /\ Goes(Linux, "hello", "screen", TRUE) /\ Take(Linux, <<>>) /\ UNCHANGED admitted
        /\ SameVersion(Linux, Head(channel[Linux]))
    BY <1>2 DEF LinuxReadsHello
  <2>2. Channels' /\ UNCHANGED <<setupVars, open>> /\ Head(channel[Linux]) \in MessagesFor(Linux)
    BY <1>a, <2>1, Sending, TakeKeeps
  <2>3. version[Mac] = version[Linux] /\ SameKey /\ admitted
    BY <1>a, <2>1, <2>2, MessagesTell DEF Goes, LinuxKnows
  <2>4. pc'[Linux] = "screen" => LinuxKnows'
    BY <2>1, <2>2, <2>3 DEF LinuxKnows, SameKey, GoodPair, setupVars
  <2> QED BY <2>1, <2>2, <2>4, LinuxGoes
<1>3. CASE LinuxReadsScreen
  <2>1. /\ Goes(Linux, "screen", "served", FALSE) /\ Take(Linux, <<>>) /\ UNCHANGED admitted
    BY <1>3 DEF LinuxReadsScreen
  <2>2. Channels' /\ UNCHANGED <<setupVars, open>> BY <1>a, <2>1, Sending, TakeKeeps
  <2>3. pc'[Linux] = "served" /\ ~deadline'[Linux] => LinuxKnows'
    BY <1>a, <2>1, <2>2 DEF Goes, LinuxKnows, SameKey, GoodPair, setupVars
  <2> QED BY <2>1, <2>2, <2>3, LinuxGoes
<1> QED BY <1>1, <1>2, <1>3
-----------------------------------------------------------------------------
\* Every step.
LEMMA NextInv == IInv /\ [Next]_vars => IInv'
<1> SUFFICES ASSUME IInv, [Next]_vars PROVE IInv' OBVIOUS
<1>1. CASE Dial \/ Cut \/ Heal BY <1>1, LinkSteps
<1>2. CASE \E p \in Sides : Timeout(p) \/ FindsClosed(p) \/ SessionEnds(p) \/ Refuses(p)
  BY <1>2, CloseSteps DEF Timeout, FindsClosed, SessionEnds, Refuses
<1>3. CASE MacStep
  BY <1>2, <1>3, TwoSides, MacProvingSteps, MacGreetingSteps, MacSendingSteps DEF MacStep
<1>4. CASE LinuxStep
  BY <1>2, <1>4, TwoSides, LinuxProvingSteps, LinuxGreetingSteps DEF LinuxStep
<1>5. CASE UNCHANGED vars
  <2>1. UNCHANGED <<pc, setupVars, channel, open, deadline, admitted>>
    BY <1>5 DEF vars, linkVars
  <2>2. Types' /\ Channels' BY <2>1, ChannelsStay DEF IInv, Types, setupVars
  <2>3. MacKnows' /\ LinuxKnows' BY <2>1, MacUnaffected, LinuxUnaffected DEF IInv
  <2> QED BY <2>2, <2>3 DEF IInv
<1> QED BY <1>1, <1>2, <1>3, <1>4, <1>5 DEF Next

\* What the two sides know of each other, for any keys and versions.
THEOREM InvariantIsInductive == Spec => []IInv
<1>1. Init => IInv BY InitInv
<1>2. IInv /\ [Next]_vars => IInv' BY NextInv
<1> QED BY <1>1, <1>2, PTL DEF Spec

\* What happened to the network and to the attempt is a truth value.
Flags == cut \in BOOLEAN /\ disturbed \in BOOLEAN

LEMMA FlagsStay == Flags /\ [Next]_vars => Flags'
BY DEF Flags, Next, Dial, Cut, Heal, Timeout, FindsClosed, SessionEnds, Close, Refuses, MacStep, MacAccepts,
   MacFlight, MacFinishes, MacProves, MacAdmits, MacGreets, MacReadsHello,
   MacReadsScreen, MacSendsHello, MacSendsScreen, MacSendsEdge, LinuxStep,
   LinuxFinishes, LinuxTrusts, LinuxProves, LinuxGreets, LinuxReadsHello,
   LinuxReadsScreen, Take, Put, vars, linkVars

\* Type correctness of the handshake: each side is at a point of its sequence,
\* and what is on its way is a message of the protocol.
THEOREM TypeCorrect == Spec => []TypeOK
<1>1. Init => Flags BY DEF Init, Flags
<1>2. IInv /\ Flags => TypeOK
  <2> SUFFICES ASSUME IInv, Flags PROVE TypeOK OBVIOUS
  <2>1. ASSUME NEW p \in Sides PROVE channel[p] \in Seq(Messages)
    <3>1. Peer(p) \in Sides /\ Role(Peer(p)) \in {"server", "client"} BY TwoSides
    <3>2. secret[Peer(p)] \in Secrets /\ version[Peer(p)] \in Versions
      BY <3>1 DEF IInv, Types
    <3>3. MessagesFor(p) \subseteq Messages
      BY <3>1, <3>2 DEF MessagesFor, Messages, Hello, Proof
    <3> QED BY <3>3 DEF IInv, Channels
  <2> QED BY <2>1 DEF IInv, Types, Channels, Flags, TypeOK
<1> QED BY <1>1, <1>2, FlagsStay, InvariantIsInductive, PTL DEF Spec

\* Past the proof of its peer, a side has the same key as its peer
\* (authenticateServer, authenticateClient).
THEOREM ProofFirst == Spec => []ProofComesFirst
<1>1. IInv => ProofComesFirst BY DEF IInv, MacKnows, LinuxKnows, ProofComesFirst
<1> QED BY <1>1, InvariantIsInductive, PTL

\* Sessions are between peers with the same key and version, and with a client
\* that the Mac has admitted (handleConn, runOnce).
THEOREM ServedAgree == Spec => []ServedPeersAgree
<1>1. IInv => ServedPeersAgree
  BY TwoSides DEF IInv, MacKnows, LinuxKnows, ServedPeersAgree
<1> QED BY <1>1, InvariantIsInductive, PTL

\* No deadline of the setup is left on a session (SetDeadline, SetReadDeadline).
THEOREM DeadlinesLifted == Spec => []DeadlinesAreLifted
<1>1. IInv => DeadlinesAreLifted
  BY TwoSides DEF IInv, MacKnows, LinuxKnows, DeadlinesAreLifted
<1> QED BY <1>1, InvariantIsInductive, PTL
-----------------------------------------------------------------------------
(* Between good peers that nobody disturbs, what is on its way is what one  *)
(* side has sent and the other has not read yet, of a fixed sequence each   *)
(* way, so that nobody meets a message that it does not expect.             *)

\* What is sent to each side, in order.
ToMac == <<Plain("tls"), Plain("tls"), Proof(secret[Linux], "client"), Hello(Linux), Plain("screen")>>
ToLinux == <<Plain("tls"), Proof(secret[Mac], "server"), Hello(Mac), Plain("screen"), Plain("edge")>>

\* How much a side has read and sent when it is at s.
MacRead(s) ==
  IF s \in {"accept", "tls"} THEN 0 ELSE IF s = "finish" THEN 1
  ELSE IF s \in {"prove", "check"} THEN 2 ELSE IF s \in {"greeting", "hello"} THEN 3
  ELSE IF s = "screen" THEN 4 ELSE 5
MacSent(s) ==
  IF s \in {"accept", "tls"} THEN 0 ELSE IF s \in {"finish", "prove"} THEN 1
  ELSE IF s = "sendScreen" THEN 3 ELSE IF s = "sendEdge" THEN 4
  ELSE IF s = "served" THEN 5 ELSE 2
LinuxRead(s) ==
  IF s = "finish" THEN 0 ELSE IF s = "check" THEN 1
  ELSE IF s = "screen" THEN 3 ELSE IF s = "served" THEN 4 ELSE 2
LinuxSent(s) ==
  IF s = "finish" THEN 1 ELSE IF s \in {"check", "prove"} THEN 2
  ELSE IF s = "greet" THEN 3 ELSE 5

MacPlaces == {"accept", "tls", "finish", "prove", "check", "greeting", "hello", "screen",
              "sendHello", "sendScreen", "sendEdge", "served"}
LinuxPlaces == {"finish", "check", "prove", "greet", "hello", "screen", "served"}

\* The messages of a after the first r, up to the s-th.
Slice(a, r, s) == [i \in 1 .. s - r |-> a[r + i]]

Conversation ==
  /\ pc[Mac] \in MacPlaces /\ pc[Linux] \in LinuxPlaces
  /\ open[Mac] /\ open[Linux]
  /\ MacRead(pc[Mac]) <= LinuxSent(pc[Linux]) /\ LinuxRead(pc[Linux]) <= MacSent(pc[Mac])
  /\ channel[Mac] = Slice(ToMac, MacRead(pc[Mac]), LinuxSent(pc[Linux]))
  /\ channel[Linux] = Slice(ToLinux, LinuxRead(pc[Linux]), MacSent(pc[Mac]))

GoodInv ==
  GoodPair /\ ~disturbed => (pc[Mac] = "idle" /\ pc[Linux] = "idle") \/ Conversation

LEMMA SliceTake ==
  ASSUME NEW S, NEW a \in Seq(S), NEW r \in Nat, NEW s \in Nat, r <= s, s <= Len(a),
         Slice(a, r, s) # <<>>
  PROVE  r + 1 <= s /\ Head(Slice(a, r, s)) = a[r + 1] /\ Tail(Slice(a, r, s)) = Slice(a, r + 1, s)
<1>1. r < s
  <2>1. r = s => Slice(a, r, s) = <<>> BY DEF Slice
  <2> QED BY <2>1
<1>2. \A i \in 1 .. s - r : a[r + i] \in S OBVIOUS
<1>3. Slice(a, r, s) \in Seq(S) /\ Len(Slice(a, r, s)) = s - r BY <1>1, <1>2 DEF Slice
<1>4. Head(Slice(a, r, s)) = a[r + 1] BY <1>1, <1>3 DEF Slice
<1>5. Slice(a, r, s) # <<>> BY <1>1, <1>3
<1>6. /\ Tail(Slice(a, r, s)) \in Seq(S) /\ Len(Tail(Slice(a, r, s))) = s - r - 1
      /\ \A i \in 1 .. s - r - 1 : Tail(Slice(a, r, s))[i] = Slice(a, r, s)[i + 1]
  BY <1>1, <1>3, <1>5, HeadTailProperties
<1>7. \A i \in 1 .. s - (r + 1) : a[(r + 1) + i] \in S OBVIOUS
<1>8. Slice(a, r + 1, s) \in Seq(S) /\ Len(Slice(a, r + 1, s)) = s - r - 1
  BY <1>1, <1>7 DEF Slice
<1>9. \A i \in 1 .. s - r - 1 : Slice(a, r, s)[i + 1] = Slice(a, r + 1, s)[i]
  BY <1>1 DEF Slice
<1>10. Tail(Slice(a, r, s)) = Slice(a, r + 1, s) BY <1>6, <1>8, <1>9, SeqEqual
<1> QED BY <1>1, <1>4, <1>10

LEMMA SlicePut ==
  ASSUME NEW S, NEW a \in Seq(S), NEW r \in Nat, NEW s \in Nat, r <= s, s + 1 <= Len(a)
  PROVE  Slice(a, r, s) \o <<a[s + 1]>> = Slice(a, r, s + 1)
<1>1. \A i \in 1 .. s + 1 - r : a[r + i] \in S OBVIOUS
<1>2. Slice(a, r, s) \in Seq(S) /\ Len(Slice(a, r, s)) = s - r BY <1>1 DEF Slice
<1>3. a[s + 1] \in S OBVIOUS
<1>4. Slice(a, r, s + 1) \in Seq(S) /\ Len(Slice(a, r, s + 1)) = s + 1 - r BY <1>1 DEF Slice
<1>5. DEFINE t == Slice(a, r, s) \o <<a[s + 1]>>
<1>6. t \in Seq(S) /\ Len(t) = s + 1 - r BY <1>2, <1>3
<1>7. ASSUME NEW i \in 1 .. s + 1 - r PROVE t[i] = Slice(a, r, s + 1)[i]
  BY <1>2, <1>3, <1>7 DEF Slice
<1> QED BY <1>4, <1>6, <1>7, SeqEqual

\* All that the two sides say.
Said == {Plain("tls"), Plain("screen"), Plain("edge"), Hello(Mac), Hello(Linux),
         Proof(secret[Linux], "client"), Proof(secret[Mac], "server")}

LEMMA Scripts ==
  /\ ToMac \in Seq(Said) /\ ToLinux \in Seq(Said) /\ Len(ToMac) = 5 /\ Len(ToLinux) = 5
  /\ \A s : /\ MacRead(s) \in 0 .. 5 /\ MacSent(s) \in 0 .. 5
            /\ LinuxRead(s) \in 0 .. 5 /\ LinuxSent(s) \in 0 .. 5
<1>1. ToMac \in Seq(Said) /\ Len(ToMac) = 5 BY DEF ToMac, Said
<1>2. ToLinux \in Seq(Said) /\ Len(ToLinux) = 5 BY DEF ToLinux, Said
<1> QED BY <1>1, <1>2 DEF MacRead, MacSent, LinuxRead, LinuxSent

\* What taking and putting a message does to the channels.
LEMMA MacTakes ==
  ASSUME Channels, Conversation, NEW ms, Take(Mac, ms)
  PROVE  /\ MacRead(pc[Mac]) + 1 <= LinuxSent(pc[Linux])
         /\ Head(channel[Mac]) = ToMac[MacRead(pc[Mac]) + 1]
         /\ channel'[Mac] = Slice(ToMac, MacRead(pc[Mac]) + 1, LinuxSent(pc[Linux]))
         /\ channel'[Linux] = channel[Linux] \o ms
         /\ UNCHANGED <<secret, version, open>>
<1>1. channel[Mac] # <<>> BY DEF Take, Arrived
<1>2. DEFINE r == MacRead(pc[Mac])
             s == LinuxSent(pc[Linux])
<1>3. r \in Nat /\ s \in Nat /\ r <= s /\ s <= Len(ToMac) /\ ToMac \in Seq(Said)
  BY Scripts DEF Conversation
<1>4. channel[Mac] = Slice(ToMac, r, s) BY DEF Conversation
<1>5. r + 1 <= s /\ Head(channel[Mac]) = ToMac[r + 1] /\ Tail(channel[Mac]) = Slice(ToMac, r + 1, s)
  BY <1>1, <1>3, <1>4, SliceTake
<1>6. channel' = [[channel EXCEPT ![Mac] = Tail(@)] EXCEPT ![Linux] = @ \o ms]
  BY TwoSides DEF Take, Carry, Conversation
<1>7. channel'[Mac] = Tail(channel[Mac]) /\ channel'[Linux] = channel[Linux] \o ms
  BY <1>6, TwoSides DEF Channels
<1> QED BY <1>5, <1>7 DEF Take, setupVars, linkVars

LEMMA LinuxTakes ==
  ASSUME Channels, Conversation, NEW ms, Take(Linux, ms)
  PROVE  /\ LinuxRead(pc[Linux]) + 1 <= MacSent(pc[Mac])
         /\ Head(channel[Linux]) = ToLinux[LinuxRead(pc[Linux]) + 1]
         /\ channel'[Linux] = Slice(ToLinux, LinuxRead(pc[Linux]) + 1, MacSent(pc[Mac]))
         /\ channel'[Mac] = channel[Mac] \o ms
         /\ UNCHANGED <<secret, version, open>>
<1>1. channel[Linux] # <<>> BY DEF Take, Arrived
<1>2. DEFINE r == LinuxRead(pc[Linux])
             s == MacSent(pc[Mac])
<1>3. r \in Nat /\ s \in Nat /\ r <= s /\ s <= Len(ToLinux) /\ ToLinux \in Seq(Said)
  BY Scripts DEF Conversation
<1>4. channel[Linux] = Slice(ToLinux, r, s) BY DEF Conversation
<1>5. r + 1 <= s /\ Head(channel[Linux]) = ToLinux[r + 1] /\ Tail(channel[Linux]) = Slice(ToLinux, r + 1, s)
  BY <1>1, <1>3, <1>4, SliceTake
<1>6. channel' = [[channel EXCEPT ![Linux] = Tail(@)] EXCEPT ![Mac] = @ \o ms]
  BY TwoSides DEF Take, Carry, Conversation
<1>7. channel'[Linux] = Tail(channel[Linux]) /\ channel'[Mac] = channel[Mac] \o ms
  BY <1>6, TwoSides DEF Channels
<1> QED BY <1>5, <1>7 DEF Take, setupVars, linkVars

LEMMA Puts ==
  ASSUME Channels, Conversation, NEW p \in Sides, NEW ms, Put(p, ms)
  PROVE  /\ channel'[p] = channel[p] /\ channel'[Peer(p)] = channel[Peer(p)] \o ms
         /\ UNCHANGED <<secret, version, open>>
<1>1. channel' = [channel EXCEPT ![Peer(p)] = @ \o ms] /\ Peer(p) # p /\ Peer(p) \in Sides
  BY TwoSides DEF Put, Carry, Conversation
<1> QED BY <1>1 DEF Channels, Put, setupVars, linkVars

\* A message more is on its way.
LEMMA MacAdds ==
  ASSUME Conversation, NEW s \in 1 .. 5, MacSent(pc[Mac]) = s - 1
  PROVE  channel[Linux] \o <<ToLinux[s]>> = Slice(ToLinux, LinuxRead(pc[Linux]), s)
<1> DEFINE r == LinuxRead(pc[Linux])
<1>1. r \in Nat /\ s - 1 \in Nat /\ r <= s - 1 /\ (s - 1) + 1 <= Len(ToLinux) /\ ToLinux \in Seq(Said)
  BY Scripts DEF Conversation
<1>2. Slice(ToLinux, r, s - 1) \o <<ToLinux[(s - 1) + 1]>> = Slice(ToLinux, r, (s - 1) + 1)
  BY <1>1, SlicePut
<1>3. (s - 1) + 1 = s OBVIOUS
<1>4. channel[Linux] = Slice(ToLinux, r, s - 1) BY DEF Conversation
<1> HIDE DEF r
<1>5. channel[Linux] \o <<ToLinux[s]>> = Slice(ToLinux, r, s) BY <1>2, <1>3, <1>4
<1> QED BY <1>5 DEF r

LEMMA LinuxAdds ==
  \A r \in 0 .. 5, s \in 0 .. 4 : \A t :
    r <= s /\ t = s + 1 => Slice(ToMac, r, s) \o <<ToMac[t]>> = Slice(ToMac, r, t)
<1> SUFFICES ASSUME NEW r \in 0 .. 5, NEW s \in 0 .. 4, r <= s
             PROVE  Slice(ToMac, r, s) \o <<ToMac[s + 1]>> = Slice(ToMac, r, s + 1)
  OBVIOUS
<1>1. r \in Nat /\ s \in Nat /\ s + 1 <= Len(ToMac) /\ ToMac \in Seq(Said) BY Scripts
<1> QED BY <1>1, SlicePut

LEMMA StillTalking ==
  ASSUME Conversation, UNCHANGED <<secret, version, open>>,
         NEW a \in MacPlaces, NEW b \in LinuxPlaces, pc'[Mac] = a, pc'[Linux] = b,
         MacRead(a) <= LinuxSent(b), LinuxRead(b) <= MacSent(a),
         channel'[Mac] = Slice(ToMac, MacRead(a), LinuxSent(b)),
         channel'[Linux] = Slice(ToLinux, LinuxRead(b), MacSent(a))
  PROVE  Conversation'
<1>1. ToMac' = ToMac /\ ToLinux' = ToLinux BY DEF ToMac, ToLinux, Hello
<1>2. Slice(ToMac, MacRead(a), LinuxSent(b))' = Slice(ToMac, MacRead(a), LinuxSent(b))
      /\ Slice(ToLinux, LinuxRead(b), MacSent(a))' = Slice(ToLinux, LinuxRead(b), MacSent(a))
  BY <1>1
<1> QED BY <1>1 DEF Conversation

\* The steps of the Mac: from here it goes there, having read and sent more.
LEMMA MacTalks ==
  IInv /\ Conversation /\ MacStep /\ ~Refuses(Mac) => Conversation'
<1> SUFFICES ASSUME IInv, Conversation, MacStep, ~Refuses(Mac) PROVE Conversation' OBVIOUS
<1> USE TwoSides, Scripts
<1>a. Channels /\ Types /\ LinuxRead(pc[Linux]) <= MacSent(pc[Mac]) /\ pc[Linux] \in LinuxPlaces
      /\ channel[Mac] \in Seq(MessagesFor(Mac)) /\ channel[Linux] \in Seq(MessagesFor(Linux))
  BY DEF IInv, Channels, Conversation
<1>b. \A here, there, timed : Goes(Mac, here, there, timed) =>
        pc[Mac] = here /\ pc'[Mac] = there /\ pc'[Linux] = pc[Linux]
  BY <1>a DEF Goes, Types
<1>c. channel[Linux] \o <<>> = channel[Linux] BY <1>a
<1>1. CASE MacAccepts \/ MacGreets
  <2>1. UNCHANGED <<channel, secret, version, open>> BY <1>1 DEF MacAccepts, MacGreets, setupVars, linkVars
  <2>2. CASE MacAccepts
    <3>1. pc[Mac] = "accept" /\ pc'[Mac] = "tls" /\ pc'[Linux] = pc[Linux] BY <1>b, <2>2 DEF MacAccepts
    <3> QED BY <1>a, <2>1, <3>1, StillTalking DEF Conversation, MacRead, MacSent, MacPlaces
  <2>3. CASE MacGreets
    <3>1. pc[Mac] = "greeting" /\ pc'[Mac] = "hello" /\ pc'[Linux] = pc[Linux] BY <1>b, <2>3 DEF MacGreets
    <3> QED BY <1>a, <2>1, <3>1, StillTalking DEF Conversation, MacRead, MacSent, MacPlaces
  <2> QED BY <1>1, <2>2, <2>3
<1>2. CASE MacFlight
  <2>1. pc[Mac] = "tls" /\ pc'[Mac] = "finish" /\ pc'[Linux] = pc[Linux] /\ Take(Mac, <<Plain("tls")>>)
    BY <1>b, <1>2 DEF MacFlight
  <2>2. MacRead("tls") = 0 /\ MacSent("tls") = 0 /\ MacRead("finish") = 1 /\ MacSent("finish") = 1
    BY DEF MacRead, MacSent
  <2>3. /\ 1 <= LinuxSent(pc[Linux]) /\ channel'[Mac] = Slice(ToMac, 1, LinuxSent(pc[Linux]))
        /\ channel'[Linux] = channel[Linux] \o <<Plain("tls")>> /\ UNCHANGED <<secret, version, open>>
    <3>1. MacRead(pc[Mac]) + 1 = 1 BY <2>1, <2>2
    <3>2. /\ MacRead(pc[Mac]) + 1 <= LinuxSent(pc[Linux])
          /\ channel'[Mac] = Slice(ToMac, MacRead(pc[Mac]) + 1, LinuxSent(pc[Linux]))
          /\ channel'[Linux] = channel[Linux] \o <<Plain("tls")>> /\ UNCHANGED <<secret, version, open>>
      BY <1>a, <2>1, MacTakes
    <3> QED BY <3>1, <3>2
  <2>4. channel[Linux] \o <<ToLinux[1]>> = Slice(ToLinux, LinuxRead(pc[Linux]), 1)
    BY <2>1, <2>2, MacAdds
  <2>5. ToLinux[1] = Plain("tls") BY DEF ToLinux
  <2>6. channel'[Linux] = Slice(ToLinux, LinuxRead(pc[Linux]), MacSent("finish"))
    BY <2>2, <2>3, <2>4, <2>5
  <2>7. LinuxRead(pc[Linux]) <= MacSent("finish") BY <1>a, <2>1, <2>2
  <2> QED BY <1>a, <2>1, <2>2, <2>3, <2>6, <2>7, StillTalking DEF MacPlaces
<1>3. CASE MacFinishes \/ MacAdmits \/ MacReadsHello \/ MacReadsScreen
  <2>1. Take(Mac, <<>>) BY <1>3 DEF MacFinishes, MacAdmits, MacReadsHello, MacReadsScreen
  <2>2. /\ pc'[Mac] \in MacPlaces /\ pc'[Linux] = pc[Linux]
        /\ MacRead(pc'[Mac]) = MacRead(pc[Mac]) + 1 /\ MacSent(pc'[Mac]) = MacSent(pc[Mac])
    <3>1. \/ pc[Mac] = "finish" /\ pc'[Mac] = "prove"
          \/ pc[Mac] = "check" /\ pc'[Mac] = "greeting"
          \/ pc[Mac] = "hello" /\ pc'[Mac] = "screen"
          \/ pc[Mac] = "screen" /\ pc'[Mac] = "sendHello"
      BY <1>b, <1>3 DEF MacFinishes, MacAdmits, MacReadsHello, MacReadsScreen
    <3>2. pc'[Linux] = pc[Linux]
      BY <1>b, <1>3 DEF MacFinishes, MacAdmits, MacReadsHello, MacReadsScreen
    <3> QED BY <3>1, <3>2 DEF MacPlaces, MacRead, MacSent
  <2>3. /\ MacRead(pc[Mac]) + 1 <= LinuxSent(pc[Linux])
        /\ channel'[Mac] = Slice(ToMac, MacRead(pc[Mac]) + 1, LinuxSent(pc[Linux]))
        /\ channel'[Linux] = channel[Linux] /\ UNCHANGED <<secret, version, open>>
    BY <1>a, <1>c, <2>1, MacTakes
  <2> QED BY <1>a, <2>2, <2>3, StillTalking DEF Conversation
<1>4. CASE MacProves \/ MacSendsHello \/ MacSendsScreen \/ MacSendsEdge
  <2>1. PICK s \in 1 .. 5 :
          /\ MacSent(pc[Mac]) = s - 1 /\ MacSent(pc'[Mac]) = s /\ MacRead(pc'[Mac]) = MacRead(pc[Mac])
          /\ pc'[Mac] \in MacPlaces /\ pc'[Linux] = pc[Linux] /\ Put(Mac, <<ToLinux[s]>>)
    <3>1. CASE MacProves
      <4>1. pc[Mac] = "prove" /\ pc'[Mac] = "check" /\ pc'[Linux] = pc[Linux] /\ Put(Mac, <<ToLinux[2]>>)
        BY <1>b, <3>1 DEF MacProves, ToLinux
      <4> QED BY <4>1 DEF MacPlaces, MacRead, MacSent
    <3>2. CASE MacSendsHello
      <4>1. pc[Mac] = "sendHello" /\ pc'[Mac] = "sendScreen" /\ pc'[Linux] = pc[Linux] /\ Put(Mac, <<ToLinux[3]>>)
        BY <1>b, <3>2 DEF MacSendsHello, ToLinux
      <4> QED BY <4>1 DEF MacPlaces, MacRead, MacSent
    <3>3. CASE MacSendsScreen
      <4>1. pc[Mac] = "sendScreen" /\ pc'[Mac] = "sendEdge" /\ pc'[Linux] = pc[Linux] /\ Put(Mac, <<ToLinux[4]>>)
        BY <1>b, <3>3 DEF MacSendsScreen, ToLinux
      <4> QED BY <4>1 DEF MacPlaces, MacRead, MacSent
    <3>4. CASE MacSendsEdge
      <4>1. pc[Mac] = "sendEdge" /\ pc'[Mac] = "served" /\ pc'[Linux] = pc[Linux] /\ Put(Mac, <<ToLinux[5]>>)
        BY <1>b, <3>4 DEF MacSendsEdge, ToLinux
      <4> QED BY <4>1 DEF MacPlaces, MacRead, MacSent
    <3> QED BY <1>4, <3>1, <3>2, <3>3, <3>4
  <2>2. /\ channel'[Mac] = channel[Mac] /\ channel'[Linux] = channel[Linux] \o <<ToLinux[s]>>
        /\ UNCHANGED <<secret, version, open>>
    BY <1>a, <2>1, Puts
  <2>3. channel[Linux] \o <<ToLinux[s]>> = Slice(ToLinux, LinuxRead(pc[Linux]), s)
    BY <2>1, MacAdds
  <2>4. LinuxRead(pc[Linux]) <= s
    <3>1. LinuxRead(pc[Linux]) \in 0 .. 5 /\ LinuxRead(pc[Linux]) <= s - 1 BY <1>a, <2>1
    <3> QED BY <3>1
  <2> QED BY <1>a, <2>1, <2>2, <2>3, <2>4, StillTalking DEF Conversation
<1> QED BY <1>1, <1>2, <1>3, <1>4 DEF MacStep

\* Two messages at once are one after the other.
LEMMA TwoAtOnce ==
  ASSUME NEW S, NEW q \in Seq(S), NEW a \in S, NEW b \in S
  PROVE  q \o <<a, b>> = (q \o <<a>>) \o <<b>>
<1>1. q \o <<a, b>> \in Seq(S) /\ (q \o <<a>>) \o <<b>> \in Seq(S) OBVIOUS
<1>2. Len(q \o <<a, b>>) = Len(q) + 2 /\ Len((q \o <<a>>) \o <<b>>) = Len(q) + 2 OBVIOUS
<1>3. ASSUME NEW i \in 1 .. Len(q) + 2
      PROVE  (q \o <<a, b>>)[i] = ((q \o <<a>>) \o <<b>>)[i]
  OBVIOUS
<1> QED BY <1>1, <1>2, <1>3, SeqEqual

\* The steps of the client.
LEMMA LinuxTalks ==
  IInv /\ Conversation /\ LinuxStep /\ ~Refuses(Linux) => Conversation'
<1> SUFFICES ASSUME IInv, Conversation, LinuxStep, ~Refuses(Linux) PROVE Conversation' OBVIOUS
<1> USE TwoSides, Scripts
<1> DEFINE r == MacRead(pc[Mac])
<1>a. /\ Channels /\ Types /\ pc[Mac] \in MacPlaces
      /\ r \in 0 .. 5 /\ r <= LinuxSent(pc[Linux])
      /\ channel[Mac] \in Seq(MessagesFor(Mac)) /\ channel[Mac] = Slice(ToMac, r, LinuxSent(pc[Linux]))
  BY DEF IInv, Channels, Conversation
<1>b. \A here, there, timed : Goes(Linux, here, there, timed) =>
        pc[Linux] = here /\ pc'[Linux] = there /\ pc'[Mac] = pc[Mac]
  BY <1>a DEF Goes, Types
<1>c. channel[Mac] \o <<>> = channel[Mac] BY <1>a
<1>1. CASE LinuxFinishes
  <2>1. pc[Linux] = "finish" /\ pc'[Linux] = "check" /\ pc'[Mac] = pc[Mac] /\ Take(Linux, <<Plain("tls")>>)
    BY <1>b, <1>1 DEF LinuxFinishes
  <2>2. LinuxRead("finish") = 0 /\ LinuxSent("finish") = 1 /\ LinuxRead("check") = 1 /\ LinuxSent("check") = 2
    BY DEF LinuxRead, LinuxSent
  <2>3. /\ 1 <= MacSent(pc[Mac]) /\ channel'[Linux] = Slice(ToLinux, 1, MacSent(pc[Mac]))
        /\ channel'[Mac] = channel[Mac] \o <<Plain("tls")>> /\ UNCHANGED <<secret, version, open>>
    <3>1. LinuxRead(pc[Linux]) + 1 = 1 BY <2>1, <2>2
    <3>2. /\ LinuxRead(pc[Linux]) + 1 <= MacSent(pc[Mac])
          /\ channel'[Linux] = Slice(ToLinux, LinuxRead(pc[Linux]) + 1, MacSent(pc[Mac]))
          /\ channel'[Mac] = channel[Mac] \o <<Plain("tls")>> /\ UNCHANGED <<secret, version, open>>
      BY <1>a, <2>1, LinuxTakes
    <3> QED BY <3>1, <3>2
  <2>4. r <= 1 /\ channel[Mac] = Slice(ToMac, r, 1) BY <1>a, <2>1, <2>2
  <2>5. Slice(ToMac, r, 1) \o <<ToMac[2]>> = Slice(ToMac, r, 2)
    <3>1. r \in 0 .. 5 /\ 1 \in 0 .. 4 /\ 2 = 1 + 1 BY <1>a
    <3> HIDE DEF r
    <3> QED BY <2>4, <3>1, LinuxAdds
  <2>6. ToMac[2] = Plain("tls") BY DEF ToMac
  <2>7. channel'[Mac] = Slice(ToMac, r, LinuxSent("check")) BY <2>2, <2>3, <2>4, <2>5, <2>6
  <2> QED BY <1>a, <2>1, <2>2, <2>3, <2>4, <2>7, StillTalking DEF LinuxPlaces
<1>2. CASE LinuxTrusts \/ LinuxReadsHello \/ LinuxReadsScreen
  <2>1. Take(Linux, <<>>) BY <1>2 DEF LinuxTrusts, LinuxReadsHello, LinuxReadsScreen
  <2>2. /\ pc'[Linux] \in LinuxPlaces /\ pc'[Mac] = pc[Mac]
        /\ LinuxRead(pc'[Linux]) = LinuxRead(pc[Linux]) + 1 /\ LinuxSent(pc'[Linux]) = LinuxSent(pc[Linux])
    <3>1. \/ pc[Linux] = "check" /\ pc'[Linux] = "prove"
          \/ pc[Linux] = "hello" /\ pc'[Linux] = "screen"
          \/ pc[Linux] = "screen" /\ pc'[Linux] = "served"
      BY <1>b, <1>2 DEF LinuxTrusts, LinuxReadsHello, LinuxReadsScreen
    <3>2. pc'[Mac] = pc[Mac] BY <1>b, <1>2 DEF LinuxTrusts, LinuxReadsHello, LinuxReadsScreen
    <3> QED BY <3>1, <3>2 DEF LinuxPlaces, LinuxRead, LinuxSent
  <2>3. /\ LinuxRead(pc[Linux]) + 1 <= MacSent(pc[Mac])
        /\ channel'[Linux] = Slice(ToLinux, LinuxRead(pc[Linux]) + 1, MacSent(pc[Mac]))
        /\ channel'[Mac] = channel[Mac] /\ UNCHANGED <<secret, version, open>>
    BY <1>a, <1>c, <2>1, LinuxTakes
  <2> QED BY <1>a, <2>2, <2>3, StillTalking DEF Conversation
<1>3. CASE LinuxProves
  <2>1. pc[Linux] = "prove" /\ pc'[Linux] = "greet" /\ pc'[Mac] = pc[Mac] /\ Put(Linux, <<ToMac[3]>>)
    BY <1>b, <1>3 DEF LinuxProves, ToMac
  <2>2. LinuxRead("prove") = 2 /\ LinuxSent("prove") = 2 /\ LinuxRead("greet") = 2 /\ LinuxSent("greet") = 3
    BY DEF LinuxRead, LinuxSent
  <2>3. /\ channel'[Linux] = channel[Linux] /\ channel'[Mac] = channel[Mac] \o <<ToMac[3]>>
        /\ UNCHANGED <<secret, version, open>>
    BY <1>a, <2>1, Puts
  <2>4. r <= 2 /\ channel[Mac] = Slice(ToMac, r, 2) BY <1>a, <2>1, <2>2
  <2>5. Slice(ToMac, r, 2) \o <<ToMac[3]>> = Slice(ToMac, r, 3)
    <3>1. r \in 0 .. 5 /\ 2 \in 0 .. 4 /\ 3 = 2 + 1 BY <1>a
    <3> HIDE DEF r
    <3> QED BY <2>4, <3>1, LinuxAdds
  <2>6. channel'[Mac] = Slice(ToMac, r, LinuxSent("greet")) BY <2>2, <2>3, <2>4, <2>5
  <2>7. LinuxRead("greet") <= MacSent(pc[Mac]) /\ channel[Linux] = Slice(ToLinux, LinuxRead("greet"), MacSent(pc[Mac]))
    BY <2>1, <2>2 DEF Conversation
  <2> QED BY <1>a, <2>1, <2>2, <2>3, <2>4, <2>6, <2>7, StillTalking DEF LinuxPlaces
<1>4. CASE LinuxGreets
  <2>1. pc[Linux] = "greet" /\ pc'[Linux] = "hello" /\ pc'[Mac] = pc[Mac] /\ Put(Linux, <<ToMac[4], ToMac[5]>>)
    BY <1>b, <1>4 DEF LinuxGreets, ToMac
  <2>2. LinuxRead("greet") = 2 /\ LinuxSent("greet") = 3 /\ LinuxRead("hello") = 2 /\ LinuxSent("hello") = 5
    BY DEF LinuxRead, LinuxSent
  <2>3. /\ channel'[Linux] = channel[Linux] /\ channel'[Mac] = channel[Mac] \o <<ToMac[4], ToMac[5]>>
        /\ UNCHANGED <<secret, version, open>>
    BY <1>a, <2>1, Puts
  <2>4. r <= 3 /\ channel[Mac] = Slice(ToMac, r, 3) BY <1>a, <2>1, <2>2
  <2>5. /\ Slice(ToMac, r, 3) \o <<ToMac[4]>> = Slice(ToMac, r, 4)
        /\ Slice(ToMac, r, 4) \o <<ToMac[5]>> = Slice(ToMac, r, 5)
    <3>1. r \in 0 .. 5 /\ 3 \in 0 .. 4 /\ 4 \in 0 .. 4 /\ 4 = 3 + 1 /\ 5 = 4 + 1 /\ r <= 4 BY <1>a, <2>4
    <3> HIDE DEF r
    <3>2. Slice(ToMac, r, 3) \o <<ToMac[4]>> = Slice(ToMac, r, 4) BY <2>4, <3>1, LinuxAdds
    <3>3. Slice(ToMac, r, 4) \o <<ToMac[5]>> = Slice(ToMac, r, 5) BY <3>1, LinuxAdds
    <3> QED BY <3>2, <3>3
  <2>6. channel[Mac] \o <<ToMac[4], ToMac[5]>> = (channel[Mac] \o <<ToMac[4]>>) \o <<ToMac[5]>>
    <3> DEFINE S == MessagesFor(Mac) \cup {ToMac[4], ToMac[5]}
    <3>1. MessagesFor(Mac) \subseteq S /\ ToMac[4] \in S /\ ToMac[5] \in S OBVIOUS
    <3> HIDE DEF S
    <3>2. channel[Mac] \in Seq(S) BY <1>a, <3>1, SeqMonotonic
    <3> QED BY <3>1, <3>2, TwoAtOnce
  <2>7. channel'[Mac] = Slice(ToMac, r, LinuxSent("hello")) BY <2>2, <2>3, <2>4, <2>5, <2>6
  <2>8. LinuxRead("hello") <= MacSent(pc[Mac]) /\ channel[Linux] = Slice(ToLinux, LinuxRead("hello"), MacSent(pc[Mac]))
    BY <2>1, <2>2 DEF Conversation
  <2> QED BY <1>a, <2>1, <2>2, <2>3, <2>4, <2>7, <2>8, StillTalking DEF LinuxPlaces
<1> QED BY <1>1, <1>2, <1>3, <1>4 DEF LinuxStep

\* What comes next is what a side expects.
LEMMA NobodyRefuses ==
  ASSUME IInv, Conversation, GoodPair, NEW p \in Sides PROVE ~Refuses(p)
<1> SUFFICES ASSUME Refuses(p) PROVE FALSE OBVIOUS
<1> USE TwoSides, Scripts
<1>1. Channels /\ pc[p] \in Reading /\ ~Expected(p, Head(channel[p])) /\ channel[p] # <<>>
  BY DEF Refuses, Arrived, IInv
<1>2. CASE p = Mac
  <2>1. Head(channel[Mac]) = ToMac[MacRead(pc[Mac]) + 1]
    <3> DEFINE r == MacRead(pc[Mac])
               s == LinuxSent(pc[Linux])
    <3>1. r \in Nat /\ s \in Nat /\ r <= s /\ s <= Len(ToMac) /\ ToMac \in Seq(Said)
      BY DEF Conversation
    <3>2. Slice(ToMac, r, s) = channel[Mac] BY DEF Conversation
    <3>3. Slice(ToMac, r, s) # <<>> BY <1>1, <1>2, <3>2
    <3> HIDE DEF r, s
    <3>4. Head(Slice(ToMac, r, s)) = ToMac[r + 1] BY <3>1, <3>3, SliceTake
    <3> QED BY <3>2, <3>4 DEF r
  <2>2. CASE pc[Mac] = "check"
    <3>1. MacRead("check") = 2 BY DEF MacRead
    <3>2. Head(channel[Mac]) = ToMac[3] BY <2>1, <2>2, <3>1
    <3> QED BY <1>1, <1>2, <2>2, <3>2 DEF Expected, Trusts, ToMac, GoodPair, SameKey
  <2>3. CASE pc[Mac] = "hello"
    <3>1. MacRead("hello") = 3 BY DEF MacRead
    <3>2. Head(channel[Mac]) = ToMac[4] BY <2>1, <2>3, <3>1
    <3> QED BY <1>1, <1>2, <2>3, <3>2 DEF Expected, SameVersion, Hello, ToMac, GoodPair
  <2>4. CASE pc[Mac] = "screen"
    <3>1. MacRead("screen") = 4 BY DEF MacRead
    <3>2. Head(channel[Mac]) = ToMac[5] BY <2>1, <2>4, <3>1
    <3> QED BY <1>1, <1>2, <2>4, <3>2 DEF Expected, Plain, Message, ToMac
  <2> QED BY <1>1, <1>2, <2>2, <2>3, <2>4 DEF Expected
<1>3. CASE p = Linux
  <2>1. Head(channel[Linux]) = ToLinux[LinuxRead(pc[Linux]) + 1]
    <3> DEFINE r == LinuxRead(pc[Linux])
               s == MacSent(pc[Mac])
    <3>1. r \in Nat /\ s \in Nat /\ r <= s /\ s <= Len(ToLinux) /\ ToLinux \in Seq(Said)
      BY DEF Conversation
    <3>2. Slice(ToLinux, r, s) = channel[Linux] BY DEF Conversation
    <3>3. Slice(ToLinux, r, s) # <<>> BY <1>1, <1>3, <3>2
    <3> HIDE DEF r, s
    <3>4. Head(Slice(ToLinux, r, s)) = ToLinux[r + 1] BY <3>1, <3>3, SliceTake
    <3> QED BY <3>2, <3>4 DEF r
  <2>2. CASE pc[Linux] = "check"
    <3>1. LinuxRead("check") = 1 BY DEF LinuxRead
    <3>2. Head(channel[Linux]) = ToLinux[2] BY <2>1, <2>2, <3>1
    <3> QED BY <1>1, <1>3, <2>2, <3>2 DEF Expected, Trusts, ToLinux, GoodPair, SameKey
  <2>3. CASE pc[Linux] = "hello"
    <3>1. LinuxRead("hello") = 2 BY DEF LinuxRead
    <3>2. Head(channel[Linux]) = ToLinux[3] BY <2>1, <2>3, <3>1
    <3> QED BY <1>1, <1>3, <2>3, <3>2 DEF Expected, SameVersion, Hello, ToLinux, GoodPair
  <2>4. CASE pc[Linux] = "screen"
    <3>1. LinuxRead("screen") = 3 BY DEF LinuxRead
    <3>2. Head(channel[Linux]) = ToLinux[4] BY <2>1, <2>4, <3>1
    <3> QED BY <1>1, <1>3, <2>4, <3>2 DEF Expected, Plain, Message, ToLinux
  <2> QED BY <1>1, <1>3, <2>2, <2>3, <2>4 DEF Expected
<1> QED BY <1>2, <1>3

LEMMA GoodNext == IInv /\ GoodInv /\ [Next]_vars => GoodInv'
<1> SUFFICES ASSUME IInv, GoodInv, [Next]_vars, GoodPair', ~disturbed'
             PROVE  (pc[Mac] = "idle" /\ pc[Linux] = "idle")' \/ Conversation'
  BY DEF GoodInv
<1> USE TwoSides
<1>1. CASE Dial
  <2>1. /\ pc'[Mac] = "accept" /\ pc'[Linux] = "finish" /\ open'[Mac] /\ open'[Linux]
        /\ channel'[Mac] = <<Plain("tls")>> /\ channel'[Linux] = <<>>
    BY <1>1 DEF Dial, IInv, Types, Channels
  <2>2. Slice(ToMac', 0, 1) = <<Plain("tls")>>
    <3>1. ToMac'[1] = Plain("tls") BY DEF ToMac, Plain, Message
    <3> QED BY <3>1 DEF Slice
  <2>3. Slice(ToLinux', 0, 0) = <<>> BY DEF Slice
  <2> QED BY <2>1, <2>2, <2>3 DEF Conversation, MacRead, MacSent, LinuxRead, LinuxSent, MacPlaces, LinuxPlaces
<1>2. CASE \/ Cut \/ \E p \in Sides : Timeout(p) \/ SessionEnds(p)
  BY <1>2 DEF Cut, Timeout, SessionEnds
<1>3. CASE Heal \/ UNCHANGED vars
  <2>1. UNCHANGED <<pc, secret, version, channel, open, disturbed>>
    BY <1>3 DEF Heal, vars, setupVars, linkVars
  <2>2. GoodPair /\ ~disturbed BY <2>1 DEF GoodPair, SameKey
  <2>3. ToMac' = ToMac /\ ToLinux' = ToLinux BY <2>1 DEF ToMac, ToLinux, Hello
  <2> QED BY <2>1, <2>2, <2>3 DEF GoodInv, Conversation
<1>4. CASE MacStep \/ LinuxStep \/ \E p \in Sides : FindsClosed(p)
  <2>1. GoodPair /\ ~disturbed
    <3>1. UNCHANGED <<secret, version, disturbed>>
      BY <1>4 DEF FindsClosed, Close, Refuses, MacStep, MacAccepts,
        MacFlight, MacFinishes, MacProves, MacAdmits, MacGreets, MacReadsHello,
        MacReadsScreen, MacSendsHello, MacSendsScreen, MacSendsEdge, LinuxStep,
        LinuxFinishes, LinuxTrusts, LinuxProves, LinuxGreets, LinuxReadsHello,
        LinuxReadsScreen, Take, Put, setupVars, linkVars
    <3> QED BY <3>1 DEF GoodPair, SameKey
  <2>2. ~(pc[Mac] = "idle" /\ pc[Linux] = "idle")
    BY <1>4 DEF FindsClosed, Refuses, Reading, Writing, Goes, MacStep, MacAccepts,
        MacFlight, MacFinishes, MacProves, MacAdmits, MacGreets, MacReadsHello,
        MacReadsScreen, MacSendsHello, MacSendsScreen, MacSendsEdge, LinuxStep,
        LinuxFinishes, LinuxTrusts, LinuxProves, LinuxGreets, LinuxReadsHello,
        LinuxReadsScreen
  <2>3. Conversation BY <2>1, <2>2 DEF GoodInv
  <2>4. ~ \E p \in Sides : FindsClosed(p) BY <2>3 DEF FindsClosed, Conversation
  <2> QED BY <1>4, <2>1, <2>3, <2>4, NobodyRefuses, MacTalks, LinuxTalks
<1> QED BY <1>1, <1>2, <1>3, <1>4 DEF Next

\* Between sides with the same key and version, nobody closes the connection
\* unless the network or a deadline did (authenticateServer, authenticateClient,
\* handleConn, runOnce).
THEOREM GoodPairs == Spec => []GoodPairConnects
<1>1. Init => GoodInv BY TwoSides DEF Init, GoodInv
<1>2. GoodInv => GoodPairConnects
  BY TwoSides DEF GoodInv, GoodPairConnects, Conversation, MacPlaces, LinuxPlaces
<1> QED BY <1>1, <1>2, GoodNext, InvariantIsInductive, PTL DEF Spec
=============================================================================
