----------------------------- MODULE Handshake -----------------------------
(***************************************************************************)
(* From a TCP connection to a served client: Accept and Connect of         *)
(* src/internal/secureconn/session.go and the greeting of handleConn       *)
(* (src/internal/server/server.go) and runOnce                             *)
(* (src/internal/client/client.go).  Module Session goes on from there.    *)
(*                                                                         *)
(* Both sides write and read in a fixed order; the Mac is the TLS server   *)
(* and proves itself first.  Reads have a deadline in each of the two      *)
(* phases, and none between them, where nothing is read, or afterwards.    *)
(*                                                                         *)
(* Abstractions.  TLS is its three flights.  A proof is the secret it was  *)
(* made with and the role of its maker; attempts share nothing, so there   *)
(* is one at a time, and a proof need not name its channel.  Writes go     *)
(* into a buffer that has room for all of this.  Screen sizes are valid.   *)
(* The certificate can be made.                                            *)
(***************************************************************************)
EXTENDS Sequences

CONSTANTS Mac, Linux,   \* the two sides
          Secrets,      \* pairing keys
          Versions      \* protocol versions

Sides == {Mac, Linux}
Peer(p) == IF p = Mac THEN Linux ELSE Mac
Role(p) == IF p = Mac THEN "server" ELSE "client"

ASSUME HandshakeAssumption == Mac # Linux

VARIABLES
  pc,           \* where each side is
  secret,       \* the pairing key it was started with
  version,      \* the protocol version it speaks
  channel,      \* channel[p]: what is on its way to p
  open,         \* open[p]: p has not closed the connection
  cut,          \* the network carries nothing
  deadline,     \* deadline[p]: the reads of p have a deadline
  admitted,     \* history: the Mac has accepted the proof of this attempt
  disturbed     \* history: a deadline passed, the network was cut or the
                \* session ended in this attempt

setupVars == <<secret, version>>
linkVars == <<open, cut, disturbed>>
vars == <<pc, setupVars, channel, linkVars, deadline, admitted>>

Idle == {"idle", "closed"}
Reading == {"tls", "finish", "check", "hello", "screen"}
Writing == {"prove", "greet", "sendHello", "sendScreen", "sendEdge"}
Pcs == Idle \cup Reading \cup Writing \cup {"accept", "greeting", "served"}

Message(kind, val, role) == [kind |-> kind, val |-> val, role |-> role]
Plain(kind) == Message(kind, "none", "none")
Proof(s, role) == Message("proof", s, role)
Hello(p) == Message("hello", version[p], "none")

\* Because of m, p believes in its peer, or knows that both speak its version.
MutTrusts(p, m) == m.kind = "proof"
Trusts(p, m) == m = Proof(secret[p], Role(Peer(p)))
MutSameVersion(p, m) == m.kind = "hello"
SameVersion(p, m) == m = Hello(p)

Init ==
  /\ pc = [p \in Sides |-> "idle"]
  /\ secret \in [Sides -> Secrets]
  /\ version \in [Sides -> Versions]
  /\ channel = [p \in Sides |-> <<>>]
  /\ open = [p \in Sides |-> FALSE]
  /\ cut = FALSE
  /\ deadline = [p \in Sides |-> FALSE]
  /\ admitted = FALSE /\ disturbed = FALSE
-----------------------------------------------------------------------------
\* What is on its way once p has written ms: all of it, or nothing more to a
\* peer that has closed.
Carry(ch, p, ms) == IF open[Peer(p)] THEN [ch EXCEPT ![Peer(p)] = @ \o ms] ELSE ch

\* p goes from here to there, with a deadline on its reads there or without.
Goes(p, here, there, timed) ==
  /\ pc[p] = here
  /\ pc' = [pc EXCEPT ![p] = there]
  /\ deadline' = [deadline EXCEPT ![p] = timed]

\* A message has reached p.
Arrived(p) == ~cut /\ channel[p] # <<>>

\* p takes its next message, and writes ms.
Take(p, ms) ==
  /\ Arrived(p)
  /\ channel' = Carry([channel EXCEPT ![p] = Tail(@)], p, ms)
  /\ UNCHANGED <<setupVars, linkVars>>

\* p writes ms.
Put(p, ms) ==
  /\ channel' = Carry(channel, p, ms)
  /\ UNCHANGED <<setupVars, linkVars, admitted>>

Close(p) ==
  /\ pc' = [pc EXCEPT ![p] = "closed"]
  /\ open' = [open EXCEPT ![p] = FALSE]
  /\ deadline' = [deadline EXCEPT ![p] = FALSE]
  /\ UNCHANGED <<setupVars, channel, cut, admitted>>

\* What p may read next: a proof, a Hello or a Screen.
Expected(p, m) ==
  CASE pc[p] = "check"  -> Trusts(p, m)
    [] pc[p] = "hello"  -> SameVersion(p, m)
    [] pc[p] = "screen" -> m.kind = "screen"
    [] OTHER -> TRUE

\* p reads something else, and closes.
Refuses(p) ==
  /\ Arrived(p) /\ pc[p] \in Reading
  /\ ~Expected(p, Head(channel[p]))
  /\ Close(p) /\ UNCHANGED disturbed
-----------------------------------------------------------------------------
(* The connection, and what can happen to it.                              *)

\* The client dials, after a restart perhaps with another key or version.  It
\* sets its deadline and opens TLS.
Dial ==
  /\ \A p \in Sides : pc[p] \in Idle
  /\ ~cut /\ disturbed' = FALSE
  /\ pc' = [pc EXCEPT ![Mac] = "accept", ![Linux] = "finish"]
  /\ channel' = [channel EXCEPT ![Mac] = <<Plain("tls")>>, ![Linux] = <<>>]
  /\ open' = [p \in Sides |-> TRUE] /\ UNCHANGED cut
  /\ deadline' = [deadline EXCEPT ![Linux] = TRUE]
  /\ admitted' = FALSE
  /\ \E s \in Secrets, v \in Versions :
       /\ secret' = [secret EXCEPT ![Linux] = s]
       /\ version' = [version EXCEPT ![Linux] = v]

\* The network carries nothing, for a while or for good.
Cut ==
  /\ ~cut /\ cut' = TRUE /\ disturbed' = TRUE
  /\ UNCHANGED <<pc, setupVars, channel, open, deadline, admitted>>
Heal ==
  /\ cut /\ cut' = FALSE
  /\ UNCHANGED <<pc, setupVars, channel, open, deadline, admitted, disturbed>>

\* The deadline of p passes while it reads.
Timeout(p) ==
  /\ pc[p] \in Reading /\ deadline[p]
  /\ Close(p) /\ disturbed' = TRUE

\* p finds the connection closed by its peer, while it reads (with what was on
\* its way to p, when the close was a reset) or while it writes.
FindsClosed(p) ==
  /\ pc[p] \in Reading \cup Writing
  /\ ~cut /\ ~open[Peer(p)]
  /\ Close(p) /\ UNCHANGED disturbed

\* The session of p ends: it reads the end of the connection, or it closes it.
SessionEnds(p) ==
  /\ pc[p] = "served"
  /\ Close(p) /\ disturbed' = TRUE
-----------------------------------------------------------------------------
(* The Mac.                                                                *)

\* Accept sets the deadline; handshake; proof; and the client's proof.
MacAccepts == 
  /\ Goes(Mac, "accept", "tls", TRUE)
  /\ UNCHANGED <<channel, setupVars, linkVars, admitted>>
MacFlight ==
  /\ Goes(Mac, "tls", "finish", TRUE)
  /\ Take(Mac, <<Plain("tls")>>) /\ UNCHANGED admitted
MacFinishes ==
  /\ Goes(Mac, "finish", "prove", TRUE)
  /\ Take(Mac, <<>>) /\ UNCHANGED admitted
MutMacProves ==
  /\ Goes(Mac, "prove", "check", TRUE)
  /\ Put(Mac, <<Proof(secret[Mac], Role(Linux))>>)
MacProves ==
  /\ Goes(Mac, "prove", "check", TRUE)
  /\ Put(Mac, <<Proof(secret[Mac], Role(Mac))>>)
\* The deadline is lifted when authenticateServer returns.
MacAdmits ==
  /\ Take(Mac, <<>>) /\ Trusts(Mac, Head(channel[Mac]))
  /\ Goes(Mac, "check", "greeting", FALSE)
  /\ admitted' = TRUE

\* handleConn: a new deadline, the client's Hello and Screen, and the answers.
MutMacGreets ==
  /\ Goes(Mac, "greeting", "hello", FALSE)
  /\ UNCHANGED <<channel, setupVars, linkVars, admitted>>
MacGreets ==
  /\ Goes(Mac, "greeting", "hello", TRUE)
  /\ UNCHANGED <<channel, setupVars, linkVars, admitted>>
MacReadsHello ==
  /\ Take(Mac, <<>>) /\ SameVersion(Mac, Head(channel[Mac]))
  /\ Goes(Mac, "hello", "screen", TRUE) /\ UNCHANGED admitted
MutMacReadsScreen ==
  /\ Take(Mac, <<>>) /\ Head(channel[Mac]).kind = "screen"
  /\ Goes(Mac, "screen", "sendHello", TRUE) /\ UNCHANGED admitted
MacReadsScreen ==
  /\ Take(Mac, <<>>) /\ Head(channel[Mac]).kind = "screen"
  /\ Goes(Mac, "screen", "sendHello", FALSE) /\ UNCHANGED admitted
MacSendsHello ==
  Goes(Mac, "sendHello", "sendScreen", deadline[Mac]) /\ Put(Mac, <<Hello(Mac)>>)
MacSendsScreen ==
  Goes(Mac, "sendScreen", "sendEdge", deadline[Mac]) /\ Put(Mac, <<Plain("screen")>>)
MacSendsEdge ==
  Goes(Mac, "sendEdge", "served", deadline[Mac]) /\ Put(Mac, <<Plain("edge")>>)

MacStep == 
  \/ MacAccepts \/ MacFlight \/ MacFinishes \/ MacProves \/ MacAdmits
  \/ MacGreets \/ MacReadsHello \/ MacReadsScreen
  \/ MacSendsHello \/ MacSendsScreen \/ MacSendsEdge \/ Refuses(Mac)
-----------------------------------------------------------------------------
(* The client.                                                             *)

LinuxFinishes ==
  /\ Goes(Linux, "finish", "check", TRUE)
  /\ Take(Linux, <<Plain("tls")>>) /\ UNCHANGED admitted
LinuxTrusts ==
  /\ Take(Linux, <<>>) /\ Trusts(Linux, Head(channel[Linux]))
  /\ Goes(Linux, "check", "prove", TRUE) /\ UNCHANGED admitted
\* The deadline is lifted when authenticateClient returns.
LinuxProves ==
  /\ Goes(Linux, "prove", "greet", FALSE)
  /\ Put(Linux, <<Proof(secret[Linux], Role(Linux))>>)

\* runOnce: Hello and Screen at once, a new deadline, the answers of the Mac.
LinuxGreets ==
  /\ Goes(Linux, "greet", "hello", TRUE)
  /\ Put(Linux, <<Hello(Linux), Plain("screen")>>)
LinuxReadsHello ==
  /\ Take(Linux, <<>>) /\ SameVersion(Linux, Head(channel[Linux]))
  /\ Goes(Linux, "hello", "screen", TRUE) /\ UNCHANGED admitted
LinuxReadsScreen ==
  /\ Take(Linux, <<>>) /\ Head(channel[Linux]).kind = "screen"
  /\ Goes(Linux, "screen", "served", FALSE) /\ UNCHANGED admitted

LinuxStep ==
  \/ LinuxFinishes \/ LinuxTrusts \/ LinuxProves
  \/ LinuxGreets \/ LinuxReadsHello \/ LinuxReadsScreen \/ Refuses(Linux)
-----------------------------------------------------------------------------
Next ==
  \/ Dial \/ Cut \/ Heal \/ MacStep \/ LinuxStep
  \/ \E p \in Sides : Timeout(p) \/ FindsClosed(p) \/ SessionEnds(p)

Spec == Init /\ [][Next]_vars

\* The goroutines run and the timers fire.
Fairness ==
  /\ WF_vars(MacStep) /\ WF_vars(LinuxStep)
  /\ \A p \in Sides : WF_vars(Timeout(p)) /\ WF_vars(FindsClosed(p))
FairSpec == Spec /\ Fairness
-----------------------------------------------------------------------------
Messages ==
  {Plain(kind) : kind \in {"tls", "screen", "edge"}}
  \cup {Proof(s, role) : s \in Secrets, role \in {"server", "client"}}
  \cup {Message("hello", v, "none") : v \in Versions}

\* The variables have their types.
TypeOK ==
  /\ pc \in [Sides -> Pcs]
  /\ secret \in [Sides -> Secrets] /\ version \in [Sides -> Versions]
  /\ DOMAIN channel = Sides /\ \A p \in Sides : channel[p] \in Seq(Messages)
  /\ open \in [Sides -> BOOLEAN] /\ deadline \in [Sides -> BOOLEAN]
  /\ cut \in BOOLEAN /\ admitted \in BOOLEAN /\ disturbed \in BOOLEAN

SameKey == secret[Mac] = secret[Linux]
GoodPair == SameKey /\ version[Mac] = version[Linux]

\* A side that has got past the proof of its peer has the same key: with
\* another key the client shows neither its proof nor its greeting, and the Mac
\* reads no greeting (authenticateServer, authenticateClient).
ProofComesFirst ==
  /\ pc[Linux] \in {"prove", "greet", "hello", "screen", "served"} => SameKey
  /\ pc[Mac] \in {"greeting", "hello", "screen", "sendHello", "sendScreen", "sendEdge", "served"} =>
       SameKey

\* Sessions are between peers that have the same key and speak the same version,
\* and the client takes itself to be served only when the Mac has accepted it
\* (handleConn, runOnce).
ServedPeersAgree ==
  (\E p \in Sides : pc[p] = "served") => GoodPair /\ admitted

\* No session runs under a deadline of its setup, which would end it a few
\* seconds later (the deferred SetDeadline, and the two SetReadDeadline).
DeadlinesAreLifted ==
  \A p \in Sides : pc[p] = "served" => ~deadline[p]

\* Between sides with the same key and version, nobody closes the connection
\* unless the network or a deadline did: the order in which each writes and reads
\* fits the other's.
GoodPairConnects ==
  GoodPair /\ ~disturbed => \A p \in Sides : pc[p] # "closed"

\* Every attempt ends, in a session or closed, also over a network that has
\* stopped to carry anything: neither side waits for the other for ever.
AttemptEnds ==
  \A p \in Sides : pc[p] \notin Idle \cup {"served"} ~> pc[p] \in Idle \cup {"served"}

=============================================================================
