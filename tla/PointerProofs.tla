---------------------------- MODULE PointerProofs ----------------------------
(***************************************************************************)
(* Safety of module Pointer for all sizes of screens, heights of crossings *)
(* and insets with EdgeMargin < Inset.                                     *)
(*                                                                         *)
(* A side's knowledge at a frame under way is what it knows now, or the    *)
(* last Screen frame before that one (Told).  The invariant says that for  *)
(* each side this is the other's size at the end of its queue, while the   *)
(* other has told it (MacTold, ClientTold: between the store and the send  *)
(* of refreshScreen it has not), and at every sure crossing in the queue   *)
(* the size of the screen that was left (ClientQueue, MacQueue).  The rest *)
(* is the arithmetic of rounding.                                          *)
(***************************************************************************)
EXTENDS Pointer, SequenceTheorems, TLAPS

\* Of the frames in a queue: a sure crossing says what is told before it.
Sure(queue, known, type) ==
  \A n \in 1..Len(queue) :
    queue[n].type = type /\ queue[n].sure => Told(queue, n, known, queue[n].of)

\* The frames for the client.
ClientQueue ==
  /\ toClient \in Seq(Frames(MacHeights))
  /\ conn \in {"off", "dialed", "greeting"} => ~met /\ toClient = <<>>
  /\ conn = "asked" => ~met /\ \E s \in MacHeights : toClient = <<ScreenFrame(s)>>
  /\ conn \in {"greeted", "up"} =>
       /\ ~met => toClient # <<>> /\ toClient[1].type = "screen"
       /\ MacTold => Told(toClient, Len(toClient) + 1, peerKnown, macKnown)
  /\ Sure(toClient, peerKnown, "remote")

\* The frames for the Mac.  Only a greeting can carry an unknown size.
MacQueue ==
  /\ conn = "off" => toMac = <<>>
  /\ conn \in {"dialed", "greeting"} =>
       \E s \in ClientScreens \cup {Unknown} : toMac = <<ScreenFrame(s)>>
  /\ conn \in {"asked", "greeted", "up"} =>
       /\ toMac \in Seq(Frames(ClientScreens))
       /\ \A n \in 1..Len(toMac) : toMac[n].type = "back" => toMac[n].y < toMac[n].of.h
  /\ conn \in {"greeting", "asked", "greeted", "up"} /\ ClientTold /\ ~silent =>
       Told(toMac, Len(toMac) + 1, cliKnown, ownKnown)
  /\ Sure(toMac, cliKnown, "back")

\* A parked cursor is outside both zones.
ParkedInv ==
  parked => met /\ EdgeMargin < cursor.x /\ cursor.x < ownKnown.w - EdgeMargin

IInv == TypeOK /\ ClientQueue /\ MacQueue /\ ParkedInv

-----------------------------------------------------------------------------
\* What a queue tells.

\* A frame at the end changes nothing of what is told before it.
LEMMA ToldBefore ==
  ASSUME NEW S, NEW q \in Seq(S), NEW e \in S, NEW n \in 1 .. Len(q) + 1, NEW known, NEW size,
         Told(q, n, known, size)
  PROVE  Told(Append(q, e), n, known, size)
<1>1. \A k \in 1..Len(q) : Append(q, e)[k] = q[k] OBVIOUS
<1>2. \A k \in 1 .. n - 1 : k \in 1..Len(q) OBVIOUS
<1>3. CASE known = size /\ \A k \in 1 .. n - 1 : q[k].type # "screen"
  BY <1>1, <1>2, <1>3 DEF Told
<1>4. CASE \E k \in 1 .. n - 1 :
             /\ q[k].type = "screen" /\ q[k].size = size
             /\ \A j \in k + 1 .. n - 1 : q[j].type # "screen"
  <2>1. PICK k \in 1 .. n - 1 :
             /\ q[k].type = "screen" /\ q[k].size = size
             /\ \A j \in k + 1 .. n - 1 : q[j].type # "screen"
    BY <1>4
  <2>2. \A j \in k + 1 .. n - 1 : j \in 1 .. n - 1 OBVIOUS
  <2> QED BY <1>1, <1>2, <2>1, <2>2 DEF Told
<1> QED BY <1>3, <1>4 DEF Told

\* A frame that is not a Screen frame changes nothing of what is told after it.
LEMMA ToldPast ==
  ASSUME NEW q, NEW n \in Nat \ {0}, NEW known, NEW size,
         Told(q, n, known, size), q[n].type # "screen"
  PROVE  Told(q, n + 1, known, size)
<1>1. (n + 1) - 1 = n /\ n - 1 \in Nat OBVIOUS
<1>2. CASE known = size /\ \A k \in 1 .. n - 1 : q[k].type # "screen"
  <2>1. \A k \in 1 .. n : k \in 1 .. n - 1 \/ k = n OBVIOUS
  <2> QED BY <1>1, <1>2, <2>1 DEF Told
<1>3. CASE \E k \in 1 .. n - 1 :
             /\ q[k].type = "screen" /\ q[k].size = size
             /\ \A j \in k + 1 .. n - 1 : q[j].type # "screen"
  <2>1. PICK k \in 1 .. n - 1 :
             /\ q[k].type = "screen" /\ q[k].size = size
             /\ \A j \in k + 1 .. n - 1 : q[j].type # "screen"
    BY <1>3
  <2>2. \A j \in k + 1 .. n : j \in k + 1 .. n - 1 \/ j = n OBVIOUS
  <2>3. k \in 1 .. n OBVIOUS
  <2> QED BY <1>1, <2>1, <2>2, <2>3 DEF Told
<1> QED BY <1>2, <1>3 DEF Told

LEMMA ToldAppend ==
  ASSUME NEW S, NEW q \in Seq(S), NEW e \in S, NEW known, NEW size,
         e.type # "screen", Told(q, Len(q) + 1, known, size)
  PROVE  Told(Append(q, e), Len(Append(q, e)) + 1, known, size)
<1>1. /\ Len(q) \in Nat /\ Len(Append(q, e)) = Len(q) + 1
      /\ Append(q, e)[Len(q) + 1] = e
  OBVIOUS
<1> DEFINE r == Append(q, e)  n == Len(q) + 1
<1>2. Told(r, n, known, size) BY <1>1, ToldBefore
<1>3. n \in Nat \ {0} /\ r[n].type # "screen" /\ Len(r) = n BY <1>1
<1> HIDE DEF r, n
<1>4. Told(r, n + 1, known, size) BY <1>2, <1>3, ToldPast
<1> QED BY <1>3, <1>4 DEF r, n

LEMMA ToldAppendScreen ==
  ASSUME NEW S, NEW q \in Seq(S), NEW size, ScreenFrame(size) \in S, NEW known
  PROVE  Told(Append(q, ScreenFrame(size)), Len(Append(q, ScreenFrame(size))) + 1, known, size)
<1> DEFINE r == Append(q, ScreenFrame(size))
<1>1. /\ Len(q) \in Nat /\ Len(r) = Len(q) + 1
      /\ r[Len(q) + 1] = ScreenFrame(size)
  OBVIOUS
<1>2. r[Len(r)].type = "screen" /\ r[Len(r)].size = size BY <1>1 DEF ScreenFrame
<1>3. Len(r) \in Nat \ {0} BY <1>1
<1> DEFINE n == Len(r)
<1> HIDE DEF r
<1>4. n \in 1 .. (n + 1) - 1 /\ \A j \in n + 1 .. (n + 1) - 1 : r[j].type # "screen"
  BY <1>3
<1>5. r[n].type = "screen" /\ r[n].size = size BY <1>2
<1> HIDE DEF n
<1>6. Told(r, n + 1, known, size) BY <1>4, <1>5 DEF Told
<1> QED BY <1>6 DEF n, r

\* Reading a frame.
LEMMA ToldTail ==
  ASSUME NEW S, NEW q \in Seq(S), q # <<>>, NEW n \in 2 .. Len(q) + 1, NEW known, NEW size,
         Told(q, n, known, size)
  PROVE  Told(Tail(q), n - 1, IF q[1].type = "screen" THEN q[1].size ELSE known, size)
<1>1. /\ Len(q) \in Nat \ {0} /\ Len(Tail(q)) = Len(q) - 1
      /\ \A k \in 1 .. Len(q) - 1 : Tail(q)[k] = q[k + 1]
  OBVIOUS
<1>2. \A k \in 1 .. n - 2 : k + 1 \in 2 .. n - 1 /\ Tail(q)[k] = q[k + 1] BY <1>1
<1>3. (n - 1) - 1 = n - 2 OBVIOUS
<1>4. CASE known = size /\ \A k \in 1 .. n - 1 : q[k].type # "screen"
  <2>1. q[1].type # "screen" BY <1>4
  <2>2. \A k \in 1 .. n - 2 : Tail(q)[k].type # "screen" BY <1>2, <1>4
  <2> QED BY <1>3, <1>4, <2>1, <2>2 DEF Told
<1>5. CASE \E k \in 1 .. n - 1 :
             /\ q[k].type = "screen" /\ q[k].size = size
             /\ \A j \in k + 1 .. n - 1 : q[j].type # "screen"
  <2>1. PICK k \in 1 .. n - 1 :
             /\ q[k].type = "screen" /\ q[k].size = size
             /\ \A j \in k + 1 .. n - 1 : q[j].type # "screen"
    BY <1>5
  <2>2. CASE k = 1
    <3>1. \A j \in 1 .. n - 2 : Tail(q)[j].type # "screen" BY <1>2, <2>1, <2>2
    <3> QED BY <1>3, <2>1, <2>2, <3>1 DEF Told
  <2>3. CASE k # 1
    <3>1. /\ k - 1 \in 1 .. n - 2 /\ (k - 1) + 1 = k
          /\ \A j \in k .. n - 2 : j \in 1 .. n - 2 /\ j + 1 \in k + 1 .. n - 1
      BY <2>3
    <3>2. Tail(q)[k - 1] = q[k] BY <1>2, <3>1
    <3>3. \A j \in (k - 1) + 1 .. n - 2 : Tail(q)[j].type # "screen"
      BY <1>2, <2>1, <3>1
    <3>4. \/ q[1].type = "screen" \/ q[1].type # "screen" OBVIOUS
    <3> QED BY <1>3, <2>1, <3>1, <3>2, <3>3 DEF Told
  <2> QED BY <2>2, <2>3
<1> QED BY <1>4, <1>5 DEF Told
-----------------------------------------------------------------------------
LEMMA SureSend ==
  ASSUME NEW S, NEW q \in Seq(S), NEW e \in S, NEW known, NEW type,
         Sure(q, known, type),
         e.type = type /\ e.sure => Told(q, Len(q) + 1, known, e.of)
  PROVE  Sure(Append(q, e), known, type)
<1> DEFINE r == Append(q, e)
<1>1. /\ Len(q) \in Nat /\ Len(r) = Len(q) + 1 /\ r[Len(q) + 1] = e
      /\ \A k \in 1..Len(q) : r[k] = q[k]
  OBVIOUS
<1>2. ASSUME NEW n \in 1..Len(r), r[n].type = type, r[n].sure
      PROVE  Told(r, n, known, r[n].of)
  <2>1. CASE n = Len(q) + 1
    <3>1. e.type = type /\ e.sure /\ r[n].of = e.of BY <1>1, <1>2, <2>1
    <3>2. Told(q, n, known, e.of) BY <2>1, <3>1
    <3>3. n \in 1 .. Len(q) + 1 BY <1>1, <2>1
    <3> QED BY <3>1, <3>2, <3>3, ToldBefore
  <2>2. CASE n # Len(q) + 1
    <3>1. n \in 1..Len(q) /\ n \in 1 .. Len(q) + 1 BY <1>1, <2>2
    <3>2. r[n] = q[n] BY <1>1, <3>1
    <3>3. Told(q, n, known, q[n].of) BY <1>2, <3>1, <3>2 DEF Sure
    <3> QED BY <3>1, <3>2, <3>3, ToldBefore
  <2> QED BY <2>1, <2>2
<1> QED BY <1>2 DEF Sure

LEMMA SureRead ==
  ASSUME NEW S, NEW q \in Seq(S), q # <<>>, NEW known, NEW type, Sure(q, known, type)
  PROVE  /\ Sure(Tail(q), IF q[1].type = "screen" THEN q[1].size ELSE known, type)
         /\ q[1].type = type /\ q[1].sure => known = q[1].of
<1>1. /\ Len(q) \in Nat \ {0} /\ Len(Tail(q)) = Len(q) - 1
      /\ \A k \in 1 .. Len(q) - 1 : Tail(q)[k] = q[k + 1]
  OBVIOUS
<1>2. ASSUME NEW n \in 1..Len(Tail(q)), Tail(q)[n].type = type, Tail(q)[n].sure
      PROVE  Told(Tail(q), n, IF q[1].type = "screen" THEN q[1].size ELSE known, Tail(q)[n].of)
  <2> DEFINE m == n + 1
  <2>1. m \in 1..Len(q) /\ m \in 2 .. Len(q) + 1 /\ Tail(q)[n] = q[m] /\ m - 1 = n
    BY <1>1
  <2> HIDE DEF m
  <2>2. Told(q, m, known, q[m].of) BY <1>2, <2>1 DEF Sure
  <2>3. Told(Tail(q), m - 1, IF q[1].type = "screen" THEN q[1].size ELSE known, q[m].of)
    BY <2>1, <2>2, ToldTail
  <2> QED BY <2>1, <2>3
<1>3. ASSUME q[1].type = type, q[1].sure PROVE known = q[1].of
  <2>1. 1 \in 1..Len(q) BY <1>1
  <2>2. Told(q, 1, known, q[1].of) BY <1>3, <2>1 DEF Sure
  <2> QED BY <2>2 DEF Told
<1> QED BY <1>2, <1>3 DEF Sure

-----------------------------------------------------------------------------
\* Arithmetic.

\* Rounding errs by a half.
LEMMA RoundNear ==
  ASSUME NEW n \in Int, NEW d \in Nat \ {0}
  PROVE  Round(n, d) \in Int /\ 2 * Abs(Round(n, d) * d - n) <= d
<1> DEFINE q == n \div d  r == n % d
<1>1. q \in Int /\ r \in 0 .. d - 1 /\ n = d * q + r OBVIOUS
<1>2. Round(n, d) = IF 2 * r < d \/ (2 * r = d /\ q % 2 = 0) THEN q ELSE q + 1 BY DEF Round
<1> HIDE DEF q, r
<1>3. q * d = d * q /\ (q + 1) * d = d * q + d BY <1>1
<1> DEFINE p == d * q
<1>4. p \in Int BY <1>1
<1> HIDE DEF p
<1>5. q * d = p /\ (q + 1) * d = p + d /\ n = p + r BY <1>1, <1>3 DEF p
<1>6. CASE Round(n, d) = q /\ 2 * r <= d
  <2>1. Round(n, d) * d - n = 0 - r BY <1>1, <1>4, <1>5, <1>6
  <2> QED BY <1>1, <1>6, <2>1 DEF Abs
<1>7. CASE Round(n, d) = q + 1 /\ 2 * r >= d
  <2>1. Round(n, d) * d - n = d - r BY <1>1, <1>4, <1>5, <1>7
  <2> QED BY <1>1, <1>7, <2>1 DEF Abs
<1> QED BY <1>1, <1>2, <1>6, <1>7

\* A height of a screen, rounded on another one and kept on it, is off by less
\* than a pixel.
LEMMA LandingNear ==
  ASSUME NEW from \in Nat \ {0}, NEW to \in Nat \ {0}, NEW y \in 0 .. from - 1
  PROVE  Abs(Clamp(Round(y * to, from), to - 1) * from - y * to) <= from
<1> DEFINE r == Round(y * to, from)  P == y * to  Q == from * to  R == r * from
<1>1. P \in Int BY DEF P
<1>2. r \in Int /\ 2 * Abs(R - P) <= from BY <1>1, RoundNear
<1>3. Q \in Int /\ R \in Int BY <1>2
<1>4. 0 <= P /\ P <= Q - to
  <2>1. P >= 0 OBVIOUS
  <2>2. (from - y) * to >= to
    <3>1. from - y >= 1 OBVIOUS
    <3> QED BY <3>1
  <2>3. (from - y) * to = Q - P OBVIOUS
  <2> QED BY <1>1, <1>3, <2>1, <2>2, <2>3
<1>5. (to - 1) * from = Q - from OBVIOUS
<1>6. r < 0 => R <= 0 - from
  <2> SUFFICES ASSUME r < 0 PROVE R <= 0 - from OBVIOUS
  <2>1. r <= -1 BY <1>2
  <2> HIDE DEF r
  <2>2. (0 - r - 1) * from >= 0 BY <1>2, <2>1
  <2>3. (0 - r - 1) * from = 0 - r * from - from BY <1>2
  <2> QED BY <1>2, <2>2, <2>3
<1>7. r >= to => R >= Q
  <2> SUFFICES ASSUME r >= to PROVE R >= Q OBVIOUS
  <2> HIDE DEF r
  <2>1. (r - to) * from >= 0 BY <1>2
  <2>2. (r - to) * from = r * from - from * to BY <1>2
  <2> QED BY <1>2, <2>1, <2>2
<1> HIDE DEF r, P, Q, R
<1>8. CASE r < 0
  <2>1. 2 * (P - R) <= from BY <1>1, <1>2, <1>3, <1>4, <1>6, <1>8 DEF Abs
  <2> QED BY <1>1, <1>3, <1>4, <1>6, <1>8, <2>1
<1>9. CASE 0 <= r /\ r <= to - 1
  <2>1. Clamp(r, to - 1) = r BY <1>2, <1>9 DEF Clamp
  <2>2. Abs(R - P) <= from BY <1>1, <1>2, <1>3 DEF Abs
  <2> QED BY <2>1, <2>2 DEF r, P, R
<1>10. CASE r > to - 1
  <2>1. Clamp(r, to - 1) = to - 1 BY <1>2, <1>10 DEF Clamp
  <2>2. R >= Q BY <1>2, <1>7, <1>10
  <2>3. 2 * (R - P) <= from BY <1>1, <1>2, <1>3, <1>4, <2>2 DEF Abs
  <2>4. Abs((Q - from) - P) <= from BY <1>1, <1>3, <1>4, <2>2, <2>3 DEF Abs
  <2> QED BY <1>5, <2>1, <2>4 DEF r, P
<1> QED BY <1>2, <1>8, <1>9, <1>10

\* Scaling down to a lower point is off by less than a point.
LEMMA ReturnNear ==
  ASSUME NEW from \in Nat \ {0}, NEW to \in Nat \ {0}, NEW y \in 0 .. from - 1
  PROVE  /\ (y * to) \div from \in 0 .. to - 1
         /\ Abs(((y * to) \div from) * from - y * to) <= from
<1> DEFINE P == y * to
<1>1. P \in Int /\ P >= 0 OBVIOUS
<1>2. P < from * to
  <2>1. (from - y) * to >= to
    <3>1. from - y >= 1 OBVIOUS
    <3> QED BY <3>1
  <2>2. (from - y) * to = from * to - P OBVIOUS
  <2> QED BY <1>1, <2>1, <2>2
<1> HIDE DEF P
<1> DEFINE q == P \div from  r == P % from
<1>3. q \in Int /\ r \in 0 .. from - 1 /\ P = from * q + r BY <1>1
<1> HIDE DEF q, r
<1>4. q >= 0
  <2> SUFFICES ASSUME q <= -1 PROVE FALSE BY <1>3
  <2>1. from * (0 - q - 1) >= 0 BY <1>3
  <2>2. from * (0 - q - 1) = 0 - from * q - from BY <1>3
  <2> QED BY <1>1, <1>3, <2>1, <2>2
<1>5. q <= to - 1
  <2> SUFFICES ASSUME q >= to PROVE FALSE BY <1>3
  <2>1. from * (q - to) >= 0 BY <1>3
  <2>2. from * (q - to) = from * q - from * to BY <1>3
  <2> QED BY <1>2, <1>3, <2>1, <2>2
<1>6. q * from = from * q /\ from * q \in Int BY <1>3
<1>7. Abs(q * from - P) <= from BY <1>1, <1>3, <1>6 DEF Abs
<1> QED BY <1>3, <1>4, <1>5, <1>7 DEF P, q
-----------------------------------------------------------------------------
\* Frames.

LEMMA FrameTypes ==
  ASSUME NEW sizes
  PROVE  /\ \A s \in sizes : ScreenFrame(s) \in Frames(sizes)
         /\ \A e \in Sides : EdgeFrame(e) \in Frames(sizes)
         /\ \A y \in Int, s \in sizes, b \in BOOLEAN :
              RemoteFrame(y, s, b) \in Frames(sizes) /\ BackFrame(y, s, b) \in Frames(sizes)
         /\ \A f \in Frames(sizes) :
              /\ f.type = "screen" => f.size \in sizes
              /\ f.type = "edge" => f.edge \in Sides
              /\ f.type \in {"remote", "back"} => f.y \in Int /\ f.of \in sizes /\ f.sure \in BOOLEAN
BY DEF Frames, ScreenFrame, EdgeFrame, RemoteFrame, BackFrame

\* Steps of a screen loop.
LEMMA LoopTypes ==
  ASSUME NEW sizes
  PROVE  /\ Waits \in Loops(sizes)
         /\ \A s \in sizes : HasRead(s) \in Loops(sizes) /\ HasStored(s) \in Loops(sizes)
         /\ \A l \in Loops(sizes) : l.pc \in {"read", "stored"} => l.size \in sizes
BY DEF Loops, Waits, HasRead, HasStored

\* What a step leaves alone.
LEMMA ClientQueueSame ==
  ASSUME ClientQueue, UNCHANGED <<toClient, conn, met, peerKnown>>,
         MacTold' => MacTold /\ UNCHANGED macKnown
  PROVE  ClientQueue'
BY DEF ClientQueue, Sure, Told

LEMMA MacQueueSame ==
  ASSUME MacQueue, UNCHANGED <<toMac, conn, silent, cliKnown>>,
         ClientTold' => ClientTold /\ UNCHANGED ownKnown
  PROVE  MacQueue'
BY DEF MacQueue, Sure, Told

LEMMA MacToldSame ==
  ASSUME UNCHANGED <<macUntold, macLoop, macKnown>>
  PROVE  MacTold' => MacTold /\ UNCHANGED macKnown
BY DEF MacTold

LEMMA ClientToldSame ==
  ASSUME UNCHANGED <<cliUntold, cliLoop, ownKnown>>
  PROVE  ClientTold' => ClientTold /\ UNCHANGED ownKnown
BY DEF ClientTold

\* The Mac sends a frame other than a Screen frame.
LEMMA MacSendKeeps ==
  ASSUME ClientQueue, NEW e \in Frames(MacHeights), e.type # "screen", MacSends(e),
         UNCHANGED <<conn, met, macUntold, macLoop, peerKnown, macKnown>>,
         e.type = "remote" /\ e.sure => MacTold /\ e.of = macKnown
  PROVE  ClientQueue'
<1>1. CASE conn # "up" BY <1>1, ClientQueueSame, MacToldSame DEF MacSends
<1>2. CASE conn = "up"
  <2>1. toClient' = Append(toClient, e) /\ toClient \in Seq(Frames(MacHeights))
    BY <1>2 DEF MacSends, ClientQueue
  <2>2. MacTold' => Told(toClient', Len(toClient') + 1, peerKnown', macKnown')
    BY <1>2, <2>1, ToldAppend, MacToldSame DEF ClientQueue
  <2>3. Sure(toClient', peerKnown', "remote")
    <3>1. Sure(toClient, peerKnown, "remote") BY DEF ClientQueue
    <3>2. e.type = "remote" /\ e.sure => Told(toClient, Len(toClient) + 1, peerKnown, e.of)
      BY <1>2 DEF ClientQueue
    <3>3. Sure(Append(toClient, e), peerKnown, "remote") BY <2>1, <3>1, <3>2, SureSend
    <3> QED BY <2>1, <3>3
  <2>4. ~met => toClient' # <<>> /\ toClient'[1].type = "screen"
    BY <1>2, <2>1 DEF ClientQueue
  <2>5. toClient' \in Seq(Frames(MacHeights)) BY <2>1
  <2> QED BY <1>2, <2>2, <2>3, <2>4, <2>5 DEF ClientQueue
<1> QED BY <1>1, <1>2

\* The client reads a frame.
LEMMA ClientReads ==
  ASSUME ClientQueue, conn \in {"greeted", "up"}, toClient # <<>>, toClient' = Tail(toClient),
         peerKnown' = (IF toClient[1].type = "screen" THEN toClient[1].size ELSE peerKnown),
         met', UNCHANGED <<conn, macUntold, macLoop, macKnown>>
  PROVE  ClientQueue'
<1>1. /\ toClient \in Seq(Frames(MacHeights)) /\ toClient' \in Seq(Frames(MacHeights))
      /\ Len(toClient') = Len(toClient) - 1 /\ Len(toClient) \in Nat \ {0}
  BY DEF ClientQueue
<1>2. Sure(toClient', peerKnown', "remote")
  BY <1>1, SureRead DEF ClientQueue
<1>3. ASSUME MacTold' PROVE Told(toClient', Len(toClient') + 1, peerKnown', macKnown)
  <2> DEFINE n == Len(toClient) + 1
  <2>1. n \in 2 .. Len(toClient) + 1 /\ n - 1 = Len(toClient') + 1 BY <1>1
  <2>2. Told(toClient, n, peerKnown, macKnown) BY <1>3, MacToldSame DEF ClientQueue
  <2> HIDE DEF n
  <2>3. Told(Tail(toClient), n - 1, peerKnown', macKnown) BY <1>1, <2>1, <2>2, ToldTail
  <2> QED BY <2>1, <2>3
<1> QED BY <1>1, <1>2, <1>3 DEF ClientQueue

\* The client sends a request.
LEMMA ClientSendKeeps ==
  ASSUME MacQueue, NEW e \in Frames(ClientScreens), e.type = "back", e.y < e.of.h,
         met => conn \in {"greeted", "up"}, ClientSends(e),
         UNCHANGED <<conn, silent, cliUntold, cliLoop, cliKnown, ownKnown>>,
         e.sure => ClientTold /\ e.of = ownKnown
  PROVE  MacQueue'
<1>1. CASE ~(met /\ ~silent) BY <1>1, MacQueueSame, ClientToldSame DEF ClientSends
<1>2. CASE met /\ ~silent
  <2>1. /\ toMac' = Append(toMac, e) /\ toMac \in Seq(Frames(ClientScreens))
        /\ ClientTold => Told(toMac, Len(toMac) + 1, cliKnown, ownKnown)
    BY <1>2 DEF ClientSends, MacQueue
  <2>2. ClientTold' => Told(toMac', Len(toMac') + 1, cliKnown', ownKnown')
    BY <2>1, ToldAppend, ClientToldSame
  <2>3. Sure(toMac', cliKnown', "back")
    <3>1. Sure(toMac, cliKnown, "back") BY DEF MacQueue
    <3>2. Sure(Append(toMac, e), cliKnown, "back") BY <2>1, <3>1, SureSend
    <3> QED BY <2>1, <3>2
  <2>4. \A n \in 1..Len(toMac') : toMac'[n].type = "back" => toMac'[n].y < toMac'[n].of.h
    BY <1>2, <2>1 DEF MacQueue
  <2>5. toMac' \in Seq(Frames(ClientScreens)) BY <2>1
  <2> QED BY <1>2, <2>2, <2>3, <2>4, <2>5 DEF MacQueue
<1> QED BY <1>1, <1>2

\* The Mac reads a frame.
LEMMA MacReads ==
  ASSUME MacQueue, conn = "up", toMac # <<>>, toMac' = Tail(toMac),
         cliKnown' = (IF toMac[1].type = "screen" THEN toMac[1].size ELSE cliKnown),
         UNCHANGED <<conn, silent, cliUntold, cliLoop, ownKnown>>
  PROVE  MacQueue'
<1>1. /\ toMac \in Seq(Frames(ClientScreens)) /\ toMac' \in Seq(Frames(ClientScreens))
      /\ Len(toMac') = Len(toMac) - 1 /\ Len(toMac) \in Nat \ {0}
      /\ \A k \in 1 .. Len(toMac) - 1 : toMac'[k] = toMac[k + 1]
  BY DEF MacQueue
<1>2. Sure(toMac', cliKnown', "back") BY <1>1, SureRead DEF MacQueue
<1>3. ASSUME ClientTold', ~silent PROVE Told(toMac', Len(toMac') + 1, cliKnown', ownKnown)
  <2> DEFINE n == Len(toMac) + 1
  <2>1. n \in 2 .. Len(toMac) + 1 /\ n - 1 = Len(toMac') + 1 BY <1>1
  <2>2. Told(toMac, n, cliKnown, ownKnown) BY <1>3, ClientToldSame DEF MacQueue
  <2> HIDE DEF n
  <2>3. Told(Tail(toMac), n - 1, cliKnown', ownKnown) BY <1>1, <2>1, <2>2, ToldTail
  <2> QED BY <2>1, <2>3
<1>4. \A n \in 1..Len(toMac') : toMac'[n].type = "back" => toMac'[n].y < toMac'[n].of.h
  <2>1. \A n \in 1 .. Len(toMac) - 1 : n + 1 \in 1..Len(toMac) BY <1>1
  <2> QED BY <1>1, <2>1 DEF MacQueue
<1> QED BY <1>1, <1>2, <1>3, <1>4 DEF MacQueue
-----------------------------------------------------------------------------
\* The steps.

LEMMA InitIInv == Init => IInv
<1> SUFFICES ASSUME Init PROVE IInv OBVIOUS
<1>1. toClient = <<>> /\ toMac = <<>> BY DEF Init
<1>2. /\ toClient \in Seq(Frames(MacHeights)) /\ toMac \in Seq(Frames(ClientScreens \cup {Unknown}))
      /\ Len(toClient) = 0 /\ Len(toMac) = 0
  BY <1>1
<1>3. ClientQueue /\ MacQueue BY <1>1, <1>2 DEF Init, ClientQueue, MacQueue, Sure
<1>4. cursor \in [x : 0 .. cliReal.w - 1, y : 0 .. cliReal.h - 1]
  BY ScreenAssumption DEF Init
<1>5. TypeOK
  <2>1. macY \in Nat /\ peerKnown \in MacHeights \cup {0} /\ events \in 0..MaxEvents
    BY ScreenAssumption DEF Init
  <2>2. edge \in Sides /\ macEdge \in Sides BY ScreenAssumption DEF Init, Sides
  <2>3. macLoop \in Loops(MacHeights) /\ cliLoop \in Loops(ClientScreens) BY LoopTypes DEF Init
  <2> QED BY <1>2, <1>4, <2>1, <2>2, <2>3, Zenon DEF Init, TypeOK
<1> QED BY <1>3, <1>5 DEF IInv, ParkedInv, Init

LEMMA ClampRange ==
  ASSUME NEW v \in Int, NEW hi \in Nat PROVE Clamp(v, hi) \in 0..hi
BY DEF Clamp

\* The compositor's cursor is on the screen.
LEMMA OnScreenType ==
  ASSUME NEW x \in Int, NEW y \in Int, NEW s \in ClientScreens
  PROVE  OnScreen(x, y, s) \in [x : 0 .. s.w - 1, y : 0 .. s.h - 1]
<1>1. s.w - 1 \in Nat /\ s.h - 1 \in Nat BY ScreenAssumption
<1> QED BY <1>1, ClampRange DEF OnScreen

LEMMA MacScreenChangesKeeps == ASSUME IInv, MacScreenChanges PROVE IInv'
<1>1. ClientQueue'
  BY ClientQueueSame, MacToldSame DEF MacScreenChanges, sizeVars, linkVars, loopVars, IInv
<1>2. MacQueue'
  BY MacQueueSame, ClientToldSame DEF MacScreenChanges, sizeVars, linkVars, loopVars, IInv
<1>3. TypeOK'
  BY ScreenAssumption
  DEF MacScreenChanges, EventHappens, sizeVars, linkVars, loopVars, controlVars, IInv, TypeOK
<1> QED BY <1>1, <1>2, <1>3
        DEF MacScreenChanges, sizeVars, controlVars, linkVars, loopVars, IInv, ParkedInv

LEMMA ClientScreenChangesKeeps == ASSUME IInv, ClientScreenChanges PROVE IInv'
<1>1. ClientQueue'
  BY ClientQueueSame, MacToldSame DEF ClientScreenChanges, macVars, linkVars, loopVars, IInv
<1>2. MacQueue'
  BY MacQueueSame, ClientToldSame DEF ClientScreenChanges, macVars, linkVars, loopVars, IInv
<1>3. cursor' \in [x : 0 .. cliReal'.w - 1, y : 0 .. cliReal'.h - 1]
  <2>1. cursor.x \in Int /\ cursor.y \in Int BY DEF IInv, TypeOK
  <2>2. cliReal' \in ClientScreens BY DEF ClientScreenChanges
  <2> QED BY <2>1, <2>2, OnScreenType DEF ClientScreenChanges
<1>4. TypeOK'
  <2>1. /\ UNCHANGED <<macVars, ownKnown, peerKnown, edge, remote, linkVars, loopVars, toClient, toMac>>
        /\ cliReal' \in ClientScreens /\ parked' = FALSE
        /\ events < MaxEvents /\ events' = events + 1
    BY DEF ClientScreenChanges, EventHappens
  <2>2. /\ (macReal \in MacHeights /\ macKnown \in MacHeights)'
        /\ (cliKnown \in ClientScreens \cup {Unknown} /\ macEdge \in Sides)'
        /\ (mode \in {"local", "remote"} /\ macY \in Nat)'
        /\ (ownKnown \in ClientScreens \cup {Unknown} /\ peerKnown \in MacHeights \cup {0})'
        /\ (edge \in Sides /\ remote \in BOOLEAN /\ parked \in BOOLEAN)'
    BY <2>1 DEF macVars, IInv, TypeOK
  <2>3. /\ (conn \in {"off", "dialed", "greeting", "asked", "greeted", "up"} /\ met \in BOOLEAN)'
        /\ (macUntold \in BOOLEAN /\ cliUntold \in BOOLEAN /\ silent \in BOOLEAN)'
        /\ (macLoop \in Loops(MacHeights) /\ cliLoop \in Loops(ClientScreens))'
    BY <2>1 DEF linkVars, loopVars, IInv, TypeOK
  <2>4. /\ toClient' \in Seq(Frames(MacHeights))
        /\ toMac' \in Seq(Frames(ClientScreens \cup {Unknown}))
    BY <2>1 DEF IInv, TypeOK
  <2>5. events' \in 0..MaxEvents BY <2>1, ScreenAssumption DEF IInv, TypeOK
  <2> QED BY <1>3, <2>1, <2>2, <2>3, <2>4, <2>5, Zenon DEF TypeOK
<1> QED BY <1>1, <1>2, <1>4 DEF ClientScreenChanges, IInv, ParkedInv

LEMMA SetRemoteEdgeKeeps == ASSUME IInv, SetRemoteEdge PROVE IInv'
<1> DEFINE e == EdgeFrame(macEdge')
<1>1. e \in Frames(MacHeights) /\ e.type = "edge"
  BY FrameTypes DEF SetRemoteEdge, EdgeFrame
<1>2. ClientQueue'
  BY <1>1, MacSendKeeps DEF SetRemoteEdge, sizeVars, linkVars, loopVars, IInv
<1>3. MacQueue'
  BY MacQueueSame, ClientToldSame DEF SetRemoteEdge, sizeVars, linkVars, loopVars, IInv
<1>4. toClient' \in Seq(Frames(MacHeights)) BY <1>2 DEF ClientQueue
<1>5. TypeOK'
  BY <1>4, ScreenAssumption
  DEF SetRemoteEdge, EventHappens, sizeVars, linkVars, loopVars, controlVars, IInv, TypeOK
<1> QED
  BY <1>2, <1>3, <1>5
  DEF SetRemoteEdge, sizeVars, controlVars, linkVars, loopVars, IInv, ParkedInv

LEMMA MacMeasuresKeeps == ASSUME IInv, MacMeasures PROVE IInv'
<1>1. macLoop' \in Loops(MacHeights) BY LoopTypes DEF MacMeasures, IInv, TypeOK
<1>2. ClientQueue'
  <2>1. MacTold' => MacTold /\ UNCHANGED macKnown
    BY DEF MacMeasures, MacTold, macVars, linkVars
  <2> QED BY <2>1, ClientQueueSame DEF MacMeasures, macVars, sizeVars, linkVars, IInv
<1>3. MacQueue'
  BY MacQueueSame, ClientToldSame DEF MacMeasures, macVars, sizeVars, linkVars, IInv
<1>4. TypeOK'
  BY <1>1, ScreenAssumption
  DEF MacMeasures, macVars, sizeVars, linkVars, controlVars, IInv, TypeOK
<1> QED BY <1>2, <1>3, <1>4 DEF MacMeasures, sizeVars, controlVars, linkVars, IInv, ParkedInv

LEMMA MacStoresKeeps == ASSUME IInv, MacStores PROVE IInv'
<1>1. macLoop.size \in MacHeights BY LoopTypes DEF MacStores, IInv, TypeOK
<1>2. macLoop' \in Loops(MacHeights) BY <1>1, LoopTypes DEF MacStores
<1>3. ClientQueue'
  <2>1. MacTold' => MacTold /\ UNCHANGED macKnown
    <3>1. CASE macKnown # macLoop.size
      BY <3>1 DEF MacStores, MacTold, HasStored
    <3>2. CASE macKnown = macLoop.size
      BY <3>2 DEF MacStores, MacTold, linkVars
    <3> QED BY <3>1, <3>2
  <2> QED BY <2>1, ClientQueueSame DEF MacStores, sizeVars, linkVars, IInv
<1>4. MacQueue' BY MacQueueSame, ClientToldSame DEF MacStores, sizeVars, linkVars, IInv
<1>5. TypeOK'
  BY <1>1, <1>2, ScreenAssumption DEF MacStores, sizeVars, linkVars, controlVars, IInv, TypeOK
<1> QED BY <1>3, <1>4, <1>5 DEF MacStores, sizeVars, controlVars, linkVars, IInv, ParkedInv

LEMMA MacTellsKeeps == ASSUME IInv, MacTells PROVE IInv'
<1> DEFINE e == ScreenFrame(macLoop.size)
<1>1. macLoop.size \in MacHeights /\ e \in Frames(MacHeights) /\ e.type = "screen"
  <2>1. macLoop.size \in MacHeights BY LoopTypes DEF MacTells, IInv, TypeOK
  <2> QED BY <2>1, FrameTypes DEF ScreenFrame
<1>2. /\ UNCHANGED <<conn, met, cliUntold, silent, cliLoop, toMac, peerKnown, ownKnown, cliKnown>>
      /\ macKnown' = macKnown /\ macLoop.pc = "stored" /\ macLoop' = Waits
  BY DEF MacTells, macVars, sizeVars
<1>3. ClientQueue'
  <2>1. CASE conn # "up"
    <3>1. toClient' = toClient BY <2>1 DEF MacTells, TellClient, MacSends
    <3>2. macUntold' = (macUntold \/ (conn = "greeted" /\ macKnown = macLoop.size))
      BY <2>1 DEF MacTells
    <3>3. CASE conn = "greeted"
      <4>1. MacTold' => MacTold BY <1>2, <3>2, <3>3 DEF MacTold
      <4> QED BY <1>2, <3>1, <4>1, ClientQueueSame DEF IInv
    <3>4. CASE conn # "greeted"
      BY <1>2, <2>1, <3>1, <3>4 DEF IInv, ClientQueue, Sure, Told
    <3> QED BY <3>3, <3>4
  <2>2. CASE conn = "up"
    <3>1. toClient' = Append(toClient, e) /\ toClient \in Seq(Frames(MacHeights))
      BY <2>2 DEF MacTells, TellClient, MacSends, IInv, ClientQueue
    <3>2. MacTold' => Told(toClient', Len(toClient') + 1, peerKnown', macKnown')
      <4>1. macUntold' = (macKnown # macLoop.size) BY <2>2 DEF MacTells
      <4>2. MacTold' => macKnown = macLoop.size BY <4>1 DEF MacTold
      <4>3. Told(toClient', Len(toClient') + 1, peerKnown', macLoop.size)
        BY <1>1, <3>1, ToldAppendScreen
      <4> QED BY <1>2, <4>2, <4>3
    <3>3. Sure(toClient', peerKnown', "remote")
      <4>1. Sure(toClient, peerKnown, "remote") BY DEF IInv, ClientQueue
      <4>2. e.type # "remote" BY <1>1
      <4>3. Sure(Append(toClient, e), peerKnown, "remote") BY <1>1, <3>1, <4>1, <4>2, SureSend
      <4> QED BY <1>2, <3>1, <4>3
    <3>4. ~met => toClient' # <<>> /\ toClient'[1].type = "screen"
      BY <1>1, <2>2, <3>1 DEF IInv, ClientQueue
    <3>5. toClient' \in Seq(Frames(MacHeights)) BY <1>1, <3>1
    <3> QED BY <1>2, <2>2, <3>2, <3>3, <3>4, <3>5 DEF ClientQueue
  <2> QED BY <2>1, <2>2
<1>4. MacQueue' BY <1>2, MacQueueSame, ClientToldSame DEF IInv
<1>5. toClient' \in Seq(Frames(MacHeights)) BY <1>3 DEF ClientQueue
<1>6. macUntold' \in BOOLEAN BY DEF MacTells, IInv, TypeOK
<1>7. macLoop' \in Loops(MacHeights) BY <1>2, LoopTypes
<1>8. TypeOK'
  BY <1>5, <1>6, <1>7, ScreenAssumption DEF MacTells, macVars, sizeVars, controlVars, IInv, TypeOK
<1> QED BY <1>3, <1>4, <1>8 DEF MacTells, sizeVars, controlVars, IInv, ParkedInv

LEMMA ClientMeasuresKeeps == ASSUME IInv, ClientMeasures PROVE IInv'
<1>1. cliLoop' \in Loops(ClientScreens) BY LoopTypes DEF ClientMeasures, IInv, TypeOK
<1>2. ClientQueue'
  BY ClientQueueSame, MacToldSame DEF ClientMeasures, macVars, sizeVars, linkVars, IInv
<1>3. MacQueue'
  <2>1. ClientTold' => ClientTold /\ UNCHANGED ownKnown
    BY DEF ClientMeasures, ClientTold, sizeVars, linkVars
  <2> QED BY <2>1, MacQueueSame DEF ClientMeasures, macVars, linkVars, IInv
<1>4. TypeOK'
  BY <1>1, ScreenAssumption
  DEF ClientMeasures, macVars, sizeVars, linkVars, controlVars, IInv, TypeOK
<1> QED BY <1>2, <1>3, <1>4 DEF ClientMeasures, sizeVars, controlVars, linkVars, IInv, ParkedInv

LEMMA ClientStoresKeeps == ASSUME IInv, ClientStores PROVE IInv'
<1>1. cliLoop.size \in ClientScreens BY LoopTypes DEF ClientStores, IInv, TypeOK
<1>2. cliLoop' \in Loops(ClientScreens) BY <1>1, LoopTypes DEF ClientStores
<1>3. ClientQueue'
  BY ClientQueueSame, MacToldSame DEF ClientStores, macVars, linkVars, IInv
<1>4. MacQueue'
  <2>1. ClientTold' => ClientTold /\ UNCHANGED ownKnown
    <3>1. CASE ownKnown # cliLoop.size
      BY <3>1 DEF ClientStores, ClientTold, HasStored
    <3>2. CASE ownKnown = cliLoop.size
      BY <3>2 DEF ClientStores, ClientTold, linkVars
    <3> QED BY <3>1, <3>2
  <2> QED BY <2>1, MacQueueSame DEF ClientStores, macVars, linkVars, IInv
<1>5. parked' \in BOOLEAN BY DEF ClientStores, IInv, TypeOK
<1>6. TypeOK'
  BY <1>1, <1>2, <1>5, ScreenAssumption DEF ClientStores, macVars, linkVars, IInv, TypeOK
<1> QED BY <1>3, <1>4, <1>6 DEF ClientStores, linkVars, IInv, ParkedInv

LEMMA ClientTellsKeeps == ASSUME IInv, ClientTells PROVE IInv'
<1> DEFINE e == ScreenFrame(cliLoop.size)
<1>1. cliLoop.size \in ClientScreens /\ e \in Frames(ClientScreens) /\ e.type = "screen"
  <2>1. cliLoop.size \in ClientScreens BY LoopTypes DEF ClientTells, IInv, TypeOK
  <2> QED BY <2>1, FrameTypes DEF ScreenFrame
<1>2. /\ UNCHANGED <<conn, met, macUntold, silent, macLoop, toClient, peerKnown, macKnown, cliKnown>>
      /\ ownKnown' = ownKnown /\ cliLoop.pc = "stored" /\ cliLoop' = Waits
  BY DEF ClientTells, macVars, sizeVars
<1>3. ClientQueue' BY <1>2, ClientQueueSame, MacToldSame DEF IInv
<1>4. MacQueue'
  <2>1. CASE ~met
    <3>1. toMac' = toMac BY <2>1 DEF ClientTells, ClientSends
    <3>2. cliUntold' = (cliUntold \/ (conn \notin {"off", "dialed"} /\ ownKnown = cliLoop.size))
      BY <2>1 DEF ClientTells
    <3>3. CASE conn \in {"off", "dialed"}
      BY <1>2, <3>1, <3>3 DEF IInv, MacQueue, Sure, Told
    <3>4. CASE conn \notin {"off", "dialed"}
      <4>1. ClientTold' => ClientTold BY <1>2, <3>2, <3>4 DEF ClientTold
      <4> QED BY <1>2, <3>1, <4>1, MacQueueSame DEF IInv
    <3> QED BY <3>3, <3>4
  <2>2. CASE met
    <3>1. conn \in {"greeted", "up"} /\ toMac \in Seq(Frames(ClientScreens))
      BY <2>2 DEF IInv, ClientQueue, MacQueue, TypeOK
    <3>2. CASE silent
      <4>1. toMac' = toMac BY <3>2 DEF ClientTells, ClientSends
      <4> QED BY <1>2, <3>1, <3>2, <4>1 DEF IInv, MacQueue, Sure, Told
    <3>3. CASE ~silent
      <4>1. toMac' = Append(toMac, e) BY <2>2, <3>3 DEF ClientTells, ClientSends
      <4>2. ClientTold' => Told(toMac', Len(toMac') + 1, cliKnown', ownKnown')
        <5>1. cliUntold' = (ownKnown # cliLoop.size) BY <2>2 DEF ClientTells
        <5>2. ClientTold' => ownKnown = cliLoop.size BY <5>1 DEF ClientTold
        <5>3. Told(toMac', Len(toMac') + 1, cliKnown', cliLoop.size)
          BY <1>1, <3>1, <4>1, ToldAppendScreen
        <5> QED BY <1>2, <5>2, <5>3
      <4>3. Sure(toMac', cliKnown', "back")
        <5>1. Sure(toMac, cliKnown, "back") BY DEF IInv, MacQueue
        <5>2. e.type # "back" BY <1>1
        <5>3. Sure(Append(toMac, e), cliKnown, "back") BY <1>1, <3>1, <5>1, <5>2, SureSend
        <5> QED BY <1>2, <4>1, <5>3
      <4>4. \A n \in 1..Len(toMac') : toMac'[n].type = "back" => toMac'[n].y < toMac'[n].of.h
        BY <1>1, <3>1, <4>1 DEF IInv, MacQueue
      <4>5. toMac' \in Seq(Frames(ClientScreens)) BY <1>1, <3>1, <4>1
      <4> QED BY <1>2, <3>1, <4>2, <4>3, <4>4, <4>5 DEF MacQueue
    <3>4. silent \in BOOLEAN BY DEF IInv, TypeOK
    <3> QED BY <3>2, <3>3, <3>4
  <2> QED BY <2>1, <2>2
<1>5. toMac' \in Seq(Frames(ClientScreens \cup {Unknown}))
  <2>1. e \in Frames(ClientScreens \cup {Unknown}) BY <1>1, FrameTypes
  <2>2. toMac \in Seq(Frames(ClientScreens \cup {Unknown})) BY DEF IInv, TypeOK
  <2> QED BY <2>1, <2>2 DEF ClientTells, ClientSends
<1>6. cliUntold' \in BOOLEAN BY DEF ClientTells, IInv, TypeOK
<1>7. cliLoop' \in Loops(ClientScreens) BY <1>2, LoopTypes
<1>8. TypeOK'
  BY <1>5, <1>6, <1>7, ScreenAssumption
  DEF ClientTells, macVars, sizeVars, controlVars, IInv, TypeOK
<1> QED BY <1>3, <1>4, <1>8 DEF ClientTells, sizeVars, controlVars, IInv, ParkedInv

LEMMA ClientDialsKeeps == ASSUME IInv, ClientDials PROVE IInv'
<1>1. PICK s \in ClientScreens \cup {Unknown} : toMac' = <<ScreenFrame(s)>>
  BY DEF ClientDials, IInv, TypeOK
<1>2. ScreenFrame(s) \in Frames(ClientScreens \cup {Unknown}) BY <1>1, FrameTypes
<1>3. /\ toMac' \in Seq(Frames(ClientScreens \cup {Unknown}))
      /\ \A n \in 1..Len(toMac') : toMac'[n].type # "back"
  BY <1>1, <1>2 DEF ScreenFrame
<1>4. MacQueue' BY <1>1, <1>3 DEF ClientDials, MacQueue, Sure
<1>5. ClientQueue' BY DEF ClientDials, macVars, sizeVars, IInv, ClientQueue, Sure, Told
<1>6. events' \in 0..MaxEvents
  <2>1. events' = events \/ EventHappens BY DEF ClientDials
  <2>2. events \in 0..MaxEvents /\ MaxEvents \in Nat BY ScreenAssumption DEF IInv, TypeOK
  <2> QED BY <2>1, <2>2 DEF EventHappens
<1>7. TypeOK'
  BY <1>3, <1>6 DEF ClientDials, macVars, sizeVars, controlVars, loopVars, IInv, TypeOK
<1> QED BY <1>4, <1>5, <1>7 DEF ClientDials, sizeVars, controlVars, IInv, ParkedInv

LEMMA ClientGreetsKeeps == ASSUME IInv, ClientGreets PROVE IInv'
<1>1. PICK s \in ClientScreens \cup {Unknown} : toMac = <<ScreenFrame(s)>>
  BY DEF ClientGreets, IInv, MacQueue
<1>2. ownKnown' = s /\ toMac' = toMac BY <1>1 DEF ClientGreets, ScreenFrame
<1>3. Told(toMac', Len(toMac') + 1, cliKnown', ownKnown')
  <2>1. toMac'[1].type = "screen" /\ toMac'[1].size = ownKnown' /\ Len(toMac') = 1
    BY <1>1, <1>2 DEF ScreenFrame
  <2>2. 1 \in 1 .. 2 - 1 /\ \A j \in 1 + 1 .. 2 - 1 : FALSE OBVIOUS
  <2> QED BY <2>1, <2>2 DEF Told
<1>4. MacQueue'
  <2>1. Sure(toMac', cliKnown', "back")
    BY <1>2 DEF ClientGreets, macVars, IInv, MacQueue, Sure, Told
  <2> QED BY <1>1, <1>2, <1>3, <2>1 DEF ClientGreets, MacQueue
<1>5. ClientQueue' BY DEF ClientGreets, macVars, IInv, ClientQueue, Sure, Told
<1>6. ~parked BY DEF ClientGreets, IInv, ClientQueue, ParkedInv
<1>7. TypeOK' BY <1>1, <1>2 DEF ClientGreets, macVars, controlVars, loopVars, IInv, TypeOK
<1> QED BY <1>4, <1>5, <1>6, <1>7 DEF ClientGreets, controlVars, IInv, ParkedInv

LEMMA MacAsksKeeps == ASSUME IInv, MacAsks PROVE IInv'
<1>1. PICK s \in ClientScreens \cup {Unknown} : toMac = <<ScreenFrame(s)>>
  BY DEF MacAsks, IInv, MacQueue
<1>2. /\ cliKnown' = s /\ toMac' = <<>> /\ toClient' = <<ScreenFrame(macReal)>>
      /\ conn = "greeting" /\ conn' = "asked" /\ ~met'
      /\ UNCHANGED <<ownKnown, cliUntold, cliLoop, silent>>
  BY <1>1 DEF MacAsks, ScreenFrame, sizeVars, loopVars, IInv, ClientQueue
<1>3. macReal \in MacHeights /\ ScreenFrame(macReal) \in Frames(MacHeights)
  BY FrameTypes DEF IInv, TypeOK
<1>4. ClientQueue'
  <2>1. /\ toClient' \in Seq(Frames(MacHeights)) /\ Len(toClient') = 1
        /\ toClient'[1].type = "screen"
    BY <1>2, <1>3 DEF ScreenFrame
  <2>2. Sure(toClient', peerKnown', "remote") BY <2>1 DEF Sure
  <2> QED BY <1>2, <1>3, <2>1, <2>2 DEF ClientQueue
<1>5. MacQueue'
  <2>1. toMac' \in Seq(Frames(ClientScreens)) /\ Len(toMac') = 0 BY <1>2
  <2>2. ASSUME ClientTold', ~silent' PROVE Told(toMac', Len(toMac') + 1, cliKnown', ownKnown')
    <3>1. ClientTold BY <1>2, <2>2 DEF ClientTold
    <3>2. Told(toMac, Len(toMac) + 1, cliKnown, ownKnown)
      BY <1>2, <2>2, <3>1 DEF IInv, MacQueue
    <3>3. toMac[1].type = "screen" /\ toMac[1].size = s /\ Len(toMac) = 1
      BY <1>1 DEF ScreenFrame
    <3>4. ownKnown = s
      <4>1. \A k \in 1 .. (1 + 1) - 1 : k = 1 OBVIOUS
      <4>2. 1 \in 1 .. (1 + 1) - 1 OBVIOUS
      <4> QED BY <3>2, <3>3, <4>1, <4>2 DEF Told
    <3> QED BY <1>2, <2>1, <3>4 DEF Told
  <2>3. Sure(toMac', cliKnown', "back") BY <2>1 DEF Sure
  <2> QED BY <1>2, <2>1, <2>2, <2>3 DEF MacQueue
<1>6. toClient' \in Seq(Frames(MacHeights)) BY <1>4 DEF ClientQueue
<1>7. toMac' \in Seq(Frames(ClientScreens \cup {Unknown})) BY <1>2
<1>8. TypeOK'
  BY <1>1, <1>2, <1>6, <1>7 DEF MacAsks, sizeVars, controlVars, loopVars, IInv, TypeOK
<1> QED BY <1>4, <1>5, <1>8 DEF MacAsks, sizeVars, controlVars, IInv, ParkedInv

LEMMA MacGreetsKeeps == ASSUME IInv, MacGreets PROVE IInv'
<1> DEFINE e == EdgeFrame(macEdge)
<1>1. PICK s \in MacHeights : toClient = <<ScreenFrame(s)>>
  BY DEF MacGreets, IInv, ClientQueue
<1>2. macReal \in MacHeights /\ macEdge \in Sides BY DEF IInv, TypeOK
<1>0. Head(toClient).size = s BY <1>1 DEF ScreenFrame
<1>3. /\ conn = "asked" /\ conn' = "greeted" /\ macKnown' \in {s, macReal}
      /\ macUntold' = (macKnown' # s) /\ toClient' = Append(toClient, e)
  <2>1. /\ conn = "asked" /\ conn' = "greeted" /\ macKnown' \in {s, macReal}
        /\ macUntold' = (macKnown' # s)
    BY <1>0, Zenon DEF MacGreets
  <2>2. toClient' = Append(toClient, e) BY DEF MacGreets
  <2> QED BY <2>1, <2>2
<1>4. ScreenFrame(s) \in Frames(MacHeights) /\ e \in Frames(MacHeights) BY <1>2, FrameTypes
<1>5. /\ toClient' \in Seq(Frames(MacHeights)) /\ Len(toClient') = 2
      /\ toClient'[1].type = "screen" /\ toClient'[1].size = s
      /\ toClient'[2].type = "edge" /\ toClient' # <<>>
  <2>1. /\ toClient \in Seq(Frames(MacHeights)) /\ Len(toClient) = 1
        /\ toClient[1] = ScreenFrame(s)
    BY <1>1, <1>4
  <2>2. e.type = "edge" BY DEF EdgeFrame
  <2> HIDE DEF e
  <2>3. /\ toClient' \in Seq(Frames(MacHeights)) /\ Len(toClient') = 2
        /\ toClient'[1] = ScreenFrame(s) /\ toClient'[2] = e
    BY <1>3, <1>4, <2>1
  <2> QED BY <2>2, <2>3 DEF ScreenFrame
<1>6. ClientQueue'
  <2>1. MacTold' => Told(toClient', Len(toClient') + 1, peerKnown', macKnown')
    <3>1. Told(toClient', 3, peerKnown', s)
      <4>1. 1 \in 1 .. 3 - 1 /\ \A j \in 1 + 1 .. 3 - 1 : j = 2 OBVIOUS
      <4> QED BY <1>5, <4>1 DEF Told
    <3>2. MacTold' => macKnown' = s BY <1>3 DEF MacTold
    <3> QED BY <1>5, <3>1, <3>2
  <2>2. Sure(toClient', peerKnown', "remote")
    <3>1. \A n \in 1..2 : n = 1 \/ n = 2 OBVIOUS
    <3> QED BY <1>5, <3>1 DEF Sure
  <2> QED BY <1>3, <1>5, <2>1, <2>2 DEF ClientQueue
<1>7. MacQueue'
  BY <1>3 DEF MacGreets, sizeVars, loopVars, IInv, MacQueue, ClientTold, Sure, Told
<1>8. macUntold' \in BOOLEAN BY <1>3
<1>9. TypeOK'
  BY <1>1, <1>2, <1>3, <1>5, <1>8
  DEF MacGreets, sizeVars, controlVars, loopVars, IInv, TypeOK
<1> QED BY <1>6, <1>7, <1>9 DEF MacGreets, sizeVars, controlVars, IInv, ParkedInv

LEMMA MacInstallsKeeps == ASSUME IInv, MacInstalls PROVE IInv'
BY DEF MacInstalls, macVars, sizeVars, controlVars, loopVars, IInv, TypeOK, ClientQueue, MacQueue,
       MacTold, ClientTold, Sure, Told, ParkedInv

\* The first frame under way to the client.
LEMMA HeadToClient ==
  ASSUME IInv, conn \in {"greeted", "up"}, toClient # <<>>
  PROVE  /\ Head(toClient) = toClient[1] /\ toClient[1] \in Frames(MacHeights)
         /\ Tail(toClient) \in Seq(Frames(MacHeights))
<1>1. toClient \in Seq(Frames(MacHeights)) BY DEF IInv, ClientQueue
<1> QED BY <1>1

\* A client that has a connection was greeted.
LEMMA MetWasGreeted == ASSUME IInv, met PROVE conn \in {"greeted", "up"}
BY DEF IInv, ClientQueue, TypeOK

LEMMA ClientMeetsKeeps == ASSUME IInv, ClientMeets PROVE IInv'
<1>1. /\ conn \in {"greeted", "up"} /\ toClient # <<>> /\ toClient[1].type = "screen"
  BY DEF ClientMeets, IInv, ClientQueue
<1>2. Head(toClient) = toClient[1] /\ toClient[1] \in Frames(MacHeights) BY <1>1, HeadToClient
<1>3. peerKnown' \in MacHeights BY <1>1, <1>2, FrameTypes DEF ClientMeets
<1>4. ClientQueue' BY <1>1, <1>2, ClientReads DEF ClientMeets, macVars, loopVars, IInv
<1>5. MacQueue' BY MacQueueSame, ClientToldSame DEF ClientMeets, macVars, loopVars, IInv
<1>6. toClient' \in Seq(Frames(MacHeights)) BY <1>4 DEF ClientQueue
<1>7. TypeOK'
  BY <1>3, <1>6, ScreenAssumption DEF ClientMeets, macVars, controlVars, loopVars, IInv, TypeOK
<1> QED BY <1>4, <1>5, <1>7 DEF ClientMeets, controlVars, IInv, ParkedInv

LEMMA WriterBreaksKeeps == ASSUME IInv, WriterBreaks PROVE IInv'
<1>1. ClientQueue'
  BY ClientQueueSame, MacToldSame DEF WriterBreaks, macVars, sizeVars, loopVars, IInv
<1>2. MacQueue'
  BY DEF WriterBreaks, macVars, sizeVars, loopVars, IInv, MacQueue, ClientTold, Sure, Told
<1>3. TypeOK'
  BY ScreenAssumption
  DEF WriterBreaks, EventHappens, macVars, sizeVars, controlVars, loopVars, IInv, TypeOK
<1> QED BY <1>1, <1>2, <1>3 DEF WriterBreaks, sizeVars, controlVars, IInv, ParkedInv

LEMMA DisconnectKeeps == ASSUME IInv, Disconnect PROVE IInv'
<1>1. toClient' = <<>> /\ toMac' = <<>> /\ conn' = "off" /\ ~met' /\ ~parked' BY DEF Disconnect
<1>2. /\ toClient' \in Seq(Frames(MacHeights)) /\ Len(toClient') = 0 /\ Len(toMac') = 0
      /\ toMac' \in Seq(Frames(ClientScreens \cup {Unknown}))
  BY <1>1
<1>3. ClientQueue' /\ MacQueue' BY <1>1, <1>2 DEF ClientQueue, MacQueue, Sure
<1>4. TypeOK'
  <2>1. events' \in 0..MaxEvents
    BY ScreenAssumption DEF Disconnect, EventHappens, IInv, TypeOK
  <2> QED BY <1>1, <1>2, <2>1 DEF Disconnect, sizeVars, loopVars, IInv, TypeOK
<1> QED BY <1>1, <1>3, <1>4 DEF IInv, ParkedInv

\* The Mac's pointer is put at a height of its screen.
LEMMA MapClientYToMacType ==
  ASSUME IInv, NEW y \in Int PROVE MapClientYToMac(y) \in Int
<1>1. macKnown \in Nat /\ cliKnown.h \in Nat
  BY ScreenAssumption DEF IInv, TypeOK, Unknown
<1>2. y * macKnown \in Int BY <1>1
<1>3. ASSUME cliKnown.h > 0 PROVE (y * macKnown) \div cliKnown.h \in Int BY <1>1, <1>2, <1>3
<1> QED BY <1>3 DEF MapClientYToMac

LEMMA MacEntersKeeps == ASSUME IInv, NEW y \in CrossingYs, MacEnters(y) PROVE IInv'
<1>1. y \in Int /\ macReal \in MacHeights /\ macKnown \in MacHeights /\ macReal - 1 \in Nat
  BY ScreenAssumption DEF IInv, TypeOK
<1>0. PICK of \in MacHeights : MacSends(RemoteFrame(y, of, of = macKnown /\ MacTold))
  BY <1>1 DEF MacEnters
<1> DEFINE e == RemoteFrame(y, of, of = macKnown /\ MacTold)
<1>2. /\ e \in Frames(MacHeights) /\ e.type = "remote"
      /\ e.sure => MacTold /\ e.of = macKnown
  BY <1>1, FrameTypes DEF RemoteFrame
<1>3. ClientQueue'
  <2>1. e.type # "screen" BY <1>2
  <2> HIDE DEF e
  <2>2. MacSends(e) BY <1>0 DEF e
  <2> QED BY <1>2, <2>1, <2>2, MacSendKeeps DEF MacEnters, sizeVars, linkVars, loopVars, IInv
<1>4. MacQueue' BY MacQueueSame, ClientToldSame DEF MacEnters, sizeVars, linkVars, loopVars, IInv
<1>5. macY' \in Nat BY <1>1, ClampRange DEF MacEnters
<1>6. toClient' \in Seq(Frames(MacHeights)) BY <1>3 DEF ClientQueue
<1>7. TypeOK'
  BY <1>5, <1>6, ScreenAssumption
  DEF MacEnters, sizeVars, linkVars, loopVars, controlVars, IInv, TypeOK
<1> QED
  BY <1>3, <1>4, <1>7 DEF MacEnters, sizeVars, controlVars, linkVars, loopVars, IInv, ParkedInv

\* What leaveRemoteLocked does.
LEMMA LeaveRemoteKeeps ==
  ASSUME IInv, NEW edgeY \in Int, LeaveRemote(edgeY),
         UNCHANGED <<macReal, macKnown, conn, met, macUntold, macLoop, peerKnown>>
  PROVE  ClientQueue' /\ mode' = "local" /\ macY' \in Nat
<1> DEFINE e == BackFrame(NoY, macReal, FALSE)
<1>1. macReal \in MacHeights /\ macReal - 1 \in Nat /\ macY \in Int
  BY ScreenAssumption DEF IInv, TypeOK
<1>2. e \in Frames(MacHeights) /\ e.type = "back"
  <2>1. NoY \in Int BY DEF NoY
  <2>2. e \in Frames(MacHeights) BY <1>1, <2>1, FrameTypes
  <2> QED BY <2>2 DEF BackFrame
<1>3. MacSends(e) BY DEF LeaveRemote
<1> HIDE DEF e
<1>4. ClientQueue' BY <1>2, <1>3, MacSendKeeps DEF IInv
<1>5. macY' \in Nat
  <2> DEFINE wanted == IF edgeY >= 0 THEN MapClientYToMac(edgeY) ELSE macY
  <2>1. wanted \in Int BY <1>1, MapClientYToMacType
  <2>2. macY' = Clamp(wanted, macReal - 1) BY DEF LeaveRemote
  <2> HIDE DEF wanted
  <2>3. Clamp(wanted, macReal - 1) \in 0 .. macReal - 1 BY <1>1, <2>1, ClampRange
  <2> QED BY <1>1, <2>2, <2>3
<1> QED BY <1>4, <1>5 DEF LeaveRemote

LEMMA MacLeavesKeeps == ASSUME IInv, MacLeaves PROVE IInv'
<1>1. ClientQueue' /\ mode' = "local" /\ macY' \in Nat
  BY LeaveRemoteKeeps DEF MacLeaves, sizeVars, linkVars, loopVars, NoY
<1>2. MacQueue' BY MacQueueSame, ClientToldSame DEF MacLeaves, sizeVars, linkVars, loopVars, IInv
<1>3. toClient' \in Seq(Frames(MacHeights)) BY <1>1 DEF ClientQueue
<1>4. TypeOK'
  BY <1>1, <1>3, ScreenAssumption
  DEF MacLeaves, sizeVars, linkVars, loopVars, controlVars, IInv, TypeOK
<1> QED
  BY <1>1, <1>2, <1>4 DEF MacLeaves, sizeVars, controlVars, linkVars, loopVars, IInv, ParkedInv

\* The first frame under way to the Mac.
LEMMA HeadToMac ==
  ASSUME IInv, conn = "up", toMac # <<>>
  PROVE  /\ Head(toMac) = toMac[1] /\ toMac[1] \in Frames(ClientScreens)
         /\ 1 \in 1..Len(toMac)
<1>1. toMac \in Seq(Frames(ClientScreens)) BY DEF IInv, MacQueue
<1> QED BY <1>1

LEMMA MacHandlesKeeps == ASSUME IInv, MacHandles PROVE IInv'
<1> DEFINE f == Head(toMac)
<1>1. /\ conn = "up" /\ toMac # <<>> /\ toMac' = Tail(toMac)
      /\ UNCHANGED <<macReal, macKnown, macEdge, sizeVars, controlVars, linkVars, loopVars, events>>
  BY DEF MacHandles
<1>2. f = toMac[1] /\ f \in Frames(ClientScreens) BY <1>1, HeadToMac
<1>3. /\ UNCHANGED <<conn, met, macUntold, cliUntold, silent, macLoop, cliLoop, peerKnown, ownKnown,
                     macReal, macKnown>>
  BY <1>1 DEF sizeVars, linkVars, loopVars
<1>4. f.type = "screen" => f.size \in ClientScreens /\ f.size.w > 0 /\ f.size.h > 0
  <2> SUFFICES ASSUME f.type = "screen" PROVE f.size \in ClientScreens /\ f.size.w > 0 /\ f.size.h > 0
    OBVIOUS
  <2>1. f.size \in ClientScreens BY <1>2, FrameTypes
  <2> HIDE DEF f
  <2> QED BY <2>1, ScreenAssumption
<1>5. cliKnown' = IF toMac[1].type = "screen" THEN toMac[1].size ELSE cliKnown
  BY <1>2, <1>4 DEF MacHandles
<1>6. MacQueue' BY <1>1, <1>3, <1>5, MacReads DEF IInv
<1>7. ClientQueue' /\ mode' \in {"local", "remote"} /\ macY' \in Nat
  <2>1. CASE UNCHANGED <<mode, macY, toClient>>
    BY <1>3, <2>1, ClientQueueSame, MacToldSame DEF IInv, TypeOK
  <2>2. CASE f.type = "back" /\ LeaveRemote(f.y)
    <3>1. f.y \in Int BY <1>2, <2>2, FrameTypes
    <3> HIDE DEF f
    <3> QED BY <1>3, <2>2, <3>1, LeaveRemoteKeeps
  <2> QED BY <2>1, <2>2 DEF MacHandles
<1>8. cliKnown' \in ClientScreens \cup {Unknown}
  BY <1>2, <1>4, <1>5 DEF IInv, TypeOK
<1>9. toMac' \in Seq(Frames(ClientScreens \cup {Unknown})) BY <1>1 DEF IInv, TypeOK
<1>10. toClient' \in Seq(Frames(MacHeights)) BY <1>7 DEF ClientQueue
<1>11. TypeOK'
  BY <1>1, <1>7, <1>8, <1>9, <1>10, ScreenAssumption
  DEF sizeVars, linkVars, loopVars, controlVars, IInv, TypeOK
<1> QED BY <1>1, <1>6, <1>7, <1>11 DEF sizeVars, controlVars, linkVars, loopVars, IInv, ParkedInv

\* Where enterRemote puts the cursor: on the screen and outside both zones.
LEMMA LandingType == ASSUME IInv, NEW y \in Int PROVE ParkX \in Int /\ LandingY(y) \in Int
<1>1. ownKnown.h \in Nat /\ ownKnown.w \in Nat /\ peerKnown \in Nat /\ cursor.y \in Int
  BY ScreenAssumption DEF IInv, TypeOK, Unknown
<1>2. MapMacY(y) \in Int
  <2>1. y * ownKnown.h \in Int BY <1>1
  <2>2. peerKnown > 0 => Round(y * ownKnown.h, peerKnown) \in Int BY <1>1, <2>1, RoundNear
  <2> QED BY <2>2 DEF MapMacY
<1>3. LandingY(y) \in Int
  <2> DEFINE wanted == IF y < 0 THEN cursor.y ELSE MapMacY(y)
  <2>1. wanted \in Int BY <1>1, <1>2
  <2>2. LandingY(y) = IF ownKnown.h > 0 THEN Clamp(wanted, ownKnown.h - 1) ELSE wanted
    BY DEF LandingY
  <2> HIDE DEF wanted
  <2>3. ASSUME ownKnown.h > 0 PROVE Clamp(wanted, ownKnown.h - 1) \in Int
    <3>1. ownKnown.h - 1 \in Nat BY <1>1, <2>3
    <3> QED BY <2>1, <3>1, ClampRange
  <2> QED BY <1>1, <2>1, <2>2, <2>3
<1> QED BY <1>1, <1>3, ScreenAssumption DEF ParkX

LEMMA ParkOutside ==
  ASSUME IInv, ownKnown.w > 0
  PROVE  LET x == Clamp(ParkX, cliReal.w - 1)
         IN  EdgeMargin < x /\ x < ownKnown.w - EdgeMargin
<1>1. /\ ownKnown.w \in Nat /\ ownKnown.w > Inset + EdgeMargin
      /\ cliReal.w \in Nat /\ cliReal.w > Inset + EdgeMargin
  BY ScreenAssumption DEF IInv, TypeOK, Unknown
<1>2. Inset \in Nat /\ EdgeMargin \in Nat /\ EdgeMargin < Inset BY ScreenAssumption
<1> QED BY <1>1, <1>2 DEF ParkX, Clamp

LEMMA EnterRemoteKeeps ==
  ASSUME IInv, met, met', NEW y \in Int, EnterRemote(y), UNCHANGED <<cliReal, ownKnown>>
  PROVE  /\ remote' = TRUE /\ parked' \in BOOLEAN /\ ParkedInv'
         /\ cursor' \in [x : 0 .. cliReal.w - 1, y : 0 .. cliReal.h - 1]
<1>1. CASE UNCHANGED <<cursor, parked>>
  BY <1>1 DEF EnterRemote, IInv, TypeOK, ParkedInv
<1>2. CASE cursor' = OnScreen(ParkX, LandingY(y), cliReal) /\ parked' = (ownKnown.w > 0)
  <2>1. ParkX \in Int /\ LandingY(y) \in Int /\ cliReal \in ClientScreens
    BY LandingType DEF IInv, TypeOK
  <2>2. cursor' \in [x : 0 .. cliReal.w - 1, y : 0 .. cliReal.h - 1]
    BY <1>2, <2>1, OnScreenType
  <2>3. cursor'.x = Clamp(ParkX, cliReal.w - 1) BY <1>2 DEF OnScreen
  <2>4. ownKnown.w > 0 => EdgeMargin < cursor'.x /\ cursor'.x < ownKnown.w - EdgeMargin
    BY <2>3, ParkOutside
  <2>5. ParkedInv' BY <1>2, <2>4 DEF ParkedInv
  <2>6. parked' \in BOOLEAN BY <1>2
  <2> QED BY <2>2, <2>5, <2>6 DEF EnterRemote
<1>3. CASE UNCHANGED cursor /\ parked' = FALSE
  BY <1>3 DEF EnterRemote, IInv, TypeOK, ParkedInv
<1> QED BY <1>1, <1>2, <1>3 DEF EnterRemote

LEMMA ClientHandlesKeeps == ASSUME IInv, ClientHandles PROVE IInv'
<1> DEFINE f == Head(toClient)
<1>1. /\ met /\ toClient # <<>> /\ toClient' = Tail(toClient)
      /\ UNCHANGED <<macVars, cliReal, ownKnown, linkVars, loopVars, toMac, events>>
  BY DEF ClientHandles
<1>2. /\ conn \in {"greeted", "up"} /\ f = toClient[1] /\ f \in Frames(MacHeights)
  BY <1>1, MetWasGreeted, HeadToClient
<1>3. UNCHANGED <<conn, met, macUntold, cliUntold, silent, macLoop, cliLoop, macKnown, cliKnown>>
  BY <1>1 DEF macVars, linkVars, loopVars
<1>4. /\ peerKnown' = (IF toClient[1].type = "screen" THEN toClient[1].size ELSE peerKnown)
  BY <1>2 DEF ClientHandles
<1>5. ClientQueue' BY <1>1, <1>2, <1>3, <1>4, ClientReads DEF IInv
<1>6. MacQueue' BY <1>1, <1>3, MacQueueSame, ClientToldSame DEF IInv
<1>7. peerKnown' \in MacHeights \cup {0} BY <1>2, <1>4, FrameTypes DEF IInv, TypeOK
<1>8. /\ edge' \in Sides /\ remote' \in BOOLEAN /\ parked' \in BOOLEAN /\ ParkedInv'
      /\ cursor' \in [x : 0 .. cliReal.w - 1, y : 0 .. cliReal.h - 1]
  <2>1. CASE f.type = "screen" /\ UNCHANGED controlVars
    BY <1>1, <1>3, <2>1 DEF controlVars, IInv, TypeOK, ParkedInv
  <2>2. CASE f.type = "edge" /\ edge' = f.edge /\ UNCHANGED <<remote, cursor, parked>>
    BY <1>1, <1>2, <1>3, <2>2, FrameTypes DEF IInv, TypeOK, ParkedInv
  <2>3. CASE f.type = "remote" /\ EnterRemote(f.y) /\ UNCHANGED edge
    <3>1. f.y \in Int BY <1>2, <2>3, FrameTypes
    <3> HIDE DEF f
    <3> QED BY <1>1, <1>3, <2>3, <3>1, EnterRemoteKeeps DEF IInv, TypeOK
  <2>4. CASE remote' = FALSE /\ UNCHANGED <<edge, cursor, parked>>
    BY <1>1, <1>3, <2>4 DEF IInv, TypeOK, ParkedInv
  <2> QED BY <2>1, <2>2, <2>3, <2>4 DEF ClientHandles
<1>9. toClient' \in Seq(Frames(MacHeights)) BY <1>5 DEF ClientQueue
<1>10. TypeOK'
  BY <1>1, <1>7, <1>8, <1>9, ScreenAssumption DEF macVars, linkVars, loopVars, IInv, TypeOK
<1> QED BY <1>5, <1>6, <1>8, <1>10 DEF IInv

LEMMA CursorMovesKeeps == ASSUME IInv, CursorMoves PROVE IInv'
<1>1. ClientQueue'
  BY ClientQueueSame, MacToldSame DEF CursorMoves, macVars, sizeVars, linkVars, loopVars, IInv
<1>2. MacQueue'
  BY MacQueueSame, ClientToldSame DEF CursorMoves, macVars, sizeVars, linkVars, loopVars, IInv
<1>3. cursor' \in [x : 0 .. cliReal.w - 1, y : 0 .. cliReal.h - 1]
  <2>1. /\ {0, cliReal.w - 1} \subseteq 0 .. cliReal.w - 1
        /\ {0, cliReal.h - 1} \subseteq 0 .. cliReal.h - 1
    BY ScreenAssumption DEF IInv, TypeOK
  <2> QED BY <2>1 DEF CursorMoves
<1>4. TypeOK' BY <1>3 DEF CursorMoves, macVars, sizeVars, linkVars, loopVars, IInv, TypeOK
<1> QED BY <1>1, <1>2, <1>4 DEF CursorMoves, IInv, ParkedInv

LEMMA WatcherReturnsKeeps == ASSUME IInv, WatcherReturns PROVE IInv'
<1>1. /\ UNCHANGED <<macVars, sizeVars, edge, cursor, parked, linkVars, loopVars, toClient, events>>
      /\ remote' = FALSE
  BY DEF WatcherReturns
<1>0. PICK of \in {cliReal} \cup ({ownKnown} \ {Unknown}) :
        \E y \in {NoY} \cup (IF of = cliReal THEN {cursor.y} ELSE 0 .. of.h - 1) :
          ClientSends(BackFrame(y, of, of = ownKnown /\ ClientTold))
  BY DEF WatcherReturns
<1>2. PICK y \in {NoY} \cup (IF of = cliReal THEN {cursor.y} ELSE 0 .. of.h - 1) :
        ClientSends(BackFrame(y, of, of = ownKnown /\ ClientTold))
  BY <1>0
<1> DEFINE e == BackFrame(y, of, of = ownKnown /\ ClientTold)
<1>3. y \in Int /\ y < of.h /\ of \in ClientScreens
  <2>1. of \in ClientScreens BY DEF IInv, TypeOK
  <2>2. of.h \in Nat \ {0} BY <2>1, ScreenAssumption
  <2>3. cursor.y \in 0 .. cliReal.h - 1 /\ cliReal.h \in Nat
    BY ScreenAssumption DEF IInv, TypeOK
  <2>4. CASE of = cliReal BY <2>1, <2>2, <2>3, <2>4 DEF NoY
  <2>5. CASE of # cliReal BY <2>1, <2>2, <2>5 DEF NoY
  <2> QED BY <2>4, <2>5
<1>4. /\ e \in Frames(ClientScreens) /\ e \in Frames(ClientScreens \cup {Unknown})
      /\ e.type = "back" /\ e.y < e.of.h /\ (e.sure => ClientTold /\ e.of = ownKnown)
  BY <1>3, FrameTypes DEF BackFrame
<1>5. ClientSends(e) BY <1>2
<1> HIDE DEF e
<1>6. UNCHANGED <<conn, silent, cliUntold, cliLoop, cliKnown, ownKnown>>
  BY <1>1 DEF macVars, sizeVars, linkVars, loopVars
<1>7. met => conn \in {"greeted", "up"} BY MetWasGreeted
<1>8. MacQueue' BY <1>4, <1>5, <1>6, <1>7, ClientSendKeeps DEF IInv
<1>9. ClientQueue'
  BY <1>1, ClientQueueSame, MacToldSame DEF macVars, sizeVars, linkVars, loopVars, IInv
<1>10. toMac' \in Seq(Frames(ClientScreens \cup {Unknown}))
  BY <1>4, <1>5 DEF ClientSends, IInv, TypeOK
<1>11. TypeOK' BY <1>1, <1>10 DEF macVars, sizeVars, linkVars, loopVars, IInv, TypeOK
<1> QED BY <1>1, <1>8, <1>9, <1>11 DEF sizeVars, linkVars, loopVars, IInv, ParkedInv

LEMMA StutterKeeps == ASSUME IInv, UNCHANGED vars PROVE IInv'
BY
DEF vars, macVars, sizeVars, controlVars, linkVars, loopVars, IInv, TypeOK, ClientQueue, MacQueue,
       MacTold, ClientTold, Sure, Told, ParkedInv

-----------------------------------------------------------------------------
\* The invariant holds: every Screen frame and every crossing under way says
\* what it should, for any screens and any history.
THEOREM PointerInvariant == Spec => []IInv
<1>1. IInv /\ [Next]_vars => IInv'
  <2> SUFFICES ASSUME IInv, [Next]_vars PROVE IInv' OBVIOUS
  <2> QED BY MacScreenChangesKeeps, ClientScreenChangesKeeps, SetRemoteEdgeKeeps,
             MacMeasuresKeeps, MacStoresKeeps, MacTellsKeeps, ClientMeasuresKeeps,
             ClientStoresKeeps, ClientTellsKeeps, ClientDialsKeeps, ClientGreetsKeeps,
             MacAsksKeeps, MacGreetsKeeps,
             MacInstallsKeeps, ClientMeetsKeeps, WriterBreaksKeeps, DisconnectKeeps,
             MacEntersKeeps, MacLeavesKeeps, MacHandlesKeeps, ClientHandlesKeeps,
             CursorMovesKeeps, WatcherReturnsKeeps, StutterKeeps DEF Next
<1> QED BY <1>1, InitIInv, PTL DEF Spec

\* Every variable of Pointer has its type; both pointers stay on their screens.
THEOREM PointerTypeOK == Spec => []TypeOK
<1>1. IInv => TypeOK BY DEF IInv
<1> QED BY <1>1, PointerInvariant, PTL

\* The sizes that refreshScreen and the greeting tell arrive in order on both
\* sides: with nothing under way, and none stored but not yet sent, each side
\* knows what the other knows of itself, but for the races with the greeting.
THEOREM SizesAgreeAlways == Spec => []SizesAgree
<1>1. IInv => SizesAgree BY DEF IInv, ClientQueue, MacQueue, SizesAgree
<1> QED BY <1>1, PointerInvariant, PTL

\* parkX keeps clear of atEdge's zone on either side for every width.
THEOREM ParkedStaysAlways == Spec => []ParkedStays
<1>1. ASSUME IInv, remote, parked PROVE ~AtEdge
  <2>1. EdgeMargin < cursor.x /\ cursor.x < ownKnown.w - EdgeMargin
    BY <1>1 DEF IInv, ParkedInv
  <2>2. cursor.x \in Int /\ ownKnown.w \in Int /\ EdgeMargin \in Int
    BY <1>1, ScreenAssumption DEF IInv, TypeOK, Unknown
  <2> QED BY <2>1, <2>2 DEF AtEdge
<1>2. IInv => ParkedStays BY <1>1 DEF ParkedStays
<1> QED BY <1>2, PointerInvariant, PTL

\* A sure crossing lands on the client within a pixel of where it left the Mac,
\* whatever the two heights (enterRemoteLocked, mapMacY, enterRemote).
LEMMA Lands ==
  ASSUME IInv, ClientHandles, Head(toClient).type = "remote", Head(toClient).sure,
         Head(toClient).y \in 0 .. Head(toClient).of - 1, ~remote, parked', ownKnown = cliReal
  PROVE  Abs(cursor'.y * Head(toClient).of - Head(toClient).y * cliReal.h) <= Head(toClient).of
<1> DEFINE f == Head(toClient)
<1>1. f = toClient[1] /\ f \in Frames(MacHeights)
  BY MetWasGreeted, HeadToClient DEF ClientHandles
<1>2. peerKnown = f.of
  <2>1. toClient \in Seq(Frames(MacHeights)) /\ toClient # <<>> /\ Sure(toClient, peerKnown, "remote")
    BY DEF ClientHandles, IInv, ClientQueue
  <2> QED BY <1>1, <2>1, SureRead
<1>3. f.of \in Nat \ {0} /\ cliReal.h \in Nat \ {0} /\ f.y \in 0 .. f.of - 1
  <2>1. f.of \in MacHeights BY <1>1, FrameTypes
  <2>2. cliReal \in ClientScreens BY DEF IInv, TypeOK
  <2> HIDE DEF f
  <2>3. f.y \in 0 .. f.of - 1 BY DEF f
  <2> QED BY <2>1, <2>2, <2>3, ScreenAssumption
<1>4. EnterRemote(f.y) BY DEF ClientHandles
<1>5. cursor' = OnScreen(ParkX, LandingY(f.y), cliReal) BY <1>4 DEF EnterRemote
<1> HIDE DEF f
<1> DEFINE landing == Clamp(Round(f.y * cliReal.h, f.of), cliReal.h - 1)
<1>6. Round(f.y * cliReal.h, f.of) \in Int
  <2>1. f.y * cliReal.h \in Int BY <1>3
  <2> QED BY <1>3, <2>1, RoundNear
<1>7. landing \in 0 .. cliReal.h - 1
  <2>1. cliReal.h - 1 \in Nat BY <1>3
  <2> QED BY <1>6, <2>1, ClampRange
<1>8. LandingY(f.y) = landing BY <1>2, <1>3 DEF LandingY, MapMacY
<1>9. Abs(landing * f.of - f.y * cliReal.h) <= f.of BY <1>3, LandingNear
<1> HIDE DEF landing
<1>10. cursor'.y = landing
  <2>1. cursor'.y = Clamp(landing, cliReal.h - 1) BY <1>5, <1>8 DEF OnScreen
  <2> QED BY <1>3, <1>7, <2>1 DEF Clamp
<1> QED BY <1>9, <1>10 DEF f

\* Every crossing to the client from a screen whose size was told lands beside the
\* point where it left the Mac, however the three steps of refreshScreen, the
\* greetings and the crossings interleave.
THEOREM LandsBesideAlways == Spec => LandsBeside
<1>1. IInv /\ [Next]_vars =>
        [LET f == Head(toClient)
         IN  /\ ClientHandles /\ f.type = "remote" /\ f.sure /\ f.y \in 0 .. f.of - 1
             /\ ~remote /\ parked' /\ ownKnown = cliReal
             => Abs(cursor'.y * f.of - f.y * cliReal.h) <= f.of]_vars
  BY Lands
<1> QED BY <1>1, PointerInvariant, PTL DEF LandsBeside, Spec

\* A sure return lands on the Mac within a point of where it left the client
\* (edgeWatch, handleSwitchRequest, mapClientYToMac, leaveRemoteLocked).
LEMMA Returns ==
  ASSUME IInv, MacHandles, Head(toMac).type = "back", Head(toMac).sure, Head(toMac).y >= 0,
         mode = "remote", macKnown = macReal
  PROVE  Abs(macY' * Head(toMac).of.h - Head(toMac).y * macReal) <= Head(toMac).of.h
<1> DEFINE f == Head(toMac)
<1>1. f = toMac[1] /\ f \in Frames(ClientScreens) /\ 1 \in 1..Len(toMac) /\ conn = "up"
  BY HeadToMac DEF MacHandles
<1>2. cliKnown = f.of
  <2>1. toMac \in Seq(Frames(ClientScreens)) /\ toMac # <<>> /\ Sure(toMac, cliKnown, "back")
    BY <1>1 DEF MacHandles, IInv, MacQueue
  <2> QED BY <1>1, <2>1, SureRead
<1>3. f.of.h \in Nat \ {0} /\ macReal \in Nat \ {0} /\ f.y \in 0 .. f.of.h - 1
  <2>1. f.of \in ClientScreens /\ f.y \in Int BY <1>1, FrameTypes
  <2>2. f.y < f.of.h BY <1>1 DEF IInv, MacQueue
  <2>3. f.y >= 0 /\ macReal \in MacHeights BY DEF IInv, TypeOK
  <2> HIDE DEF f
  <2>4. f.of.h \in Nat \ {0} BY <2>1, ScreenAssumption
  <2> QED BY <2>1, <2>2, <2>3, <2>4, ScreenAssumption
<1>4. LeaveRemote(f.y) BY DEF MacHandles
<1> HIDE DEF f
<1> DEFINE landing == (f.y * macReal) \div f.of.h
<1>5. landing \in 0 .. macReal - 1 /\ Abs(landing * f.of.h - f.y * macReal) <= f.of.h
  BY <1>3, ReturnNear
<1>6. MapClientYToMac(f.y) = landing BY <1>2, <1>3 DEF MapClientYToMac
<1> HIDE DEF landing
<1>7. macY' = landing
  <2>1. macY' = Clamp(landing, macReal - 1) BY <1>3, <1>4, <1>6 DEF LeaveRemote
  <2> QED BY <1>3, <1>5, <2>1 DEF Clamp
<1> QED BY <1>5, <1>7 DEF f

\* Every return from a screen whose size was told lands on the Mac beside the point
\* where it left the client, whatever refreshScreen is doing meanwhile.
THEOREM ReturnsBesideAlways == Spec => ReturnsBeside
<1>1. IInv /\ [Next]_vars =>
        [LET f == Head(toMac)
         IN  /\ MacHandles /\ f.type = "back" /\ f.sure /\ f.y >= 0
             /\ mode = "remote" /\ macKnown = macReal
             => Abs(macY' * f.of.h - f.y * macReal) <= f.of.h]_vars
  BY Returns
<1> QED BY <1>1, PointerInvariant, PTL DEF ReturnsBeside, Spec
=============================================================================
