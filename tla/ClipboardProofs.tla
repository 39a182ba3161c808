-------------------------- MODULE ClipboardProofs --------------------------
(***************************************************************************)
(* A copy that nothing swallowed and none crossed reaches the other        *)
(* clipboard: safety of module ClipboardSync for any set of texts, of any  *)
(* length, and any number of copies, crossing or not, lost connections and *)
(* failed writes.                                                          *)
(*                                                                         *)
(* The invariant follows the last copy, by the place it has reached        *)
(* (CopyInv).  It starts from trackers that do not take the text for an    *)
(* echo or an old one, which needs that a mark for an echo goes with the   *)
(* text it is about, unless a write failed (EchoInv).                      *)
(***************************************************************************)
EXTENDS ClipboardSync, SequenceTheorems, TLAPS

Types ==
  /\ clip \in [Sides -> Texts \cup {Empty}]
  /\ lastLocal \in [Sides -> Texts \cup {Empty}]
  /\ remoteEcho \in [Sides -> Texts \cup {Empty}]
  /\ seen \in [Sides -> Texts \cup {None}]
  /\ applying \in [Sides -> Texts \cup {None}]
  /\ channel \in [Sides -> Seq(Texts)]
  /\ copied \in [Sides -> BOOLEAN] /\ failed \in [Sides -> BOOLEAN]
  /\ source \in Sides /\ crossed \in Nat

\* A clipboard that is empty has always been.
EmptyInv == \A p \in Sides : clip[p] = Empty => lastLocal[p] = Empty /\ seen[p] = None

\* A mark is about the text that is or will be on the clipboard, until a copy
\* replaces that text, or for ever if it was never written.
EchoInv ==
  \A p \in Sides :
    \/ remoteEcho[p] = Empty
    \/ applying[p] # None /\ remoteEcho[p] = applying[p]
    \/ /\ applying[p] = None
       /\ remoteEcho[p] = clip[p] \/ copied[p] \/ seen[p] # None \/ failed[p]

\* The text on the clipboard of p is an old one for its tracker.
AtRest(p) == lastLocal[p] = clip[p] /\ seen[p] \in {None, clip[p]} /\ ~copied[p]

NothingFor(p) == channel[p] = <<>> /\ applying[p] = None

\* The copy at s has not been sent.
Fresh(s) ==
  /\ clip[s] \notin {lastLocal[s], remoteEcho[s]}
  /\ IF copied[s] THEN seen[s] = None ELSE seen[s] = clip[s]
  /\ AtRest(Peer(s)) /\ NothingFor(s) /\ NothingFor(Peer(s))

\* It is on its way to d.
OnItsWay(d, t) ==
  /\ AtRest(d) /\ NothingFor(Peer(d))
  /\ \/ channel[d] = <<t>> /\ applying[d] = None
     \/ channel[d] = <<>> /\ applying[d] = t

\* It is on the clipboard of d, whose poller may not have looked yet.
Arrived(d, t) ==
  /\ clip[d] = t /\ seen[d] \in {None, lastLocal[d], t} /\ ~copied[d]
  /\ NothingFor(d) /\ NothingFor(Peer(d))

\* d's poller has looked, and may have sent the text back.
Echoed(d, t) ==
  /\ clip[d] = t /\ AtRest(d) /\ NothingFor(d)
  /\ channel[Peer(d)] \in {<<>>, <<t>>} /\ applying[Peer(d)] \in {None, t}

Sent(s) ==
  /\ AtRest(s)
  /\ \/ OnItsWay(Peer(s), clip[s])
     \/ Arrived(Peer(s), clip[s])
     \/ Echoed(Peer(s), clip[s])

Followed == ~lost /\ crossed = 0

CopyInv == Followed => Fresh(source) \/ Sent(source)

IInv == Types /\ EmptyInv /\ EchoInv /\ CopyInv

-----------------------------------------------------------------------------

\* A channel with one text.
LEMMA OneText ==
  ASSUME NEW t
  PROVE  /\ Append(<<>>, t) = <<t>> /\ Head(<<t>>) = t /\ Tail(<<t>>) = <<>>
         /\ <<t>> # <<>>
OBVIOUS

\* The two sides of a copy.
LEMMA TwoSides ==
  ASSUME NEW s \in Sides
  PROVE  Peer(s) \in Sides /\ Peer(s) # s /\ Peer(Peer(s)) = s /\ Sides = {s, Peer(s)}
BY ClipboardAssumption DEF Sides, Peer

\* The trackers are empty and one clipboard may have a text.
LEMMA InitInv == Init => IInv
<1> SUFFICES ASSUME Init PROVE IInv OBVIOUS
<1> USE ClipboardAssumption DEF Init
<1>1. Types
  <2>1. copied \in [Sides -> BOOLEAN] BY Zenon
  <2>2. channel \in [Sides -> Seq(Texts)] BY EmptySeq
  <2> QED BY <2>1, <2>2 DEF Types
<1>2. EmptyInv /\ EchoInv BY DEF EmptyInv, EchoInv
<1>3. CopyInv
  <2> DEFINE d == Peer(source)
  <2> SUFFICES ASSUME clip[d] = Empty PROVE CopyInv
    BY DEF CopyInv, Followed
  <2>1. d \in Sides /\ d # source /\ Peer(d) = source BY TwoSides
  <2>2. NothingFor(source) /\ NothingFor(d) BY <2>1 DEF NothingFor
  <2>3. AtRest(d)
    <3>1. copied[d] = FALSE BY <2>1, Zenon
    <3> QED BY <2>1, <3>1 DEF AtRest
  <2>4. CASE clip[source] = Empty
    <3>1. copied[source] = FALSE BY <2>4, Zenon
    <3> QED BY <2>1, <2>2, <2>3, <2>4, <3>1 DEF CopyInv, Sent, Echoed, NothingFor, AtRest
  <2>5. CASE clip[source] # Empty
    <3>1. copied[source] = TRUE BY <2>5, Zenon
    <3> QED BY <2>1, <2>2, <2>3, <2>5, <3>1 DEF CopyInv, Fresh
  <2> QED BY <2>4, <2>5
<1> QED BY <1>1, <1>2, <1>3 DEF IInv

-----------------------------------------------------------------------------
\* A connection that is gone carries nothing.
LEMMA HangUpTypes == HangUp => channel' \in [Sides -> Seq(Texts)]
BY EmptySeq DEF HangUp

\* Types, and an empty clipboard has always been empty.
LEMMA TypesStep ==
  ASSUME Types, EmptyInv, [Next]_vars
  PROVE  Types' /\ EmptyInv'
<1> USE ClipboardAssumption DEF Types, EmptyInv, copyVars
<1>1. ASSUME NEW p \in Sides, Poll(p) PROVE Types' /\ EmptyInv'
  BY <1>1 DEF Poll, WorthSending, trackerVars
<1>2. ASSUME NEW p \in Sides, Judge(p) PROVE Types' /\ EmptyInv'
  <2>1. channel' \in [Sides -> Seq(Texts)]
    <3>1. CASE UNCHANGED <<channel, connected, lost>> BY <3>1
    <3>2. CASE Transmit(p, seen[p])
      <4>1. Peer(p) \in Sides BY TwoSides
      <4>2. seen[p] \in Texts BY <1>2 DEF Judge
      <4>3. CASE UNCHANGED channel BY <4>3
      <4>4. CASE HangUp BY <4>4, HangUpTypes
      <4>5. CASE channel' = [channel EXCEPT ![Peer(p)] = Append(@, seen[p])]
        BY <4>1, <4>2, <4>5
      <4> QED BY <3>2, <4>3, <4>4, <4>5 DEF Transmit
    <3> QED BY <1>2, <3>1, <3>2 DEF Judge
  <2> QED BY <1>2, <2>1 DEF Judge, EchoAfter
<1>3. ASSUME NEW p \in Sides, Applied(p) PROVE Types' /\ EmptyInv'
  <2>1. Head(channel[p]) \in Texts /\ Tail(channel[p]) \in Seq(Texts) BY <1>3 DEF Applied
  <2> QED BY <1>3, <2>1 DEF Applied
<1>4. ASSUME NEW p \in Sides, WriteClipboard(p) \/ WriteFails(p) PROVE Types' /\ EmptyInv'
  <2>1. CASE WriteClipboard(p) BY <2>1 DEF WriteClipboard, trackerVars
  <2>2. CASE WriteFails(p) BY <2>2 DEF WriteFails, trackerVars
  <2> QED BY <1>4, <2>1, <2>2
<1>5. ASSUME NEW p \in Sides, NEW t \in Texts, Copy(p, t) PROVE Types' /\ EmptyInv'
  <2>1. crossed' \in {0, crossed + 1} BY <1>5, Zenon DEF Copy
  <2> QED BY <1>5, <2>1 DEF Copy, trackerVars
<1>6. CASE Disconnect \/ Reconnect
  <2>1. channel' \in [Sides -> Seq(Texts)]
    BY <1>6, HangUpTypes DEF Disconnect, Reconnect
  <2>2. UNCHANGED <<clip, lastLocal, remoteEcho, seen, applying, copied, failed, source, crossed>>
    BY <1>6 DEF Disconnect, Reconnect, trackerVars
  <2> QED BY <2>1, <2>2
<1>7. CASE UNCHANGED vars BY <1>7 DEF vars, trackerVars
<1> QED BY <1>1, <1>2, <1>3, <1>4, <1>5, <1>6, <1>7 DEF Next, PollStep, ApplyStep

\* A mark goes with its text.
LEMMA EchoStep ==
  ASSUME Types, EchoInv, [Next]_vars
  PROVE  EchoInv'
<1> USE ClipboardAssumption DEF Types, EchoInv, copyVars
<1>1. ASSUME NEW p \in Sides, Poll(p) PROVE EchoInv'
  BY <1>1 DEF Poll, WorthSending, trackerVars
<1>2. ASSUME NEW p \in Sides, Judge(p) PROVE EchoInv'
  BY <1>2 DEF Judge, EchoAfter
<1>3. ASSUME NEW p \in Sides, Applied(p) PROVE EchoInv'
  <2>1. Head(channel[p]) \in Texts BY <1>3 DEF Applied
  <2> QED BY <1>3, <2>1 DEF Applied
<1>4. ASSUME NEW p \in Sides, WriteClipboard(p) \/ WriteFails(p) PROVE EchoInv'
  BY <1>4 DEF WriteClipboard, WriteFails, trackerVars
<1>5. ASSUME NEW p \in Sides, NEW t \in Texts, Copy(p, t) PROVE EchoInv'
  BY <1>5 DEF Copy, Settled, Looked, trackerVars
<1>6. CASE Disconnect \/ Reconnect
  BY <1>6 DEF Disconnect, Reconnect, HangUp, trackerVars
<1>7. CASE UNCHANGED vars BY <1>7 DEF vars, trackerVars
<1> QED BY <1>1, <1>2, <1>3, <1>4, <1>5, <1>6, <1>7 DEF Next, PollStep, ApplyStep

-----------------------------------------------------------------------------
\* Where the last copy is, action by action.

\* A poller reads its clipboard.
LEMMA PollCopy ==
  ASSUME IInv, NEW p \in Sides, Poll(p)
  PROVE  CopyInv'
<1> DEFINE s == source  d == Peer(s)
<1> SUFFICES ASSUME Followed PROVE CopyInv'
  BY DEF Poll, copyVars, CopyInv, Followed
<1>1. s \in Sides /\ d \in Sides /\ d # s /\ Peer(d) = s /\ p \in {s, d} /\ d' = d /\ s' = s
  BY TwoSides DEF IInv, Types, Poll, Peer, copyVars
<1> USE DEF IInv, Types, Poll, WorthSending, trackerVars, copyVars
<1>2. AtRest(s) => AtRest(s)' BY <1>1 DEF AtRest
<1>3. AtRest(d) => AtRest(d)' BY <1>1 DEF AtRest
<1>4. NothingFor(s)' = NothingFor(s) /\ NothingFor(d)' = NothingFor(d) BY DEF NothingFor
<1>5. CASE Fresh(s)
  <2>1. Fresh(s)'
    <3>1. CASE p = s BY <1>1, <1>3, <1>4, <1>5, <3>1 DEF Fresh
    <3>2. CASE p = d BY <1>1, <1>3, <1>4, <1>5, <3>2 DEF Fresh
    <3> QED BY <1>1, <3>1, <3>2
  <2> QED BY <1>1, <2>1 DEF CopyInv
<1>6. CASE Sent(s)
  <2>1. AtRest(s)' BY <1>2, <1>6 DEF Sent
  <2>2. OnItsWay(d, clip[s]) => OnItsWay(d, clip[s])' BY <1>1, <1>3, <1>4 DEF OnItsWay
  <2>3. Arrived(d, clip[s]) => Arrived(d, clip[s])'
    BY <1>1, <1>4 DEF Arrived
  <2>4. Echoed(d, clip[s]) => Echoed(d, clip[s])' BY <1>1, <1>3, <1>4 DEF Echoed
  <2> QED BY <1>1, <1>6, <2>1, <2>2, <2>3, <2>4 DEF CopyInv, Sent
<1> QED BY <1>5, <1>6 DEF CopyInv

\* The tracker is asked.
LEMMA JudgeCopy ==
  ASSUME IInv, NEW p \in Sides, Judge(p)
  PROVE  CopyInv'
<1> DEFINE s == source  d == Peer(s)
<1>1. s \in Sides /\ d \in Sides /\ d # s /\ Peer(d) = s /\ p \in {s, d} /\ d' = d /\ s' = s
  BY TwoSides DEF IInv, Types, Judge, Peer, copyVars
<1> USE DEF IInv, Types, copyVars
<1>2. /\ UNCHANGED <<clip, applying, copied, crossed>>
      /\ ~lost' => ~lost
  BY DEF Judge, Transmit
<1> SUFFICES ASSUME Followed, ~lost' PROVE CopyInv'
  BY <1>2 DEF CopyInv, Followed
<1>3. CASE ~IsNew(p, seen[p]) /\ seen[p] \in {lastLocal[p], clip[p]} /\ ~(p = s /\ Fresh(s))
  <2>1. channel' = channel /\ remoteEcho'[p] = Empty /\ lastLocal'[p] = seen[p] /\ seen'[p] = None
    BY <1>3 DEF Judge, EchoAfter
  <2>2. \A q \in Sides : q # p => UNCHANGED <<lastLocal[q], seen[q], remoteEcho[q]>>
    BY DEF Judge
  <2>3. \A q \in Sides : AtRest(q) => AtRest(q)' 
    BY <2>1, <2>2, <1>2 DEF AtRest, Judge
  <2>4. NothingFor(s)' = NothingFor(s) /\ NothingFor(d)' = NothingFor(d)
    BY <1>1, <1>2, <2>1 DEF NothingFor
  <2>5. CASE Fresh(s)
    <3>1. Fresh(s)' BY <1>1, <1>2, <1>3, <2>2, <2>3, <2>4, <2>5 DEF Fresh
    <3> QED BY <1>1, <3>1 DEF CopyInv
  <2>6. CASE Sent(s)
    <3>1. AtRest(s)' BY <1>1, <2>3, <2>6 DEF Sent
    <3>2. OnItsWay(d, clip[s]) => OnItsWay(d, clip[s])'
      BY <1>1, <1>2, <2>1, <2>3, <2>4 DEF OnItsWay
    <3>3. Arrived(d, clip[s]) => Arrived(d, clip[s])'
      BY <1>1, <1>2, <2>1, <2>2, <2>4 DEF Arrived
    <3>4. Echoed(d, clip[s]) => Echoed(d, clip[s])'
      BY <1>1, <1>2, <2>1, <2>3, <2>4 DEF Echoed
    <3> QED BY <1>1, <2>6, <3>1, <3>2, <3>3, <3>4 DEF CopyInv, Sent
  <2> QED BY <2>5, <2>6 DEF CopyInv
<1>4. CASE p = s /\ Fresh(s)
  <2>1. seen[s] = clip[s] /\ ~copied[s] /\ IsNew(s, seen[s])
    BY <1>4 DEF Fresh, Judge, IsNew
  <2>2. channel' = [channel EXCEPT ![d] = Append(@, seen[s])]
    BY <1>4, <2>1 DEF Judge, Transmit
  <2>3. channel'[d] = <<clip[s]>> /\ channel'[s] = <<>>
    BY <1>1, <1>4, <2>1, <2>2, OneText DEF Fresh, NothingFor
  <2>4. AtRest(s)' BY <1>2, <1>4, <2>1 DEF Judge, AtRest
  <2>5. AtRest(d)' BY <1>1, <1>2, <1>4 DEF Judge, AtRest, Fresh
  <2>6. OnItsWay(d, clip[s])'
    BY <1>1, <1>2, <1>4, <2>3, <2>5 DEF OnItsWay, Fresh, NothingFor
  <2> QED BY <1>1, <2>4, <2>6 DEF CopyInv, Sent
<1>5. CASE IsNew(p, seen[p]) /\ p = d /\ Sent(s) /\ Arrived(d, clip[s])
  <2>1. seen[d] = clip[s] BY <1>5 DEF Arrived, Judge, IsNew
  <2>2. channel' = [channel EXCEPT ![s] = Append(@, seen[d])]
    BY <1>1, <1>5 DEF Judge, Transmit
  <2>3. channel'[s] = <<clip[s]>> /\ channel'[d] = <<>>
    BY <1>1, <1>5, <2>1, <2>2, OneText DEF Arrived, NothingFor
  <2>4. AtRest(s)' BY <1>1, <1>2, <1>5 DEF Judge, AtRest, Sent
  <2>5. AtRest(d)' BY <1>1, <1>2, <1>5, <2>1 DEF Judge, AtRest, Arrived
  <2>6. Echoed(d, clip[s])'
    BY <1>1, <1>2, <1>5, <2>3, <2>5 DEF Echoed, Arrived, NothingFor
  <2> QED BY <1>1, <2>4, <2>6 DEF CopyInv, Sent
<1>6. CASE Fresh(s) /\ p = d
  BY <1>1, <1>3, <1>6 DEF Fresh, AtRest, Judge, IsNew
<1>7. CASE Sent(s) /\ p = s
  BY <1>1, <1>3, <1>7 DEF Sent, Fresh, AtRest, Judge, IsNew
<1>8. CASE Sent(s) /\ p = d /\ AtRest(d)
  BY <1>1, <1>3, <1>8 DEF AtRest, Judge, IsNew
<1>9. CASE Sent(s) /\ p = d /\ Arrived(d, clip[s]) /\ ~IsNew(d, seen[d])
  BY <1>1, <1>3, <1>9 DEF Arrived, Judge
<1>10. Fresh(s) \/ Sent(s) BY DEF CopyInv
<1>11. Sent(s) => AtRest(d) \/ Arrived(d, clip[s]) BY DEF Sent, OnItsWay, Echoed
<1> QED BY <1>1, <1>4, <1>5, <1>6, <1>7, <1>8, <1>9, <1>10, <1>11

\* The receive loop takes a text.
LEMMA AppliedCopy ==
  ASSUME IInv, NEW p \in Sides, Applied(p)
  PROVE  CopyInv'
<1> DEFINE s == source  d == Peer(s)
<1> SUFFICES ASSUME Followed PROVE CopyInv'
  BY DEF Applied, copyVars, CopyInv, Followed
<1>1. s \in Sides /\ d \in Sides /\ d # s /\ Peer(d) = s /\ p \in {s, d} /\ d' = d /\ s' = s
  BY TwoSides DEF IInv, Types, Applied, Peer, copyVars
<1> USE DEF IInv, Types, copyVars
<1>2. UNCHANGED <<clip, lastLocal, seen, copied>> BY DEF Applied
<1>3. (AtRest(s) => AtRest(s)') /\ (AtRest(d) => AtRest(d)') BY <1>1, <1>2 DEF AtRest
<1>4. ~Fresh(s) BY <1>1 DEF Applied, Fresh, NothingFor
<1>5. Sent(s) BY <1>4 DEF CopyInv
<1>6. CASE p = d /\ OnItsWay(d, clip[s])
  <2>1. channel[d] = <<clip[s]>> BY <1>6 DEF OnItsWay, Applied
  <2>2. channel'[d] = <<>> /\ applying'[d] = clip[s] BY <1>6, <2>1, OneText DEF Applied
  <2>3. NothingFor(s)' BY <1>1, <1>6 DEF Applied, NothingFor, OnItsWay
  <2>4. OnItsWay(d, clip[s])' BY <1>1, <1>2, <1>3, <1>6, <2>2, <2>3 DEF OnItsWay
  <2> QED BY <1>1, <1>3, <1>5, <2>4 DEF CopyInv, Sent
<1>7. CASE p = s /\ Echoed(d, clip[s])
  <2>1. channel[s] = <<clip[s]>> BY <1>1, <1>7 DEF Echoed, Applied
  <2>2. channel'[s] = <<>> /\ applying'[s] = clip[s] BY <1>7, <2>1, OneText DEF Applied
  <2>3. NothingFor(d)' BY <1>1, <1>7 DEF Applied, NothingFor, Echoed
  <2>4. Echoed(d, clip[s])' BY <1>1, <1>2, <1>3, <1>7, <2>2, <2>3 DEF Echoed
  <2> QED BY <1>1, <1>3, <1>5, <2>4 DEF CopyInv, Sent
<1>8. ~Arrived(d, clip[s]) BY <1>1 DEF Arrived, NothingFor, Applied
<1>9. ~(p = s /\ OnItsWay(d, clip[s])) BY <1>1 DEF OnItsWay, NothingFor, Applied
<1>10. ~(p = d /\ Echoed(d, clip[s])) BY <1>1 DEF Echoed, NothingFor, Applied
<1> QED BY <1>1, <1>5, <1>6, <1>7, <1>8, <1>9, <1>10 DEF Sent

\* The receive loop writes the clipboard.
LEMMA WriteCopy ==
  ASSUME IInv, NEW p \in Sides, WriteClipboard(p)
  PROVE  CopyInv'
<1> DEFINE s == source  d == Peer(s)
<1> SUFFICES ASSUME Followed PROVE CopyInv'
  BY DEF WriteClipboard, copyVars, CopyInv, Followed
<1>1. s \in Sides /\ d \in Sides /\ d # s /\ Peer(d) = s /\ p \in {s, d} /\ d' = d /\ s' = s
  BY TwoSides DEF IInv, Types, WriteClipboard, Peer, copyVars
<1> USE DEF IInv, Types, copyVars
<1>2. UNCHANGED <<lastLocal, remoteEcho, seen, copied, channel>>
  BY DEF WriteClipboard, trackerVars
<1>3. applying[p] # None /\ clip'[p] = applying[p] /\ applying'[p] = None
      /\ \A q \in Sides : q # p => UNCHANGED <<clip[q], applying[q]>>
  BY DEF WriteClipboard
<1>4. ~Fresh(s) BY <1>1, <1>3 DEF Fresh, NothingFor
<1>5. Sent(s) BY <1>4 DEF CopyInv
<1>6. CASE p = d /\ OnItsWay(d, clip[s])
  <2>1. applying[d] = clip[s] /\ channel[d] = <<>> BY <1>3, <1>6 DEF OnItsWay
  <2>2. AtRest(s)' BY <1>1, <1>2, <1>3, <1>5, <1>6 DEF Sent, AtRest
  <2>3. Arrived(d, clip[s])'
    BY <1>1, <1>2, <1>3, <1>6, <2>1 DEF Arrived, OnItsWay, AtRest, NothingFor
  <2> QED BY <1>1, <2>2, <2>3 DEF CopyInv, Sent
<1>7. CASE p = s /\ Echoed(d, clip[s])
  <2>1. applying[s] = clip[s] BY <1>1, <1>3, <1>7 DEF Echoed
  <2>2. clip'[s] = clip[s] BY <1>3, <1>7, <2>1
  <2>3. AtRest(s)' BY <1>1, <1>2, <1>5, <2>2 DEF Sent, AtRest
  <2>4. Echoed(d, clip[s])'
    BY <1>1, <1>2, <1>3, <1>7, <2>2 DEF Echoed, AtRest, NothingFor
  <2> QED BY <1>1, <2>3, <2>4 DEF CopyInv, Sent
<1>8. ~Arrived(d, clip[s]) BY <1>1, <1>3 DEF Arrived, NothingFor
<1>9. ~(p = s /\ OnItsWay(d, clip[s])) BY <1>1, <1>3 DEF OnItsWay, NothingFor
<1>10. ~(p = d /\ Echoed(d, clip[s])) BY <1>1, <1>3 DEF Echoed, NothingFor
<1> QED BY <1>1, <1>5, <1>6, <1>7, <1>8, <1>9, <1>10 DEF Sent

\* A user copies where all has settled: no mark is about another text.
LEMMA UserCopy ==
  ASSUME IInv, NEW p \in Sides, NEW t \in Texts, Copy(p, t)
  PROVE  CopyInv'
<1> SUFFICES ASSUME Followed' PROVE CopyInv'
  BY DEF CopyInv
<1> DEFINE d == Peer(p)
<1>1. d \in Sides /\ d # p /\ source' = p /\ Peer(source') = d
  BY TwoSides DEF Copy, Peer
<1> USE DEF IInv, Types, copyVars
<1>2. /\ clip'[p] = t /\ copied'[p] /\ t # clip[p] /\ clip'[d] = clip[d] /\ copied'[d] = copied[d]
      /\ UNCHANGED <<lastLocal, remoteEcho, seen, applying, channel>>
  BY <1>1 DEF Copy, trackerVars
<1>3. Settled /\ ~failed[p] /\ ~failed[d]
  <2>1. Settled
    <3>1. Settled \/ crossed' = crossed + 1 BY Zenon DEF Copy
    <3>2. crossed' = 0 BY DEF Followed
    <3> QED BY <3>1, <3>2
  <2>2. ~(\E q \in Sides : failed[q]) BY <2>1, Zenon DEF Copy, Followed
  <2> QED BY <1>1, <2>1, <2>2
<1>4. \A q \in Sides : /\ channel[q] = <<>> /\ applying[q] = None /\ ~copied[q] /\ seen[q] = None
                       /\ clip[q] \in {Empty, lastLocal[q]}
  BY <1>3 DEF Settled, Looked
<1>5. \A q \in Sides : lastLocal[q] = clip[q] BY <1>4 DEF EmptyInv
<1>6. remoteEcho[p] \in {Empty, clip[p]} BY <1>3, <1>4 DEF EchoInv
<1>7. t \notin {lastLocal[p], remoteEcho[p]} BY <1>2, <1>5, <1>6, ClipboardAssumption
<1>8. AtRest(d)' BY <1>1, <1>2, <1>4, <1>5 DEF AtRest
<1>9. NothingFor(p)' /\ NothingFor(d)' BY <1>1, <1>2, <1>4 DEF NothingFor
<1>10. Fresh(p)' BY <1>1, <1>2, <1>4, <1>7, <1>8, <1>9 DEF Fresh, Peer
<1> QED BY <1>1, <1>10 DEF CopyInv

\* A connection comes, or goes with nothing on it.
LEMMA LinkCopy ==
  ASSUME IInv, Disconnect \/ Reconnect \/ UNCHANGED vars
  PROVE  CopyInv'
<1> SUFFICES ASSUME Followed' PROVE CopyInv'
  BY DEF CopyInv
<1>1. Followed /\ UNCHANGED <<clip, lastLocal, remoteEcho, seen, applying, channel, copied, source>>
  <2>1. CASE Disconnect
    <3>1. lost' = (lost \/ channel' # channel) BY <2>1 DEF Disconnect
    <3>2. ~lost' BY DEF Followed
    <3>3. ~lost /\ channel' = channel BY <3>1, <3>2, Zenon
    <3> QED BY <2>1, <3>3 DEF Disconnect, trackerVars, copyVars, Followed
  <2>2. CASE Reconnect BY <2>2 DEF Reconnect, trackerVars, copyVars, Followed
  <2>3. CASE UNCHANGED vars BY <2>3 DEF vars, trackerVars, copyVars, Followed
  <2> QED BY <2>1, <2>2, <2>3
<1> QED BY <1>1 DEF IInv, CopyInv, Fresh, Sent, OnItsWay,
     Arrived, Echoed, AtRest, NothingFor, Peer

-----------------------------------------------------------------------------

\* Every step keeps the invariant; a write that fails loses the copy.
LEMMA IInvStep == IInv /\ [Next]_vars => IInv'
<1> SUFFICES ASSUME IInv, [Next]_vars PROVE IInv' OBVIOUS
<1>1. Types' /\ EmptyInv' /\ EchoInv' BY TypesStep, EchoStep DEF IInv
<1>2. CopyInv'
  <2>1. ASSUME NEW p \in Sides, WriteFails(p) PROVE CopyInv'
    BY <2>1 DEF WriteFails, CopyInv, Followed
  <2> QED BY <2>1, PollCopy, JudgeCopy, AppliedCopy, WriteCopy, UserCopy, LinkCopy
          DEF Next, PollStep, ApplyStep
<1> QED BY <1>1, <1>2 DEF IInv

\* What has settled has arrived.
LEMMA SettledFollows == IInv => SettledIsSynced
<1> SUFFICES ASSUME IInv, Settled, Followed PROVE Synced
  BY DEF SettledIsSynced, Followed
<1> DEFINE s == source  d == Peer(s)
<1>1. s \in Sides /\ d \in Sides /\ Sides = {s, d} /\ d # s
  BY TwoSides DEF IInv, Types
<1>2. \A q \in Sides : channel[q] = <<>> /\ applying[q] = None /\ ~copied[q] /\ seen[q] = None
  BY DEF Settled, Looked
<1>3. clip[s] # None BY ClipboardAssumption, <1>1 DEF IInv, Types
<1>4. ~Fresh(s) BY <1>1, <1>2, <1>3 DEF Fresh
<1>5. ~OnItsWay(d, clip[s]) BY <1>1, <1>2, <1>3, OneText DEF OnItsWay
<1>6. clip[d] = clip[s] BY <1>4, <1>5 DEF IInv, CopyInv, Sent, Arrived, Echoed
<1> QED BY <1>1, <1>6 DEF Synced, Sides

\* Once pollers and receive loops of both sides (clipboardLoop, applyClipboard)
\* have nothing left to do, both clipboards have the text that was copied last,
\* whatever echoes the trackers let through on the way and whatever happened
\* before, unless it crossed another copy or a lost connection, a failed write or
\* the length of the text swallowed it.
THEOREM SettledIsSyncedAlways == Spec => []SettledIsSynced
<1>1. Spec => []IInv BY InitInv, IInvStep, PTL DEF Spec
<1> QED BY <1>1, SettledFollows, PTL
=============================================================================
