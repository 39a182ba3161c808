--------------------------- MODULE ClipboardSync ---------------------------
(***************************************************************************)
(* The two clipboards of EdgeHop: clipboardLoop and applyClipboard on each *)
(* side (src/internal/server/clipboard_darwin.go,                          *)
(* src/internal/client/clipboard_linux.go) around a clipsync.Tracker.      *)
(*                                                                         *)
(* On each side the poller reads the clipboard and then asks the tracker;  *)
(* the receive loop tells the tracker and then writes the clipboard.  The  *)
(* two goroutines share the tracker and the clipboard and no lock spans    *)
(* both.  Both sides run the same code.                                    *)
(*                                                                         *)
(* Abstractions.  A text is a model value.  The frames between the sides   *)
(* are a FIFO channel each way (modules Engine and Session have the queue  *)
(* and the network); a connection that is lost loses what is in it.        *)
(***************************************************************************)
EXTENDS Naturals, Sequences

CONSTANTS Mac, Linux,    \* the two sides
          Texts,         \* texts that users copy
          TooLong,       \* those longer than the largest frame
          Empty,         \* an empty clipboard, and the tracker's initial text
          None,          \* nothing
          MaxCrossed     \* bound on the copies that cross, one after the other

Sides == {Mac, Linux}
Peer(p) == IF p = Mac THEN Linux ELSE Mac

ASSUME ClipboardAssumption ==
  /\ Mac # Linux /\ Empty \notin Texts /\ None \notin Texts \cup {Empty}
  /\ TooLong \subseteq Texts /\ MaxCrossed \in Nat

VARIABLES
  clip,         \* clip[p]: the system clipboard of p
  lastLocal,    \* Tracker.lastLocal
  remoteEcho,   \* Tracker.remoteEcho
  seen,         \* the text that p's poller has read and not yet judged
  applying,     \* the text that p's receive loop is about to write
  channel,      \* channel[p]: frames on their way to p
  connected,    \* there is a connection
  copied,       \* history: the user's copy at p has not been read yet
  lost,         \* history: the last copy may be dropped, or was
  failed,       \* history: a write at p failed, and p's poller has not asked since
  source,       \* history: the side of the last copy
  crossed       \* history: copies made before the one before had settled

trackerVars == <<lastLocal, remoteEcho>>
copyVars == <<source, crossed>>
vars == <<clip, trackerVars, seen, applying, channel, connected, copied,
          lost, failed, copyVars>>

\* Texts that both sides have copied before the first connection cross.
Init ==
  /\ source \in Sides
  /\ clip \in [Sides -> Texts \cup {Empty}]
  /\ clip[source] = Empty => clip[Peer(source)] = Empty
  /\ copied = [p \in Sides |-> clip[p] # Empty]
  /\ crossed = IF clip[Peer(source)] = Empty THEN 0 ELSE 1
  /\ lastLocal = [p \in Sides |-> Empty]
  /\ remoteEcho = [p \in Sides |-> Empty]
  /\ seen = [p \in Sides |-> None]
  /\ applying = [p \in Sides |-> None]
  /\ channel = [p \in Sides |-> <<>>]
  /\ connected = TRUE /\ lost = FALSE
  /\ failed = [p \in Sides |-> FALSE]
-----------------------------------------------------------------------------
\* The checks of the poller and of ShouldSend.
WorthSending(t) == t # Empty

\* clipboardLoop: a tick while connected.
Poll(p) ==
  /\ connected /\ seen[p] = None
  /\ WorthSending(clip[p])
  /\ seen' = [seen EXCEPT ![p] = clip[p]]
  /\ copied' = [copied EXCEPT ![p] = FALSE]
  /\ UNCHANGED <<clip, trackerVars, applying, channel, connected, lost, failed,
                 copyVars>>

\* Mutant: a text is compared only with the echo.
MutIsNew(p, t) == t # remoteEcho[p]

IsNew(p, t) == t # remoteEcho[p] /\ t # lastLocal[p]

\* Mutant: the echo is never forgotten.
MutEchoAfter(p) == remoteEcho[p]

\* remoteEcho after ShouldSend: an echo is suppressed once.
EchoAfter(p) == Empty

\* The connection is gone, and with it what was on its way.
HangUp ==
  /\ connected' = FALSE
  /\ channel' = [p \in Sides |-> <<>>]

\* send, as far as the frame's writer: a text that is too long for a frame is
\* not written.  The Mac's writer then drops the connection; the client goes on.
Transmit(p, t) ==
  \/ /\ connected /\ t \notin TooLong
     /\ channel' = [channel EXCEPT ![Peer(p)] = Append(@, t)]
     /\ UNCHANGED <<connected, lost>>
  \/ /\ connected /\ t \in TooLong /\ p = Mac
     /\ HangUp /\ lost' = TRUE
  \/ /\ ~connected \/ (t \in TooLong /\ p = Linux)
     /\ lost' = TRUE
     /\ UNCHANGED <<channel, connected>>

\* ShouldSend, and send: the text becomes the last local one in every case.
Judge(p) ==
  /\ seen[p] # None
  /\ seen' = [seen EXCEPT ![p] = None]
  /\ remoteEcho' = [remoteEcho EXCEPT ![p] = EchoAfter(p)]
  /\ lastLocal' = [lastLocal EXCEPT ![p] = seen[p]]
  /\ IF IsNew(p, seen[p]) THEN Transmit(p, seen[p])
                          ELSE UNCHANGED <<channel, connected, lost>>
  /\ failed' = [failed EXCEPT ![p] = FALSE]
  /\ UNCHANGED <<clip, applying, copied, copyVars>>

\* applyClipboard: AppliedRemote.
Applied(p) ==
  /\ applying[p] = None /\ channel[p] # <<>>
  /\ applying' = [applying EXCEPT ![p] = Head(channel[p])]
  /\ remoteEcho' = [remoteEcho EXCEPT ![p] = Head(channel[p])]
  /\ channel' = [channel EXCEPT ![p] = Tail(@)]
  /\ UNCHANGED <<clip, lastLocal, seen, connected, copied, lost,
                 failed, copyVars>>

\* applyClipboard: writeClipboard.
WriteClipboard(p) ==
  /\ applying[p] # None
  /\ clip' = [clip EXCEPT ![p] = applying[p]]
  /\ applying' = [applying EXCEPT ![p] = None]
  /\ UNCHANGED <<trackerVars, seen, channel, connected, copied, lost,
                 failed, copyVars>>

\* pbcopy or wl-copy fails; nobody but the log is told.
WriteFails(p) ==
  /\ applying[p] # None
  /\ applying' = [applying EXCEPT ![p] = None]
  /\ lost' = TRUE
  /\ failed' = [failed EXCEPT ![p] = TRUE]
  /\ UNCHANGED <<clip, trackerVars, seen, channel, connected, copied, copyVars>>
-----------------------------------------------------------------------------
\* No text is on its way, no copy waits for its poller, and the pollers have
\* looked at the clipboards since.
Looked ==
  \A p \in Sides :
    /\ channel[p] = <<>> /\ applying[p] = None /\ ~copied[p]
    /\ seen[p] # None => ~IsNew(p, seen[p])
    /\ clip[p] \in {Empty, lastLocal[p]}

Settled == Looked /\ \A p \in Sides : seen[p] = None

\* A user copies a text.  If the copy before has not settled the two cross, and
\* the code does not say which one stays.
Copy(p, t) ==
  /\ t # clip[p]
  /\ clip' = [clip EXCEPT ![p] = t]
  /\ copied' = [copied EXCEPT ![p] = TRUE]
  /\ source' = p
  /\ \/ Settled /\ crossed' = 0 /\ lost' = (\E q \in Sides : failed[q])
     \/ ~Settled /\ crossed < MaxCrossed /\ crossed' = crossed + 1 /\ UNCHANGED lost
  /\ UNCHANGED <<trackerVars, seen, applying, channel, connected, failed>>

Disconnect ==
  /\ connected
  /\ HangUp
  /\ lost' = (lost \/ channel' # channel)
  /\ UNCHANGED <<clip, trackerVars, seen, applying, copied, failed, copyVars>>

Reconnect ==
  /\ ~connected
  /\ connected' = TRUE
  /\ UNCHANGED <<clip, trackerVars, seen, applying, channel, copied, lost,
                 failed, copyVars>>

PollStep(p) == Poll(p) \/ Judge(p)
ApplyStep(p) == Applied(p) \/ WriteClipboard(p) \/ WriteFails(p)

Next ==
  \/ \E p \in Sides : PollStep(p) \/ ApplyStep(p)
  \/ \E p \in Sides, t \in Texts : Copy(p, t)
  \/ Disconnect \/ Reconnect

\* The ticker and the receive loop of each side go on.
Fairness == \A p \in Sides : WF_vars(PollStep(p)) /\ WF_vars(ApplyStep(p))

Spec == Init /\ [][Next]_vars
FairSpec == Spec /\ Fairness
-----------------------------------------------------------------------------
Synced == clip[Mac] = clip[Linux]

\* A copy reaches the other clipboard and stays there, whatever echo the pollers
\* send back on the way.  One that crossed another, or that a lost connection, its
\* own length or a failed write swallowed, leaves the clipboards different but does
\* no harm to the next one, unless the mark that the failed write left is still
\* there: the next poll takes it away.
SettledIsSynced == Settled /\ ~lost /\ crossed = 0 => Synced

\* The pollers stop sending: an echo is not answered by an echo for ever, whatever
\* copies have crossed before the last one.
TrafficStops == []<>(Looked \/ ~connected \/ crossed > 0)
=============================================================================
