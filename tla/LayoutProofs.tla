---------------------------- MODULE LayoutProofs ----------------------------
(***************************************************************************)
(* The layout that the menu shows is the one that the engine ends up with  *)
(* and the one that the next start takes: the proofs for module Layout.    *)
(*                                                                         *)
(* The inductive invariant follows a choice on its way: until it is saved  *)
(* the file has the layout that the menu shows; until it is offered the    *)
(* newest update that the engine has or is about to get is that layout;    *)
(* from then on it is the choice that the menu goroutine holds.            *)
(***************************************************************************)
EXTENDS Layout, SequenceTheorems, TLAPS

\* The edge that the engine has once it has taken what it was sent.
Newest ==
  IF updates # <<>> THEN updates[1]
  ELSE IF applying # None THEN applying ELSE edge

Undecided == menu \in {"select", "read", "replace"}
Sending == menu \in {"offer", "drain", "resend"}

FileInv ==
  running =>
    /\ Undecided => StartEdge = current
    /\ ~Undecided => file = selected

UpdateInv ==
  running =>
    /\ menu # "select" => selected \in Edges
    /\ ~Sending => Newest = current
    /\ Sending => selected = current

IInv == TypeOK /\ FileInv /\ UpdateInv

\* The channel takes one update.
LEMMA ChannelFacts ==
  ASSUME updates \in Seq(Edges), Len(updates) <= 1
  PROVE  /\ updates # <<>> =>
              Head(updates) = updates[1] /\ Head(updates) \in Edges /\ Tail(updates) = <<>>
         /\ Len(updates) < 1 => updates = <<>>
         /\ \A e \in Edges : /\ Append(<<>>, e) \in Seq(Edges)
                             /\ Len(Append(<<>>, e)) = 1
                             /\ Append(<<>>, e) # <<>> /\ Append(<<>>, e)[1] = e
         /\ <<>> \in Seq(Edges) /\ Len(<<>>) = 0
<1>1. updates # <<>> => Len(updates) = 1
  <2>1. Len(updates) \in Nat /\ (Len(updates) = 0 <=> updates = <<>>)
    BY EmptySeq, LenProperties
  <2>2. ASSUME NEW n \in Nat, n <= 1, n # 0 PROVE n = 1 BY <2>2
  <2> QED BY <2>1, <2>2
<1>2. updates # <<>> =>
        Head(updates) = updates[1] /\ Head(updates) \in Edges /\ Tail(updates) = <<>>
  BY <1>1
<1>3. Len(updates) < 1 => updates = <<>> BY EmptySeq, LenProperties
<1> QED BY <1>2, <1>3

\* The menu and the engine start with the same edge (onReady, newEngine).
LEMMA InitInv == Init => IInv
BY LayoutAssumption DEF Init, IInv, TypeOK, FileInv, UpdateInv, Newest, Undecided,
   Sending, StartEdge, Edges

\* Every step keeps the invariant.
LEMMA NextInv == IInv /\ [Next]_vars => IInv'
<1> SUFFICES ASSUME IInv, [Next]_vars PROVE IInv'
  OBVIOUS
<1> USE LayoutAssumption DEF IInv, TypeOK, At
<1>0. updates \in Seq(Edges) /\ Len(updates) <= 1 OBVIOUS
<1>1. CASE (\E e \in Edges : Click(e)) \/ ReadConfig \/ ReplaceConfig \/ SaveFails \/ Check
  <2>1. TypeOK' BY <1>1 DEF Click, ReadConfig, ReplaceConfig, SaveFails, Check, UpdateInv
  <2>2. FileInv'
    BY <1>1 DEF Click, ReadConfig, ReplaceConfig, SaveFails, Check, FileInv,
       UpdateInv, Undecided, StartEdge
  <2>3. UpdateInv'
    BY <1>1 DEF Click, ReadConfig, ReplaceConfig, SaveFails, Check, UpdateInv,
       Sending, Newest
  <2> QED BY <2>1, <2>2, <2>3
<1>2. CASE Offer \/ Drain \/ Resend
  <2>0. running /\ Sending /\ selected \in Edges /\ selected = current /\ file = selected
    BY <1>2 DEF Offer, Drain, Resend, FileInv, UpdateInv, Sending, Undecided
  <2>1. TypeOK'
    <3>1. CASE Room /\ Push /\ menu' = "select" /\ UNCHANGED <<file, running, current, applying, edge>>
      <4>1. updates' = Append(<<>>, selected)
        BY <1>0, <3>1, ChannelFacts DEF Push, Room
      <4>2. updates' \in Seq(Edges) /\ Len(updates') <= 1
        BY <1>0, <2>0, <4>1, ChannelFacts
      <4>3. UNCHANGED <<file, running, current, applying, edge>> /\ selected' = None
        BY <3>1 DEF Push
      <4> QED BY <3>1, <4>2, <4>3
    <3>2. CASE /\ menu' \in {"drain", "resend"} /\ updates' \in {updates, <<>>}
               /\ UNCHANGED <<file, running, selected, current, applying, edge>>
      <4>1. updates' \in Seq(Edges) /\ Len(updates') <= 1
        <5>1. CASE updates' = updates BY <1>0, <5>1
        <5>2. CASE updates' = <<>> BY <1>0, <5>2, ChannelFacts
        <5> QED BY <3>2, <5>1, <5>2
      <4> QED BY <3>2, <4>1
    <3> QED BY <1>0, <1>2, <3>1, <3>2, ChannelFacts DEF Offer, Drain, Resend
  <2>2. FileInv'
    BY <1>2, <2>0 DEF Offer, Drain, Resend, Push, FileInv, Undecided, StartEdge
  <2>3. UpdateInv'
    <3>1. CASE Room /\ Push /\ menu' = "select"
      BY <1>0, <1>2, <2>0, <3>1, ChannelFacts
      DEF Offer, Drain, Resend, Push, Room, UpdateInv, Sending, Newest
    <3>2. CASE menu' \in {"drain", "resend"} /\ selected' = selected
      BY <1>2, <2>0, <3>2 DEF Offer, Drain, Resend, UpdateInv, Sending
    <3> QED BY <1>2, <3>1, <3>2 DEF Offer, Drain, Resend
  <2> QED BY <2>1, <2>2, <2>3
<1>3. CASE Receive \/ Apply
  <2>1. TypeOK' BY <1>0, <1>3, ChannelFacts DEF Receive, Apply, menuVars
  <2>2. FileInv' BY <1>3 DEF Receive, Apply, menuVars, FileInv, Undecided, StartEdge
  <2>3. Newest' = Newest
    BY <1>0, <1>3, ChannelFacts DEF Receive, Apply, Newest
  <2>4. UpdateInv' BY <1>3, <2>3 DEF Receive, Apply, menuVars, UpdateInv, Sending
  <2> QED BY <2>1, <2>2, <2>4
<1>4. CASE Stop \/ Start
  <2>1. CASE Stop
    BY <2>1 DEF Stop, menuVars, FileInv, UpdateInv
  <2>2. CASE Start
    <3>1. TypeOK' BY <1>0, <2>2, ChannelFacts DEF Start, StartEdge, Edges
    <3>2. FileInv' BY <2>2 DEF Start, FileInv, Undecided, StartEdge
    <3>3. UpdateInv' BY <2>2 DEF Start, UpdateInv, Newest, Sending
    <3> QED BY <3>1, <3>2, <3>3
  <2> QED BY <1>4, <2>1, <2>2
<1>5. CASE UNCHANGED vars
  BY <1>5 DEF vars, menuVars, FileInv, UpdateInv, Newest, Undecided, Sending, StartEdge
<1> QED BY <1>1, <1>2, <1>3, <1>4, <1>5 DEF Next, MenuStep

\* IInv holds in every reachable state, so that a choice is in exactly one
\* place on its way, through failed saves, coalescing, kills and restarts.
THEOREM InvariantIsInductive == Spec => []IInv
BY InitInv, NextInv, PTL DEF Spec

\* Type correctness: never more than one update waits in edgeUpdates.
THEOREM TypeCorrect == Spec => []TypeOK
BY InvariantIsInductive, PTL DEF IInv

\* No update is lost for an earlier one (the select of onReady and its default
\* branch): the engine ends up with the edge that the menu shows.
THEOREM EngineFollows == Spec => []EngineFollowsMenu
<1>1. IInv => EngineFollowsMenu
  BY DEF IInv, UpdateInv, Newest, Sending, EngineFollowsMenu, Settled
<1> QED BY <1>1, InvariantIsInductive, PTL

\* The next start takes the layout that the menu shows (saveRemoteEdge).
THEOREM RestartKeeps == Spec => []RestartKeepsLayout
<1>1. IInv => RestartKeepsLayout
  BY DEF IInv, FileInv, Undecided, RestartKeepsLayout
<1> QED BY <1>1, InvariantIsInductive, PTL
=============================================================================
