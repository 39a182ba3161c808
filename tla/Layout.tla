------------------------------- MODULE Layout -------------------------------
(***************************************************************************)
(* The device layout of the menu-bar app, src/cmd/edgehop/main.go: the     *)
(* menu goroutine of onReady saves a choice in config.json and passes it   *)
(* through the channel edgeUpdates, of capacity one, to the goroutine of   *)
(* server.go that calls setRemoteEdge; the app may be killed and started   *)
(* again at any moment.                                                    *)
(*                                                                         *)
(* Abstractions.  Of config.json there is the edge: a valid one, none      *)
(* (Unset: the file or the field is missing) or a file that is no JSON     *)
(* (Broken).  The temporary file that is written before the rename has no  *)
(* reader.  A click while the menu goroutine is busy is lost.  The app is  *)
(* started without the -edge flag.  What setRemoteEdge does to the engine  *)
(* and the client is in modules Engine and Session.                        *)
(***************************************************************************)
EXTENDS Naturals, Sequences

CONSTANTS Unset, Broken,     \* config.json without an edge, and unreadable
          None               \* no edge

Edges == {"left", "right"}

ASSUME LayoutAssumption ==
  Unset \notin Edges /\ Broken \notin Edges /\ None \notin Edges /\ Unset # Broken

VARIABLES
  file,        \* the edge in config.json
  running,     \* the app runs
  menu,        \* where the menu goroutine is
  selected,    \* the edge clicked
  current,     \* the edge the menu takes to be the layout
  updates,     \* the channel edgeUpdates
  applying,    \* the edge the layout goroutine is about to set
  edge         \* e.edge

menuVars == <<menu, selected, current>>
vars == <<file, running, menuVars, updates, applying, edge>>

\* The edge with which the app starts: that of config.json, or the default.
StartEdge == IF file \in Edges THEN file ELSE "right"

Init ==
  /\ file \in Edges \cup {Unset, Broken}
  /\ running = TRUE
  /\ menu = "select" /\ selected = None /\ current = StartEdge
  /\ updates = <<>> /\ applying = None /\ edge = StartEdge
-----------------------------------------------------------------------------
\* A step of the menu goroutine.
At(here, there) ==
  /\ running /\ menu = here
  /\ menu' = there

\* A click on another side than the current one.
Click(e) ==
  /\ e # current
  /\ At("select", "read")
  /\ selected' = e
  /\ UNCHANGED <<file, running, current, updates, applying, edge>>

\* saveRemoteEdge reads the configuration: the edge may be there already.
ReadConfig ==
  /\ file # Broken
  /\ At("read", IF file = selected THEN "saved" ELSE "replace")
  /\ UNCHANGED <<file, running, selected, current, updates, applying, edge>>

\* Mutant: the file is the old one.
MutReplaceConfig ==
  /\ At("replace", "saved")
  /\ UNCHANGED <<file, running, selected, current, updates, applying, edge>>

\* The temporary file is complete and takes the place of config.json.
ReplaceConfig ==
  /\ At("replace", "saved")
  /\ file' = selected
  /\ UNCHANGED <<running, selected, current, updates, applying, edge>>

\* An error of saveRemoteEdge: the file and the layout stay.
SaveFails ==
  /\ At("read", "select") \/ At("replace", "select")
  /\ selected' = None
  /\ UNCHANGED <<file, running, current, updates, applying, edge>>

\* The menu shows the choice.
Check ==
  /\ At("saved", "offer")
  /\ current' = selected
  /\ UNCHANGED <<file, running, selected, updates, applying, edge>>

Room == Len(updates) < 1

Push ==
  /\ updates' = Append(updates, selected)
  /\ selected' = None

\* Mutant: with an update pending, the new one is left out.
MutOffer ==
  /\ At("offer", "select")
  /\ selected' = None
  /\ updates' = IF Room THEN Append(updates, selected) ELSE updates
  /\ UNCHANGED <<file, running, current, applying, edge>>

\* The select: send, or go on to the default branch.
Offer ==
  /\ \/ Room /\ At("offer", "select") /\ Push
     \/ ~Room /\ At("offer", "drain") /\ UNCHANGED <<updates, selected>>
  /\ UNCHANGED <<file, running, current, applying, edge>>

\* The default branch: take the pending update out, which blocks while there
\* is none, and send.
Drain ==
  /\ updates # <<>>
  /\ At("drain", "resend")
  /\ updates' = Tail(updates)
  /\ UNCHANGED <<file, running, selected, current, applying, edge>>

Resend ==
  /\ Room
  /\ At("resend", "select") /\ Push
  /\ UNCHANGED <<file, running, current, applying, edge>>
-----------------------------------------------------------------------------
\* The layout goroutine.
Receive ==
  /\ running /\ applying = None /\ updates # <<>>
  /\ applying' = Head(updates)
  /\ updates' = Tail(updates)
  /\ UNCHANGED <<file, running, menuVars, edge>>

Apply ==
  /\ running /\ applying # None
  /\ edge' = applying
  /\ applying' = None
  /\ UNCHANGED <<file, running, menuVars, updates>>
-----------------------------------------------------------------------------
\* The app quits or is killed.
Stop ==
  /\ running
  /\ running' = FALSE
  /\ UNCHANGED <<file, menuVars, updates, applying, edge>>

\* main, up to the start of the menu and the engine.
Start ==
  /\ ~running
  /\ running' = TRUE
  /\ menu' = "select" /\ selected' = None /\ current' = StartEdge
  /\ updates' = <<>> /\ applying' = None /\ edge' = StartEdge
  /\ UNCHANGED file

MenuStep ==
  ReadConfig \/ ReplaceConfig \/ SaveFails \/ Check \/ Offer \/ Drain \/ Resend

Next ==
  \/ \E e \in Edges : Click(e)
  \/ MenuStep \/ Receive \/ Apply \/ Stop \/ Start

\* Both goroutines go on as long as they are not blocked.
Fairness == WF_vars(MenuStep) /\ WF_vars(Receive) /\ WF_vars(Apply)

Spec == Init /\ [][Next]_vars
FairSpec == Spec /\ Fairness
-----------------------------------------------------------------------------
\* Every variable has its type.
TypeOK ==
  /\ file \in Edges \cup {Unset, Broken} /\ running \in BOOLEAN
  /\ menu \in {"select", "read", "replace", "saved", "offer", "drain", "resend"}
  /\ selected \in Edges \cup {None} /\ current \in Edges
  /\ updates \in Seq(Edges) /\ Len(updates) <= 1
  /\ applying \in Edges \cup {None}
  /\ edge \in Edges

\* Nothing is on its way from the menu to the engine.
Settled == running /\ menu = "select" /\ updates = <<>> /\ applying = None

\* However the clicks, the coalescing and the engine interleave, in the end
\* the engine's edge is the one the menu shows: no update is lost for an
\* earlier one.
EngineFollowsMenu == Settled => edge = current

\* Between two clicks the next start of the app takes the layout the menu
\* shows, through failed saves, kills and an unreadable file.
RestartKeepsLayout == running /\ menu = "select" => StartEdge = current

\* main.go:294, "Coalesce: keep only the latest pending layout update": the
\* menu goroutine comes back for the next click.
MenuReturns == running /\ menu # "select" ~> menu = "select" \/ ~running
=============================================================================
