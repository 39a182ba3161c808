------------------------------ MODULE Sharing ------------------------------
(***************************************************************************)
(* What the Mac side of EdgeHop promises about input control, without the  *)
(* edges, hotkeys and timers by which it keeps the promise.                *)
(*                                                                         *)
(* One owner has the keyboard and the pointer.  Control is handed over     *)
(* only while sharing is available, and only at an instant at which no     *)
(* tracked input is held; the step that suspends sharing is the step that  *)
(* takes control back; and a lost client gives control back eventually.    *)
(* Module Engine implements this specification.                            *)
(***************************************************************************)
CONSTANT Inputs          \* the keys and the mouse buttons

VARIABLES owner,         \* who receives the input: "local" or "remote"
          suspended,     \* macOS cannot provide complete capture
          linked,        \* a client is connected
          held           \* the inputs known to be held down

vars == <<owner, suspended, linked, held>>

Local == "local"
Remote == "remote"

Init ==
  /\ owner = Local
  /\ suspended \in BOOLEAN
  /\ linked = FALSE
  /\ held = {}

\* Control goes to the client: nothing is held once the step is taken.
HandOver ==
  /\ owner = Local /\ owner' = Remote
  /\ ~suspended
  /\ held' = {}
  /\ UNCHANGED <<suspended, linked>>

\* Control returns to the Mac, at any time and whatever is held.
TakeBack ==
  /\ owner = Remote /\ owner' = Local
  /\ held' \in SUBSET Inputs
  /\ UNCHANGED <<suspended, linked>>

\* Sharing becomes unavailable or available again; either way the Mac has
\* control and everything known about held inputs is forgotten.
Suspend ==
  /\ suspended' \in BOOLEAN
  /\ owner' = Local
  /\ held' = {}
  /\ UNCHANGED linked

\* Inputs are pressed and released while sharing is available.
Track ==
  /\ ~suspended
  /\ held' \in SUBSET Inputs
  /\ UNCHANGED <<owner, suspended, linked>>

Link ==
  /\ linked' = ~linked
  /\ UNCHANGED <<owner, suspended, held>>

Next == HandOver \/ TakeBack \/ Suspend \/ Track \/ Link

\* A client that stays away does not keep the Mac's input.
Reclaimed == ~linked ~> (linked \/ owner = Local)

Spec == Init /\ [][Next]_vars /\ Reclaimed
=============================================================================
