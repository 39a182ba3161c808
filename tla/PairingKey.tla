----------------------------- MODULE PairingKey -----------------------------
(***************************************************************************)
(* The start of the programs that share a pairing key file:                *)
(* migrateLegacyData in src/cmd/edgehop/main.go and LoadOrCreateSecret in  *)
(* src/internal/secureconn/secret.go.                                      *)
(*                                                                         *)
(* Several starters may run at once (the login item, a launch by hand, the *)
(* command-line server); each system call on a file is a step, a write or  *)
(* close may fail, and a starter may be killed between any two steps.      *)
(*                                                                         *)
(* Abstractions.  A key is a model value; the file holds no, a partial or  *)
(* a complete key.  Of the two files that are migrated only pairing.key is *)
(* here.  Nobody else touches the files, and they can be read.             *)
(***************************************************************************)
CONSTANTS Starters,        \* processes that start
          Apps,            \* those that are the menu-bar app, which migrates
          Keys,            \* keys that can be generated
          LegacyKey,       \* the key of the former version
          Absent,          \* no file
          Partial,         \* a file without a complete key
          None             \* no key

ASSUME KeyAssumption ==
  /\ Apps \subseteq Starters
  /\ LegacyKey \notin Keys
  /\ {Absent, Partial, None} \cap (Keys \cup {LegacyKey}) = {}
  /\ Absent # Partial

VARIABLES
  file,      \* pairing.key
  legacy,    \* pairing.key of the former version
  pc,        \* pc[p]: where starter p is
  secret,    \* secret[p]: the key that p generated or loaded
  withdrawn  \* history: keys whose file could not be closed after the write

vars == <<file, legacy, pc, secret, withdrawn>>

AnyKey == Keys \cup {LegacyKey}

Init ==
  /\ file \in {Absent} \cup Keys
  /\ legacy \in {Absent, LegacyKey}
  /\ pc = [p \in Starters |-> "off"]
  /\ secret = [p \in Starters |-> None]
  /\ withdrawn = {}
-----------------------------------------------------------------------------
Goto(p, here, there) ==
  /\ pc[p] = here
  /\ pc' = [pc EXCEPT ![p] = there]

Start(p) ==
  /\ Goto(p, "off", IF p \in Apps THEN "migrate" ELSE "load")
  /\ UNCHANGED <<file, legacy, secret, withdrawn>>

\* migrateLegacyData: read the former version's file.
MigrateRead(p) ==
  /\ Goto(p, "migrate", IF legacy = Absent THEN "load" ELSE "migrateCreate")
  /\ UNCHANGED <<file, legacy, secret, withdrawn>>

\* Mutant: the file is opened with O_TRUNC.
MutMigrateCreate(p) ==
  /\ Goto(p, "migrateCreate", "migrateWrite")
  /\ file' = Partial
  /\ UNCHANGED <<legacy, secret, withdrawn>>

\* Open the file with O_EXCL: one that exists stays as it is.
MigrateCreate(p) ==
  /\ \/ /\ file = Absent /\ file' = Partial
        /\ Goto(p, "migrateCreate", "migrateWrite")
     \/ /\ file # Absent /\ UNCHANGED file
        /\ Goto(p, "migrateCreate", "load")
  /\ UNCHANGED <<legacy, secret, withdrawn>>

MigrateWrite(p) ==
  /\ Goto(p, "migrateWrite", "load")
  /\ file' = legacy
  /\ UNCHANGED <<legacy, secret, withdrawn>>

\* LoadSecret: only a complete key is one.
IsKey(x) == x \in AnyKey

\* LoadOrCreateSecret: read the file; without one, create it.
Load(p) ==
  /\ \/ IsKey(file) /\ Goto(p, "load", "up")
     \/ file = Absent /\ Goto(p, "load", "create")
  /\ secret' = [secret EXCEPT ![p] = IF file = Absent THEN None ELSE file]
  /\ UNCHANGED <<file, legacy, withdrawn>>

\* Generate a key and open the file with O_EXCL.
Create(p) ==
  /\ \E k \in Keys :
       /\ \A q \in Starters : secret[q] # k
       /\ file # k /\ k \notin withdrawn
       /\ secret' = [secret EXCEPT ![p] = k]
  /\ \/ /\ file = Absent /\ file' = Partial
        /\ Goto(p, "create", "write")
     \/ /\ file # Absent /\ UNCHANGED file
        /\ Goto(p, "create", "reload")
  /\ UNCHANGED <<legacy, withdrawn>>

\* Mutant: the key that was generated is used.
MutReload(p) ==
  /\ IsKey(file)
  /\ Goto(p, "reload", "up")
  /\ UNCHANGED <<file, legacy, secret, withdrawn>>

\* Another starter has created the file: LoadSecret.
Reload(p) ==
  /\ IsKey(file)
  /\ Goto(p, "reload", "up")
  /\ secret' = [secret EXCEPT ![p] = file]
  /\ UNCHANGED <<file, legacy, withdrawn>>

Write(p) ==
  /\ Goto(p, "write", "close")
  /\ file' = secret[p]
  /\ UNCHANGED <<legacy, secret, withdrawn>>

Close(p) ==
  /\ Goto(p, "close", "up")
  /\ UNCHANGED <<file, legacy, secret, withdrawn>>

\* The write fails.
WriteFails(p) ==
  /\ Goto(p, "write", "remove")
  /\ UNCHANGED <<file, legacy, secret, withdrawn>>

\* The write has succeeded and the close fails: the key is complete in the file,
\* where others may load it, until the starter removes it.
CloseFails(p) ==
  /\ Goto(p, "close", "remove")
  /\ withdrawn' = withdrawn \cup {secret[p]}
  /\ UNCHANGED <<file, legacy, secret>>

\* In both cases the file is removed.
Remove(p) ==
  /\ pc[p] = "remove"
  /\ file' = Absent
  /\ pc' = [pc EXCEPT ![p] = "off"]
  /\ secret' = [secret EXCEPT ![p] = None]
  /\ UNCHANGED <<legacy, withdrawn>>

\* A starter ends: it stops, is killed, or gives up with an error (a write of
\* the migration fails, LoadSecret finds no complete key).
Exit(p) ==
  /\ pc[p] # "off"
  /\ pc' = [pc EXCEPT ![p] = "off"]
  /\ secret' = [secret EXCEPT ![p] = None]
  /\ UNCHANGED <<file, legacy, withdrawn>>

Step(p) ==
  \/ Start(p) \/ MigrateRead(p) \/ MigrateCreate(p) \/ MigrateWrite(p)
  \/ Load(p) \/ Create(p) \/ Reload(p) \/ Write(p) \/ Close(p)
  \/ WriteFails(p) \/ CloseFails(p) \/ Remove(p) \/ Exit(p)

Next == \E p \in Starters : Step(p)

Spec == Init /\ [][Next]_vars
-----------------------------------------------------------------------------
\* Every variable has its type.
TypeOK ==
  /\ file \in {Absent, Partial} \cup AnyKey
  /\ legacy \in {Absent, LegacyKey}
  /\ pc \in [Starters -> {"off", "migrate", "migrateCreate", "migrateWrite", "load",
                          "create", "reload", "write", "close", "remove", "up"}]
  /\ secret \in [Starters -> AnyKey \cup {None}]
  /\ withdrawn \subseteq Keys

\* Whoever has started works with the key that is in the file, so with the
\* key of everybody else, of the clients paired with it and of every later
\* start, however the starts interleave and fail; the only exception is a key
\* whose file could not be closed.
StartedWithTheKey ==
  \A p \in Starters : pc[p] = "up" => secret[p] = file \/ secret[p] \in withdrawn

\* A complete key is never replaced: not by a generated one, nor by the key of
\* the former version; and it is removed only if its file could not be closed.
KeyIsStable ==
  [][(file \in AnyKey) =>
       file' = file \/ (file' = Absent /\ file \in withdrawn)]_vars
=============================================================================
