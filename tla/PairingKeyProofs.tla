-------------------------- MODULE PairingKeyProofs --------------------------
(***************************************************************************)
(* Module PairingKey keeps the key for any number of starters, any set of  *)
(* keys and every content of the two files, whatever writes and closes     *)
(* fail.                                                                   *)
(*                                                                         *)
(* The inductive invariant says who may change a file that is there:       *)
(* O_EXCL lets one starter at most own it, until it has closed or removed  *)
(* it (OneOwner); until the owner has written, the file is partial, and    *)
(* afterwards it has the owner's key (OwnersFile); and who has started has *)
(* the key that is in it, or a withdrawn one (StartedWithTheKey).          *)
(***************************************************************************)
EXTENDS PairingKey, TLAPS

Owning == {"migrateWrite", "write", "close", "remove"}

OneOwner ==
  \A p, q \in Starters : pc[p] \in Owning /\ pc[q] \in Owning => p = q

\* Only the former version's key is migrated, and only where there is one.
OwnersFile ==
  \A p \in Starters :
    /\ pc[p] \in {"migrateWrite", "write"} => file = Partial
    /\ pc[p] \in {"write", "close"} => secret[p] \in Keys
    /\ pc[p] = "close" => file = secret[p]
    /\ pc[p] = "remove" => file = Partial \/ file \in withdrawn
    /\ pc[p] \in {"migrateCreate", "migrateWrite"} => legacy = LegacyKey

UpHasKey == \A p \in Starters : pc[p] = "up" => secret[p] \in AnyKey

IInv == TypeOK /\ OneOwner /\ OwnersFile /\ UpHasKey /\ StartedWithTheKey

\* No file, a partial file and no key are not keys, and differ.
LEMMA NotKeys ==
  /\ Absent \notin AnyKey /\ Partial \notin AnyKey /\ None \notin AnyKey
  /\ Absent # Partial
BY KeyAssumption DEF AnyKey

\* The file is empty or has a key when the first starter comes.
LEMMA InitInv == Init => IInv
BY DEF Init, IInv, TypeOK, OneOwner, OwnersFile, UpHasKey, StartedWithTheKey, Owning,
   AnyKey

\* A step of starter p that leaves the file alone, or writes or removes it in
\* its turn, keeps the invariant.
LEMMA StepInv ==
  ASSUME IInv, NEW p \in Starters, Step(p)
  PROVE  IInv'
<1> USE NotKeys DEF IInv, TypeOK, AnyKey, Goto
<1>1. CASE Start(p) \/ MigrateRead(p) \/ Load(p) \/ Reload(p)
  <2> USE <1>1 DEF Start, MigrateRead, Load, Reload, IsKey
  <2>1. TypeOK' BY DEF OwnersFile
  <2>2. OneOwner' BY DEF OneOwner, OwnersFile, Owning
  <2>3. OwnersFile' BY DEF OneOwner, OwnersFile, Owning
  <2>4. UpHasKey' BY DEF OwnersFile, UpHasKey
  <2>5. StartedWithTheKey' BY DEF OwnersFile, UpHasKey, StartedWithTheKey
  <2> QED BY <2>1, <2>2, <2>3, <2>4, <2>5
<1>2. CASE MigrateCreate(p) \/ Create(p)
  <2> USE <1>2 DEF MigrateCreate, Create
  <2>1. TypeOK' BY DEF OwnersFile
  <2>2. OneOwner' BY DEF OneOwner, OwnersFile, Owning
  <2>3. OwnersFile' BY DEF OneOwner, OwnersFile, Owning
  <2>4. UpHasKey' BY DEF OwnersFile, UpHasKey
  <2>5. StartedWithTheKey' BY DEF OwnersFile, UpHasKey, StartedWithTheKey
  <2> QED BY <2>1, <2>2, <2>3, <2>4, <2>5
<1>3. CASE MigrateWrite(p) \/ Write(p)
  <2> USE <1>3 DEF MigrateWrite, Write
  <2>1. TypeOK' BY DEF OwnersFile
  <2>2. OneOwner' BY DEF OneOwner, OwnersFile, Owning
  <2>3. OwnersFile' BY DEF OneOwner, OwnersFile, Owning
  <2>4. UpHasKey' BY DEF OwnersFile, UpHasKey
  <2>5. StartedWithTheKey' BY DEF OwnersFile, UpHasKey, StartedWithTheKey
  <2> QED BY <2>1, <2>2, <2>3, <2>4, <2>5
<1>4. CASE Close(p) \/ Exit(p)
  <2> USE <1>4 DEF Close, Exit
  <2>1. TypeOK' BY DEF OwnersFile
  <2>2. OneOwner' BY DEF OneOwner, OwnersFile, Owning
  <2>3. OwnersFile' BY DEF OneOwner, OwnersFile, Owning
  <2>4. UpHasKey' BY DEF OwnersFile, UpHasKey
  <2>5. StartedWithTheKey' BY DEF OwnersFile, UpHasKey, StartedWithTheKey
  <2> QED BY <2>1, <2>2, <2>3, <2>4, <2>5
<1>5. CASE WriteFails(p) \/ CloseFails(p) \/ Remove(p)
  <2> USE <1>5 DEF WriteFails, CloseFails, Remove
  <2>1. TypeOK' BY DEF OwnersFile
  <2>2. OneOwner' BY DEF OneOwner, OwnersFile, Owning
  <2>3. OwnersFile' BY DEF OneOwner, OwnersFile, Owning
  <2>4. UpHasKey' BY DEF OwnersFile, UpHasKey
  <2>5. StartedWithTheKey' BY DEF OwnersFile, UpHasKey, StartedWithTheKey
  <2> QED BY <2>1, <2>2, <2>3, <2>4, <2>5
<1> QED BY <1>1, <1>2, <1>3, <1>4, <1>5 DEF Step

\* IInv holds in every reachable state: O_EXCL, and the order of the writes
\* and the removal, keep it through every interleaving, failure and kill.
THEOREM InvariantIsInductive == Spec => []IInv
<1>1. Init => IInv BY InitInv
<1>2. IInv /\ [Next]_vars => IInv'
  <2> SUFFICES ASSUME IInv, [Next]_vars PROVE IInv' OBVIOUS
  <2>1. CASE Next BY <2>1, StepInv DEF Next
  <2>2. CASE UNCHANGED vars
    BY <2>2 DEF vars, IInv, TypeOK, OneOwner, OwnersFile, UpHasKey, StartedWithTheKey
  <2> QED BY <2>1, <2>2
<1> QED BY <1>1, <1>2, PTL DEF Spec

\* Type correctness: the file holds no key, a partial one or a complete one.
THEOREM TypeCorrect == Spec => []TypeOK
BY InvariantIsInductive, PTL DEF IInv

\* Whoever has started works with the key in the file (LoadOrCreateSecret),
\* unless that file could not be closed and was removed.
THEOREM OneKey == Spec => []StartedWithTheKey
BY InvariantIsInductive, PTL DEF IInv

\* A complete key stays in the file (the O_EXCL of migrateLegacyData and of
\* LoadOrCreateSecret, and the removal after a failed write) as long as its
\* file could be closed.
THEOREM KeyStays == Spec => KeyIsStable
<1>1. ASSUME IInv, NEW p \in Starters, Step(p), file \in AnyKey
      PROVE  file' = file \/ (file' = Absent /\ file \in withdrawn)
  BY <1>1, NotKeys DEF Step, Start, MigrateRead, MigrateCreate, MigrateWrite, Load,
     Create, Reload, Write, Close, WriteFails, CloseFails, Remove, Exit, Goto, IInv,
     OwnersFile
<1>2. IInv /\ [Next]_vars =>
        [(file \in AnyKey) =>
           file' = file \/ (file' = Absent /\ file \in withdrawn)]_vars
  BY <1>1 DEF Next
<1> QED BY <1>2, InvariantIsInductive, PTL DEF Spec, KeyIsStable
=============================================================================
