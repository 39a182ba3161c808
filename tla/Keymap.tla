------------------------------- MODULE Keymap -------------------------------
(***************************************************************************)
(* The key codes of the wire: src/internal/keymap/keymap.go, which maps    *)
(* macOS virtual key codes to Linux evdev codes, and the button codes of   *)
(* src/internal/client/uinput_linux.go.                                    *)
(***************************************************************************)
EXTENDS Integers

\* Pairs of a macOS key code and its evdev code; 0 drops the key.
macToEvdev == {
  <<0,30>>, <<1,31>>, <<2,32>>, <<3,33>>, <<4,35>>, <<5,34>>, <<6,44>>,
  <<7,45>>, <<8,46>>, <<9,47>>, <<11,48>>, <<12,16>>, <<13,17>>, <<14,18>>,
  <<15,19>>, <<16,21>>, <<17,20>>, <<18,2>>, <<19,3>>, <<20,4>>, <<21,5>>,
  <<22,7>>, <<23,6>>, <<24,13>>, <<25,10>>, <<26,8>>, <<27,12>>, <<28,9>>,
  <<29,11>>, <<30,27>>, <<31,24>>, <<32,22>>, <<33,26>>, <<34,23>>, <<35,25>>,
  <<36,28>>, <<37,38>>, <<38,36>>, <<39,40>>, <<40,37>>, <<41,39>>, <<42,43>>,
  <<43,51>>, <<44,53>>, <<45,49>>, <<46,50>>, <<47,52>>, <<48,15>>, <<49,57>>,
  <<50,41>>, <<51,14>>, <<53,1>>, <<54,126>>, <<55,125>>, <<56,42>>, <<57,58>>,
  <<58,56>>, <<59,29>>, <<60,54>>, <<61,100>>, <<62,97>>, <<63,0>>, <<64,187>>,
  <<65,83>>, <<67,55>>, <<69,78>>, <<71,69>>, <<72,115>>, <<73,114>>,
  <<74,113>>, <<75,98>>, <<76,96>>, <<78,74>>, <<79,188>>, <<80,189>>,
  <<81,117>>, <<82,82>>, <<83,79>>, <<84,80>>, <<85,81>>, <<86,75>>, <<87,76>>,
  <<88,77>>, <<89,71>>, <<90,190>>, <<91,72>>, <<92,73>>, <<96,63>>, <<97,64>>,
  <<98,65>>, <<99,61>>, <<100,66>>, <<101,67>>, <<103,87>>, <<105,183>>,
  <<106,186>>, <<107,184>>, <<109,68>>, <<111,88>>, <<113,185>>, <<115,102>>,
  <<116,104>>, <<117,111>>, <<118,62>>, <<119,107>>, <<120,60>>, <<121,109>>,
  <<122,59>>, <<123,105>>, <<124,106>>, <<125,108>>, <<126,103>>}

\* Mutant: F20 has the code of Command.
MutToEvdev(k) == IF k = 90 THEN 125
                 ELSE IF \E p \in macToEvdev : p[1] = k
                 THEN (CHOOSE p \in macToEvdev : p[1] = k)[2] ELSE 0

\* ToEvdev; 0 for a key without a counterpart.
ToEvdev(k) == IF \E p \in macToEvdev : p[1] = k
              THEN (CHOOSE p \in macToEvdev : p[1] = k)[2] ELSE 0

btnLeft == 272
btnRight == 273
btnMiddle == 274
keyMax == 767

\* What the protocol calls a button, from the number macOS gives it: every
\* button other than the first two is the middle one (forwardRemoteLocked).
ButtonLeft == 1
ButtonRight == 2
ButtonMiddle == 3
ButtonOf(b) == IF b = 0 THEN ButtonLeft ELSE IF b = 1 THEN ButtonRight ELSE ButtonMiddle

\* VirtualDevice.MouseButton: the evdev code of a protocol button.
ButtonCode(btn) ==
  IF btn = ButtonLeft THEN btnLeft ELSE IF btn = ButtonRight THEN btnRight
  ELSE IF btn = ButtonMiddle THEN btnMiddle ELSE 0

\* The table is a function, no two keys share a code, and every code is one
\* that the client's releaseAll sweeps.
ASSUME KeymapAssumption ==
  /\ \A p, q \in macToEvdev : (p[1] = q[1] => p = q) /\ (p[2] = q[2] => p = q)
  /\ \A p \in macToEvdev : p[1] \in Nat /\ p[2] \in 0..255
=============================================================================
