---------------------------- MODULE FrontPanel ----------------------------
(***************************************************************************)
(* The keys of the clock (switch.h) on top of the matrix scan.  The keys   *)
(* share one input pin; a key pulls it low while it is down and its row is *)
(* lit.  The timer interrupt samples the pin once per line, right after    *)
(* enabling the row, and reports a key when it is released.  The main      *)
(* thread takes the reports in handleButtons(), clearing each bit of       *)
(* _buttonPressed with a load and a store that an interrupt can separate.  *)
(***************************************************************************)
EXTENDS DisplayScan, Sequences

CONSTANTS Buttons,     \* the order handleButtons() asks for them: a sequence of rows
          MaxPresses   \* bound: how often a key goes down

ASSUME PanelConstants ==
  /\ Buttons \in Seq(Rows) /\ Buttons # <<>>
  /\ MaxPresses \in Nat

VARIABLES
  down,            \* keys held down
  buttonBuffer,    \* keys seen down and not yet up, a set of bits
  buttonPressed,   \* _buttonPressed: keys to report, a set of bits
  asked,           \* index in Buttons of the question asked next
  reg,             \* buttonPressed as loaded for clearing a bit, or NotLoaded
  presses, taken   \* auxiliary: how often a key went down, how often it was
                   \* taken by handleButtons()

keyVars == <<down, buttonBuffer, buttonPressed, asked, reg, presses, taken>>
panelVars == <<vars, keyVars>>

NotLoaded == {NoLine}
Keys == {Buttons[i] : i \in DOMAIN Buttons}

PanelTypeOK ==
  /\ TypeOK
  /\ down \in SUBSET Keys
  /\ buttonBuffer \in SUBSET Rows /\ buttonPressed \in SUBSET Rows
  /\ asked \in DOMAIN Buttons
  /\ reg \in {NotLoaded} \cup SUBSET Rows
  /\ presses \in [Keys -> 0 .. MaxPresses] /\ taken \in [Keys -> Nat]

-----------------------------------------------------------------------------
(* swPin() after LedEnableShiftClock(): low if a key of a lit row is down. *)
PinLow == \E k \in down : ~rowReg'[k]

BadUpdateButton(flag) ==
  /\ buttonBuffer' = IF PinLow THEN buttonBuffer \cup flag ELSE buttonBuffer
  /\ buttonPressed' = IF ~PinLow /\ buttonBuffer \cap flag # {}
                      THEN buttonPressed \cup flag ELSE buttonPressed

(* updateButton(flag), flag being lineBit before it is shifted. *)
UpdateButton(flag) ==
  IF PinLow
  THEN /\ buttonBuffer' = buttonBuffer \cup flag
       /\ UNCHANGED buttonPressed
  ELSE /\ buttonPressed' = buttonPressed \cup (buttonBuffer \cap flag)
       /\ buttonBuffer' = buttonBuffer \ flag

(* The timer interrupt: only ShowLine gets to updateButton(). *)
ScanKeys ==
  /\ ShowLine
  /\ UpdateButton(lineBit)
  /\ UNCHANGED <<down, asked, reg, presses, taken>>

OtherInterrupt ==
  /\ BlankLine \/ ClockLocked \/ TransferBusy \/ DataRegisterEmpty
  /\ UNCHANGED keyVars

(* setupSwitch() when main() starts again. *)
Restart ==
  /\ Reset
  /\ buttonBuffer' = {} /\ buttonPressed' = {}
  /\ asked' = 1 /\ reg' = NotLoaded
  /\ UNCHANGED <<down, presses, taken>>

-----------------------------------------------------------------------------
(* The user. *)
KeyDown(k) ==
  /\ k \notin down /\ presses[k] < MaxPresses
  /\ down' = down \cup {k}
  /\ presses' = [presses EXCEPT ![k] = @ + 1]
  /\ UNCHANGED <<vars, buttonBuffer, buttonPressed, asked, reg, taken>>

KeyUp(k) ==
  /\ k \in down
  /\ down' = down \ {k}
  /\ UNCHANGED <<vars, buttonBuffer, buttonPressed, asked, reg, presses, taken>>

(* The main thread, buttonPressed(b): test, load, and store without the bit.
   (The action taken for the button is in other modules.) *)
AfterAsked == IF asked = Len(Buttons) THEN 1 ELSE asked + 1

NotPressed ==
  /\ reg = NotLoaded /\ Buttons[asked] \notin buttonPressed
  /\ asked' = AfterAsked
  /\ UNCHANGED <<vars, down, buttonBuffer, buttonPressed, reg, presses, taken>>

LoadPressed ==
  /\ reg = NotLoaded /\ Buttons[asked] \in buttonPressed
  /\ reg' = buttonPressed
  /\ UNCHANGED <<vars, down, buttonBuffer, buttonPressed, asked, presses, taken>>

BadCleared(b) == reg \cap {b}
Cleared(b)    == reg \ {b}

StoreCleared ==
  /\ reg # NotLoaded
  /\ buttonPressed' = Cleared(Buttons[asked])
  /\ taken' = [taken EXCEPT ![Buttons[asked]] = @ + 1]
  /\ reg' = NotLoaded
  /\ asked' = AfterAsked
  /\ UNCHANGED <<vars, down, buttonBuffer, presses>>

(* The rest of the main thread: swaps, flushes, reads of the clock. *)
OtherMain == MainThread /\ UNCHANGED keyVars

PanelInit ==
  /\ Init
  /\ down = {} /\ buttonBuffer = {} /\ buttonPressed = {}
  /\ asked = 1 /\ reg = NotLoaded
  /\ presses = [k \in Keys |-> 0] /\ taken = [k \in Keys |-> 0]

PanelNext ==
  \/ ScanKeys \/ OtherInterrupt \/ Restart
  \/ \E k \in Keys : KeyDown(k) \/ KeyUp(k)
  \/ NotPressed \/ LoadPressed \/ StoreCleared \/ OtherMain

PanelSpec == PanelInit /\ [][PanelNext]_panelVars

-----------------------------------------------------------------------------
(* No press is reported twice and none is made up: what handleButtons() took
   for a key, with what it is about to take and what is still being watched,
   never exceeds how often the key went down -- whatever other keys are held,
   whatever the row register holds after a start, and although clearing a bit
   races with the interrupt that sets bits. *)
BeingWatched(k) == IF k \in buttonBuffer THEN 1 ELSE 0
BeingReported(k) ==
  IF k \in buttonPressed \/ (reg # NotLoaded /\ Buttons[asked] = k) THEN 1 ELSE 0

NoPhantomPress ==
  \A k \in Keys : taken[k] + BeingReported(k) + BeingWatched(k) <= presses[k]

(* A report is lost only where the source cannot help it: when it arrives while
   handleButtons() clears the bit of another key, between load and store. *)
LostOnlyInTheRace ==
  \A k \in Keys :
    k \in buttonPressed /\ k \notin buttonPressed' =>
      Restart \/ Buttons[asked] = k \/ k \notin reg

(* What handleButtons() sees of a key is what was done to it: nothing is made up,
   and nothing is lost but in the race. *)
KeysAreReportedOnce == [][NoPhantomPress' /\ LostOnlyInTheRace]_panelVars
=============================================================================
