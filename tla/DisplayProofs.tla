---------------------------- MODULE DisplayProofs ----------------------------
(***************************************************************************)
(* The safety of the matrix scan for every number of lines, frames and     *)
(* bytes: ScanInv is inductive, and what the panel shows follows from it.  *)
(*                                                                         *)
(* Then the keys on its rows, for any number of rows and any keys on them: *)
(* that a key is not taken for another rests on the scan, since the row    *)
(* whose bit the interrupt looks at is the only one that pulls the pin low.*)
(*                                                                         *)
(* Then the main loop: it is one of the main threads the scan allows for,  *)
(* and it feeds the watchdog in time whenever the limit covers a transfer, *)
(* three reads of the clock and a line.                                    *)
(***************************************************************************)
EXTENDS FrontPanel, DisplayLoop, TLAPS

(* A remainder lies below its divisor: current_ticks stays in its width. *)
LEMMA ModInRange == ASSUME NEW m \in Nat \ {0}, NEW a \in Nat PROVE a % m \in 0 .. m - 1
  OBVIOUS

(* The scan starts in a state ScanInv describes. *)
LEMMA InitScanInv == Init => ScanInv
<1> SUFFICES ASSUME Init PROVE ScanInv
  OBVIOUS
<1> USE ScanConstants
<1>1. TypeOK
  <2>1. 1 % TickMod \in 0 .. TickMod - 1
    BY ModInRange
  <2>2. 0 \in Frames /\ 0 \in 0 .. LineSize - 1
    BY DEF Frames
  <2>3. /\ NoTransfer \in [buf : Buffers, frame : Frames, line : Rows \cup {NoLine},
                           left : 0 .. LineSize - 1, torn : BOOLEAN]
        /\ NoData \in Stored
    BY <2>2 DEF NoTransfer, NoData, Stored, Buffers
  <2>4. QED
    BY <2>1, <2>2, <2>3 DEF Init, TypeOK, Buffers, StartBit
<1>2. /\ oe <=> ~waitClear
      /\ ButtonBitIsRow
      /\ line = NoLine => lineBit = {} /\ frame = 0 /\ waitClear
      /\ TransferIsNextLine
      /\ LatchIsPreviousLine
      /\ RowsKnown
      /\ TimerIsFrames
      /\ TornInTransfer
  BY DEF Init, ButtonBitIsRow, TransferIsNextLine, LatchIsPreviousLine, RowsKnown,
         TornInTransfer, TimerIsFrames, SPIfinished, NoData, NoTransfer, StartBit
<1>3. QED
  BY <1>1, <1>2 DEF ScanInv

(* Lighting the next line is the step that moves everything at once. *)
LEMMA ShowLineKeepsScanInv ==
  ASSUME ScanInv, ShowLine PROVE ScanInv'
<1> USE ScanConstants DEF NoLine, Rows, Frames, Buffers, RowData
<1>1. /\ TypeOK /\ (oe <=> ~waitClear) /\ ButtonBitIsRow
      /\ line = NoLine => lineBit = {} /\ frame = 0 /\ waitClear
      /\ TransferIsNextLine /\ LatchIsPreviousLine /\ RowsKnown
      /\ TimerIsFrames
      /\ TornInTransfer
  BY DEF ScanInv
<1>2. line' \in Rows /\ frame' \in Frames
  BY <1>1 DEF ShowLine, NextLine, NextFrame, LastLine, LastFrame, TypeOK
<1>3. lineBit' = {} \/ lineBit' = {line'}
  <2>1. CASE LastLine
    BY <2>1 DEF ShowLine, NextLine, NextBit
  <2>2. CASE ~LastLine /\ lineBit = {}
    BY <2>2 DEF ShowLine, NextLine, NextBit
  <2>3. CASE ~LastLine /\ lineBit = {line}
    <3>1. line # NoLine
      BY <1>1, <2>3
    <3>2. QED
      BY <2>3, <3>1 DEF ShowLine, NextLine, NextBit
  <2>4. QED
    BY <1>1, <2>1, <2>2, <2>3 DEF ButtonBitIsRow
<1>4. latch' \in Stored /\ latch'.frame = frame /\ latch'.line = line
  <2>1. (spi.torn \/ ~SPIfinished) \in BOOLEAN
    OBVIOUS
  <2>2. QED
    BY <1>1, <2>1 DEF ShowLine, StoreLine, TransferIsNextLine, TypeOK, Stored
<1>5. TypeOK'
  <2>1. lineBit' \in SUBSET Rows
    BY <1>2, <1>3
  <2>2. spi' \in [buf : Buffers, frame : Frames, line : Rows \cup {NoLine},
                  left : 0 .. LineSize - 1, torn : BOOLEAN]
    BY <1>1, <1>2 DEF ShowLine, FillLineShift, Transfer, TypeOK
  <2>3. ticks' \in 0 .. TickMod - 1 /\ ocr' \in Frames
    <3>1. (ticks + 1) % TickMod \in 0 .. TickMod - 1
      <4>1. ticks + 1 \in Nat
        BY <1>1 DEF TypeOK
      <4>2. QED
        BY <4>1, ModInRange
    <3>2. QED
      BY <1>1, <3>1 DEF ShowLine, SetDisplayTimer, TypeOK
  <2>4. rowReg' \in [Rows -> BOOLEAN]
    <3>1. \A r \in Rows : r # 0 => r - 1 \in Rows
      OBVIOUS
    <3>2. rowReg \in [Rows -> BOOLEAN] /\ rowReg' = Shifted(line # 0)
      BY <1>1 DEF ShowLine, TypeOK
    <3>3. QED
      BY <3>1, <3>2, Zenon DEF Shifted
  <2>5. latch' \in Stored
    BY <1>1, <1>4 DEF TypeOK, Stored
  <2>6. tornShown' \in Nat
    BY <1>1 DEF ShowLine, StoreLine, TypeOK
  <2>7. QED
    BY <1>1, <1>2, <2>1, <2>2, <2>3, <2>4, <2>5, <2>6 DEF ShowLine, TypeOK
<1>6. (oe <=> ~waitClear)' /\ line' # NoLine
  BY <1>2 DEF ShowLine
<1>7. ButtonBitIsRow'
  BY <1>3 DEF ButtonBitIsRow
<1>8. TransferIsNextLine'
  BY DEF ShowLine, FillLineShift, Transfer, TransferIsNextLine
<1>9. LatchIsPreviousLine'
  BY <1>1, <1>4 DEF ShowLine, LatchIsPreviousLine, NextLine, NextBit, NextFrame,
                    LastLine, LastFrame, TypeOK
<1>10. RowsKnown'
  <2> SUFFICES ASSUME latch'.line # NoLine, NEW r \in Rows,
                      r <= latch'.line \/ lineBit' # {}
               PROVE ~rowReg'[r] <=> r = latch'.line
    BY <1>6 DEF RowsKnown
  <2>1. latch'.line = line /\ line \in Rows
    BY <1>1, <1>4 DEF TypeOK
  <2>2. rowReg'[r] = IF r = 0 THEN line # 0 ELSE rowReg[r - 1]
    BY DEF ShowLine, Shifted
  <2>3. CASE r = 0
    BY <2>1, <2>2, <2>3
  <2>4. CASE r # 0
    <3>1. r - 1 \in Rows
      BY <2>4
    <3>2. r <= line \/ lineBit # {}
      BY <2>1 DEF ShowLine, NextBit, LastLine
    <3>3. CASE line = 0
      <4>1. lineBit # {}
        BY <2>4, <3>2, <3>3
      <4>2. latch.line = NumLines - 1
        <5>1. latch.line \in Rows \cup {NoLine}
          BY <1>1 DEF TypeOK, Stored
        <5>2. QED
          BY <1>1, <2>1, <3>3, <4>1, <5>1 DEF LatchIsPreviousLine
      <4>3. ~rowReg[r - 1] <=> r - 1 = NumLines - 1
        BY <1>1, <2>1, <3>1, <4>1, <4>2 DEF RowsKnown
      <4>4. QED
        BY <2>1, <2>2, <2>4, <3>3, <4>3
    <3>4. CASE line # 0
      <4>1. latch.line = line - 1 /\ latch.line # NoLine
        BY <1>1, <2>1, <3>4 DEF LatchIsPreviousLine, TypeOK, Stored
      <4>2. r - 1 <= latch.line \/ lineBit # {}
        BY <2>1, <3>2, <4>1
      <4>3. ~rowReg[r - 1] <=> r - 1 = latch.line
        BY <1>1, <2>1, <3>1, <4>1, <4>2 DEF RowsKnown
      <4>4. QED
        BY <2>1, <2>2, <2>4, <4>1, <4>3
    <3>5. QED
      BY <3>3, <3>4
  <2>5. QED
    BY <2>3, <2>4
<1>11. TimerIsFrames'
  <2> SUFFICES ASSUME latch'.line # NoLine PROVE ocr' = latch'.frame
    BY DEF TimerIsFrames
  <2>1. line \in Rows /\ latch'.frame = frame
    BY <1>1, <1>4 DEF TypeOK
  <2>2. CASE line = 0
    BY <2>1, <2>2 DEF ShowLine, SetDisplayTimer
  <2>3. CASE line # 0
    <3>1. latch.line # NoLine /\ frame = latch.frame
      BY <1>1, <2>1, <2>3 DEF LatchIsPreviousLine
    <3>2. QED
      BY <1>1, <2>1, <2>3, <3>1 DEF ShowLine, SetDisplayTimer, TimerIsFrames
  <2>4. QED
    BY <2>2, <2>3
<1>12. TornInTransfer'
  BY <1>1 DEF ShowLine, StoreLine, FillLineShift, Transfer, TornInTransfer, TypeOK
<1>13. QED
  BY <1>5, <1>6, <1>7, <1>8, <1>9, <1>10, <1>11, <1>12 DEF ScanInv

(* Every step keeps ScanInv. *)
LEMMA NextScanInv == ScanInv /\ [Next]_vars => ScanInv'
<1> SUFFICES ASSUME ScanInv, [Next]_vars PROVE ScanInv'
  OBVIOUS
<1> USE ScanConstants
<1>1. CASE ShowLine
  BY <1>1, ShowLineKeepsScanInv
<1>2. /\ TypeOK /\ (oe <=> ~waitClear) /\ ButtonBitIsRow
      /\ line = NoLine => lineBit = {} /\ frame = 0 /\ waitClear
      /\ TransferIsNextLine /\ LatchIsPreviousLine /\ RowsKnown
      /\ TimerIsFrames /\ TornInTransfer
  BY DEF ScanInv
<1>3. UNCHANGED <<line, lineBit, frame, ocr, rowReg, latch>> =>
        ButtonBitIsRow' /\ LatchIsPreviousLine' /\ RowsKnown' /\ TimerIsFrames'
  BY <1>2 DEF ButtonBitIsRow, LatchIsPreviousLine, RowsKnown, TimerIsFrames
<1>4. CASE BlankLine
  <2>1. TypeOK'
    BY <1>2, <1>4 DEF BlankLine, isrVars, TypeOK
  <2>2. TransferIsNextLine' /\ TornInTransfer'
    BY <1>2, <1>4 DEF BlankLine, isrVars, TransferIsNextLine, TornInTransfer, SPIfinished
  <2>3. QED
    BY <1>2, <1>3, <1>4, <2>1, <2>2 DEF BlankLine, isrVars, ScanInv
<1>5. CASE \/ ClockLocked \/ TransferBusy \/ Flush \/ LockClock \/ UnlockClock
           \/ UNCHANGED vars
  <2>1. UNCHANGED <<isrVars, spi, displayBuffer, oe, waitClear>>
    BY <1>5 DEF ClockLocked, TransferBusy, Flush, LockClock, UnlockClock, vars, isrVars
  <2>2. lock' \in BOOLEAN /\ switchBuffer' \in BOOLEAN /\ clockLock' \in BOOLEAN
    BY <1>2, <1>5, Zenon DEF ClockLocked, TransferBusy, Flush, LockClock, UnlockClock,
                             vars, TypeOK
  <2>3. TypeOK'
    BY <1>2, <2>1, <2>2 DEF isrVars, TypeOK
  <2>4. TransferIsNextLine' /\ TornInTransfer'
    BY <1>2, <2>1 DEF isrVars, TransferIsNextLine, TornInTransfer, SPIfinished
  <2>5. QED
    BY <1>2, <1>3, <2>1, <2>3, <2>4 DEF isrVars, ScanInv
<1>6. CASE DataRegisterEmpty
  <2>1. spi' \in [buf : Buffers, frame : Frames, line : Rows \cup {NoLine},
                  left : 0 .. LineSize - 1, torn : BOOLEAN]
    <3>1. (spi.torn \/ spi.buf # displayBuffer) \in BOOLEAN
      OBVIOUS
    <3>2. spi.left - 1 \in 0 .. LineSize - 1
      BY <1>2, <1>6 DEF DataRegisterEmpty, SPIfinished, TypeOK
    <3>3. QED
      BY <1>2, <1>6, <3>1, <3>2 DEF DataRegisterEmpty, TypeOK
  <2>2. TypeOK'
    BY <1>2, <1>6, <2>1 DEF DataRegisterEmpty, TypeOK, isrVars
  <2>3. TransferIsNextLine' /\ spi'.buf = spi.buf
    BY <1>2, <1>6 DEF DataRegisterEmpty, TypeOK, isrVars, TransferIsNextLine
  <2>4. spi'.torn <=> spi.torn
    BY <1>2, <1>6 DEF DataRegisterEmpty, TypeOK, TornInTransfer
  <2>5. TornInTransfer'
    BY <1>2, <1>6, <2>3, <2>4 DEF DataRegisterEmpty, isrVars, TornInTransfer
  <2>6. QED
    BY <1>2, <1>3, <1>6, <2>2, <2>3, <2>5 DEF ScanInv, DataRegisterEmpty, isrVars
<1>7. CASE SwitchBuffers
  <2>1. spi' \in [buf : Buffers, frame : Frames, line : Rows \cup {NoLine},
                  left : 0 .. LineSize - 1, torn : BOOLEAN]
    <3>1. (spi.torn \/ ~SPIfinished) \in BOOLEAN
      OBVIOUS
    <3>2. QED
      BY <1>2, <1>7, <3>1 DEF SwitchBuffers, TypeOK
  <2>2. TypeOK'
    BY <1>2, <1>7, <2>1 DEF SwitchBuffers, TypeOK, Buffers
  <2>3. TransferIsNextLine' /\ TornInTransfer'
    BY <1>2, <1>7 DEF SwitchBuffers, TypeOK, SPIfinished, TornInTransfer,
                      TransferIsNextLine
  <2>4. QED
    BY <1>2, <1>3, <1>7, <2>2, <2>3 DEF ScanInv, SwitchBuffers
<1>8. CASE Reset
  <2>1. rowReg' \in [Rows -> BOOLEAN]
    <3>1. \A r \in Rows : r # 0 => r - 1 \in Rows
      BY DEF Rows
    <3>2. QED
      BY <1>2, <1>8, <3>1, Zenon DEF Reset, Shifted, TypeOK
  <2>2. 1 % TickMod \in 0 .. TickMod - 1
    BY ModInRange
  <2>3. 0 \in Frames /\ 0 \in 0 .. LineSize - 1
    BY DEF Frames
  <2>4. NoTransfer \in [buf : Buffers, frame : Frames, line : Rows \cup {NoLine},
                        left : 0 .. LineSize - 1, torn : BOOLEAN]
    BY <2>3 DEF NoTransfer, Buffers
  <2>5. TypeOK'
    BY <1>2, <1>8, <2>1, <2>2, <2>3, <2>4 DEF Reset, TypeOK, Buffers, StartBit
  <2>6. QED
    BY <1>8, <2>5 DEF ScanInv, Reset, ButtonBitIsRow, TransferIsNextLine, SPIfinished,
              LatchIsPreviousLine, RowsKnown, TornInTransfer, TimerIsFrames, NoTransfer, StartBit
<1>9. QED
  BY <1>1, <1>4, <1>5, <1>6, <1>7, <1>8 DEF Next, TimerCompare, MainThread

(* ScanInv is an invariant of the scan, whatever the main thread does. *)
THEOREM ScanInvariant == Spec => []ScanInv
<1>1. Init => ScanInv
  BY InitScanInv
<1>2. ScanInv /\ [Next]_vars => ScanInv'
  BY NextScanInv
<1>3. QED
  BY <1>1, <1>2, PTL DEF Spec

(* The types of the scan's variables are kept. *)
THEOREM TypeCorrect == Spec => []TypeOK
<1>1. ScanInv => TypeOK
  BY DEF ScanInv
<1>2. QED
  BY <1>1, ScanInvariant, PTL

(* For every size of the matrix: after the first pass exactly one row is lit
   at a time, and it is the row whose line the column latch holds. *)
THEOREM OneRowWithItsData == Spec => []LitRowShowsItsLine
<1>1. ScanInv => LitRowShowsItsLine
  <2> SUFFICES ASSUME ScanInv, oe, lineBit # {}
               PROVE {r \in Rows : ~rowReg[r]} = {latch.line}
    BY DEF LitRowShowsItsLine
  <2>1. line # NoLine /\ latch.line # NoLine
    BY DEF ScanInv, LatchIsPreviousLine
  <2>2. latch.line \in Rows
    BY <2>1 DEF ScanInv, TypeOK, Stored
  <2>3. \A r \in Rows : ~rowReg[r] <=> r = latch.line
    BY <2>1 DEF ScanInv, RowsKnown
  <2>4. QED
    BY <2>2, <2>3
<1>2. QED
  BY <1>1, ScanInvariant, PTL

(* Every line is lit for the time of its own frame. *)
THEOREM LinesLitForFrameTime == Spec => []FrameGetsItsTime
<1>1. ScanInv => FrameGetsItsTime
  BY DEF ScanInv, FrameGetsItsTime, TimerIsFrames
<1>2. QED
  BY <1>1, ScanInvariant, PTL

(* A swap of the buffers damages at most one line. *)
THEOREM OneTornLinePerSwap == Spec => []AtMostOneTornLine
<1>1. ScanInv => AtMostOneTornLine
  BY DEF ScanInv, AtMostOneTornLine, TornInTransfer
<1>2. QED
  BY <1>1, ScanInvariant, PTL

(* The button flag names the row about to be lit, or none. *)
THEOREM ButtonBitNamesRow == Spec => []ButtonBitIsRow
<1>1. ScanInv => ButtonBitIsRow
  BY DEF ScanInv
<1>2. QED
  BY <1>1, ScanInvariant, PTL

(* A flush that waits is answered only by lighting the last line of the brightest
   frame, or by a restart: a picture is never changed while it is being shown. *)
THEOREM FlushesAnsweredInTime == Spec => FlushEndsWithPicture
<1>1. ScanInv /\ [Next]_vars =>
        [switchBuffer /\ ~switchBuffer' =>
           \/ oe' /\ latch'.frame = MaxFrames - 1 /\ latch'.line = NumLines - 1
           \/ Reset]_vars
  <2> SUFFICES ASSUME ScanInv, [Next]_vars, switchBuffer, ~switchBuffer'
               PROVE  \/ oe' /\ latch'.frame = MaxFrames - 1 /\ latch'.line = NumLines - 1
                      \/ Reset
    OBVIOUS
  <2>1. ShowLine \/ Reset
    BY DEF Next, TimerCompare, BlankLine, ClockLocked, TransferBusy, DataRegisterEmpty,
           MainThread, SwitchBuffers, Flush, LockClock, UnlockClock, vars
  <2>2. CASE ShowLine
    <3>1. PictureDone
      BY <2>2 DEF ShowLine
    <3>2. latch'.frame = frame /\ latch'.line = line /\ oe'
      BY <2>2 DEF ShowLine, StoreLine, ScanInv, TransferIsNextLine
    <3>3. QED
      BY <3>1, <3>2 DEF PictureDone, LastLine, LastFrame
  <2>3. QED
    BY <2>1, <2>2
<1>2. QED
  BY <1>1, ScanInvariant, PTL DEF Spec, FlushEndsWithPicture

(* Where the line lit next stands in raster order. *)
LEMMA ShowLineLights ==
  ASSUME ScanInv, ShowLine PROVE Panel!Light
<1> USE ScanConstants DEF NoLine, Rows, Frames
<1>1. /\ TypeOK /\ (oe <=> ~waitClear)
      /\ line = NoLine => frame = 0
      /\ TransferIsNextLine /\ LatchIsPreviousLine
  BY DEF ScanInv
<1>2. ~oe /\ oe \in BOOLEAN /\ oe' = TRUE
  BY <1>1 DEF ShowLine, TypeOK
<1>3. /\ latch'.frame = frame /\ latch'.line = line
      /\ line' # NoLine
  BY <1>1 DEF ShowLine, StoreLine, TransferIsNextLine, NextLine, LastLine, TypeOK
<1>4. PanelSpot' = IF line = NoLine THEN <<0, NumLines + 1>> ELSE <<frame, line>>
  BY <1>3 DEF PanelSpot
<1>5. CASE line = NoLine
  BY <1>2, <1>4, <1>5 DEF Panel!Light, Panel!Start, Panel!Unknown, PanelSpot
<1>6. CASE line # NoLine /\ latch.line = NoLine
  <2>1. PanelSpot = <<0, NumLines + 1>> /\ PanelSpot' = <<0, 0>>
    BY <1>1, <1>4, <1>6 DEF PanelSpot, LatchIsPreviousLine
  <2>2. QED
    BY <1>2, <2>1 DEF Panel!Light, Panel!Start, Panel!Unknown, Panel!After
<1>7. CASE line # NoLine /\ latch.line # NoLine
  <2>1. latch.line \in Rows /\ latch.frame \in Frames
    BY <1>1, <1>7 DEF TypeOK, Stored
  <2>2. PanelSpot = <<latch.frame, latch.line>> /\ PanelSpot' = <<frame, line>>
    BY <1>4, <1>7 DEF PanelSpot
  <2>3. PanelSpot # Panel!Start /\ PanelSpot # Panel!Unknown
    BY <2>1, <2>2 DEF Panel!Start, Panel!Unknown
  <2>4. <<frame, line>> = Panel!After(<<latch.frame, latch.line>>)
    BY <1>1, <1>7, <2>1, <2>2, <2>3 DEF LatchIsPreviousLine, Panel!After
  <2>5. QED
    BY <1>2, <2>2, <2>3, <2>4 DEF Panel!Light
<1>8. QED
  BY <1>5, <1>6, <1>7

(* The interrupts implement the abstract raster, under any main thread. *)
THEOREM ScanImplementsRaster == Spec => LinesInRasterOrder
<1>1. Init => Panel!Init
  BY DEF Init, Panel!Init, Panel!Start, PanelSpot
<1>2. ScanInv /\ [Next]_vars => [Panel!Next]_(Panel!vars)
  <2> SUFFICES ASSUME ScanInv, [Next]_vars PROVE [Panel!Next]_(Panel!vars)
    OBVIOUS
  <2>1. CASE ShowLine
    BY <2>1, ShowLineLights DEF Panel!Next
  <2>2. CASE BlankLine
    <3>1. oe /\ oe' = FALSE
      BY <2>2 DEF BlankLine, ScanInv
    <3>2. PanelSpot' = PanelSpot
      BY <2>2 DEF BlankLine, isrVars, PanelSpot
    <3>3. QED
      BY <3>1, <3>2 DEF Panel!Darken, Panel!Next
  <2>3. CASE Reset
    BY <2>3 DEF Reset, PanelSpot, Panel!Restart, Panel!Next, Panel!Start
  <2>4. CASE \/ ClockLocked \/ TransferBusy \/ DataRegisterEmpty
             \/ MainThread \/ UNCHANGED vars
    <3>1. UNCHANGED <<line, latch, oe>>
      BY <2>4 DEF ClockLocked, TransferBusy, DataRegisterEmpty, MainThread,
                  SwitchBuffers, Flush, LockClock, UnlockClock, isrVars, vars
    <3>2. QED
      BY <3>1 DEF PanelSpot, Panel!vars
  <2>5. QED
    BY <2>1, <2>2, <2>3, <2>4 DEF Next, TimerCompare
<1>3. QED
  BY <1>1, <1>2, ScanInvariant, PTL DEF Spec, LinesInRasterOrder, Panel!Spec

-----------------------------------------------------------------------------
(* The keys. *)

\* The types the argument needs.
KeyTypes ==
  /\ down \in SUBSET Keys
  /\ asked \in DOMAIN Buttons
  /\ reg = NotLoaded \/ reg \subseteq buttonPressed
  /\ presses \in [Keys -> Nat] /\ taken \in [Keys -> Nat]

\* A key that is held will be reported, or is being watched already.
HeldOrWatched(k) == IF k \in down \/ k \in buttonBuffer THEN 1 ELSE 0

\* What was taken of a key, with all that may still be reported.
PressesCover == \A k \in Keys : taken[k] + BeingReported(k) + HeldOrWatched(k) <= presses[k]

PanelInv == ScanInv /\ KeyTypes /\ PressesCover

----------------------------------------------------------------------------
LEMMA KeysAreRows == Keys \subseteq Rows
BY PanelConstants DEF Keys

LEMMA PanelStepIsScanStep == PanelNext => [Next]_vars
<1> SUFFICES ASSUME PanelNext PROVE [Next]_vars
  OBVIOUS
<1>1. CASE ScanKeys \/ OtherInterrupt
  BY <1>1 DEF ScanKeys, OtherInterrupt, Next, TimerCompare
<1>2. CASE Restart
  BY <1>2 DEF Restart, Next
<1>3. CASE \E k \in Keys : KeyDown(k) \/ KeyUp(k)
  BY <1>3 DEF KeyDown, KeyUp
<1>4. CASE NotPressed \/ LoadPressed \/ StoreCleared
  BY <1>4 DEF NotPressed, LoadPressed, StoreCleared
<1>5. CASE OtherMain
  BY <1>5 DEF OtherMain, Next
<1> QED
  BY <1>1, <1>2, <1>3, <1>4, <1>5 DEF PanelNext

LEMMA InitPanelInv == PanelInit => PanelInv
<1> SUFFICES ASSUME PanelInit PROVE PanelInv
  OBVIOUS
<1>1. ScanInv
  BY InitScanInv DEF PanelInit
<1>2. KeyTypes
  <2>1. 1 \in DOMAIN Buttons
    BY PanelConstants
  <2> QED
    BY <2>1 DEF PanelInit, KeyTypes
<1>3. PressesCover
  BY DEF PanelInit, PressesCover, BeingReported, HeldOrWatched
<1> QED
  BY <1>1, <1>2, <1>3 DEF PanelInv

----------------------------------------------------------------------------
\* When the interrupt looks at a bit, the pin is low just if the key of that bit is down.
LEMMA PinIsTheKeys ==
  ASSUME PanelInv, ScanInv', ShowLine, NEW k \in Keys, k \in lineBit
  PROVE  PinLow <=> k \in down
<1>1. lineBit = {line} /\ k = line
  BY DEF PanelInv, ScanInv, ButtonBitIsRow
<1>2. k \in Rows
  BY KeysAreRows
<1>3. line' # NoLine
  BY ScanConstants, <1>1, <1>2 DEF ShowLine, NextLine, LastLine, NoLine, Rows
<1>4. latch'.line = line
  BY DEF ShowLine, StoreLine, PanelInv, ScanInv, TransferIsNextLine
<1>5. lineBit' # {}
  BY <1>1 DEF ShowLine, NextBit
<1>6. line # NoLine
  BY ScanConstants, <1>1, <1>2 DEF NoLine, Rows
<1>7. \A r \in Rows : ~rowReg'[r] <=> r = line
  BY <1>3, <1>4, <1>5, <1>6 DEF ScanInv, RowsKnown
<1> QED
  BY <1>1, <1>7, KeysAreRows DEF PinLow, PanelInv, KeyTypes

LEMMA ScanKeysKeepsCover ==
  ASSUME PanelInv, ScanInv', ScanKeys
  PROVE  KeyTypes' /\ PressesCover'
<1>1. /\ down' = down /\ asked' = asked /\ reg' = reg
      /\ presses' = presses /\ taken' = taken
  BY DEF ScanKeys
<1>2. buttonPressed \subseteq buttonPressed'
  BY DEF ScanKeys, UpdateButton
<1>3. KeyTypes'
  BY <1>1, <1>2 DEF PanelInv, KeyTypes
<1>4. ASSUME NEW k \in Keys
      PROVE  BeingReported(k)' + HeldOrWatched(k)' <= BeingReported(k) + HeldOrWatched(k)
  <2>1. CASE k \notin lineBit
    <3>1. k \in buttonPressed' <=> k \in buttonPressed
      BY <2>1 DEF ScanKeys, UpdateButton
    <3>2. k \in buttonBuffer' <=> k \in buttonBuffer
      BY <2>1 DEF ScanKeys, UpdateButton
    <3> QED
      BY <1>1, <3>1, <3>2 DEF BeingReported, HeldOrWatched
  <2>2. CASE k \in lineBit /\ k \in down
    <3>1. PinLow
      BY <2>2, PinIsTheKeys DEF ScanKeys
    <3>2. buttonPressed' = buttonPressed
      BY <3>1 DEF ScanKeys, UpdateButton
    <3> QED
      BY <1>1, <2>2, <3>2 DEF BeingReported, HeldOrWatched
  <2>3. CASE k \in lineBit /\ k \notin down
    <3>1. ~PinLow
      BY <2>3, PinIsTheKeys DEF ScanKeys
    <3>2. /\ buttonPressed' = buttonPressed \cup (buttonBuffer \cap lineBit)
          /\ buttonBuffer' = buttonBuffer \ lineBit
      BY <3>1 DEF ScanKeys, UpdateButton
    <3>3. k \notin buttonBuffer' /\ (k \in buttonPressed' => k \in buttonPressed \/ k \in buttonBuffer)
      BY <2>3, <3>2
    <3> QED
      BY <1>1, <2>3, <3>3 DEF BeingReported, HeldOrWatched
  <2> QED
    BY <2>1, <2>2, <2>3
<1>5. \A k \in Keys : /\ BeingReported(k) \in {0, 1} /\ HeldOrWatched(k) \in {0, 1}
                      /\ BeingReported(k)' \in {0, 1} /\ HeldOrWatched(k)' \in {0, 1}
  BY DEF BeingReported, HeldOrWatched
<1>6. PressesCover'
  <2> SUFFICES ASSUME NEW k \in Keys
               PROVE  (taken[k] + BeingReported(k) + HeldOrWatched(k) <= presses[k])'
    BY DEF PressesCover
  <2>1. taken[k] \in Nat /\ presses[k] \in Nat
    BY DEF PanelInv, KeyTypes
  <2>2. taken[k] + BeingReported(k) + HeldOrWatched(k) <= presses[k]
    BY DEF PanelInv, PressesCover
  <2>3. taken'[k] = taken[k] /\ presses'[k] = presses[k]
    BY <1>1
  <2> QED
    BY <1>4, <1>5, <2>1, <2>2, <2>3
<1> QED
  BY <1>3, <1>6

LEMMA UserKeepsCover ==
  ASSUME PanelInv, NEW b \in Keys, KeyDown(b) \/ KeyUp(b)
  PROVE  KeyTypes' /\ PressesCover'
<1>1. /\ buttonBuffer' = buttonBuffer /\ buttonPressed' = buttonPressed
      /\ asked' = asked /\ reg' = reg /\ taken' = taken
  BY DEF KeyDown, KeyUp
<1>2. /\ \A k \in Keys : taken[k] \in Nat /\ presses[k] \in Nat
      /\ presses \in [Keys -> Nat]
  BY DEF PanelInv, KeyTypes
<1>3. \A k \in Keys : BeingReported(k)' = BeingReported(k) /\ BeingReported(k) \in {0, 1}
  BY <1>1 DEF BeingReported
<1>4. CASE KeyDown(b)
  <2>1. /\ b \notin down /\ down' = down \cup {b}
        /\ presses' = [presses EXCEPT ![b] = @ + 1]
    BY <1>4 DEF KeyDown
  <2>2. KeyTypes'
    BY <1>1, <1>2, <2>1 DEF PanelInv, KeyTypes
  <2>3. ASSUME NEW k \in Keys
        PROVE  taken'[k] + BeingReported(k)' + HeldOrWatched(k)' <= presses'[k]
    <3>1. taken[k] + BeingReported(k) + HeldOrWatched(k) <= presses[k]
      BY DEF PanelInv, PressesCover
    <3>2. presses'[k] = IF k = b THEN presses[k] + 1 ELSE presses[k]
      BY <1>2, <2>1
    <3>3. HeldOrWatched(k)' <= HeldOrWatched(k) + (IF k = b THEN 1 ELSE 0)
      BY <1>1, <2>1 DEF HeldOrWatched
    <3>4. HeldOrWatched(k) \in {0, 1} /\ HeldOrWatched(k)' \in {0, 1}
      BY DEF HeldOrWatched
    <3>5. taken'[k] = taken[k]
      BY <1>1
    <3>6. CASE k = b
      BY <1>2, <1>3, <3>1, <3>2, <3>3, <3>4, <3>5, <3>6
    <3>7. CASE k # b
      BY <1>2, <1>3, <3>1, <3>2, <3>3, <3>4, <3>5, <3>7
    <3> QED
      BY <3>6, <3>7
  <2> QED
    BY <2>2, <2>3 DEF PressesCover
<1>5. CASE KeyUp(b)
  <2>1. down' = down \ {b} /\ presses' = presses
    BY <1>5 DEF KeyUp
  <2>2. KeyTypes'
    BY <1>1, <2>1 DEF PanelInv, KeyTypes
  <2>3. ASSUME NEW k \in Keys
        PROVE  taken'[k] + BeingReported(k)' + HeldOrWatched(k)' <= presses'[k]
    <3>1. taken[k] + BeingReported(k) + HeldOrWatched(k) <= presses[k]
      BY DEF PanelInv, PressesCover
    <3>2. HeldOrWatched(k)' <= HeldOrWatched(k)
      BY <1>1, <2>1 DEF HeldOrWatched
    <3>3. HeldOrWatched(k) \in {0, 1} /\ HeldOrWatched(k)' \in {0, 1}
      BY DEF HeldOrWatched
    <3> QED
      BY <1>1, <1>2, <1>3, <2>1, <3>1, <3>2, <3>3
  <2> QED
    BY <2>2, <2>3 DEF PressesCover
<1> QED
  BY <1>4, <1>5

LEMMA StoreClearedKeepsCover ==
  ASSUME PanelInv, StoreCleared
  PROVE  KeyTypes' /\ PressesCover'
<1> DEFINE b == Buttons[asked]
<1>1. /\ reg # NotLoaded /\ buttonPressed' = reg \ {b} /\ reg' = NotLoaded
      /\ taken' = [taken EXCEPT ![b] = @ + 1] /\ asked' = AfterAsked
      /\ down' = down /\ buttonBuffer' = buttonBuffer /\ presses' = presses
  BY DEF StoreCleared, Cleared
<1>2. b \in Keys
  BY DEF Keys, PanelInv, KeyTypes
<1>3. reg \subseteq buttonPressed
  BY <1>1 DEF PanelInv, KeyTypes
<1>4. asked' \in DOMAIN Buttons
  BY <1>1, PanelConstants DEF AfterAsked, PanelInv, KeyTypes
<1>5. taken \in [Keys -> Nat] /\ presses \in [Keys -> Nat]
  BY DEF PanelInv, KeyTypes
<1>6. KeyTypes'
  BY <1>1, <1>2, <1>4, <1>5 DEF PanelInv, KeyTypes
<1>7. ASSUME NEW k \in Keys
      PROVE  taken'[k] + BeingReported(k)' + HeldOrWatched(k)' <= presses'[k]
  <2>1. taken[k] + BeingReported(k) + HeldOrWatched(k) <= presses[k]
    BY DEF PanelInv, PressesCover
  <2>2. HeldOrWatched(k)' = HeldOrWatched(k) /\ HeldOrWatched(k) \in {0, 1}
    BY <1>1 DEF HeldOrWatched
  <2>3. CASE k = b
    <3>1. taken'[k] = taken[k] + 1
      BY <1>1, <1>5, <2>3
    <3>2. BeingReported(k) = 1
      BY <1>1, <2>3 DEF BeingReported
    <3>3. BeingReported(k)' = 0
      BY <1>1, <2>3 DEF BeingReported
    <3> QED
      BY <1>1, <1>5, <2>1, <2>2, <3>1, <3>2, <3>3
  <2>4. CASE k # b
    <3>1. taken'[k] = taken[k]
      BY <1>1, <1>5, <2>4
    <3>2. BeingReported(k)' <= BeingReported(k)
      BY <1>1, <1>3, <2>4 DEF BeingReported
    <3>3. BeingReported(k) \in {0, 1} /\ BeingReported(k)' \in {0, 1}
      BY DEF BeingReported
    <3> QED
      BY <1>1, <1>5, <2>1, <2>2, <3>1, <3>2, <3>3
  <2> QED
    BY <2>3, <2>4
<1> QED
  BY <1>6, <1>7 DEF PressesCover

LEMMA RestartKeepsCover ==
  ASSUME PanelInv, Restart
  PROVE  KeyTypes' /\ PressesCover'
<1>1. /\ buttonBuffer' = {} /\ buttonPressed' = {} /\ asked' = 1 /\ reg' = NotLoaded
      /\ down' = down /\ presses' = presses /\ taken' = taken
  BY DEF Restart
<1>2. 1 \in DOMAIN Buttons
  BY PanelConstants DEF PanelInv, KeyTypes
<1>3. KeyTypes'
  BY <1>1, <1>2 DEF PanelInv, KeyTypes
<1>4. ASSUME NEW k \in Keys
      PROVE  taken'[k] + BeingReported(k)' + HeldOrWatched(k)' <= presses'[k]
  <2>1. taken[k] + BeingReported(k) + HeldOrWatched(k) <= presses[k]
    BY DEF PanelInv, PressesCover
  <2>2. BeingReported(k)' = 0 /\ HeldOrWatched(k)' <= HeldOrWatched(k)
    BY <1>1 DEF BeingReported, HeldOrWatched
  <2>3. /\ BeingReported(k) \in {0, 1} /\ HeldOrWatched(k) \in {0, 1}
        /\ HeldOrWatched(k)' \in {0, 1}
    BY DEF BeingReported, HeldOrWatched
  <2>4. taken[k] \in Nat /\ presses[k] \in Nat
    BY DEF PanelInv, KeyTypes
  <2> QED
    BY <1>1, <2>1, <2>2, <2>3, <2>4
<1> QED
  BY <1>3, <1>4 DEF PressesCover

\* The other steps only move the question on or load the byte.
LEMMA AskingKeepsCover ==
  ASSUME PanelInv, NotPressed \/ LoadPressed
  PROVE  KeyTypes' /\ PressesCover'
<1>1. /\ buttonBuffer' = buttonBuffer /\ buttonPressed' = buttonPressed
      /\ down' = down /\ presses' = presses /\ taken' = taken
  BY DEF NotPressed, LoadPressed
<1>2. asked' \in DOMAIN Buttons
  BY PanelConstants DEF NotPressed, LoadPressed, AfterAsked, PanelInv, KeyTypes
<1>3. reg' = NotLoaded \/ reg' = buttonPressed
  BY DEF NotPressed, LoadPressed
<1>4. KeyTypes'
  BY <1>1, <1>2, <1>3 DEF PanelInv, KeyTypes
<1>5. \A k \in Keys : BeingReported(k)' = BeingReported(k)
  <2>1. CASE NotPressed
    BY <2>1 DEF NotPressed, BeingReported
  <2>2. CASE LoadPressed
    BY <2>2 DEF LoadPressed, BeingReported
  <2> QED
    BY <2>1, <2>2
<1>6. \A k \in Keys : HeldOrWatched(k)' = HeldOrWatched(k)
  BY <1>1 DEF HeldOrWatched
<1> QED
  BY <1>1, <1>4, <1>5, <1>6 DEF PressesCover, PanelInv

LEMMA NextPanelInv == PanelInv /\ [PanelNext]_panelVars => PanelInv'
<1> SUFFICES ASSUME PanelInv, [PanelNext]_panelVars PROVE PanelInv'
  OBVIOUS
<1>1. [Next]_vars
  BY PanelStepIsScanStep DEF panelVars
<1>2. ScanInv'
  BY <1>1, NextScanInv DEF PanelInv
<1>3. KeyTypes' /\ PressesCover'
  <2>1. CASE ScanKeys
    BY <1>2, <2>1, ScanKeysKeepsCover
  <2>2. CASE UNCHANGED keyVars
    BY <2>2 DEF keyVars, PanelInv, KeyTypes, PressesCover, BeingReported, HeldOrWatched
  <2>3. CASE Restart
    BY <2>3, RestartKeepsCover
  <2>4. CASE \E k \in Keys : KeyDown(k) \/ KeyUp(k)
    BY <2>4, UserKeepsCover
  <2>5. CASE NotPressed \/ LoadPressed
    BY <2>5, AskingKeepsCover
  <2>6. CASE StoreCleared
    BY <2>6, StoreClearedKeepsCover
  <2> QED
    BY <2>1, <2>2, <2>3, <2>4, <2>5, <2>6 DEF PanelNext, OtherInterrupt, OtherMain, panelVars
<1> QED
  BY <1>2, <1>3 DEF PanelInv

----------------------------------------------------------------------------
\* For all rows and keys, whatever is held and however the interrupt and the main
\* thread interleave: no press is made up, and none is lost but in the race of
\* switch.h:49.
THEOREM PressesAreReportedOnce == PanelSpec => KeysAreReportedOnce
<1>1. PanelInv => NoPhantomPress
  <2> SUFFICES ASSUME PanelInv, NEW k \in Keys
               PROVE  taken[k] + BeingReported(k) + BeingWatched(k) <= presses[k]
    BY DEF NoPhantomPress
  <2>1. taken[k] + BeingReported(k) + HeldOrWatched(k) <= presses[k]
    BY DEF PanelInv, PressesCover
  <2>2. BeingWatched(k) <= HeldOrWatched(k)
    BY DEF BeingWatched, HeldOrWatched
  <2>3. /\ BeingReported(k) \in {0, 1} /\ HeldOrWatched(k) \in {0, 1}
        /\ BeingWatched(k) \in {0, 1} /\ taken[k] \in Nat /\ presses[k] \in Nat
    BY DEF BeingReported, HeldOrWatched, BeingWatched, PanelInv, KeyTypes
  <2> QED
    BY <2>1, <2>2, <2>3
<1>2. PanelInv /\ PanelNext => LostOnlyInTheRace
  <2> SUFFICES ASSUME PanelInv, PanelNext, NEW k \in Keys,
                      k \in buttonPressed, k \notin buttonPressed', ~Restart
               PROVE  Buttons[asked] = k \/ k \notin reg
    BY DEF LostOnlyInTheRace
  <2>1. CASE StoreCleared
    BY <2>1 DEF StoreCleared, Cleared
  <2>2. CASE ~StoreCleared
    BY <2>2 DEF PanelNext, ScanKeys, UpdateButton, OtherInterrupt, OtherMain, keyVars,
                KeyDown, KeyUp, NotPressed, LoadPressed
  <2> QED
    BY <2>1, <2>2
<1>3. PanelInv /\ [PanelNext]_panelVars => [NoPhantomPress' /\ LostOnlyInTheRace]_panelVars
  <2> SUFFICES ASSUME PanelInv, PanelNext PROVE NoPhantomPress' /\ LostOnlyInTheRace
    OBVIOUS
  <2>1. PanelInv'
    BY NextPanelInv
  <2>2. NoPhantomPress'
    BY <1>1, <2>1, PTL
  <2> QED
    BY <1>2, <2>2
<1> QED
  BY <1>3, InitPanelInv, NextPanelInv, PTL DEF PanelSpec, KeysAreReportedOnce


----------------------------------------------------------------------------
\* Every step of the loop, of the watchdog and of the chip is one of the scan's, or none.
LEMMA LoopStepIsScanStep == [LoopNext]_loopVars => [Next]_vars
<1> SUFFICES ASSUME LoopNext PROVE [Next]_vars
  BY DEF loopVars
<1>1. CASE TimerInterrupt \/ SpiInterrupt
  BY <1>1 DEF TimerInterrupt, SpiInterrupt, Next
<1>2. CASE Watchdog \/ JumpToZero
  BY <1>2 DEF Watchdog, JumpToZero, StartMain, Next
<1>3. CASE RtcStops \/ RtcReturns
  BY <1>3 DEF RtcStops, RtcReturns
<1>4. CASE Boot \/ BootClockRead \/ ReadClock \/ ClockRead
  BY <1>4 DEF Boot, BootClockRead, ReadClock, ClockRead, Next, MainThread
<1>5. CASE WifiConnecting \/ WifiWaits \/ WifiTurn
  BY <1>5 DEF WifiConnecting, WifiWaits, WifiTurn, NetBegin
<1>6. CASE Swap \/ FlushPicture
  BY <1>6 DEF Swap, FlushPicture, Next, MainThread
<1>7. CASE ShowWaits \/ TimeWaits
  BY <1>7 DEF ShowWaits, TimeWaits
<1> QED
  BY <1>1, <1>2, <1>3, <1>4, <1>5, <1>6, <1>7 DEF LoopNext, MainStep

\* The loop of radioclock.cpp is a main thread of the scan: with it, all that is proved
\* of the scan holds of the firmware, whatever the chip, the network and the keys do.
THEOREM LoopImplementsScan == LoopSafety => ImplementsScan
<1>1. LoopInit => Init
  BY DEF LoopInit
<1> QED
  BY <1>1, LoopStepIsScanStep, PTL DEF LoopSafety, ImplementsScan, Spec

----------------------------------------------------------------------------
\* The reads of the clock that the main thread may still complete before the scan has
\* counted another pass: its own, and the two of a turn that begins with boot().
DueReads == IF TimeDue THEN 1 ELSE 0
WifiEnds == wifiPt = "ended" \/ (wifiPt = "running" /\ Expired(wifiStart, WifiEvery))
RestartReads == IF WifiEnds THEN 2 ELSE 0

ReadsLeft ==
  CASE pc \in {"boot", "bootRtc"}             -> 2
    [] pc \in {"net", "show", "draw", "time"} -> DueReads + RestartReads
    [] pc = "rtc"                             -> 1 + RestartReads

Reading == IF clockLock THEN hold ELSE 0

\* The lock is held just while the chip is read, and the loop's places agree.
PlacesAgree ==
  /\ pc \in {"boot", "bootRtc", "net", "show", "draw", "time", "rtc"}
  /\ wifiPt \in {"connecting", "running", "ended"}
  /\ clockLock <=> pc \in {"bootRtc", "rtc"}
  /\ pc = "bootRtc" => timePt = "begin" /\ wifiPt = "connecting"
  /\ pc = "net" => wifiPt # "ended"
  /\ pc = "boot" => wifiPt # "running"

Counts ==
  /\ ticks \in 0 .. TickMod - 1
  /\ wdt \in Nat /\ hold \in 0 .. RtcTicks
  /\ clockLock \in BOOLEAN /\ waitClear \in BOOLEAN
  /\ rtcUp \in BOOLEAN /\ excused \in BOOLEAN
  /\ ~rtcUp => excused

\* A pause of the scan has spent no more than a transfer and the reads that are done:
\* the others can still be paid for.
PauseIsPaid ==
  excused \/ IF waitClear
             THEN wdt <= SpiTicks + RtcTicks * (3 - ReadsLeft) + Reading
             ELSE wdt <= SpiTicks + RtcTicks * 3 + 1

IInv == PlacesAgree /\ Counts /\ PauseIsPaid

LEMMA JustStarted ==
  ASSUME ticks \in 0 .. TickMod - 1
  PROVE  ~Expired(ticks, RtcEvery) /\ ~Expired(ticks, WifiEvery)
<1>1. (ticks + TickMod - ticks) % TickMod = 0
  <2>1. ticks + TickMod - ticks = TickMod
    BY ScanConstants
  <2>2. TickMod % TickMod = 0
    BY ScanConstants
  <2> QED
    BY <2>1, <2>2
<1>2. RtcEvery \in Nat /\ RtcEvery >= 1 /\ WifiEvery \in Nat /\ WifiEvery >= 1
  BY LoopConstants, ScanConstants
<1> QED
  BY <1>1, <1>2 DEF Expired

LEMMA ReadsAreFew == PlacesAgree => ReadsLeft \in 0 .. 3
<1> SUFFICES ASSUME PlacesAgree PROVE ReadsLeft \in 0 .. 3
  OBVIOUS
<1>1. DueReads \in {0, 1} /\ RestartReads \in {0, 2}
  BY DEF DueReads, RestartReads
<1>2. CASE pc \in {"boot", "bootRtc"}
  BY <1>2 DEF ReadsLeft
<1>3. CASE pc \in {"net", "show", "draw", "time"}
  <2>1. ReadsLeft = DueReads + RestartReads
    BY <1>3 DEF ReadsLeft
  <2> QED
    BY <1>1, <2>1
<1>4. CASE pc = "rtc"
  <2>1. ReadsLeft = 1 + RestartReads
    BY <1>4 DEF ReadsLeft
  <2> QED
    BY <1>1, <2>1
<1> QED
  BY <1>2, <1>3, <1>4 DEF PlacesAgree

\* Whatever number of reads is left, a watchdog that was just fed is content.
LEMMA FedIsPaid == PlacesAgree /\ Counts /\ wdt = 0 => PauseIsPaid
<1> SUFFICES ASSUME PlacesAgree, Counts, wdt = 0 PROVE PauseIsPaid
  OBVIOUS
<1>1. PICK n \in 0 .. 3 : n = ReadsLeft
  BY ReadsAreFew
<1>2. RtcTicks * (3 - n) \in Nat /\ RtcTicks * 3 \in Nat /\ SpiTicks \in Nat
  BY LoopConstants
<1>3. Reading \in Nat
  BY LoopConstants DEF Counts, Reading
<1> QED
  BY <1>1, <1>2, <1>3 DEF PauseIsPaid

LEMMA FewerReadsCostLess ==
  ASSUME NEW m \in 0 .. 3, NEW n \in 0 .. 3
  PROVE  /\ RtcTicks * (3 - m) \in Nat
         /\ m <= n => RtcTicks * (3 - n) <= RtcTicks * (3 - m)
         /\ m < n => RtcTicks * (3 - n) + RtcTicks <= RtcTicks * (3 - m)
         /\ RtcTicks * (3 - m) <= RtcTicks * 3
<1>1. RtcTicks \in Nat
  BY LoopConstants
<1>2. m \in {0, 1, 2, 3} /\ n \in {0, 1, 2, 3}
  OBVIOUS
<1> QED
  BY <1>1, <1>2

\* A step of the main thread takes no time: it may only give reads up, or finish one.
LEMMA GivingUpReadsIsPaid ==
  ASSUME IInv, PlacesAgree', Counts', UNCHANGED <<wdt, waitClear, excused>>,
         \/ ReadsLeft' <= ReadsLeft /\ Reading' >= Reading
         \/ ReadsLeft' < ReadsLeft
  PROVE  PauseIsPaid'
<1>1. PICK m \in 0 .. 3 : m = ReadsLeft'
  <2>1. (PlacesAgree => ReadsLeft \in 0 .. 3)'
    BY ReadsAreFew, PTL
  <2> QED
    BY <2>1
<1>2. PICK n \in 0 .. 3 : n = ReadsLeft
  BY ReadsAreFew DEF IInv
<1>3. PICK a \in Nat : a = RtcTicks * (3 - m)
  BY FewerReadsCostLess
<1>4. PICK b \in Nat : b = RtcTicks * (3 - n)
  BY FewerReadsCostLess
<1>5. /\ m <= n => b <= a
      /\ m < n => b + RtcTicks <= a
  BY <1>3, <1>4, FewerReadsCostLess
<1>6. /\ Reading \in Nat /\ Reading <= RtcTicks /\ Reading' \in Nat
      /\ RtcTicks \in Nat /\ SpiTicks \in Nat /\ wdt \in Nat
  BY LoopConstants DEF IInv, Counts, Reading
<1>7. CASE excused \/ ~waitClear
  BY <1>7 DEF IInv, PauseIsPaid
<1>8. CASE ~excused /\ waitClear
  <2>1. wdt <= SpiTicks + b + Reading
    BY <1>2, <1>4, <1>8 DEF IInv, PauseIsPaid
  <2>2. PICK r \in 0 .. RtcTicks : r = Reading
    BY <1>6
  <2>3. PICK s \in Nat : s = Reading'
    BY <1>6
  <2>4. (m <= n /\ s >= r) \/ m < n
    BY <1>1, <1>2, <2>2, <2>3
  <2>5. wdt <= SpiTicks + b + r
    BY <2>1, <2>2
  <2>6. wdt <= SpiTicks + a + s
    <3>1. b + r <= a + s
      BY <1>5, <1>6, <2>4
    <3> QED
      BY <1>6, <2>5, <3>1
  <2>7. wdt <= SpiTicks + a + Reading'
    BY <2>3, <2>6
  <2> QED
    BY <1>1, <1>3, <1>8, <2>7 DEF PauseIsPaid
<1> QED
  BY <1>7, <1>8

----------------------------------------------------------------------------
LEMMA MainStepKeepsIInv ==
  ASSUME IInv, TypeOK, MainStep
  PROVE  IInv'
<1> USE DEF IInv
<1>1. UNCHANGED <<wdt, rtcUp, excused, waitClear, ticks>>
  BY DEF MainStep, MainRuns, Boot, BootClockRead, WifiConnecting, WifiWaits, WifiTurn, NetBegin,
         Swap, FlushPicture, ShowWaits, ReadClock, ClockRead, TimeWaits, vars, isrVars,
         LockClock, UnlockClock, SwitchBuffers, Flush
<1>2. hold' \in 0 .. RtcTicks /\ clockLock' \in BOOLEAN
  <2>1. 0 \in 0 .. RtcTicks
    BY LoopConstants
  <2> QED
    BY <2>1 DEF Counts, MainStep, Boot, BootClockRead, WifiConnecting, WifiWaits, WifiTurn, NetBegin,
         Swap, FlushPicture, ShowWaits, ReadClock, ClockRead, TimeWaits, vars,
         LockClock, UnlockClock, SwitchBuffers, Flush
<1>3. Counts'
  BY <1>1, <1>2 DEF Counts
<1>4. ticks \in 0 .. TickMod - 1
  BY DEF Counts
<1>5. SUFFICES /\ PlacesAgree'
               /\ \/ ReadsLeft' <= ReadsLeft /\ Reading' >= Reading
                  \/ ReadsLeft' < ReadsLeft
  BY <1>1, <1>3, GivingUpReadsIsPaid
<1>6. DueReads \in {0, 1} /\ RestartReads \in {0, 2}
  BY DEF DueReads, RestartReads
<1>7. hold \in Nat
  BY LoopConstants DEF Counts
<1>8. CASE Boot
  <2>1. /\ pc = "boot" /\ pc' = "bootRtc" /\ clockLock' = TRUE /\ hold' = 0
        /\ timePt' = "begin" /\ wifiPt' = "connecting" /\ ~clockLock
    BY <1>8 DEF Boot, LockClock, PlacesAgree
  <2>2. PlacesAgree'
    BY <2>1 DEF PlacesAgree
  <2>3. ReadsLeft = 2 /\ ReadsLeft' = 2 /\ Reading = 0 /\ Reading' = 0
    BY <2>1 DEF ReadsLeft, Reading
  <2> QED
    BY <2>2, <2>3
<1>9. CASE BootClockRead
  <2>1. /\ pc = "bootRtc" /\ pc' = "net" /\ clockLock' = FALSE
        /\ timePt' = "begin" /\ wifiPt' = "connecting"
    BY <1>9 DEF BootClockRead, UnlockClock, PlacesAgree
  <2>2. PlacesAgree'
    BY <2>1 DEF PlacesAgree
  <2>3. ReadsLeft = 2 /\ ReadsLeft' = 1
    BY <2>1 DEF ReadsLeft, DueReads, RestartReads, TimeDue, WifiEnds
  <2> QED
    BY <2>2, <2>3
<1>10. CASE WifiConnecting \/ WifiWaits \/ WifiTurn
  <2>1. /\ pc = "net" /\ pc' = "show" /\ timePt' = timePt /\ timeStart' = timeStart
        /\ clockLock' = clockLock /\ hold' = hold
    BY <1>10 DEF WifiConnecting, WifiWaits, WifiTurn, NetBegin, vars
  <2>2. wifiPt' \in {"connecting", "running", "ended"}
    BY <1>10 DEF WifiConnecting, WifiWaits, WifiTurn, NetBegin, PlacesAgree
  <2>3. PlacesAgree'
    BY <2>1, <2>2 DEF PlacesAgree
  <2>4. WifiEnds' => WifiEnds
    <3>1. ~Expired(ticks, WifiEvery)
      BY <1>4, JustStarted
    <3>2. (wifiPt' = wifiPt /\ wifiStart' = wifiStart) => (WifiEnds' <=> WifiEnds)
      BY <1>1 DEF WifiEnds, Expired
    <3>3. (wifiPt' = "running" /\ wifiStart' = ticks) => ~WifiEnds'
      BY <1>1, <3>1 DEF WifiEnds, Expired
    <3>4. WifiTurn => WifiEnds
      BY DEF WifiTurn, WifiEnds
    <3> QED
      BY <1>10, <3>2, <3>3, <3>4 DEF WifiConnecting, WifiWaits, WifiTurn
  <2>5. DueReads' = DueReads
    BY <1>1, <2>1 DEF DueReads, TimeDue, Expired
  <2>6. ReadsLeft = DueReads + RestartReads /\ ReadsLeft' = DueReads' + RestartReads'
    BY <2>1 DEF ReadsLeft
  <2>7. RestartReads' <= RestartReads /\ RestartReads' \in {0, 2}
    BY <2>4 DEF RestartReads
  <2>8. Reading' = Reading /\ Reading \in Nat
    BY <1>7, <2>1 DEF Reading
  <2>9. ReadsLeft' <= ReadsLeft
    <3>1. PICK d \in Nat : d = DueReads
      BY <1>6
    <3>2. PICK r \in Nat : r = RestartReads
      BY <1>6
    <3>3. PICK s \in Nat : s = RestartReads'
      BY <2>7
    <3>4. s <= r
      BY <2>7, <3>2, <3>3
    <3>5. ReadsLeft = d + r /\ ReadsLeft' = d + s
      BY <2>5, <2>6, <3>1, <3>2, <3>3
    <3>6. d + s <= d + r
      BY <3>4
    <3> QED
      BY <3>5, <3>6
  <2> QED
    BY <2>3, <2>8, <2>9
<1>11. CASE Swap \/ FlushPicture \/ ShowWaits
  <2>1. /\ pc \in {"show", "draw"} /\ pc' \in {"show", "draw", "time"}
        /\ timePt' = timePt /\ timeStart' = timeStart /\ wifiPt' = wifiPt /\ wifiStart' = wifiStart
        /\ clockLock' = clockLock /\ hold' = hold
    BY <1>11 DEF Swap, FlushPicture, ShowWaits, SwitchBuffers, Flush, vars
  <2>2. PlacesAgree'
    BY <2>1 DEF PlacesAgree
  <2>3. DueReads' = DueReads /\ RestartReads' = RestartReads
    BY <1>1, <2>1 DEF DueReads, TimeDue, RestartReads, WifiEnds, Expired
  <2>4. ReadsLeft = DueReads + RestartReads /\ ReadsLeft' = DueReads' + RestartReads'
    BY <2>1 DEF ReadsLeft
  <2>5. Reading' = Reading /\ Reading \in Nat
    BY <1>7, <2>1 DEF Reading
  <2> QED
    BY <1>6, <2>2, <2>3, <2>4, <2>5
<1>12. CASE ReadClock
  <2>1. /\ pc = "time" /\ pc' = "rtc" /\ TimeDue /\ clockLock' = TRUE /\ hold' = 0 /\ ~clockLock
        /\ wifiPt' = wifiPt /\ wifiStart' = wifiStart
    BY <1>12 DEF ReadClock, LockClock, PlacesAgree
  <2>2. PlacesAgree'
    BY <2>1 DEF PlacesAgree
  <2>3. RestartReads' = RestartReads
    BY <1>1, <2>1 DEF RestartReads, WifiEnds, Expired
  <2>4. ReadsLeft = 1 + RestartReads /\ ReadsLeft' = 1 + RestartReads'
    BY <2>1 DEF ReadsLeft, DueReads
  <2>5. Reading' = 0 /\ Reading = 0
    BY <2>1 DEF Reading
  <2> QED
    BY <1>6, <2>2, <2>3, <2>4, <2>5
<1>13. CASE ClockRead
  <2>1. /\ pc = "rtc" /\ pc' = NextTurn /\ clockLock' = FALSE /\ timePt' = "wait"
        /\ timeStart' = ticks /\ wifiPt' = wifiPt /\ wifiStart' = wifiStart
    BY <1>13 DEF ClockRead, UnlockClock
  <2>2. PlacesAgree'
    BY <2>1 DEF PlacesAgree, NextTurn
  <2>3. RestartReads' = RestartReads
    BY <1>1, <2>1 DEF RestartReads, WifiEnds, Expired
  <2>4. DueReads' = 0
    <3>1. ~Expired(ticks, RtcEvery)
      BY <1>4, JustStarted
    <3> QED
      BY <1>1, <2>1, <3>1 DEF DueReads, TimeDue, Expired
  <2>5. ReadsLeft = 1 + RestartReads
    BY <2>1 DEF ReadsLeft
  <2>6. CASE wifiPt = "ended"
    <3>1. pc' = "boot" /\ RestartReads = 2
      BY <2>1, <2>6 DEF NextTurn, RestartReads, WifiEnds
    <3>2. ReadsLeft' = 2
      BY <3>1 DEF ReadsLeft
    <3> QED
      BY <2>2, <2>5, <3>1, <3>2
  <2>7. CASE wifiPt # "ended"
    <3>1. pc' = "net"
      BY <2>1, <2>7 DEF NextTurn
    <3>2. ReadsLeft' = DueReads' + RestartReads'
      BY <3>1 DEF ReadsLeft
    <3> QED
      BY <1>6, <2>2, <2>3, <2>4, <2>5, <3>2
  <2> QED
    BY <2>6, <2>7
<1>14. CASE TimeWaits
  <2>1. /\ pc = "time" /\ pc' = NextTurn /\ clockLock' = clockLock /\ hold' = hold /\ ~clockLock
        /\ timePt' = timePt /\ timeStart' = timeStart /\ wifiPt' = wifiPt /\ wifiStart' = wifiStart
    BY <1>14 DEF TimeWaits, vars, PlacesAgree
  <2>2. PlacesAgree'
    BY <2>1 DEF PlacesAgree, NextTurn
  <2>3. DueReads' = DueReads /\ RestartReads' = RestartReads
    BY <1>1, <2>1 DEF DueReads, TimeDue, RestartReads, WifiEnds, Expired
  <2>4. ReadsLeft = DueReads + RestartReads
    BY <2>1 DEF ReadsLeft
  <2>5. Reading' = 0 /\ Reading = 0
    BY <2>1 DEF Reading
  <2>6. CASE wifiPt = "ended"
    <3>1. pc' = "boot" /\ RestartReads = 2
      BY <2>1, <2>6 DEF NextTurn, RestartReads, WifiEnds
    <3>2. ReadsLeft' = 2
      BY <3>1 DEF ReadsLeft
    <3> QED
      BY <1>6, <2>2, <2>4, <2>5, <3>1, <3>2
  <2>7. CASE wifiPt # "ended"
    <3>1. pc' = "net"
      BY <2>1, <2>7 DEF NextTurn
    <3>2. ReadsLeft' = DueReads' + RestartReads'
      BY <3>1 DEF ReadsLeft
    <3> QED
      BY <1>6, <2>2, <2>3, <2>4, <2>5, <3>2
  <2> QED
    BY <2>6, <2>7
<1> QED
  BY <1>8, <1>9, <1>10, <1>11, <1>12, <1>13, <1>14 DEF MainStep

----------------------------------------------------------------------------
LEMMA StartMainKeepsIInv ==
  ASSUME IInv, StartMain
  PROVE  IInv'
<1>1. /\ pc' = "boot" /\ wifiPt' = "connecting" /\ clockLock' = FALSE /\ waitClear' = TRUE
      /\ wdt' = 0 /\ hold' = 0 /\ excused' = ~rtcUp /\ rtcUp' = rtcUp
      /\ ticks' = 1 % TickMod
  BY DEF StartMain, Reset
<1>2. PlacesAgree'
  BY <1>1 DEF PlacesAgree
<1>3. Counts'
  <2>1. 1 % TickMod \in 0 .. TickMod - 1
    BY ModInRange, ScanConstants
  <2>2. 0 \in 0 .. RtcTicks
    BY LoopConstants
  <2> QED
    BY <1>1, <2>1, <2>2 DEF IInv, Counts
<1>4. PauseIsPaid'
  <2>1. (PlacesAgree /\ Counts /\ wdt = 0 => PauseIsPaid)'
    BY FedIsPaid, PTL
  <2> QED
    BY <1>1, <1>2, <1>3, <2>1
<1> QED
  BY <1>2, <1>3, <1>4 DEF IInv

LEMMA TimerInterruptKeepsIInv ==
  ASSUME IInv, TypeOK, TimerInterrupt
  PROVE  IInv'
<1> USE DEF IInv
<1>1. UNCHANGED <<mainVars, rtcUp, clockLock>>
  BY DEF TimerInterrupt, TimerCompare, BlankLine, ClockLocked, TransferBusy, ShowLine
<1>2. PlacesAgree'
  BY <1>1 DEF PlacesAgree, mainVars
<1>3. Counts'
  <2>1. ticks' \in 0 .. TickMod - 1
    <3>1. ticks' = ticks \/ ticks' = (ticks + 1) % TickMod
      BY DEF TimerInterrupt, TimerCompare, BlankLine, ClockLocked, TransferBusy, ShowLine,
             isrVars, SetDisplayTimer
    <3>2. (ticks + 1) % TickMod \in 0 .. TickMod - 1
      BY ModInRange, ScanConstants DEF Counts
    <3> QED
      BY <3>1, <3>2 DEF Counts
  <2>2. wdt' \in Nat
    BY DEF TimerInterrupt, Counts
  <2>3. hold' \in 0 .. RtcTicks
    BY LoopConstants DEF TimerInterrupt, Counts
  <2>4. waitClear' \in BOOLEAN
    BY DEF TimerInterrupt, TimerCompare, BlankLine, ClockLocked, TransferBusy, ShowLine, Counts
  <2>5. excused' = excused \/ excused' = ~rtcUp
    BY DEF TimerInterrupt
  <2>6. excused' \in BOOLEAN /\ (~rtcUp' => excused')
    BY <1>1, <2>5 DEF Counts
  <2> QED
    BY <1>1, <2>1, <2>2, <2>3, <2>4, <2>6 DEF Counts
<1>4. PauseIsPaid'
  <2>1. CASE ~waitClear
    <3>1. wdt' = 0
      BY <2>1 DEF TimerInterrupt, Feeds
    <3>2. (PlacesAgree /\ Counts /\ wdt = 0 => PauseIsPaid)'
      BY FedIsPaid, PTL
    <3> QED
      BY <1>2, <1>3, <3>1, <3>2
  <2>2. CASE waitClear /\ excused
    BY <2>2 DEF TimerInterrupt, Feeds, PauseIsPaid
  <2>3. CASE waitClear /\ ~excused
    <3>1. rtcUp /\ excused' = excused /\ wdt' = wdt + 1
      BY <2>3 DEF TimerInterrupt, Feeds, Counts
    <3>2. PICK n \in 0 .. 3 : n = ReadsLeft
      BY ReadsAreFew
    <3>3. PICK b \in Nat : b = RtcTicks * (3 - n)
      BY FewerReadsCostLess
    <3>4. b <= RtcTicks * 3
      BY <3>3, FewerReadsCostLess
    <3>5. wdt <= SpiTicks + b + Reading /\ wdt \in Nat
      BY <2>3, <3>2, <3>3 DEF PauseIsPaid, Counts
    <3>6. SpiTicks \in Nat /\ RtcTicks \in Nat /\ hold \in Nat
      BY LoopConstants DEF Counts
    <3>7. CASE ShowLine
      <4>1. waitClear' = FALSE /\ ~clockLock
        BY <3>7 DEF ShowLine
      <4>2. Reading = 0
        BY <4>1 DEF Reading
      <4>3. RtcTicks * 3 \in Nat
        BY <3>6
      <4>4. wdt' <= SpiTicks + RtcTicks * 3 + 1
        BY <3>1, <3>3, <3>4, <3>5, <3>6, <4>2, <4>3
      <4> QED
        BY <4>1, <4>4 DEF PauseIsPaid
    <3>8. CASE ClockLocked
      <4>1. waitClear' = TRUE /\ clockLock /\ ticks' = ticks
        BY <3>8, <2>3 DEF ClockLocked, isrVars
      <4>2. ReadsLeft' = ReadsLeft
        BY <1>1, <4>1 DEF ReadsLeft, DueReads, RestartReads, TimeDue, WifiEnds, Expired, mainVars
      <4>3. hold < RtcTicks
        BY <3>1, <4>1 DEF TimerInterrupt, InTime
      <4>4. hold' = hold + 1
        BY <4>1, <4>3 DEF TimerInterrupt
      <4>5. Reading' = hold + 1 /\ Reading = hold
        BY <1>1, <4>1, <4>4 DEF Reading
      <4>6. wdt' <= SpiTicks + b + Reading'
        BY <3>1, <3>3, <3>5, <3>6, <4>5
      <4> QED
        BY <3>2, <3>3, <4>1, <4>2, <4>6 DEF PauseIsPaid
    <3>9. CASE TransferBusy
      <4>1. waitClear' = TRUE /\ ~SPIfinished /\ ~clockLock /\ ticks' = ticks
        BY <3>9, <2>3 DEF TransferBusy, isrVars
      <4>2. ReadsLeft' = ReadsLeft
        BY <1>1, <4>1 DEF ReadsLeft, DueReads, RestartReads, TimeDue, WifiEnds, Expired, mainVars
      <4>3. wdt < SpiTicks
        BY <2>3, <4>1 DEF TimerInterrupt, InTime
      <4>4. Reading' = 0
        BY <1>1, <4>1 DEF Reading
      <4>5. wdt' <= SpiTicks + b + Reading'
        BY <3>1, <3>3, <3>5, <3>6, <4>3, <4>4
      <4> QED
        BY <3>2, <3>3, <4>1, <4>2, <4>5 DEF PauseIsPaid
    <3> QED
      BY <2>3, <3>7, <3>8, <3>9 DEF TimerInterrupt, TimerCompare, BlankLine
  <2> QED
    BY <2>1, <2>2, <2>3 DEF Counts
<1> QED
  BY <1>2, <1>3, <1>4

\* A byte shifted out and a chip that comes or goes leave the account as it is.
LEMMA HardwareKeepsIInv ==
  ASSUME IInv, SpiInterrupt \/ RtcStops \/ RtcReturns
  PROVE  IInv'
<1>1. UNCHANGED <<mainVars, wdt, clockLock, waitClear, ticks>>
  BY DEF SpiInterrupt, DataRegisterEmpty, RtcStops, RtcReturns, vars, isrVars
<1>2. PlacesAgree'
  BY <1>1 DEF IInv, PlacesAgree, mainVars
<1>3. Counts'
  <2>1. 0 \in 0 .. RtcTicks
    BY LoopConstants
  <2> QED
    BY <1>1, <2>1 DEF IInv, Counts, SpiInterrupt, RtcStops, RtcReturns
<1>4. CASE SpiInterrupt
  <2>1. ReadsLeft' = ReadsLeft
    BY <1>1 DEF ReadsLeft, DueReads, RestartReads, TimeDue, WifiEnds, Expired, mainVars
  <2>2. hold' = hold /\ excused' = excused
    BY <1>4 DEF SpiInterrupt
  <2>3. Reading' = Reading
    BY <1>1, <2>2 DEF Reading
  <2>4. PauseIsPaid'
    BY <1>1, <2>1, <2>2, <2>3 DEF IInv, PauseIsPaid
  <2> QED
    BY <1>2, <1>3, <2>4 DEF IInv
<1>5. CASE RtcStops \/ RtcReturns
  <2>1. excused'
    BY <1>5 DEF RtcStops, RtcReturns, IInv, Counts
  <2> QED
    BY <1>2, <1>3, <2>1 DEF IInv, PauseIsPaid
<1> QED
  BY <1>4, <1>5

LEMMA InitIInv == LoopInit => IInv
<1> SUFFICES ASSUME LoopInit PROVE IInv
  OBVIOUS
<1>1. PlacesAgree
  BY DEF LoopInit, Init, PlacesAgree
<1>2. Counts
  <2>1. 1 % TickMod \in 0 .. TickMod - 1
    BY ModInRange, ScanConstants
  <2>2. 0 \in 0 .. RtcTicks
    BY LoopConstants
  <2> QED
    BY <2>1, <2>2 DEF LoopInit, Init, Counts
<1>3. wdt = 0
  BY DEF LoopInit
<1> QED
  BY <1>1, <1>2, <1>3, FedIsPaid DEF IInv

LEMMA NextIInv == IInv /\ TypeOK /\ [LoopNext]_loopVars => IInv'
<1> SUFFICES ASSUME IInv, TypeOK, [LoopNext]_loopVars PROVE IInv'
  OBVIOUS
<1>1. CASE TimerInterrupt
  BY <1>1, TimerInterruptKeepsIInv
<1>2. CASE SpiInterrupt \/ RtcStops \/ RtcReturns
  BY <1>2, HardwareKeepsIInv
<1>3. CASE Watchdog \/ JumpToZero
  BY <1>3, StartMainKeepsIInv DEF Watchdog, JumpToZero
<1>4. CASE MainStep
  BY <1>4, MainStepKeepsIInv
<1>5. CASE UNCHANGED loopVars
  <2>1. UNCHANGED <<mainVars, wdt, hold, rtcUp, excused, clockLock, waitClear, ticks>>
    BY <1>5 DEF loopVars, vars
  <2>2. ReadsLeft' = ReadsLeft
    BY <2>1 DEF ReadsLeft, DueReads, RestartReads, TimeDue, WifiEnds, Expired, mainVars
  <2>3. PlacesAgree' /\ Counts' /\ Reading' = Reading
    BY <2>1 DEF IInv, PlacesAgree, Counts, Reading, mainVars
  <2>4. PauseIsPaid'
    BY <2>1, <2>2, <2>3 DEF IInv, PauseIsPaid
  <2> QED
    BY <2>3, <2>4 DEF IInv
<1> QED
  BY <1>1, <1>2, <1>3, <1>4, <1>5 DEF LoopNext

\* What the watchdog's limit must cover: a transfer, three reads of a working chip and
\* the line after them.
LimitCovers == SpiTicks + RtcTicks * 3 + 1 < WdtLimit

\* With a limit that covers that, and whatever the network, the keys and the order of the
\* interrupts do: before every reset by the watchdog the chip had failed (RadioEvent.cpp:21).
THEOREM WatchdogIsFed == LimitCovers /\ LoopSafety => []NoWatchdogReset
<1>1. LimitCovers /\ IInv => NoWatchdogReset
  <2> SUFFICES ASSUME LimitCovers, IInv, ~excused PROVE wdt < WdtLimit
    BY DEF NoWatchdogReset
  <2>1. /\ SpiTicks \in Nat /\ RtcTicks \in Nat /\ RtcTicks * 3 \in Nat /\ WdtLimit \in Nat
        /\ wdt \in Nat
    BY LoopConstants DEF IInv, Counts
  <2>2. CASE ~waitClear
    <3>1. wdt <= SpiTicks + RtcTicks * 3 + 1
      BY <2>2 DEF IInv, PauseIsPaid
    <3> QED
      BY <2>1, <3>1 DEF LimitCovers
  <2>3. CASE waitClear
    <3>1. PICK n \in 0 .. 3 : n = ReadsLeft
      BY ReadsAreFew DEF IInv
    <3>2. wdt <= SpiTicks + RtcTicks * (3 - n) + Reading
      BY <2>3, <3>1 DEF IInv, PauseIsPaid
    <3>3. clockLock => n >= 1
      <4>1. RestartReads \in {0, 2}
        BY DEF RestartReads
      <4>2. clockLock => pc \in {"bootRtc", "rtc"}
        BY DEF IInv, PlacesAgree
      <4>3. (pc = "bootRtc" => n = 2) /\ (pc = "rtc" => n = 1 + RestartReads)
        BY <3>1 DEF ReadsLeft
      <4> QED
        BY <4>1, <4>2, <4>3
    <3>4. Reading \in Nat /\ Reading <= RtcTicks /\ (~clockLock => Reading = 0)
      BY <2>1 DEF Reading, IInv, Counts
    <3>5. PICK b \in Nat : b = RtcTicks * (3 - n)
      BY FewerReadsCostLess
    <3>6. b <= RtcTicks * 3 /\ (n >= 1 => b + RtcTicks <= RtcTicks * 3)
      <4>1. n \in {0, 1, 2, 3}
        OBVIOUS
      <4> QED
        BY <2>1, <3>5, <4>1
    <3>7. wdt <= SpiTicks + RtcTicks * 3
      BY <2>1, <3>2, <3>3, <3>4, <3>5, <3>6
    <3> QED
      BY <2>1, <3>7 DEF LimitCovers
  <2> QED
    BY <2>2, <2>3
<1>2. LoopSafety => []TypeOK
  <2>1. LoopInit => Init
    BY DEF LoopInit
  <2>2. ScanInv => TypeOK
    BY DEF ScanInv
  <2> QED
    BY <2>1, <2>2, LoopStepIsScanStep, InitScanInv, NextScanInv, PTL DEF LoopSafety
<1>3. LoopSafety => []IInv
  BY <1>2, InitIInv, NextIInv, PTL DEF LoopSafety
<1>4. LimitCovers => []LimitCovers
  <2>1. LimitCovers => LimitCovers'
    BY DEF LimitCovers
  <2> QED
    BY <2>1, PTL
<1> QED
  BY <1>1, <1>3, <1>4, PTL
=============================================================================
