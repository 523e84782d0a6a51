---------------------------- MODULE DisplayScan ----------------------------
(***************************************************************************)
(* The scan of the LED matrix: the timer-compare interrupt                 *)
(* (display.cpp, ISR(TIMER1_COMPA_vect)), the data-register-empty          *)
(* interrupt that feeds the column shift register (myspi.cpp), the row and *)
(* column registers they drive, and the operations through which the main  *)
(* thread disturbs them: the swap of the two picture buffers, the flush    *)
(* flag, the clock lock, and a restart of the firmware.                    *)
(*                                                                         *)
(* An interrupt handler is one step: handlers do not nest (the timer       *)
(* handler ends well before the next compare match).  The main thread is   *)
(* unconstrained here: it may swap, flush and lock in any order.           *)
(* DisplayLoop gives the order radioclock.cpp uses.                        *)
(*                                                                         *)
(* A picture is MaxFrames frames of NumLines lines of LineSize bytes.  The *)
(* bytes are abstracted to where they were read: line l of frame f, from   *)
(* one buffer throughout, or torn between the displayed picture and the    *)
(* one the main thread draws.                                              *)
(***************************************************************************)
EXTENDS Naturals

CONSTANTS NumLines,   \* YRES: rows of the matrix (8)
          MaxFrames,  \* MAX_FRAMES: frames of a picture (2)
          LineSize,   \* LINE_SIZE: bytes of a line (16)
          TickMod     \* current_ticks counts modulo this (2^32), in steps of 5

ASSUME ScanConstants ==
  /\ NumLines \in Nat \ {0}
  /\ MaxFrames \in Nat \ {0}
  /\ LineSize \in Nat \ {0, 1}
  /\ TickMod \in Nat \ {0}

Rows   == 0 .. NumLines - 1
Frames == 0 .. MaxFrames - 1

(* line starts at 255 and wraps to 0 with its first increment. *)
NoLine == NumLines

Buffers == {0, 1}   \* displayBuff and drawBuff

VARIABLES
  line, lineBit,    \* next line to light; its flag, as the set of its set bits
  frame, waitClear, lock, switchBuffer, displayBuffer,   \* fields of display
  ticks,            \* current_ticks / 5
  ocr,              \* OCR1A: the frame whose cycle count it holds
  spi,              \* SPIBuffer (buffer, frame, line), SPIBufferCount, and
                    \* whether a byte sent came from the wrong buffer
  rowReg, oe,       \* row shift register (FALSE lights a row), row output enable
  latch,            \* column latch: the frame and line stored, and if it is torn
  clockLock,        \* radioEvent.clockLock: the RTC is being read
  tornShown         \* auxiliary: torn lines stored since the last swap

isrVars == <<line, lineBit, frame, ticks, ocr, rowReg, latch, tornShown>>
vars == <<line, lineBit, frame, waitClear, lock, switchBuffer, displayBuffer,
          ticks, ocr, spi, rowReg, oe, latch, clockLock, tornShown>>

Stored == [frame : Frames, line : Rows \cup {NoLine}, torn : BOOLEAN]

TypeOK ==
  /\ line \in Rows \cup {NoLine}
  /\ lineBit \in SUBSET Rows
  /\ frame \in Frames
  /\ waitClear \in BOOLEAN /\ lock \in BOOLEAN /\ switchBuffer \in BOOLEAN
  /\ displayBuffer \in Buffers
  /\ ticks \in 0 .. TickMod - 1
  /\ ocr \in Frames
  /\ spi \in [buf : Buffers, frame : Frames, line : Rows \cup {NoLine},
              left : 0 .. LineSize - 1, torn : BOOLEAN]
  /\ rowReg \in [Rows -> BOOLEAN]
  /\ oe \in BOOLEAN
  /\ latch \in Stored
  /\ clockLock \in BOOLEAN
  /\ tornShown \in Nat

-----------------------------------------------------------------------------
(* LedEnableShiftClock(v): one clock of the row register with v at its data
   input; the row latch is transparent. *)
Shifted(v) == [r \in Rows |-> IF r = 0 THEN v ELSE rowReg[r - 1]]

(* The column data nobody has sent a line for: eight zero bytes and rubbish. *)
NoData == [frame |-> 0, line |-> NoLine, torn |-> FALSE]

(* SPItransferBufferReverse(): the last byte is sent at once, the rest by the
   data-register-empty interrupt. *)
Transfer(buf, f, l) ==
  [buf |-> buf, frame |-> f, line |-> l, left |-> LineSize - 1, torn |-> FALSE]

(* lineBit = 0: no button is looked at before line 0 sets the first bit. *)
BadStartBit == {0}
StartBit == {}

(* The eight zero bytes of init() are out, nothing is left. *)
NoTransfer == [buf |-> 0, frame |-> 0, line |-> NoLine, left |-> 0, torn |-> FALSE]

(* LedDisplay::init() after a reset or a jump to address 0.  RAM starts anew,
   the registers on the board keep what they hold. *)
Init ==
  /\ line = NoLine /\ lineBit = StartBit
  /\ frame = 0 /\ waitClear = TRUE /\ lock = FALSE /\ switchBuffer = FALSE
  /\ displayBuffer = 0
  /\ ticks = 1 % TickMod /\ ocr = 0
  /\ spi = NoTransfer
  /\ rowReg \in [Rows -> BOOLEAN] /\ rowReg[0]
  /\ oe = FALSE
  /\ latch = NoData
  /\ clockLock = FALSE
  /\ tornShown = 0

Reset ==
  /\ line' = NoLine /\ lineBit' = StartBit
  /\ frame' = 0 /\ waitClear' = TRUE /\ lock' = FALSE /\ switchBuffer' = FALSE
  /\ displayBuffer' = 0
  /\ ticks' = 1 % TickMod /\ ocr' = 0
  /\ spi' = NoTransfer
  /\ rowReg' = Shifted(TRUE)
  /\ oe' = FALSE
  /\ clockLock' = FALSE
  /\ tornShown' = 0
  /\ UNCHANGED latch

-----------------------------------------------------------------------------
(* The timer-compare interrupt, by its four ways through. *)

SPIfinished == spi.left = 0

(* LedDisableClock(), which is also what feeds the watchdog. *)
BlankLine ==
  /\ ~waitClear
  /\ oe' = FALSE
  /\ waitClear' = TRUE
  /\ lock' = FALSE
  /\ UNCHANGED <<isrVars, switchBuffer, displayBuffer, spi, clockLock>>

(* The early return leaves display.lock set. *)
ClockLocked ==
  /\ waitClear /\ clockLock
  /\ lock' = TRUE
  /\ UNCHANGED <<isrVars, waitClear, oe, switchBuffer, displayBuffer, spi, clockLock>>

TransferBusy ==
  /\ waitClear /\ ~clockLock /\ ~SPIfinished
  /\ lock' = FALSE
  /\ UNCHANGED <<isrVars, waitClear, oe, switchBuffer, displayBuffer, spi, clockLock>>

LastLine == line = NumLines - 1
BadLastFrame == frame = MaxFrames
LastFrame == frame = MaxFrames - 1
NextLine  == IF LastLine \/ line = NoLine THEN 0 ELSE line + 1
BadNextBit == {b + 1 : b \in lineBit}
NextBit   == IF LastLine THEN {0} ELSE {b + 1 : b \in lineBit}
NextFrame == IF ~LastLine THEN frame ELSE IF LastFrame THEN 0 ELSE frame + 1

(* LedEnableShiftClock(line): the only low bit goes in with line 0. *)
BadRowData == NextLine # 0
RowData == line # 0

(* storeLine(): the column register moves to the column latch, complete or
   not. *)
StoreLine ==
  LET torn == spi.torn \/ ~SPIfinished
  IN  /\ latch' = [frame |-> spi.frame, line |-> spi.line, torn |-> torn]
      /\ tornShown' = IF torn THEN tornShown + 1 ELSE tornShown

(* setDisplayTimer(), called for line 0, counts the milliseconds only while frame 0 is shown. *)
BadSetDisplayTimer ==
  IF LastLine
  THEN /\ ocr' = NextFrame
       /\ ticks' = IF frame = 0 THEN (ticks + 1) % TickMod ELSE ticks
  ELSE UNCHANGED <<ocr, ticks>>

SetDisplayTimer ==
  IF line = 0
  THEN /\ ocr' = frame
       /\ ticks' = IF frame = 0 THEN (ticks + 1) % TickMod ELSE ticks
  ELSE UNCHANGED <<ocr, ticks>>

BadFillLineShift == spi' = Transfer(1 - displayBuffer, NextFrame, NextLine)
FillLineShift == spi' = Transfer(displayBuffer, NextFrame, NextLine)

(* The last line of the last frame answers a flush. *)
BadPictureDone  == LastLine
BadPictureDone2 == LastLine /\ NextFrame = MaxFrames
PictureDone == LastLine /\ LastFrame

ShowLine ==
  /\ waitClear /\ ~clockLock /\ SPIfinished
  /\ StoreLine
  /\ rowReg' = Shifted(RowData)
  /\ oe' = TRUE
  /\ SetDisplayTimer
  /\ line' = NextLine
  /\ lineBit' = NextBit
  /\ frame' = NextFrame
  /\ switchBuffer' = IF PictureDone THEN FALSE ELSE switchBuffer
  /\ FillLineShift
  /\ waitClear' = FALSE
  /\ lock' = FALSE
  /\ UNCHANGED <<displayBuffer, clockLock>>

TimerCompare == BlankLine \/ ClockLocked \/ TransferBusy \/ ShowLine

(* ISR(USART_UDRE_vect): enabled while bytes are left.  A byte fetched from
   the buffer the main thread draws in tears the line. *)
DataRegisterEmpty ==
  /\ ~SPIfinished
  /\ spi' = [spi EXCEPT !.left = spi.left - 1,
                        !.torn = spi.torn \/ spi.buf # displayBuffer]
  /\ UNCHANGED <<isrVars, waitClear, oe, lock, switchBuffer, displayBuffer, clockLock>>

-----------------------------------------------------------------------------
(* The main thread. *)

(* LedDisplay::switchBuffers().  The two buffers lie 256 bytes apart, so an
   interrupt between the two byte stores of a pointer sees the old or the new
   pointer.  A line in transfer when its buffer becomes the drawing buffer is
   counted as torn. *)
SwitchBuffers ==
  /\ displayBuffer' = 1 - displayBuffer
  /\ spi' = [spi EXCEPT !.torn = spi.torn \/ ~SPIfinished]
  /\ tornShown' = 0
  /\ UNCHANGED <<line, lineBit, frame, ticks, ocr, rowReg, latch,
                 waitClear, oe, lock, switchBuffer, clockLock>>

Flush ==
  /\ switchBuffer' = TRUE
  /\ UNCHANGED <<isrVars, waitClear, oe, lock, displayBuffer, spi, clockLock>>

(* RadioEvent::updateTime() around RTC.now(). *)
LockClock ==
  /\ clockLock' = TRUE
  /\ UNCHANGED <<isrVars, waitClear, oe, lock, switchBuffer, displayBuffer, spi>>

UnlockClock ==
  /\ clockLock' = FALSE
  /\ UNCHANGED <<isrVars, waitClear, oe, lock, switchBuffer, displayBuffer, spi>>

MainThread == SwitchBuffers \/ Flush \/ LockClock \/ UnlockClock

Next == TimerCompare \/ DataRegisterEmpty \/ MainThread \/ Reset

Spec == Init /\ [][Next]_vars
-----------------------------------------------------------------------------
(* While a row is switched on, exactly one row is, and the column latch holds
   the complete data of that row: the eight bits of the row register, shifted
   once per line, never drift from the line counter of the interrupt and from
   the transfer it started one line earlier.  (lineBit is empty only in the
   first pass after a start, while rubbish leaves the row register.) *)
LitRowShowsItsLine ==
  oe /\ lineBit # {} => {r \in Rows : ~rowReg[r]} = {latch.line}

(* A line is lit for the time of the frame it belongs to, although OCR1A is
   only written when line 0 is shown and frame has moved on by then. *)
FrameGetsItsTime ==
  oe /\ latch.line # NoLine => ocr = latch.frame

(* However the main thread swaps the buffers, between two swaps at most one
   line is stored whose bytes were read from the buffer being drawn: the one
   in transfer at the swap. *)
AtMostOneTornLine == tornShown <= 1

(* The flag updateButton() gets is the bit of the row about to be lit, or no
   bit at all as long as the row register may hold rubbish. *)
ButtonBitIsRow == lineBit \in {{}, {line}}

(* What the interrupts keep true between two of their steps.  The transfer
   is that of the next line to light; the line stored last is its predecessor
   in raster order; the row register is known up to the row lit last, and
   all of it once the first pass is over; a transfer whose buffer was swapped
   away while bytes were left is marked torn, and it is the only one. *)
TransferIsNextLine == spi.frame = frame /\ spi.line = line

LatchIsPreviousLine ==
  line # NoLine =>
    IF latch.line = NoLine
    THEN line = 0 /\ frame = 0 /\ lineBit = {}
    ELSE IF latch.line = NumLines - 1
    THEN /\ line = 0 /\ lineBit = {0}
         /\ frame = IF latch.frame = MaxFrames - 1 THEN 0 ELSE latch.frame + 1
    ELSE line = latch.line + 1 /\ frame = latch.frame

RowsKnown ==
  line # NoLine /\ latch.line # NoLine =>
    \A r \in Rows : r <= latch.line \/ lineBit # {} => (~rowReg[r] <=> r = latch.line)

TimerIsFrames == line # NoLine /\ latch.line # NoLine => ocr = latch.frame

TornInTransfer ==
  /\ ~SPIfinished /\ spi.buf # displayBuffer => spi.torn
  /\ tornShown = 0 \/ (tornShown = 1 /\ ~spi.torn)

ScanInv ==
  /\ TypeOK
  /\ oe <=> ~waitClear
  /\ ButtonBitIsRow
  /\ line = NoLine => lineBit = {} /\ frame = 0 /\ waitClear
  /\ TransferIsNextLine
  /\ LatchIsPreviousLine
  /\ RowsKnown
  /\ TimerIsFrames
  /\ TornInTransfer

(* A flush is answered only by lighting the last line of the last frame. *)
FlushEndsWithPicture ==
  [][switchBuffer /\ ~switchBuffer' =>
        \/ oe' /\ latch'.frame = MaxFrames - 1 /\ latch'.line = NumLines - 1
        \/ Reset]_vars

(* The panel is the abstract raster: the line lit last, and whether it is lit. *)
PanelSpot ==
  IF line = NoLine THEN <<0, NumLines>>
  ELSE IF latch.line = NoLine THEN <<0, NumLines + 1>>
  ELSE <<latch.frame, latch.line>>

Panel == INSTANCE Raster WITH spot <- PanelSpot, lit <- oe

(* The interrupts light the lines in raster order with a dark gap between. *)
LinesInRasterOrder == Panel!Spec
=============================================================================
