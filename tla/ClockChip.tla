----------------------------- MODULE ClockChip -----------------------------
(***************************************************************************)
(* The clock chip (DS1307), the bus to it (twimaster.c, wire.h), and the   *)
(* two transactions the firmware makes on it: RTC_DS1307::now(), called by *)
(* updateTime(), and adjust(), called by the "z" command.  One action is   *)
(* one transfer on the bus; the chip counts on in between.                 *)
(*                                                                         *)
(* External, the chip and the bus: the chip copies its time into a second  *)
(* set of registers at a start condition, starts a new second when the     *)
(* seconds are written, goes on counting while the firmware restarts, and, *)
(* if Faulty, does not always acknowledge its address.                     *)
(***************************************************************************)
EXTENDS Calendar, Integers

CONSTANTS Times,      \* the times a host sets, in seconds since 2000
          WildDays,   \* what date2days() makes of months beyond its table
          MaxTicks,   \* bound: seconds that pass
          MaxSets,    \* bound: how often the host sets the time
          Faulty      \* the chip may fail to acknowledge

ASSUME ClockConstants ==
  /\ Times \subseteq Nat /\ WildDays \subseteq Nat
  /\ MaxTicks \in Nat /\ MaxSets \in Nat
  /\ Faulty \in BOOLEAN

(* The calendars of the chip, with its two digits for the year, and of date2days()
   end with the year 2099. *)
Days(t) == t \div 86400
ASSUME WithinCentury == \A t \in Times \cup {0} : Days(t + MaxTicks) < 36525

VARIABLES
  regs,        \* the chip's registers 0 .. 6, the first bit of 0 stops the chip
  shadow,      \* the copy that is read
  bus,         \* released, written, read, held after a read, or read with
               \* nobody answering
  op,          \* the transaction going on: now, adjust, or none
  phase,       \* of it: select the chip, set its pointer, request a read, data
  field,       \* the register transferred next
  newTime,     \* the time adjust() is setting
  starting,    \* main() is before setSystemStart()
  unixTime, systemStart,          \* fields of radioEvent, since 2000
  \* auxiliary:
  sets,        \* how often the time was set
  ticks,       \* seconds the chip counted
  chipTime,    \* the time set last and the seconds counted since
  asked,       \* chipTime and ticks when the last read started
  seen,        \* ticks when unixTime was taken from the chip or set
  uptime,      \* the seconds from start to seen, without those a setting cut off
  good,        \* unixTime was acknowledged or set
  trusted      \* so was every time systemStart was computed from

chipVars == <<regs, shadow, ticks, chipTime>>
busVars  == <<bus, op, phase, field>>
timeVars == <<unixTime, systemStart, starting>>
auxVars  == <<asked, seen, uptime, good, trusted>>
vars == <<chipVars, busVars, timeVars, auxVars, newTime, sets>>

Registers == 0 .. 6
Byte == 0 .. 255

ClockTypeOK ==
  /\ regs \in [Registers -> Byte] /\ shadow \in [Registers -> Byte]
  /\ bus \in {"free", "write", "read", "held", "silent"}
  /\ op \in {"none", "now", "adjust"}
  /\ phase \in {"select", "pointer", "request", "data"}
  /\ field \in 0 .. 8
  /\ newTime \in Nat /\ starting \in BOOLEAN
  /\ unixTime \in Int /\ systemStart \in Int
  /\ sets \in 0 .. MaxSets /\ ticks \in 0 .. MaxTicks
  /\ chipTime \in Nat /\ asked \in [time : Nat, tick : Nat]
  /\ seen \in Nat /\ uptime \in Int
  /\ good \in BOOLEAN /\ trusted \in BOOLEAN

-----------------------------------------------------------------------------
(* DateTime(t) and the registers adjust() writes from it: the weekday is
   always written as zero. *)
RegistersOf(t) ==
  LET date == DateOf(Days(t))
  IN  [r \in Registers |->
         Bin2bcd(CASE r = 0 -> t % 60
                   [] r = 1 -> (t \div 60) % 60
                   [] r = 2 -> (t \div 3600) % 24
                   [] r = 3 -> 0
                   [] r = 4 -> date.day
                   [] r = 5 -> date.month
                   [] r = 6 -> date.year)]

(* unixtime() of the date now() makes of the bytes read. *)
Time2long(days, h, m, s) == ((days * 24 + h) * 60 + m) * 60 + s

BadSeconds(bytes) == Bcd2bin(bytes[0])
Seconds(bytes)    == Bcd2bin(bytes[0] % 128)

TimeOf(bytes, days) ==
  Time2long(days, Bcd2bin(bytes[2]), Bcd2bin(bytes[1]), Seconds(bytes))

DaysRead(bytes) ==
  Date2days(Date(Bcd2bin(bytes[6]), Bcd2bin(bytes[5]), Bcd2bin(bytes[4])))

-----------------------------------------------------------------------------
(* The chip. *)
Halted == regs[0] >= 128

(* Its registers a second later. *)
Carried ==
  LET v(r) == Bcd2bin(regs[r])
      next == DayAfter(Date(v(6), v(5), v(4)))
  IN  IF v(0) < 59      THEN [regs EXCEPT ![0] = Bin2bcd(v(0) + 1)]
      ELSE IF v(1) < 59 THEN [regs EXCEPT ![0] = 0, ![1] = Bin2bcd(v(1) + 1)]
      ELSE IF v(2) < 23 THEN [regs EXCEPT ![0] = 0, ![1] = 0, ![2] = Bin2bcd(v(2) + 1)]
      ELSE [regs EXCEPT ![0] = 0, ![1] = 0, ![2] = 0, ![4] = Bin2bcd(next.day),
                        ![5] = Bin2bcd(next.month), ![6] = Bin2bcd(next.year)]

(* Writing the seconds starts a new one, and the write is over long before its end. *)
Writing == op = "adjust" /\ phase = "data" /\ field > 0

Tick ==
  /\ ticks < MaxTicks /\ ~Halted /\ ~Writing
  /\ regs' = Carried
  /\ ticks' = ticks + 1 /\ chipTime' = chipTime + 1
  /\ UNCHANGED <<shadow, busVars, timeVars, auxVars, newTime, sets>>

-----------------------------------------------------------------------------
(* The beginning of every transaction, beginTransmission() and write(0). *)

(* i2c_start_wait() for writing: refused, it releases the bus and tries again. *)
SelectRefused ==
  /\ Faulty /\ op # "none" /\ phase = "select"
  /\ bus' = "free"
  /\ UNCHANGED <<chipVars, op, phase, field, timeVars, auxVars, newTime, sets>>

Selected ==
  /\ op # "none" /\ phase = "select"
  /\ bus' = "write" /\ phase' = "pointer"
  /\ UNCHANGED <<chipVars, op, field, timeVars, auxVars, newTime, sets>>

(* i2c_stop() *)
EndTransmission == bus' = "free"

(* now() ends the transmission and requests a read, adjust() goes on writing. *)
BadSetPointer ==
  /\ phase = "pointer"
  /\ IF op = "now" THEN EndTransmission /\ phase' = "request" /\ field' = 0
     ELSE phase' = "data" /\ UNCHANGED <<bus, field>>
  /\ UNCHANGED <<chipVars, op, timeVars, auxVars, newTime, sets>>

SetPointer ==
  /\ phase = "pointer"
  /\ field' = 0
  /\ IF op = "now" THEN EndTransmission /\ phase' = "request"
     ELSE phase' = "data" /\ UNCHANGED bus
  /\ UNCHANGED <<chipVars, op, timeVars, auxVars, newTime, sets>>

-----------------------------------------------------------------------------
(* now() *)

(* updateTime(), at the start of main()'s loops and every 100 ms. *)
ReadClock ==
  /\ op = "none"
  /\ op' = "now" /\ phase' = "select"
  /\ UNCHANGED <<chipVars, bus, field, timeVars, auxVars, newTime, sets>>

(* requestFrom() *)
Requested ==
  /\ phase = "request"
  /\ bus' = "read" /\ phase' = "data"
  /\ shadow' = regs
  /\ asked' = [time |-> chipTime, tick |-> ticks]
  /\ UNCHANGED <<regs, ticks, chipTime, op, field, timeVars, seen, uptime, good,
                 trusted, newTime, sets>>

(* i2c_start_wait() looks for TW_MR_DATA_NACK, which a refused read address does
   not give: it goes on as if the chip had answered. *)
RequestRefused ==
  /\ Faulty /\ phase = "request"
  /\ bus' = "silent" /\ phase' = "data"
  /\ UNCHANGED <<chipVars, op, field, timeVars, auxVars, newTime, sets>>

BadReadByte ==
  /\ op = "now" /\ phase = "data"
  /\ field' = field + 1
  /\ UNCHANGED <<chipVars, bus, op, phase, timeVars, auxVars, newTime, sets>>

ReadByte ==
  /\ op = "now" /\ phase = "data" /\ field < 6
  /\ field' = field + 1
  /\ UNCHANGED <<chipVars, bus, op, phase, timeVars, auxVars, newTime, sets>>

(* The bytes that were read; nobody pulls the lines of a silent bus low. *)
Bytes == IF bus = "read" THEN shadow ELSE [r \in Registers |-> 255]

(* i2c_readNak() for the last byte, after which read() returns before its
   i2c_stop(). *)
ReadNak == bus' = "held"

(* The last byte; updateTime(), and setSystemStart() in main(). *)
LastByte ==
  /\ op = "now" /\ phase = "data" /\ field = 6
  /\ ReadNak /\ op' = "none" /\ phase' = "select"
  /\ \E days \in IF bus = "read" THEN {DaysRead(shadow)} ELSE WildDays :
       unixTime' = TimeOf(Bytes, days)
  /\ systemStart' = IF starting THEN unixTime' ELSE systemStart
  /\ starting' = FALSE
  /\ good' = (bus = "read")
  /\ trusted' = IF starting THEN good' ELSE trusted
  /\ IF good'
     THEN /\ seen' = asked.tick
          /\ uptime' = IF starting THEN 0 ELSE uptime + asked.tick - seen
     ELSE UNCHANGED <<seen, uptime>>
  /\ UNCHANGED <<chipVars, field, asked, newTime, sets>>

-----------------------------------------------------------------------------
(* NetCommand::setUnixTime() *)

SetUnixTime(t) ==
  /\ op = "none" /\ ~starting /\ sets < MaxSets
  /\ op' = "adjust" /\ phase' = "select"
  /\ newTime' = t
  /\ sets' = sets + 1
  /\ UNCHANGED <<chipVars, bus, field, timeVars, auxVars>>

(* i2c_write() of a byte the chip takes for its next register. *)
I2cWrite(data) ==
  /\ regs' = [regs EXCEPT ![field] = data]
  /\ field' = field + 1

(* The seven registers; the first starts the new second. *)
WriteByte ==
  /\ op = "adjust" /\ phase = "data" /\ field \in Registers
  /\ I2cWrite(RegistersOf(newTime)[field])
  /\ chipTime' = IF field = 0 THEN newTime ELSE chipTime
  /\ UNCHANGED <<shadow, ticks, bus, op, phase, timeVars, auxVars, newTime, sets>>

BadMoved(start) == start
Moved(start)    == start + newTime - unixTime

(* The control register, the end of the transmission, and the times that are
   counted from unixTime. *)
TimeSet ==
  /\ op = "adjust" /\ phase = "data" /\ field = 7
  /\ EndTransmission /\ op' = "none" /\ phase' = "select"
  /\ systemStart' = Moved(systemStart)
  /\ unixTime' = newTime
  /\ asked' = [time |-> chipTime, tick |-> ticks]
  /\ seen' = ticks /\ good' = TRUE
  /\ trusted' = (trusted /\ good)
  /\ UNCHANGED <<chipVars, field, starting, uptime, newTime, sets>>

-----------------------------------------------------------------------------
(* main() starts again: by the watchdog while the chip is refusing, by a jump
   to address 0 or the end of Wifi::run between two transactions. *)
Restart ==
  /\ op = "none" \/ (Faulty /\ phase = "select")
  /\ starting' = TRUE /\ good' = FALSE
  /\ op' = "now" /\ phase' = "select"
  /\ UNCHANGED <<chipVars, bus, field, unixTime, systemStart, asked, seen, uptime,
                 trusted, newTime, sets>>

(* A chip that is set, or one that was never powered before. *)
Init ==
  /\ \/ chipTime \in Times /\ regs = RegistersOf(chipTime)
     \/ chipTime = 0 /\ regs = [RegistersOf(0) EXCEPT ![0] = 128]
  /\ shadow = regs /\ bus = "free"
  /\ op = "now" /\ phase = "select" /\ field = 0
  /\ newTime = 0 /\ starting = TRUE
  /\ unixTime = 0 /\ systemStart = 0
  /\ sets = 0 /\ ticks = 0
  /\ asked = [time |-> 0, tick |-> 0] /\ seen = 0 /\ uptime = 0
  /\ good = FALSE /\ trusted = FALSE

Next ==
  \/ Tick
  \/ SelectRefused \/ Selected \/ SetPointer
  \/ ReadClock \/ Requested \/ RequestRefused \/ ReadByte \/ LastByte
  \/ \E t \in Times : SetUnixTime(t)
  \/ WriteByte \/ TimeSet
  \/ Restart

Spec == Init /\ [][Next]_vars

-----------------------------------------------------------------------------
(* The chip always holds one time, that set last and the seconds since: a
   restart while the chip refuses its address leaves no setting half written,
   and the chip carries on from what adjust() wrote through every boundary. *)
ChipHoldsOneTime ==
  ~Writing => regs = RegistersOf(chipTime) \/ regs = [RegistersOf(chipTime) EXCEPT ![0] = 128]

(* A reading the chip acknowledged is the time of one instant, that of the start
   of the read, whatever ticks between its bytes. *)
ReadingIsOneInstant == good /\ op = "none" => unixTime = asked.time

(* Setting the clock, forwards or backwards, leaves the time since the start as
   it was: what was counted before and what the chip counts after add up. *)
UptimeIsKept == good /\ trusted => unixTime - systemStart = uptime

(* twimaster.c:72: "If device is busy, use ack polling to wait until device is
   ready": nothing is read from a chip that did not answer. *)
ReadsWhatAnswers == op = "now" /\ phase = "data" => bus = "read"
=============================================================================
