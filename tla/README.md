# A TLA+ model of RadioClock

RadioClock is the firmware of a LED-matrix studio clock (ATmega328, Arduino
style, cooperative "protothreads") and the host scripts that feed it: the clock
shows the time, the radio plan, short messages and videos that a host sends
over WiFi.  This directory holds TLA+ modules translated from the code, TLC
configurations that check them on small instances, and TLAPS proofs.

## 1. The system (inventory)

| Component | Code | State it keeps | Operations | Module |
|---|---|---|---|---|
| LED matrix scan | `display.cpp` (ISR, `init`), `display.h`, `myspi.cpp` | `line`, `lineBit`, `frame`, `waitClear`, `switchBuffer`, two picture buffers, SPI transfer, `OCR1A`; on the board: row and column registers | timer-compare interrupt, data-register-empty interrupt, `switchBuffers`, `flush`, `init` | `DisplayScan`, `Raster` |
| Main loop, timers, watchdog | `radioclock.cpp`, `display_timer.h`, `WiShield/timer.c`, `clock-arch.c` | three protothreads, two timers, `current_ticks`, the 15 ms watchdog | one turn of the loop, jump to address 0, watchdog reset | `DisplayLoop` |
| Front-panel keys | `switch.h`, `handleButtons` | `buttonBuffer`, `_buttonPressed` | sample on every lit row, `buttonPressed` | `FrontPanel` |
| Event table and plan upload | `RadioEvent.*`, `sendPlan` in `setTime.pl` | `events[10]`, two titles | `setEvent`, `getRunningEvent`, `getNextEvent` | `EventTable` |
| Messages and videos | `RadioEvent.*`, `netcommand.cpp` | message, its time, video request, `videoAllowed` | `setMessage`, `setVideoRequest`, `copyBuffer`, `showCurrentEvent` | `Messages` |
| Drawing and video frames | `display.cpp` (`drawChar` ... `plot`), `videotest.pl` | `drawBuffer`, borders, colour, scroll position | draw text, durations, bars, a frame | `Drawing`, `Screen` |
| Clock chip, I2C, calendar | `rtc/`, `i2cmaster/` | the DS1307's BCD registers, TWI state | `now`, `adjust`, `DateTime`, `unixtime`, `i2c_*` | `ClockChip`, `Calendar` |
| Command service | `netcommand.*`, `WiShield/socketapp.*`, `WiShield/psock.*` | line buffer, protosocket state | `handleCommand`, `handle_connection` | `ProtoSocket` |
| TCP | `WiShield/uip.c`, `stack.c` | one connection and its timers | `uip_process`, `uip_periodic` | `TcpConnection` |
| IP, ICMP, ARP | `WiShield/uip.c`, `uip_arp.c`, `stack.c` | ARP table, its eight-bit clock | checks of a packet, echo, `uip_arp_out`, `uip_arp_timer` | `IpPacket`, `IpStack`, `ArpTable` |
| Radio driver | `WiShield/g2100.c`, `spi.h` | `zg_drv_state`, `cnf_pending`, `tx_ready`, shared `zg_buf` | `zg_isr`, `zg_process_isr`, `zg_drv_process`, `zg_send` | `RadioDriver` |
| Connection supervision | `radioclock.cpp` `handleNetworkErrors`, `WiShield.cpp` | `m_connected`, `requestTime` | reconnect, `restartStack`, soft reset | `NetworkLoop` |
| Host client | `setTime.pl` | telnet session, last times | set time, send plan, video, messages | `TelnetHost`, `MessageHost`, `EventTable` |
| Message hand-over | `webServer.pl`, `setTime.pl` | `/tmp/radioMessage.txt` | write, read and unlink | `MessageHost` |
| Web server library | `WiShield/WiServer.*` | virtual buffer, queue of requests | `sendPage`, `submit` | `WiServer` |
| Forwarding library | `WiShield/uip-fw.c`, `uip-split.c` | cache of packets, interfaces | `uip_fw_forward`, `uip_split_output` | `Forwarding` |
| Not modelled | `menusystem`, `debug`, `wiring`, `memb.c`, `uip-neighbor.c`, fonts and `charset` tools, assembler I2C, HTML docs | | see section 7 | |

How they interact.  Two interrupts and the main thread share `display`,
`radioEvent.clockLock`, the keys' bytes and the millisecond counter without
locks.  The main thread is cooperative: `Wifi::run` (network and, through it,
the commands), `showEvents` (buttons, supervision, drawing) and `updateTime`
(clock chip) take turns; each runs to its next wait.  The radio driver's
interrupt only sets a flag the main thread polls.  The host talks to the clock
with one telnet connection, one command at a time, and a CGI-like web server
leaves messages for it in a file.

What is hard.  (a) The scan never resynchronises: correctness is a coincidence
of four counters that must never drift.  (b) Reading the clock chip stops the
scan, and the scan is all that feeds a 15 ms watchdog and counts the time.  (c)
Bits set by the interrupt and cleared by the main thread.  (d) A plan is
uploaded by several commands, and the picture is drawn between any two of them.
(e) Loss of association is not noticed by `Wifi::run`; a silence of 240 s or 90
s is the only way out.  (f) One packet buffer is shared by receive, transmit
and the radio driver.  (g) Times are 32-bit, the chip's are BCD with a
two-digit year.  (h) A message and the frames of a video share one buffer, and
only two times that run off independently say what its bytes are.  (i) The
protosocket is called again for acknowledgements, timeouts and data alike, in
the middle of an answer.  (j) Text is drawn by two ways that must meet at the
borders.  (k) The web server and the client share a file without a lock.

What makes each part correct.

- *Scan*: every lit row shows its own line of its own frame, for the time of
  that frame; a buffer swap tears one line at most; a flush ends with a
  picture.
- *Main loop*: with a working clock chip the watchdog never fires; with a
  broken one it is what ends the wait; every flush is answered; time goes on.
- *Keys*: no press is made up, and none is lost but in a race of two stores.
- *Plan*: the picture announces shows of the plan with their own titles, even
  half way through an upload; a complete upload takes effect whatever was
  there.
- *Messages and videos*: a picture is never read as text; a screen of a message
  stays until the next; a message handed over whole is read.
- *Drawing*: the buffer holds exactly what was to be drawn, every column of a
  text is seen some time, a frame arrives as it was made.
- *Clock chip*: the chip never holds half a time, a reading is one instant, the
  three calendars agree, and setting the clock keeps the uptime.
- *Command service and TCP*: no line is handled twice, answers arrive in order
  and belong to their lines, and a client that vanished is forgotten unless
  it was idle.
- *IP and ARP*: packets go to the link address last heard; sums and checksums
  are right at every carry.
- *Radio driver*: no message waits with the interrupt off, one frame at a time
  is unconfirmed, the driver's idea of the radio is true, and it connects
  only when everything was set up.
- *Supervision*: a lost link recovers; each attempt to connect gets its time.
- *Libraries*: what is written again for each segment arrives whole; a packet
  is forwarded once.

## 2. Plan

All modules of the plan are written, the most important behaviour first:

1. `Raster`, `DisplayScan`: the abstract raster and the interrupts that
   implement it; `DisplayLoop`, `FrontPanel` around them.
2. `EventTable`: the plan, its upload and the event shown.
3. `RadioDriver`, `NetworkLoop`: the driver with `Wifi::run`, and the
   supervision composed with it.
4. `Calendar`, `CalendarWalk`, `ClockChip`.
5. `Messages`, `MessageHost`: what is displayed when no event is near, and the
   script and the web server that decide it.
6. `ProtoSocket`, `TcpConnection`, `TelnetHost`: the command service, the
   connection under it and the client at its other end.
7. `IpPacket`, `IpWalk`, `ArpTable`, `IpStack`: the stack below TCP.
8. `Drawing`, `Screen`: the picture.
9. `WiServer`, `Forwarding`: library code the clock's program does not use.

What could still be proved is listed at the end of section 6.

## 3. The modules and the code

Composition: `DisplayLoop` and `FrontPanel` extend `DisplayScan`, which
implements `Raster`; `DisplayLoop` implements `DisplayScan`; `NetworkLoop`
extends `RadioDriver` and implements it; `CalendarWalk` and `ClockChip` extend
`Calendar`; `MessageHost` extends `Messages`; `TelnetHost` extends
`TcpConnection`, which extends `ProtoSocket`; `IpStack` extends `ArpTable` and
`IpPacket`, as `IpWalk` and `Forwarding` extend the latter; `Screen` extends
`Drawing`.  `EventTableProofs` extends both `EventTable` and `Screen`, which share
no variable.  The modules named `MC...` give the constants their values; two of
them (`MCIpStack`, `MCWiServer`) let two machines that share no state run in
one instance, one at a time.  An operator whose name begins with `Bad` is a
plausible mistake in the definition it stands before; checking with it in place
of that definition must break a property.

**Raster** is what somebody in front of the clock sees: the lines of frame 0,
then of the brighter frames, in order, for ever, with a dark gap between.

**DisplayScan** has one action for each entry of the two interrupts
(`TimerCompare`: `SIGNAL(TIMER1_COMPA_vect)`, which blanks a line or shows one
and starts the next transfer; `DataRegisterEmpty`: a byte shifted out), and one
for each access of the main thread (`SwitchBuffers`, `Flush`, `LockClock`,
`UnlockClock`, `Reset`), enabled at any time.  The variables have the code's
names; the row register, the column latch and the output enable (`rowReg`,
`latch`, `oe`) stand for the board.  What a line shows is the frame and line it
was sent for, and whether one of its bytes was fetched after its buffer was
swapped away (`torn`).

**DisplayLoop** adds the program counter of `main()`, the three protothreads as
far as they wait, two timers in the display's own milliseconds (modulo
`TickMod`), the watchdog and a chip that may stop to answer.  `wdt` and `hold`
count compare interrupts, the model's real time: the display's time stands
still with `clockLock` set, which is the very hazard.

**FrontPanel** splits `_buttonPressed &= ~bit` into its load and its store
(`LoadPressed`, `StoreCleared`), with the interrupt's sampling in between.

**EventTable** has the table as the code has it, one array of starts in which
the start of the next entry is the end of this one, and titles of the first
entries only. `EventCommand` is the whole `u` command and `EventCommandLost`
one that never arrived: the client reconnects and carries on with the next
command.  `SendPlan`, `SkipShow`, `PlanSent` and `HostRestarts` are
`sendPlan()`; `IsRunningEvent(i)` and `IsNextEvent(i)` say that
`getRunningEvent()` and `getNextEvent()` return `i`, and are what the picture
is drawn from.  `FirstTime` is the 1380000000 up to which an entry does not
exist.

**Messages** keeps what is left of a message and of a video (`msgLeft`,
`vidLeft`), because only differences of times matter and setting the clock
changes both alike.  `Shown` is the order of the branches of
`showCurrentEvent()`, whose video branch also allows videos again.

**MessageHost** is the main loop of `setTime.pl` as a program counter and the
seconds it will sleep, with `readMessage()` and `enqueueMessage()` system call
by system call: `Look` (`-e`), `ReadFile`, `UnlinkFile` on one side, `OpenFile`
(which truncates) and `CloseFile` (which writes) on the other.  A command
either works (`Answered`) or fails with or without having reached the clock
(`Failed`).

**ProtoSocket** is the application of a connection as a function: the
protosocket, the events uIP calls it for and the new data go in, the possible
outcomes come out.  What `psock_readto()` left unread stays in the packet
buffer, where the next frames are written over it (`Junk`).

**TcpConnection** is `uip_process()` by state, in the order of its tests, with
whole lines instead of bytes as what sequence numbers count.

**TelnetHost** adds the client (`Open`, `TelnetCmd`, `PlayFrame`, `WaitFor`,
`Quit`, `Reconnect`), the TCP of its kernel and a network that loses and delays
segments.

**IpPacket** has the arithmetic of `uip.c`: `Add32`, `Chksum` and the repair of
a checksum for an echo, in the widths of the code; **IpWalk** takes it over
every byte at which something carries.  **ArpTable** is `uip_arp.c`; its clock
is `TimeMod` ticks wide and its ages are differences that may be negative, as
in the code.  **IpStack** is `stack_process()` around it.

**RadioDriver** follows `Wifi::run` from call to call: the stack (`StackInput`,
`StackPeriodic`, `StackIdle`), then `zg_drv_process()`, which sends a waiting
frame (`SendFrame`), reads a message (`zg_process_isr()`: `ReadMessage`,
`ClearFlag`, `EnableInterrupt`) and turns its state machine (`DriverStep`, with
the `DRV_STATE_...` names shortened).  `ZgIsr` is the interrupt.  Messages are
their kinds, `buf` is what the shared packet buffer holds.  The radio keeps two
queues, of management and of data messages, which the driver may be given in
either order.

**NetworkLoop** adds `handleNetworkErrors()` and `handleButtons()` (`Show`),
`requestTime` as the time since it (`late`), the outer loop (`EndOfTurn` when
`Wifi::run` has ended) and the host (`awaited`).

**Calendar** holds the pure functions of `RTClib.cpp`; **CalendarWalk** takes
them through every day of the century with the chip's own calendar as
reference; **ClockChip** has `now()` and `adjust()` byte by byte, the
registers, and `unixTime` and `systemStart` as `setUnixTime()` leaves them.
Times are seconds since 2000-01-01, the code's `t - 946684800`.

**Drawing** has the operations of `display.cpp` on one of the eight rows, as
sets of lit places: `Bytes`, the shift of a character into two bytes, and
`Dots`, the plotting near a border.  **Screen** calls them as
`showCurrentEvent()` does, one character per step, round after round, and first
takes a video frame from `videotest.pl` through `playMovie()` and the
protosocket into the buffer.

**WiServer** writes a page or a request again for each segment and lets through
what is beyond the bytes acknowledged (`Let`, `SendLength`).  **Forwarding** has
the cache as the code has it, timers without an order, and headers as far as
the checksum's repair needs them.

What each action stands for, line by line, is in the `map` of `PROJECT.json`.

## 4. The runs

| Run | Configuration | Question | Bounds and why they are enough |
|---|---|---|---|
| `scan` | `FrontPanel.cfg` | Do the interrupts show the raster whatever the main thread does, and are presses reported once? | 4 lines, 3 bytes, 2 frames: the first byte is sent at once, two are left to the interrupt, there are inner lines, both frame times occur; two keys on the two first rows, each pressed once, with releases and resets at any moment |
| `loop` | `DisplayLoop.cfg` | Does the loop starve the scan, or the scan the loop, with a clock chip that may die? | 2 lines, 2 bytes, a read in every pass; time modulo 3 passes, so the timers wrap; each pause one interrupt, the watchdog at 6, the smallest limit over `SpiTicks + 3 * RtcTicks + 1` (with 5 the property fails) |
| `plan` | `EventTable.cfg` | What does the picture announce while plans are uploaded? | Seven shows with a pause of one and one of two (over `MaxGap`), five entries, of which the last is never written, two with titles; any command may be lost, either clock starts anywhere up to `MaxTime` |
| `radio` | `RadioDriver.cfg` | Does the driver with its interrupt lose anything, and does it understand the radio? | Queues of two, WPA, an unreliable radio: overtaking, losses, refusals |
| `network` | `NetworkLoop.cfg` | Does the supervision respect the driver and its own timing, and does the clock come back to the net? | All three keys; 240 s and 90 s as 1 and 0 seconds, order kept; queues of one, an open network |
| `clock` | `ClockChip.cfg` | Does the chip hold one time, is a reading one instant, do the calendars agree? | 3 ticks, 2 settings, times two seconds before a leap day, a new year and noon, so each carry happens between any two bytes; `WildDays` is what `date2days()` may return for a month beyond its table; the calendars on all 36525 days |
| `ip` | `IpStack.cfg` | Is the ARP table right, and the arithmetic? | Three hosts, one of them the router, for two slots, so that the oldest is evicted; two link addresses; a clock that wraps after 6 ticks and slots that should last 2; six values of a byte and twelve of a word, at which something carries |
| `tcp` | `TelnetHost.cfg` | Are lines handled once and answered in order, and is a client that is gone forgotten? | Two connections of three lines and one; one segment under way each way (another is lost); one retransmission; pictures, whose second line is empty |
| `messages` | `MessageHost.cfg` | What is the shared buffer taken for, does a message stay, is it read? | Two screens, a second each, a tail of one, a rest of one, a video of four, so that it goes on after a message; the clock set by one second either way; one message handed over |
| `posted` | `MessageHostPosted.cfg` | Is a message shown that the web page says will be? (violated) | One message, one screen, no video needed |
| `drawing` | `Screen.cfg` | Is the buffer what was to be drawn, and does all of a text come by? | The display's 64 columns and a small font with every width of the real one; texts that are empty, fit, fit just so, do not fit, or hold an umlaut; durations on both sides of each carry; frames with the byte 10 and with the first and last dot of a byte |
| `library` | `WiServer.cfg` | Does what is written anew for each segment arrive whole, and is a packet forwarded once? | Segments of two bytes, pages of three and six, a GET and a POST, two retransmissions; a cache of two, keys that collide in one field each, checksums next to a carry |

What the runs show, beyond that the properties hold:

- No resynchronisation is needed: started at `init()` the four counters of the
  scan (`line`, `lineBit`, `frame`, the SPI transfer) agree for ever, across
  resets. They are what `ScanInv` says.
- `switchBuffers()` needs no lock: the buffers lie 256 bytes apart, so an
  interrupt between the two stores of the pointer sees the old or the new one,
  and only the line in transfer is torn.
- Three reads of the clock chip may follow each other with no line between them
  when `Wifi::run` ends (the loop's own, the boot's, the first of the new
  `updateTime`): the 15 ms must cover all of them.
- A press is lost if the interrupt sets its bit between the load and the store
  with which the main thread clears another bit, or by a restart;
  `LostOnlyInTheRace` says that nothing else loses one.
- Of a plan half uploaded, neighbouring entries are shows of the plan because
  `setEvent` clears the entry after the end it writes.  A lost command leaves a
  mixed table until the next complete upload, which repairs it.
- Entry 8 of the table never has an end and entry 9 is never written, although
  `e` reports ten entries and `u 9` is answered `ok`; hence `PlanTakesEffect`
  speaks of the entries before them.
- The driver's status follows the radio while the radio is read, but
  `m_connected` does not: only the supervision recovers the link.  If the
  clock's picture is due before the network's timer, the reconnect at 240 s
  turns into a jump to address 0 (`late` is already over 90 s), and the plan is
  forgotten.
- That a picture is never read as text is not the firmware's doing: the sleeps
  of the script cover the message, the second `setMessage()` adds, and a clock
  set back by a second.  With a shorter tail the property fails.  A frame drawn
  in the video branch allows videos again, also after `p` forbade them.
- A picture is answered twice, since `print()` adds an end of line to the
  picture's own; from then on the client is one answer behind on that
  connection.  `AnswerIsToTheQuestion` therefore holds up to the first picture.
- A dead client holds the only connection for ever if it was idle: nothing is
  outstanding, so no timer runs.  Only the supervision's restart of the stack
  frees it.
- The ARP table's slots outlive `UIP_ARP_MAXAGE` only if they were filled just
  before `arptime` wraps, and then at most until the next wrap's end; in all
  cases they name the address heard last.

One run ends in a violation, a disagreement of a promise and the code:

- `posted`: `webServer.pl:241` tells the user that it can take up to a minute
  until the message is shown.  `enqueueMessage()` truncates the file when it
  opens it and writes when it closes it; `readMessage()` in between reads
  nothing and unlinks the file, and the text goes into a file without a name.

Further disagreements of comment and code, each a definition beside the
properties without a run of its own:

- `KeepAliveIsSent` (`RadioDriver`): `stack.c:144` promises a periodic broadcast
  that keeps the access point from disconnecting the clock.  It is put into the
  shared packet buffer while an earlier frame may still be unconfirmed; the
  driver then reads the next message over it and sends what is left.
- `ReadsWhatAnswers` (`ClockChip`): the comment at `twimaster.c:72` promises
  acknowledge polling; a refused *read* address (line 102) ends the polling, and
  seven bytes of ones become the date.
- `LinesAreReadInTurn` (`TelnetHost`): `psock.h:259` promises that a read goes
  on where the last one stopped; what is left of a segment is by then under the
  frames that came after it.
- `EntriesExpire` (`ArpTable`): `uipopt.h:390` gives the maximal age of a slot;
  the eight-bit clock lets some live longer.

Seen while modelling, and not given a definition:

- `i2c_readNak()` sends no stop condition although `twimaster.c:190` says so
  (the next start repairs it); `RadioEvent.cpp:98` speaks of 60 seconds where
  line 103 has 600; `RadioEvent.cpp:104` of the ten seconds before a start, and
  the background also blinks in the last ten of a running event;
  `setTime.pl:461` of 6000 seconds where line 462 has 20000.
- `uip.c`'s limit for repairing an echo's checksum is one too low: the answer
  to an echo of zeros has the checksum 0 (`EchoIsBelieved` excepts it).
- Text drawn as a picture appears at the start of each video, until its first
  frame is there.  `$SLEEP > 15` in `setTime.pl` is never true.
- `setBrightness()` accepts only 0.  A character that begins at the right
  border is not drawn; durations of a hundred days or more show only their `T`;
  characters above 127 count six columns in `getStringSize()` and end
  `drawString()`; a title jumps when the width of its duration changes.
- `WiServer`: a URL is leaked when `FIN_WAIT_2` times out; a page that shrinks
  while it is sent never ends; each packet of a client resets the count of
  retransmissions, so that a talking client is never given up.
- `uip-fw.c` takes the last among equal timers, which may be the newer entry;
  the halves of a split segment share one number, so that a node with the same
  cache drops the second; the expired packet itself is not registered, so each
  repetition makes another answer.
- `RadioEvent.h:100` never writes the last entry; `u` with an index past the
  table (`netcommand.cpp:48`) leaves the old reply, but the only client never
  sends one; `setTime.pl:634` does not repeat a failed command.

`CHECK_DEADLOCK FALSE` stands where the system really stops: the agenda ends
and the host may stop for good (`plan`), the century and the bounded time end
(`clock`), a behaviour about arithmetic is over (`ip`), and a text has come
round (`drawing`).

## 5. Fairness and assumptions

*Main loop.*  Weak fairness of both interrupts, of the watchdog and of the main
thread: the first three are hardware that fires while its condition holds; the
loop has no blocking call but the read of the clock.  `ShowWaits` is strongly
fair: right after `flush()` the main thread looks at the flag in a few cycles,
the scan needs milliseconds to clear it, so the wait is taken again and again.
No fairness makes a broken chip come back or a user press a key.

*Network.*  Weak fairness of the main thread; strong fairness of a turn of
`Wifi::run` (its 2 ms timer runs out in each pass), of a picture, and of the
next second.  The radio becomes reliable some day and then answers, confirms
and rejoins.  Nothing is assumed of the host.

*TCP.*  Weak fairness of `stack_process()` with a packet and of the timers of
`uip_periodic()`.  Nothing is assumed of the client or the network.

*Messages.*  Weak fairness of the script, of the display and of closing a file
that was opened; strong fairness of the passing of time and of an answered
`getSettings()`: the connection does not fail every time.

*Library.*  Weak fairness of the timer only.

Further assumptions, each a guard in the modules:

- An interrupt is atomic.  `ATOMIC_FORCEON` in `setDisplayTimer`
  (`display.cpp:277`) enables interrupts inside the handler; it could be
  entered again only if the handler outlasted the 800 cycles it has just set.
- `InTime` (`DisplayLoop`): a transfer delays a line by at most `SpiTicks`, a
  read of a working chip lasts `RtcTicks` at most, and no timer goes unpolled
  until its counter laps (2^32 ms in the code).
- `Settled` (`NetworkLoop`): with a reliable radio all management is over
  within a second; `TimerExpires` likewise for half a second and frames.
- The radio passes no frame on before its management messages were read.
- The host uploads a plan in less than the length of a show (`HostTick`), and
  its agenda is fixed.
- Chip: the registers are copied at the start condition, a write of the seconds
  begins a new second and a write is over within it, the battery keeps it
  counting.  A watchdog reset comes only in the one loop without a bound,
  waiting for an address.
- `Second` (`Messages`): `showCurrentEvent()` is called in every second.
- The client sends whole lines, shorter than a segment, and the network delays
  segments without changing their order; a connection number is used once.
- `late` and `attempt` stop counting at one more than `ReconnectAfter`: nothing
  compares them with more.

## 6. The proofs

Each proof module extends its component.  The only assumptions are the named
`ASSUME`s of the constants (`PlanConstants`, `DriverConstants` and the like),
which TLC evaluates in each run.

**DisplayProofs.**  `LitRowShowsItsLine` alone is not inductive: that the
row about to be lit shows its data depends on how far the transfer is and on
whether the last entry of the interrupt blanked or showed.  `ScanInv` says it
for every place between two lines: the transfer is that of the next line
(`TransferIsNextLine`), the latch holds its predecessor in raster order
(`LatchIsPreviousLine`), the row register is known up to the row lit last and
wholly after the first pass (`RowsKnown`), `OCR1A` is that of the line lit last
(`TimerIsFrames`), and a transfer from a swapped buffer is the only torn one
(`TornInTransfer`).  `InitScanInv` and `NextScanInv` give `ScanInvariant`; the
long case, a line being shown, is `ShowLineKeepsScanInv`.  From it follow
`TypeCorrect`, `OneRowWithItsData`, `LinesLitForFrameTime`,
`OneTornLinePerSwap`, `ButtonBitNamesRow`, `FlushesAnsweredInTime` (a flush that
waits is answered only by lighting the last line of the last frame), and, with
`ShowLineLights`, the refinement `ScanImplementsRaster`: all for any number of
lines, bytes and frames.

*Front panel* (the second part of the same module).  Counting what was taken of a
key is not enough: a key held down has been counted as pressed before the
interrupt has seen it.
`PressesCover` counts a key that is down or watched (`HeldOrWatched`) once.
That the bit in `lineBit` and the row that is low belong to the same key is
`ScanInv`, which is why `PanelInv` contains it.
`PressesAreReportedOnce` holds for any rows, keys and order of questions.

*Main loop* (the last part).  `LoopImplementsScan` carries every theorem about the
scan to the whole loop.  `WatchdogIsFed` is the one about time: under
`LimitCovers`, `SpiTicks + RtcTicks * 3 + 1 < WdtLimit`, no reset comes but
after the chip failed.  Its invariant is a budget: `ReadsLeft` is how many reads
of the clock may still come before a line is shown (one that is due, two more
when `Wifi::run` has ended), and `PauseIsPaid` says that the interrupts since
the watchdog was fed are covered by a transfer and the reads that are no longer
left.  `PlacesAgree` relates the program counter to the three protothreads, so
that a restart of the stack cannot happen twice in one budget.

**EventTableProofs.**  `TableInv` relates the table to the upload: the entry
before the one written next holds the show before the one sent next
(`UploadFollows`), titled entries hold their show (`TitlesInv`), and as long as
nothing was lost the entries sent are a run of the agenda (`UploadArrived`,
`PlanStored`).  Without them "two neighbours are a show" is not inductive:
whether a command breaks it depends on the entry before it.
`EventCommandKeepsTableInv` is the heart; the properties follow for any table
size, number of titles and agenda.

*Drawing* (the second part of the same module): what was chosen is drawn right,
for a row of any number of bytes, any font, text, duration and frame.  `LitAsWritten`
speaks of the end of a round only and is not inductive.  `ScreenInv` says how
far a picture is: so many characters of the number, or of the text behind it,
are drawn, what is left begins with the next one, the pen is where these
characters reach (`At`), and the buffer holds the ground, the dots of the
characters so far (`Numbers`, `Letters`), and nothing else (`NumberInv`,
`TextInv`, `DoneInv`).  That a step keeps it needs that a character looks the
same whichever way it is drawn (`CharIsDrawn`, `FigureIsDrawn`) and that the
bar is as long as its quotient (`BarIsDrawn`).  At the end, the characters that
were not drawn are those that could not be seen (`LettersAreExpected`), which is
`LitAsWritten`.  `Placed`, where a text begins and where its left border is, is
a part of `ScreenInv` for the sake of `NothingIsHidden`: with `ShownInv`, the
columns the past rounds had at the border, it says that all have been there when
the text has come round.

That a duration can be read is about `Reading`, which goes through the
characters one by one: a figure goes to the group (`ReadFigure`), a number of up
to two figures is read as itself (`ReadNumber`), a colon or a `T` ends its group
(`ReadColon`, `ReadDays`), and the parts of less than a hundred days sum up to it
(`SecondsAre`); then `ReadFollows` gives `DurationIsRead`, and `PicturesAreRight`
both parts of `DrawnRight`.  `FramesAreKept` compares a frame with its bytes: a
byte is the end of a line if the dots of weight 8 and 2 are lit in it and no
others (`DotsOfNewLine`), and the line that was made has no such byte.

`StringSize`, `Reading` and their like are recursive functions on an interval.
What they return is proved without an induction theorem: the least number left
out of a set (`FirstOfNaturals`) gives `IntervalInduction`, and that gives
`FiniteRecursion`, a function that satisfies such a definition up to any number.

`FigureAssumption` is what the code takes for granted of its font and
durations: that figures, colon, `T` and the bar exist, the bar is a dot in the
row, and a duration leaves room behind it.  The figures of `charset.txt` are four
columns wide, with one more between two of them, so that a duration takes 48 of
the 64 columns at most.

**NetworkLoopProofs.**  `Listening` (the interrupt is on, or its flag is set,
or the main thread is about to switch it on) is inductive where
`InterruptNotLost` is not.  `ConfirmInv` adds to `OneFrameAtATime` where a
confirmation may be on its way: waiting in the radio's queue, or just read into
the buffer, one at most, and none before the chip's reset is over;
`NeverTwoFrames` follows.  `DriverTypeCorrect` is a property of the code as
well: every state that a confirmation leads to is one that the machine knows.
`ConnectsInOrder` proves `ConnectsWhenSetUp`: `SetupInv` says that whatever a
message, a request or a driver's state presupposes (`Granted`, `Before`,
`Reached`) was granted since the radio's reset.  `RadioUnderstood` proves
`RadioIsUnderstood`: by `FollowInv` the last message to be read that tells the
status tells the radio's own, and if there is none the driver's status, with the
message in the buffer, is the radio's; by `FrameInv` no frame waits while the
clock connects, unless the driver has just read that it is connected, so that
the call after the one that read a frame is the stack's.

*Supervision* (the last part of the same module). `SupervisionImplementsDriver`:
keys, time-outs and jumps are what `RadioDriver` allows its caller, so its
theorems hold of the whole network side.  `AttemptsGetTheirTime`: the invariant
adds that before the first call of `zg_init()` is over no time passes
(`BeginsAtOnce`: the start of `Wifi::run` is one call, and it is not left in the
phase `start`) and the ranges of both counters, so that they are stopped
together.

**ClockChipProofs.**  First the calendar.  The days counted as a sum of years,
months and days grow by one at each midnight (`MidnightKeepsWalkInv`, one case
for a day, a month and a year).  What the loop of `DateTime(t)` finds is where
the sums of the years and months before (`YearStart`, `MonthStart`) stop
exceeding the day; `LeastMember`, and not an induction over data, gives their
values (`YearStartIs`, `MonthStartIs`), so that `CalendarsAreOne` proves
`CalendarsAgree` for each day of the century, and `RegistersReturnDate` that the
registers lose nothing of it.  Then the chip.  `ChipInv`: outside a write the
registers say the chip's time; in one, the fields already written are those of
the new time, and the time the chip may still reach is in its century.
`TransactionInv` says what a read and a write know of each other, `ReadInv` that
the copy being read says the time at the start of the read, and `StartInv` that
`systemStart` is what the chip would have said at the start.  The three theorems
`ChipIsNeverHalfSet`, `ReadingNeverTears` and `UptimeSurvivesSetting` follow for
any times of the century, any number of settings and any number of ticks
between them.

**LibraryProofs.**  *The ARP table.*  `ArpTableIsRight`: slots are written where
the host already is, else where nobody is, so that a host never has two
(`SlotForHost`), and each slot that is in use has the address heard last.
`AgesKnown` says of which slots the code's difference of eight-bit times is the
age: those filled before the last `MaxAge` ticks of the clock's range; they are
the ones that expire in time.  `SentWhereHeard` is the action property that
follows.  `StackUsesTheTable` shows that `stack_process()` implements this
specification, so that both hold of the stack.

*Arithmetic.*  `Add32Adds`: adding byte by byte, with the carries written out,
adds; `NumbersGrow` follows.  A checksum is a loop over words (`RunningSum`), and
no induction over data is at hand; but a set of numbers that holds the first of
an interval and with each the next holds them all (`IntervalInduction`, from the
least number it would lack), and that gives the loop its meaning (`RunningSumIs`).
Two facts about it carry the rest: sums that are `d` apart, 0 and 65535 being
one number, stay so whatever words both add (`SumsStayApart`), and a sum that is
not zero never becomes zero again (`SumsStayPositive`).  So one changed byte
moves the sum by less than 65535 and is found (`DamageIsBad`), a host that fills
in the checksum gets 65535 (`SealedIsGood`, `AskedIsGood`), and the answer to a
ping, which has 2048 less in one word and 2048 more in the next
(`EchoChksumAdds`), keeps the sum (`ReplyIsGood`).  These hold for segments and
pings of any length; `ArithmeticIsRight` puts them together for `IpSpec`.

*Forwarding.*  `HeadersStayGood` is the arithmetic of a checksum that is repaired,
not computed (`HopIsGood`): the four cases of a carry into either end.
`PartsAreWhole` is `Add32Adds` for the carry of the second number.  `SentOnOnce` says
nothing of the cache; `Follows` does: each packet sent lately is in the cache,
with the timer its age leaves, or as many others as the cache has entries were
sent since or in the same tick (`Displaced`).  Writing an entry displaces one
whose timer is lowest (`SlotIsOldest`), which is why timers that are equal do no
harm.  `ForwardingIsRight` holds for any cache, time, hosts and routes, and any
packets that come.

*Web server.*  `WsInv`: the request that has the connection (`Held`) is none that
waits, the active ones are these and nothing else, none waits twice
(`QueuedOnce`); the client never closes, so that `FIN_WAIT_1` and `FIN_WAIT_2` are the
server's.  `CallKeeps` is about a call of the application while the connection
lasts, `EndKeeps` about its last.  Of the application's record only two fields
matter (`Fields`).  `NothingHeldTwice` follows.

For `WholeArrives`, `LayersAre` says what a loop over the pieces leaves (it exists
by `FiniteRecursion`), and `LastIsSeen` that each place of a segment shows the last
piece that has a byte for it.  `WrittenIsWhole` follows: a segment written anew is
the part of the whole that begins after what was acknowledged.  It needs that no
place before the cursor is left out, which holds of a page by its pieces
(`PagesAreComplete`) and of a request is part of `ServerAssumption`:
`sendRequest()` writes from the start on, and puts the cursor back where the body
ended after it has filled in the length.  `Carried` then relates uIP to the
application: what was sent is what `send()` would send again, so that a
retransmission repeats the segment; and what the other side has lies between
what is acknowledged and what was sent.  It takes from a segment what is behind
what it has (`TakenCarries`).  An acknowledgement of all that was sent brings the
count to the cursor, and then everything has arrived (`AckCarries`,
`AllHasArrived`), or there is more.  `ResponseArrives` holds for any pages,
requests, packets and losses, and segments of any size.

**MessageHostProofs.**  `StaysInv`: a screen that was accepted is up until the
script wakes, and a second more; `ScreensStayUp` needs no more than that.  For
pictures, `MessageEnds` bounds what is left of a message by what the script
still sleeps and what may last where it is (`MayLast`), and `PictureInv` says
that it is over, for longer than the clock can be set back, where a picture is
in the buffer.  `PicturesStayPictures` has the hypothesis `SleepsCover`,
`TailTime >= 1` and `MaxStep <= 1`: the script sleeps after the last screen, and
setting the clock moves it by a second at most.  The first is a line of the
script; the second is what the drift of the chip between two settings comes to,
and no program makes sure of it: a longer step back would revive a message whose
buffer a picture has taken.  The number of screens and messages and the times
they are shown are arbitrary.

**TelnetHostProofs.**  The types carry the stream: the lines of a segment bear
the numbers that follow its own, those a socket may have to repeat the numbers
from `una` on (`Requests`, `Numbered`).  `Behind(l, q, r)` relates what was
handled, what the clock keeps of a segment for a later call, and its `rcv`: in
this order, each before the next, which the handling of one line per call and
the taking of the next segment only keep up (`CallBehind`, `CalledKeeps`).  In
`SYN_RCVD` nothing was handled yet; what is kept of a connection that died stays
until the application is told of the next one, which is why `Streams` asks there
for no more than some bound.  `StreamInvariant` and `LinesAreHandledOnce` hold
for any number of connections, lines, repetitions and losses, and ways of any
capacity.

**TelnetEndsProofs.**  That the ends agree on numbers is not inductive, since
either may lose the connection and the other go on with it.  `EndsInv` says, for
each connection (`Talk`), what was sent on it: the client's segments carry no
more than it still has to repeat, and acknowledge no more than it has (`Sent`);
the clock's data are its numbered answers, and its FIN comes after them
(`FromClock`).  As long as a SYN is under way, or answered, neither has got
anything (`Begins`): since the ways keep their order and the client sends no SYN
after its first line (`SynsFirst`), a clock that lost the connection can only
begin it anew where nothing was said on it.  `DevNumbers` ties the clock's numbers
to what the protosocket waits for: in `ESTABLISHED`, nothing is outstanding while
it reads, and one answer, its last, while it sends; that is `CallShape`, and the
reason why it is never two answers ahead (`OneAhead`).  `Together` puts the two
sides together for a connection both know.  The steps come in a handful of
shapes: the client's side changes a socket and sends in its stream
(`HostStepAgrees`), the clock's leaves its connection (`NotOnTalk`), begins it
(`BeginningTalk`), opens it (`OpeningTalk`) or goes on with it (`GoingOnTalk`).
`EndsInvariant` and `EndsAlwaysAgree` follow.

The second part of the module is about questions and answers.  The numbers of
the two ends say which answers have come, not which lines they answer.
`TurnInv` adds this for a connection on which no picture was sent: the lines
told are one more than the answers got, or as many (`InTurn`); every segment
under way, a repeated one too, holds one line, sent when the answers before it
had come (`OneLine`), or an answer with the number of its line (`ItsAnswer`);
and the clock keeps nothing of a segment (`AnswersLines`).  Of the clock's steps
it is enough to know what each of them says (`SaysWord`) and that the lines
answered are still those taken (`LinesStay`): `AgreedAnswer` gets the rest from
`EndsInv`.  A picture breaks it, since its frame is two lines; the hypothesis
`~app.drew` is that of the property.  `TurnInvariant` and
`AnswersFitTheQuestions` follow.

Only model-checked:

- liveness (`LoopGoesOn`, `LinkRecovers`, `GoneIsForgottenUnlessIdle`,
  `MessageIsRead`, `ResponseEnds`), which needs `ENABLED`.

## 7. Not modelled

- *The 360 s branch* of `handleNetworkErrors()` (`radioclock.cpp:76`): after the
  reconnect at 240 s it is reached only by a clock that leaps two minutes
  between two pictures.
- *WEP* (`SETUP_SECURITY` has no case for it) and the unlimited poll of
  `zg_chip_reset()`, which the model's radio always ends.
- *Power cuts* in the middle of `adjust()`, loss of arbitration and bit timing
  on the I2C bus; times before 2000 and after 2099 (`RTClib.cpp:37`; line 16
  gives the range). TLC's integers end before 2^31, so the run `clock` takes
  times before 2068.
- *The time the main thread takes* for keys, drawing and the stack: interrupts
  go on meanwhile, so that neither the scan nor the watchdog depends on it.
- *Drawing*: seven of the eight rows, which are drawn alike; `rotateStar()`,
  which is not called.  Pressing a brightness key wipes the picture just drawn
  for one cycle (`clearBuffer()` in `increaseBrightness()`), which is seen in
  the code and needs no model.
- *TCP*: bytes within a line, urgent data, the peer's window, connections that
  share a port number; UDP, IPv6 and reassembly are not compiled.
- *Host scripts*: reading configuration and log files, choosing a video file,
  scaling its pictures, formatting HTML.
- *Authentication and `printTime()`* of `WiServer`.
- *Unused or foreign code*: `uip-neighbor.c` (IPv6 only, and broken: adding
  compares an address with a link address, and finding ignores the time),
  `memb.c`, the other WiShield applications, `menusystem`, `debug`, `wiring`,
  `cosine.cpp`, font and `charset` tools, the assembler I2C master, HTML
  documents.
