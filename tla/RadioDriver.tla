---------------------------- MODULE RadioDriver ----------------------------
(***************************************************************************)
(* The driver of the WiFi radio, WiShield/g2100.c, with its interrupt, and *)
(* the loop that calls it and the TCP/IP stack in turns, Wifi::run.        *)
(*                                                                         *)
(* Driver and stack share one packet buffer, zg_buf: a frame waits there   *)
(* until it may be sent, and every message of the radio is read into it.   *)
(* The radio holds INT0 low as long as it has a message.  The interrupt    *)
(* sets a flag and disables itself; the driver reads one message per call, *)
(* clears the flag and enables the interrupt again.                        *)
(*                                                                         *)
(* The rest of the main thread (the display, the clock, the supervision of *)
(* the connection) appears as what it does to Wifi::run: it reconnects or  *)
(* jumps to address 0.  The radio is external: it answers requests, sends  *)
(* and receives frames, loses its access point, and, until it becomes      *)
(* reliable, refuses requests or loses confirmations.                      *)
(***************************************************************************)
EXTENDS Naturals, Sequences, FiniteSets

CONSTANTS QueueSize,  \* messages of one kind the radio holds
          Wpa,        \* security_type: WPA or WPA2, or else an open network
          Faulty      \* the radio starts unreliable

ASSUME DriverConstants ==
  QueueSize \in Nat \ {0} /\ Wpa \in BOOLEAN /\ Faulty \in BOOLEAN

VARIABLES
  (* Wifi *)
  pc,            \* where the main thread is
  phase,         \* the protothread Wifi::run
  connected,     \* m_connected
  timerDue,      \* the stack's periodic timer of half a second has expired
  (* g2100.c *)
  drvState,      \* zg_drv_state
  connStatus,    \* zg_conn_status
  intrOccured,   \* intr_occured
  intrValid,     \* intr_valid
  intEnabled,    \* INT0 in EIMSK
  txReady,       \* tx_ready
  rxReady,       \* rx_ready
  cnfPending,    \* cnf_pending
  buf,           \* what zg_buf, which always is uip_buf, holds
  (* the radio *)
  mgmtQ, dataQ,  \* messages waiting to be read
  asked,         \* management requests not answered yet
  done,          \* management requests granted since its reset
  unconfirmed,   \* a frame was sent and is not confirmed yet
  link,          \* the access point: none, joined, or lost and retried
  reliable       \* the radio answers, confirms and keeps its access point

wifiVars  == <<pc, phase, connected, timerDue>>
isrVars   == <<intrOccured, intEnabled>>
drvVars   == <<drvState, connStatus, intrValid, rxReady, txReady, cnfPending, buf>>
radioVars == <<mgmtQ, dataQ, asked, done, unconfirmed, link, reliable>>
vars == <<wifiVars, isrVars, drvVars, radioVars>>

-----------------------------------------------------------------------------
(* Requests, messages and frames. *)

(* The request a driver state sends, and the state its confirmation leads to. *)
RequestOf == [GET_MAC             |-> "GET_PARAM",
              SETUP_SECURITY      |-> "CALC_PSK",
              INSTALL_PSK         |-> "PMK_KEY",
              ENABLE_CONN_MANAGE  |-> "CONNECT_MANAGE",
              START_CONN          |-> "CONNECT"]
BadStateAfter == [GET_PARAM      |-> "SETUP_SECURITY",
                  CALC_PSK       |-> "INSTALL_PSK",
                  PMK_KEY        |-> "ENABLE_CONN_MANAGE",
                  CONNECT_MANAGE |-> "CONNECT"]
StateAfter == [GET_PARAM      |-> "SETUP_SECURITY",
               CALC_PSK       |-> "INSTALL_PSK",
               PMK_KEY        |-> "ENABLE_CONN_MANAGE",
               CONNECT_MANAGE |-> "START_CONN"]

DrvStates == DOMAIN RequestOf \cup {"INIT", "PROCESS_RX", "IDLE"}
Requests  == DOMAIN StateAfter \cup {"CONNECT"}

Confirm(r, good) == [type |-> "MGMT_CONFIRM", req |-> r, ok |-> good]
Status(isUp)     == [type |-> "CONN_STATUS", up |-> isUp]
Disassoc  == [type |-> "DISASSOC"]
TxConfirm == [type |-> "TXDATA_CONFIRM"]
RxData    == [type |-> "RXDATA"]
Reply     == [type |-> "reply"]      \* a frame uip_process or ARP answers or repeats
KeepAlive == [type |-> "keepAlive"]  \* the broadcast of uip_self_arp_out()
Shifted   == [type |-> "shifted"]    \* what an SPI transfer leaves in the buffer

MgmtMessages ==
  {Confirm(r, b) : r \in Requests, b \in BOOLEAN}
    \cup {Status(b) : b \in BOOLEAN} \cup {Disassoc}
Messages == MgmtMessages \cup {TxConfirm, RxData}
Contents == Messages \cup {Reply, KeepAlive, Shifted}

HasMessage == mgmtQ # <<>> \/ dataQ # <<>>

WifiTypeOK ==
  /\ pc \in {"net", "chip", "int0", "stack", "drv", "isr", "clear", "enable", "step", "other"}
  /\ phase \in {"start", "connecting", "running", "ended"}
  /\ connected \in BOOLEAN /\ timerDue \in BOOLEAN

DrvTypeOK ==
  /\ drvState \in DrvStates /\ buf \in Contents
  /\ connStatus \in BOOLEAN /\ txReady \in BOOLEAN /\ rxReady \in BOOLEAN
  /\ cnfPending \in BOOLEAN
  /\ intrOccured \in BOOLEAN /\ intrValid \in BOOLEAN /\ intEnabled \in BOOLEAN

RadioTypeOK ==
  /\ mgmtQ \in Seq(MgmtMessages) /\ Len(mgmtQ) <= QueueSize
  /\ dataQ \in Seq({TxConfirm, RxData}) /\ Len(dataQ) <= QueueSize
  /\ asked \subseteq Requests /\ done \subseteq Requests
  /\ link \in {"none", "joined", "retrying"}
  /\ unconfirmed \in BOOLEAN /\ reliable \in BOOLEAN

DriverTypeOK == WifiTypeOK /\ DrvTypeOK /\ RadioTypeOK

-----------------------------------------------------------------------------
(* The interrupt: INT0 fires while it is enabled and low. *)

ZgIsr ==
  /\ intEnabled /\ HasMessage
  /\ intEnabled' = FALSE /\ intrOccured' = TRUE
  /\ UNCHANGED <<wifiVars, drvVars, radioVars>>

-----------------------------------------------------------------------------
(* Wifi::run at its start: zg_init() and enableINT0(). *)

ZgInit ==
  /\ pc = "net" /\ phase = "start"
  /\ connected' = FALSE
  /\ drvState' = "INIT" /\ connStatus' = FALSE
  /\ intrOccured' = FALSE /\ intrValid' = FALSE
  /\ txReady' = FALSE /\ rxReady' = FALSE /\ cnfPending' = FALSE
  /\ pc' = "chip"
  /\ UNCHANGED <<phase, timerDue, intEnabled, buf, radioVars>>

ZgChipReset ==
  /\ pc = "chip"
  /\ mgmtQ' = <<>> /\ dataQ' = <<>> /\ asked' = {} /\ done' = {}
  /\ unconfirmed' = FALSE /\ link' = "none"
  /\ pc' = "int0"
  /\ UNCHANGED <<phase, connected, timerDue, isrVars, drvVars, reliable>>

(* The first WiFi_initLoop() of the same call finds zg_conn_status 0. *)
EnableINT0 ==
  /\ pc = "int0"
  /\ intEnabled' = TRUE
  /\ phase' = "connecting" /\ pc' = "drv"
  /\ UNCHANGED <<connected, timerDue, intrOccured, drvVars, radioVars>>

-----------------------------------------------------------------------------
(* Wifi::run after its start. *)

NetConnecting ==
  /\ pc = "net" /\ phase = "connecting" /\ ~connStatus
  /\ pc' = "drv"
  /\ UNCHANGED <<phase, connected, timerDue, isrVars, drvVars, radioVars>>

(* stack_init() sets the timers. *)
NetConnected ==
  /\ pc = "net" /\ phase = "connecting" /\ connStatus
  /\ connected' = TRUE /\ timerDue' = FALSE
  /\ phase' = "running" /\ pc' = "stack"
  /\ UNCHANGED <<isrVars, drvVars, radioVars>>

(* PT_WAIT_UNTIL of the 2 ms timer. *)
NetWaits ==
  /\ pc = "net" /\ phase = "running"
  /\ pc' = "other"
  /\ UNCHANGED <<phase, connected, timerDue, isrVars, drvVars, radioVars>>

NetTurn ==
  /\ pc = "net" /\ phase = "running" /\ connected
  /\ pc' = "stack"
  /\ UNCHANGED <<phase, connected, timerDue, isrVars, drvVars, radioVars>>

NetEnds ==
  /\ pc = "net" /\ phase = "running" /\ ~connected
  /\ phase' = "ended" /\ pc' = "other"
  /\ UNCHANGED <<connected, timerDue, isrVars, drvVars, radioVars>>

-----------------------------------------------------------------------------
(* stack_process(). *)

NetworkSend(f) == buf' = f /\ txReady' = TRUE

NoSend == UNCHANGED <<buf, txReady>>

(* A frame was received: network_read() clears the flag, uip_input() or
   uip_arp_arpin() may leave an answer in the buffer. *)
BadRxAfterRead == rxReady
RxAfterRead    == FALSE

StackInput ==
  /\ pc = "stack" /\ rxReady
  /\ rxReady' = RxAfterRead
  /\ NetworkSend(Reply) \/ NoSend
  /\ pc' = "drv"
  /\ UNCHANGED <<phase, connected, timerDue, isrVars, drvState, connStatus, intrValid, cnfPending,
                 radioVars>>

(* No frame: uip_periodic(), and if it sends nothing, the broadcast, which has a
   timer of its own. *)
StackPeriodic ==
  /\ pc = "stack" /\ ~rxReady /\ timerDue
  /\ timerDue' = FALSE
  /\ NetworkSend(Reply) \/ NetworkSend(KeepAlive) \/ NoSend
  /\ pc' = "drv"
  /\ UNCHANGED <<phase, connected, isrVars, drvState, connStatus, intrValid, rxReady,
                 cnfPending, radioVars>>

StackIdle ==
  /\ pc = "stack" /\ ~rxReady /\ ~timerDue
  /\ pc' = "drv"
  /\ UNCHANGED <<phase, connected, timerDue, isrVars, drvVars, radioVars>>

-----------------------------------------------------------------------------
(* zg_drv_process(). *)

BadMaySend == txReady
MaySend    == txReady /\ ~cnfPending

(* zg_send(): the transfer shifts the radio's bytes into the buffer. *)
ZgSend == buf' = Shifted /\ unconfirmed' = TRUE

SendFrame ==
  /\ pc = "drv" /\ MaySend
  /\ txReady' = FALSE /\ cnfPending' = TRUE
  /\ ZgSend
  /\ pc' = "isr"
  /\ UNCHANGED <<phase, connected, timerDue, isrVars, drvState, connStatus, intrValid, rxReady,
                 mgmtQ, dataQ, asked, done, link, reliable>>

NothingToSend ==
  /\ pc = "drv" /\ ~MaySend
  /\ pc' = "isr"
  /\ UNCHANGED <<phase, connected, timerDue, isrVars, drvVars, radioVars>>

NoInterrupt ==
  /\ pc = "isr" /\ ~intrOccured
  /\ pc' = "step"
  /\ UNCHANGED <<phase, connected, timerDue, isrVars, drvVars, radioVars>>

(* zg_process_isr() reads one message, of either kind, into the buffer. *)
ReadMessage ==
  /\ pc = "isr" /\ intrOccured
  /\ \/ mgmtQ # <<>> /\ buf' = Head(mgmtQ) /\ mgmtQ' = Tail(mgmtQ) /\ UNCHANGED dataQ
     \/ dataQ # <<>> /\ buf' = Head(dataQ) /\ dataQ' = Tail(dataQ) /\ UNCHANGED mgmtQ
  /\ intrValid' = TRUE
  /\ pc' = "clear"
  /\ UNCHANGED <<phase, connected, timerDue, isrVars, drvState, connStatus, rxReady, txReady,
                 cnfPending, asked, done, unconfirmed, link, reliable>>

ReadNothing ==
  /\ pc = "isr" /\ intrOccured /\ ~HasMessage
  /\ pc' = "clear"
  /\ UNCHANGED <<phase, connected, timerDue, isrVars, drvVars, radioVars>>

ClearFlag ==
  /\ pc = "clear"
  /\ intrOccured' = FALSE
  /\ pc' = "enable"
  /\ UNCHANGED <<phase, connected, timerDue, intEnabled, drvVars, radioVars>>

BadEnableInterrupt ==
  /\ pc = "enable"
  /\ intEnabled' = ~HasMessage
  /\ pc' = "step"
  /\ UNCHANGED <<phase, connected, timerDue, intrOccured, drvVars, radioVars>>
EnableInterrupt ==
  /\ pc = "enable"
  /\ intEnabled' = TRUE
  /\ pc' = "step"
  /\ UNCHANGED <<phase, connected, timerDue, intrOccured, drvVars, radioVars>>

(* What the message just read does to the driver's state, the status of the
   connection and the pending confirmation. *)
BadStateRead ==
  CASE ~intrValid -> drvState
    [] intrValid /\ buf.type = "MGMT_CONFIRM" ->
         IF buf.req # "CONNECT" THEN StateAfter[buf.req] ELSE drvState
    [] intrValid /\ buf = RxData -> "PROCESS_RX"
    [] intrValid /\ buf = Disassoc -> "START_CONN"
    [] OTHER -> drvState
StateRead ==
  CASE ~intrValid -> drvState
    [] intrValid /\ buf.type = "MGMT_CONFIRM" ->
         IF buf.ok /\ buf.req # "CONNECT" THEN StateAfter[buf.req] ELSE drvState
    [] intrValid /\ buf = RxData -> "PROCESS_RX"
    [] intrValid /\ buf = Disassoc -> "START_CONN"
    [] OTHER -> drvState

(* The messages that tell the status of the connection, and what they tell. *)
TellsUp(m)   == m \in {Confirm("CONNECT", TRUE), Status(TRUE)}
TellsDown(m) == m \in {Disassoc, Status(FALSE)}

BadStatusRead == (connStatus \/ (intrValid /\ TellsUp(buf))) /\ ~(intrValid /\ buf = Disassoc)
StatusRead == (connStatus \/ (intrValid /\ TellsUp(buf))) /\ ~(intrValid /\ TellsDown(buf))

BadCnfRead == cnfPending /\ ~(intrValid /\ buf \in {TxConfirm, RxData})
CnfRead    == cnfPending /\ ~(intrValid /\ buf = TxConfirm)

(* zg_calc_psk_key(), zg_write_psk_key() and the like: a request is written into
   the buffer and sent. *)
SendRequest(request) ==
  /\ asked' = asked \cup {request}
  /\ buf' = Shifted

(* zg_recv() moves the frame to where the stack expects it. *)
ZgRecv == UNCHANGED buf

(* One step of the state machine. *)
Advance(state) ==
  \/ /\ state = "INIT" /\ drvState' = "GET_MAC"
     /\ UNCHANGED <<buf, rxReady, asked>>
  \/ /\ state = "SETUP_SECURITY" /\ ~Wpa /\ drvState' = "ENABLE_CONN_MANAGE"
     /\ UNCHANGED <<buf, rxReady, asked>>
  \/ /\ state \in DOMAIN RequestOf /\ (state = "SETUP_SECURITY" => Wpa)
     /\ SendRequest(RequestOf[state]) /\ drvState' = "IDLE"
     /\ UNCHANGED rxReady
  \/ /\ state = "PROCESS_RX" /\ ZgRecv /\ rxReady' = TRUE /\ drvState' = "IDLE"
     /\ UNCHANGED asked
  \/ /\ state \notin DOMAIN RequestOf \cup {"INIT", "PROCESS_RX"} /\ drvState' = state
     /\ UNCHANGED <<buf, rxReady, asked>>

DriverStep ==
  /\ pc = "step"
  /\ connStatus' = StatusRead /\ cnfPending' = CnfRead /\ intrValid' = FALSE
  /\ Advance(StateRead)
  /\ pc' = "other"
  /\ UNCHANGED <<phase, connected, timerDue, isrVars, txReady, mgmtQ, dataQ, done, unconfirmed,
                 link, reliable>>

-----------------------------------------------------------------------------
(* The rest of the turn. *)

(* The next turn; after Wifi::run ended the outer loop of main() starts it
   again, with a new Wifi. *)
NextTurn ==
  /\ pc = "other"
  /\ pc' = "net"
  /\ phase' = IF phase = "ended" THEN "start" ELSE phase
  /\ connected' = (connected /\ phase # "ended")
  /\ UNCHANGED <<timerDue, isrVars, drvVars, radioVars>>

(* Wifi::reconnect() clears m_connected, Wifi::restartStack() sets the timers. *)
Intervene ==
  /\ pc = "other"
  /\ connected' \in {connected, FALSE} /\ timerDue' \in {timerDue, FALSE}
  /\ UNCHANGED <<pc, phase, isrVars, drvVars, radioVars>>

(* A jump to address 0, or a reset by the watchdog, which also disables INT0:
   the variables start as zeros. *)
Restart ==
  /\ pc' = "net" /\ phase' = "start" /\ connected' = FALSE
  /\ drvState' = "INIT" /\ connStatus' = FALSE
  /\ intrOccured' = FALSE /\ intrValid' = FALSE
  /\ txReady' = FALSE /\ rxReady' = FALSE /\ cnfPending' = FALSE
  /\ buf' = Shifted /\ timerDue' = FALSE
  /\ intEnabled' \in {intEnabled, FALSE}
  /\ UNCHANGED radioVars

(* In half a second the radio confirms a frame, if it ever does, and the driver
   reads all there is to read. *)
TimerExpires ==
  /\ pc = "other" /\ ~timerDue /\ ~unconfirmed /\ ~HasMessage
  /\ timerDue' = TRUE
  /\ UNCHANGED <<pc, phase, connected, isrVars, drvVars, radioVars>>

-----------------------------------------------------------------------------
(* The radio. *)

MgmtMessage(m) ==
  /\ Len(mgmtQ) < QueueSize
  /\ mgmtQ' = Append(mgmtQ, m)
  /\ UNCHANGED <<wifiVars, isrVars, drvVars, dataQ, unconfirmed>>

DataMessage(m) ==
  /\ Len(dataQ) < QueueSize
  /\ dataQ' = Append(dataQ, m)
  /\ UNCHANGED <<wifiVars, isrVars, drvVars, mgmtQ, asked, done, link, reliable>>

Grant(r) ==
  /\ r \in asked /\ asked' = asked \ {r}
  /\ MgmtMessage(Confirm(r, TRUE))
  /\ done' = done \cup {r}
  /\ link' = IF r = "CONNECT" THEN "joined" ELSE link
  /\ UNCHANGED reliable

Refuse(r) ==
  /\ ~reliable /\ r \in asked /\ asked' = asked \ {r}
  /\ MgmtMessage(Confirm(r, FALSE))
  /\ UNCHANGED <<done, link, reliable>>

ConfirmFrame ==
  /\ unconfirmed /\ unconfirmed' = FALSE
  /\ DataMessage(TxConfirm)

(* No frame before the driver was told of the connection. *)
ReceiveFrame ==
  /\ link = "joined" /\ mgmtQ = <<>>
  /\ DataMessage(RxData)
  /\ UNCHANGED unconfirmed

LoseRequest(r) ==
  /\ ~reliable /\ r \in asked
  /\ asked' = asked \ {r}
  /\ UNCHANGED <<wifiVars, isrVars, drvVars, mgmtQ, dataQ, done, unconfirmed, link, reliable>>

LoseConfirm ==
  /\ ~reliable /\ unconfirmed
  /\ unconfirmed' = FALSE
  /\ UNCHANGED <<wifiVars, isrVars, drvVars, mgmtQ, dataQ, asked, done, link, reliable>>

(* The access point sends the station away, or its beacons are missed; the
   radio may try to join again by itself. *)
LoseAccessPoint ==
  /\ ~reliable /\ link = "joined"
  /\ MgmtMessage(Disassoc) \/ MgmtMessage(Status(FALSE))
  /\ link' \in {"none", "retrying"}
  /\ UNCHANGED <<asked, done, reliable>>

Rejoin ==
  /\ link = "retrying"
  /\ \/ MgmtMessage(Status(TRUE)) /\ link' = "joined"
     \/ ~reliable /\ MgmtMessage(Status(FALSE)) /\ link' = "none"
  /\ UNCHANGED <<asked, done, reliable>>

BecomeReliable ==
  /\ ~reliable /\ reliable' = TRUE
  /\ UNCHANGED <<wifiVars, isrVars, drvVars, mgmtQ, dataQ, asked, done, unconfirmed, link>>

RadioStep ==
  \/ \E r \in Requests : Grant(r) \/ Refuse(r) \/ LoseRequest(r)
  \/ ConfirmFrame \/ ReceiveFrame \/ LoseConfirm
  \/ LoseAccessPoint \/ Rejoin \/ BecomeReliable

-----------------------------------------------------------------------------
WifiStep ==
  \/ ZgInit \/ ZgChipReset \/ EnableINT0
  \/ NetConnecting \/ NetConnected \/ NetWaits \/ NetTurn \/ NetEnds
  \/ StackInput \/ StackPeriodic \/ StackIdle
  \/ SendFrame \/ NothingToSend
  \/ NoInterrupt \/ ReadMessage \/ ReadNothing \/ ClearFlag \/ EnableInterrupt
  \/ DriverStep

DriverInit ==
  /\ pc = "net" /\ phase = "start" /\ connected = FALSE /\ timerDue = FALSE
  /\ drvState = "INIT" /\ connStatus = FALSE
  /\ intrOccured = FALSE /\ intrValid = FALSE /\ intEnabled = FALSE
  /\ txReady = FALSE /\ rxReady = FALSE /\ cnfPending = FALSE
  /\ buf = Shifted
  /\ mgmtQ = <<>> /\ dataQ = <<>> /\ asked = {} /\ done = {}
  /\ unconfirmed = FALSE /\ link = "none" /\ reliable = ~Faulty

DriverNext ==
  \/ WifiStep \/ NextTurn \/ Intervene \/ Restart
  \/ ZgIsr \/ TimerExpires \/ RadioStep

DriverSpec == DriverInit /\ [][DriverNext]_vars

-----------------------------------------------------------------------------
Started == phase # "start"

(* A waiting message is never forgotten: the interrupt will fire, or has set
   its flag, or is about to be enabled. *)
InterruptNotLost ==
  Started /\ HasMessage => intEnabled \/ intrOccured \/ pc = "enable"

IsTxConfirm(i) == dataQ[i] = TxConfirm

(* The radio never holds two frames at a time: cnf_pending is set from the
   frame to the reading of its confirmation. *)
OneFrameAtATime ==
  Started =>
    /\ unconfirmed => cnfPending
    /\ \A i \in DOMAIN dataQ : IsTxConfirm(i) => cnfPending /\ ~unconfirmed
    /\ \A i, j \in DOMAIN dataQ : IsTxConfirm(i) /\ IsTxConfirm(j) => i = j

Telling == {i \in DOMAIN mgmtQ : TellsUp(mgmtQ[i]) \/ TellsDown(mgmtQ[i])}

(* Between two messages the driver's idea of the connection, corrected by the
   last message that is still to be read, is the radio's. *)
StatusFollowsRadio ==
  Started /\ ~intrValid =>
    IF Telling = {} THEN connStatus = (link = "joined")
    ELSE \E i \in Telling :
           /\ \A j \in Telling : j <= i
           /\ TellsUp(mgmtQ[i]) = (link = "joined")

(* The clock asks to be connected only after the radio granted all that comes
   before: the key (for WPA) and the connection manager. *)
ConnectsWhenSetUp ==
  Started /\ "CONNECT" \in asked =>
    {"GET_PARAM", "CONNECT_MANAGE"} \cup (IF Wpa THEN {"CALC_PSK", "PMK_KEY"} ELSE {}) \subseteq done

(* What the stack takes for a received frame is one, although every message is
   read into the same buffer. *)
FrameIsReceived == rxReady => buf = RxData

(* What the driver makes of the radio's messages is true: whether there is a
   connection, and what it hands to the stack. *)
RadioIsUnderstood == StatusFollowsRadio /\ FrameIsReceived

(* The comment in stack.c: "TX a broadcast ARP reply", to keep the access point
   from disconnecting the clock.  As long as the connection is up, the
   broadcast stays in the buffer until it is sent. *)
KeepAliveIsSent ==
  [][txReady /\ buf = KeepAlive /\ connected /\ connected' => SendFrame \/ buf' = KeepAlive]_vars
=============================================================================
