--------------------------- MODULE NetworkLoopProofs ---------------------------
(***************************************************************************)
(* The safety of the radio driver for every size of the radio's queues,    *)
(* for open and protected networks.  Then the supervision: it is one of    *)
(* the callers RadioDriver allows for, and every attempt to connect gets   *)
(* its whole time.                                                         *)
(***************************************************************************)
EXTENDS NetworkLoop, TLAPS

(* The variables have their types initially. *)
LEMMA InitDriverType == DriverInit => DriverTypeOK
<1> SUFFICES ASSUME DriverInit PROVE DriverTypeOK
  OBVIOUS
<1>1. mgmtQ \in Seq(MgmtMessages) /\ dataQ \in Seq({TxConfirm, RxData})
      /\ Len(mgmtQ) <= QueueSize /\ Len(dataQ) <= QueueSize
  BY DriverConstants DEF DriverInit
<1>2. buf \in Contents /\ drvState \in DrvStates /\ reliable \in BOOLEAN
  BY DEF DriverInit, Contents, DrvStates
<1>3. QED
  BY <1>1, <1>2 DEF DriverInit, DriverTypeOK, WifiTypeOK, DrvTypeOK, RadioTypeOK

(* A message more or less leaves a queue a queue. *)
LEMMA QueueAppend ==
  ASSUME NEW S, NEW q \in Seq(S), NEW m \in S, Len(q) < QueueSize
  PROVE  Append(q, m) \in Seq(S) /\ Len(Append(q, m)) <= QueueSize
  BY DriverConstants

LEMMA QueueTail ==
  ASSUME NEW S, NEW q \in Seq(S), q # <<>>, Len(q) <= QueueSize
  PROVE  /\ Tail(q) \in Seq(S) /\ Len(Tail(q)) <= QueueSize
         /\ Head(q) \in S
  BY DriverConstants

(* Wifi::run steers the main thread and nothing else breaks its types. *)
LEMMA WifiStepWifiType == WifiTypeOK /\ WifiStep => WifiTypeOK'
  BY DEF WifiTypeOK, WifiStep, ZgInit, ZgChipReset, EnableINT0,
         NetConnecting, NetConnected, NetWaits, NetTurn, NetEnds,
         StackInput, StackPeriodic, StackIdle, SendFrame, ZgSend, NothingToSend,
         NoInterrupt, ReadMessage, ReadNothing, ClearFlag, EnableInterrupt, DriverStep

(* The state machine has a state for every confirmation it may read. *)
LEMMA StateReadType == DrvTypeOK => StateRead \in DrvStates
<1> SUFFICES ASSUME DrvTypeOK PROVE StateRead \in DrvStates
  OBVIOUS
<1>1. CASE intrValid /\ buf.type = "MGMT_CONFIRM"
  <2>1. PICK r \in Requests, b \in BOOLEAN : buf = Confirm(r, b)
    <3>1. buf \notin {Disassoc, TxConfirm, RxData, Reply, KeepAlive, Shifted}
      BY <1>1 DEF Disassoc, TxConfirm, RxData, Reply, KeepAlive, Shifted
    <3>2. \A b \in BOOLEAN : buf # Status(b)
      BY <1>1 DEF Status
    <3>3. QED
      BY <3>1, <3>2 DEF DrvTypeOK, Contents, Messages, MgmtMessages
  <2>2. buf.req # "CONNECT" => StateAfter[buf.req] \in DrvStates
    BY <2>1 DEF Confirm, Requests, StateAfter, DrvStates, RequestOf
  <2>3. QED
    BY <1>1, <2>2 DEF StateRead, DrvTypeOK, RxData, Disassoc
<1>2. CASE ~(intrValid /\ buf.type = "MGMT_CONFIRM")
  BY <1>2 DEF StateRead, DrvTypeOK, DrvStates, RequestOf
<1>3. QED
  BY <1>1, <1>2

(* One step of the state machine, from the state the message led to. *)
LEMMA AdvanceType ==
  ASSUME DrvTypeOK, RadioTypeOK, Advance(StateRead)
  PROVE  /\ drvState' \in DrvStates /\ buf' \in Contents /\ rxReady' \in BOOLEAN
         /\ asked' \subseteq Requests
<1>1. \A st \in DOMAIN RequestOf : RequestOf[st] \in Requests
  BY DEF RequestOf, Requests, StateAfter
<1>2. Shifted \in Contents
  BY DEF Contents
<1>3. "GET_MAC" \in DrvStates /\ "IDLE" \in DrvStates /\ "ENABLE_CONN_MANAGE" \in DrvStates
  BY DEF DrvStates, RequestOf
<1>4. QED
  BY <1>1, <1>2, <1>3, StateReadType DEF Advance, SendRequest, ZgRecv, DrvTypeOK, RadioTypeOK

(* Wifi::run keeps the types of the driver's variables. *)
LEMMA WifiStepDrvType == DriverTypeOK /\ WifiStep => DrvTypeOK'
<1> SUFFICES ASSUME DriverTypeOK, WifiStep PROVE DrvTypeOK'
  OBVIOUS
<1> USE DEF DriverTypeOK, isrVars, drvVars
<1>1. /\ Shifted \in Contents /\ Reply \in Contents /\ KeepAlive \in Contents
      /\ "INIT" \in DrvStates
  BY DEF Contents, DrvStates
<1>2. CASE ZgInit
  BY <1>1, <1>2 DEF ZgInit, DrvTypeOK
<1>3. CASE \/ ZgChipReset \/ EnableINT0 \/ NetConnecting \/ NetConnected \/ NetWaits
           \/ NetTurn \/ NetEnds \/ StackIdle \/ NothingToSend \/ NoInterrupt \/ ReadNothing
           \/ ClearFlag \/ EnableInterrupt
  BY <1>3 DEF ZgChipReset, EnableINT0, NetConnecting, NetConnected, NetWaits, NetTurn, NetEnds,
              StackIdle, NothingToSend, NoInterrupt, ReadNothing, ClearFlag, EnableInterrupt,
              DrvTypeOK
<1>4. CASE StackInput \/ StackPeriodic \/ SendFrame
  BY <1>1, <1>4 DEF StackInput, StackPeriodic, SendFrame, ZgSend, RxAfterRead, NetworkSend, NoSend,
                    DrvTypeOK
<1>5. CASE ReadMessage
  <2>1. Head(mgmtQ) \in Contents \/ mgmtQ = <<>>
    BY QueueTail DEF RadioTypeOK, Contents, Messages
  <2>2. Head(dataQ) \in Contents \/ dataQ = <<>>
    BY QueueTail DEF RadioTypeOK, Contents, Messages
  <2>3. QED
    BY <1>5, <2>1, <2>2 DEF ReadMessage, DrvTypeOK
<1>6. CASE DriverStep
  <2>1. StatusRead \in BOOLEAN /\ CnfRead \in BOOLEAN
    BY DEF StatusRead, CnfRead
  <2>2. QED
    BY <1>6, <2>1, AdvanceType DEF DriverStep, DrvTypeOK
<1>7. QED
  BY <1>2, <1>3, <1>4, <1>5, <1>6 DEF WifiStep

(* Wifi::run keeps the types of the radio's variables. *)
LEMMA WifiStepRadioType == DriverTypeOK /\ WifiStep => RadioTypeOK'
<1> SUFFICES ASSUME DriverTypeOK, WifiStep PROVE RadioTypeOK'
  OBVIOUS
<1> USE DEF DriverTypeOK, radioVars
<1>1. CASE ZgChipReset
  <2>1. <<>> \in Seq(MgmtMessages) /\ <<>> \in Seq({TxConfirm, RxData}) /\ Len(<<>>) <= QueueSize
    BY DriverConstants
  <2>2. QED
    BY <1>1, <2>1 DEF ZgChipReset, RadioTypeOK
<1>2. CASE \/ ZgInit \/ EnableINT0 \/ NetConnecting \/ NetConnected \/ NetWaits
           \/ NetTurn \/ NetEnds \/ StackInput \/ StackPeriodic \/ StackIdle
           \/ NothingToSend \/ NoInterrupt \/ ReadNothing \/ ClearFlag \/ EnableInterrupt
  BY <1>2 DEF ZgInit, EnableINT0, NetConnecting, NetConnected, NetWaits, NetTurn, NetEnds,
              StackInput, StackPeriodic, StackIdle, NothingToSend, NoInterrupt, ReadNothing,
              ClearFlag, EnableInterrupt, RadioTypeOK
<1>3. CASE SendFrame
  BY <1>3 DEF SendFrame, ZgSend, RadioTypeOK
<1>4. CASE ReadMessage
  BY <1>4, QueueTail DEF ReadMessage, RadioTypeOK
<1>5. CASE DriverStep
  BY <1>5, AdvanceType DEF DriverStep, RadioTypeOK
<1>6. QED
  BY <1>1, <1>2, <1>3, <1>4, <1>5 DEF WifiStep

(* A message of the radio ends a queue. *)
LEMMA MessageType ==
  ASSUME RadioTypeOK
  PROVE  /\ \A m \in MgmtMessages : MgmtMessage(m) =>
              mgmtQ' \in Seq(MgmtMessages) /\ Len(mgmtQ') <= QueueSize
         /\ \A m \in {TxConfirm, RxData} : DataMessage(m) =>
              dataQ' \in Seq({TxConfirm, RxData}) /\ Len(dataQ') <= QueueSize
  BY QueueAppend DEF RadioTypeOK, MgmtMessage, DataMessage

(* The messages the radio makes are management messages. *)
LEMMA AreMessages ==
  /\ \A q \in Requests, b \in BOOLEAN : Confirm(q, b) \in MgmtMessages
  /\ \A b \in BOOLEAN : Status(b) \in MgmtMessages
  /\ Disassoc \in MgmtMessages
<1>1. \A q \in Requests, b \in BOOLEAN :
        Confirm(q, b) \in {Confirm(r, c) : r \in Requests, c \in BOOLEAN}
  BY DEF Confirm
<1>2. \A b \in BOOLEAN : Status(b) \in {Status(c) : c \in BOOLEAN}
  BY DEF Status
<1>3. QED
  BY <1>1, <1>2 DEF MgmtMessages

(* The radio keeps the types of its own variables. *)
LEMMA RadioStepType == DriverTypeOK /\ RadioStep => DriverTypeOK'
<1> SUFFICES ASSUME DriverTypeOK, RadioStep PROVE DriverTypeOK'
  OBVIOUS
<1>1. UNCHANGED <<wifiVars, isrVars, drvVars>>
  BY DEF RadioStep, Grant, Refuse, ConfirmFrame, ReceiveFrame, LoseRequest, LoseConfirm,
         LoseAccessPoint, Rejoin, BecomeReliable, MgmtMessage, DataMessage
<1>2. WifiTypeOK' /\ DrvTypeOK'
  BY <1>1 DEF DriverTypeOK, WifiTypeOK, DrvTypeOK, wifiVars, isrVars, drvVars
<1>3. RadioTypeOK'
  <2> USE DEF DriverTypeOK
  <2>1. ASSUME NEW r \in Requests, Grant(r) \/ Refuse(r) PROVE RadioTypeOK'
    <3>1. Confirm(r, TRUE) \in MgmtMessages /\ Confirm(r, FALSE) \in MgmtMessages
      BY AreMessages
    <3>2. MgmtMessage(Confirm(r, TRUE)) \/ MgmtMessage(Confirm(r, FALSE))
      BY <2>1 DEF Grant, Refuse
    <3>3. mgmtQ' \in Seq(MgmtMessages) /\ Len(mgmtQ') <= QueueSize
          /\ UNCHANGED <<dataQ, unconfirmed>>
      BY <3>1, <3>2, MessageType DEF MgmtMessage
    <3>4. /\ asked' \subseteq Requests /\ done' \subseteq Requests
          /\ link' \in {"none", "joined", "retrying"} /\ reliable' = reliable
      BY <2>1 DEF Grant, Refuse, RadioTypeOK
    <3>5. QED
      BY <3>3, <3>4 DEF RadioTypeOK
  <2>2. CASE ConfirmFrame \/ ReceiveFrame
    <3>1. dataQ' \in Seq({TxConfirm, RxData}) /\ Len(dataQ') <= QueueSize
          /\ UNCHANGED <<mgmtQ, asked, done, link, reliable>>
      BY <2>2, MessageType DEF ConfirmFrame, ReceiveFrame, DataMessage
    <3>2. QED
      BY <2>2, <3>1 DEF ConfirmFrame, ReceiveFrame, RadioTypeOK
  <2>3. CASE LoseAccessPoint \/ Rejoin
    <3>1. Disassoc \in MgmtMessages /\ Status(TRUE) \in MgmtMessages
          /\ Status(FALSE) \in MgmtMessages
      BY AreMessages
    <3>2. mgmtQ' \in Seq(MgmtMessages) /\ Len(mgmtQ') <= QueueSize
          /\ UNCHANGED <<dataQ, unconfirmed>>
      BY <2>3, <3>1, MessageType DEF LoseAccessPoint, Rejoin, MgmtMessage
    <3>3. UNCHANGED <<asked, done, reliable>> /\ link' \in {"none", "joined", "retrying"}
      BY <2>3 DEF LoseAccessPoint, Rejoin
    <3>4. QED
      BY <3>2, <3>3 DEF RadioTypeOK
  <2>4. CASE LoseConfirm \/ BecomeReliable \/ \E r \in Requests : LoseRequest(r)
    BY <2>4 DEF LoseConfirm, BecomeReliable, LoseRequest, RadioTypeOK
  <2>5. QED
    BY <2>1, <2>2, <2>3, <2>4 DEF RadioStep
<1>4. QED
  BY <1>2, <1>3 DEF DriverTypeOK

(* The steps around Wifi::run keep the types. *)
LEMMA OtherStepType ==
  DriverTypeOK /\ (NextTurn \/ Intervene \/ Restart \/ ZgIsr \/ TimerExpires) => DriverTypeOK'
<1>1. "INIT" \in DrvStates /\ Shifted \in Contents
  BY DEF DrvStates, Contents
<1> USE DEF NextTurn, Intervene, Restart, ZgIsr, TimerExpires, wifiVars, isrVars, drvVars,
            radioVars
<1>2. WifiTypeOK /\ (NextTurn \/ Intervene \/ Restart \/ ZgIsr \/ TimerExpires) => WifiTypeOK'
  BY DEF WifiTypeOK
<1>3. DrvTypeOK /\ (NextTurn \/ Intervene \/ Restart \/ ZgIsr \/ TimerExpires) => DrvTypeOK'
  BY <1>1 DEF DrvTypeOK
<1>4. RadioTypeOK /\ (NextTurn \/ Intervene \/ Restart \/ ZgIsr \/ TimerExpires) => RadioTypeOK'
  BY DEF RadioTypeOK
<1>5. QED
  BY <1>2, <1>3, <1>4 DEF DriverTypeOK

LEMMA NextDriverType == DriverTypeOK /\ [DriverNext]_vars => DriverTypeOK'
<1> SUFFICES ASSUME DriverTypeOK, [DriverNext]_vars PROVE DriverTypeOK'
  OBVIOUS
<1>1. CASE WifiStep
  BY <1>1, WifiStepWifiType, WifiStepDrvType, WifiStepRadioType DEF DriverTypeOK
<1>2. CASE UNCHANGED vars
  BY <1>2 DEF DriverTypeOK, WifiTypeOK, DrvTypeOK, RadioTypeOK, vars, wifiVars, isrVars,
              drvVars, radioVars
<1>3. QED
  BY <1>1, <1>2, OtherStepType, RadioStepType DEF DriverNext

(* The variables of Wifi::run, of g2100.c and of the radio always have their
   types; the radio's queues never overflow. *)
THEOREM DriverTypeCorrect == DriverSpec => []DriverTypeOK
  BY InitDriverType, NextDriverType, PTL DEF DriverSpec

-----------------------------------------------------------------------------
(* The interrupt.  Whether or not a message waits, INT0 is on, or its flag is
   set, or the driver is about to switch it on. *)
Listening == Started => intEnabled \/ intrOccured \/ pc = "enable"

(* Clearing the flag before enabling the interrupt, never after, keeps it. *)
LEMMA NextListening == Listening /\ [DriverNext]_vars => Listening'
<1> SUFFICES ASSUME Listening, [DriverNext]_vars PROVE Listening'
  OBVIOUS
<1> USE DEF Listening, Started, wifiVars, isrVars
<1>1. CASE WifiStep
  BY <1>1 DEF WifiStep, ZgInit, ZgChipReset, EnableINT0, NetConnecting, NetConnected, NetWaits,
              NetTurn, NetEnds, StackInput, StackPeriodic, StackIdle, SendFrame, ZgSend, NothingToSend,
              NoInterrupt, ReadMessage, ReadNothing, ClearFlag, EnableInterrupt, DriverStep
<1>2. CASE NextTurn \/ Intervene \/ Restart \/ ZgIsr \/ TimerExpires
  BY <1>2 DEF NextTurn, Intervene, Restart, ZgIsr, TimerExpires
<1>3. CASE RadioStep
  BY <1>3 DEF RadioStep, Grant, Refuse, ConfirmFrame, ReceiveFrame, LoseRequest, LoseConfirm,
              LoseAccessPoint, Rejoin, BecomeReliable, MgmtMessage, DataMessage
<1>4. CASE UNCHANGED vars
  BY <1>4 DEF vars
<1>5. QED
  BY <1>1, <1>2, <1>3, <1>4 DEF DriverNext

(* zg_isr() and zg_process_isr() never leave a message of the radio unnoticed. *)
THEOREM NoInterruptLost == DriverSpec => []InterruptNotLost
<1>1. DriverInit => Listening
  BY DEF DriverInit, Listening, Started
<1>2. Listening => InterruptNotLost
  BY DEF Listening, InterruptNotLost
<1>3. QED
  BY <1>1, <1>2, NextListening, PTL DEF DriverSpec

-----------------------------------------------------------------------------
(* One frame at a time.  A confirmation is on its way at most once: waiting in
   the radio's queue or just read; and meanwhile cnf_pending is set. *)
NoConfirmWaits == \A i \in DOMAIN dataQ : ~IsTxConfirm(i)

ConfirmInv ==
  /\ phase = "start" => pc \in {"net", "chip", "int0"}
  /\ pc = "int0" => ~unconfirmed /\ NoConfirmWaits
  /\ intrValid => Started /\ pc \in {"clear", "enable", "step"}
  /\ intrValid /\ buf = TxConfirm => cnfPending /\ ~unconfirmed /\ NoConfirmWaits
  /\ OneFrameAtATime

(* What Append and Tail leave of the confirmations in a queue. *)
LEMMA AppendedRx ==
  ASSUME dataQ \in Seq({TxConfirm, RxData}), NEW m, dataQ' = Append(dataQ, m)
  PROVE  /\ DOMAIN dataQ' = 1 .. Len(dataQ) + 1
         /\ DOMAIN dataQ = 1 .. Len(dataQ)
         /\ \A i \in DOMAIN dataQ : dataQ'[i] = dataQ[i]
         /\ dataQ'[Len(dataQ) + 1] = m
  OBVIOUS

LEMMA TailedQueue ==
  ASSUME dataQ \in Seq({TxConfirm, RxData}), dataQ # <<>>, dataQ' = Tail(dataQ)
  PROVE  /\ DOMAIN dataQ' = 1 .. Len(dataQ) - 1
         /\ DOMAIN dataQ = 1 .. Len(dataQ)
         /\ Len(dataQ) \in Nat /\ Len(dataQ) > 0
         /\ \A i \in DOMAIN dataQ' : dataQ'[i] = dataQ[i + 1]
         /\ Head(dataQ) = dataQ[1]
  OBVIOUS

(* Reading a message takes at most one confirmation from the queue. *)
LEMMA ReadKeepsConfirmInv ==
  ASSUME DriverTypeOK, ConfirmInv, ReadMessage PROVE ConfirmInv'
<1> USE DEF OneFrameAtATime, NoConfirmWaits, Started, IsTxConfirm
<1>1. /\ pc = "isr" /\ pc' = "clear" /\ phase' = phase /\ intrValid' = TRUE
      /\ UNCHANGED <<cnfPending, unconfirmed>>
      /\ phase # "start"
  BY DEF ReadMessage, ConfirmInv
<1>2. CASE mgmtQ # <<>> /\ buf' = Head(mgmtQ) /\ UNCHANGED dataQ
  <2>1. Head(mgmtQ) \in MgmtMessages
    BY <1>2, QueueTail DEF DriverTypeOK, RadioTypeOK
  <2>2. buf' # TxConfirm
    BY <1>2, <2>1 DEF MgmtMessages, Confirm, Status, Disassoc, TxConfirm
  <2>3. QED
    BY <1>1, <1>2, <2>2 DEF ConfirmInv
<1>3. CASE dataQ # <<>> /\ buf' = Head(dataQ) /\ dataQ' = Tail(dataQ)
  <2>1. /\ DOMAIN dataQ' = 1 .. Len(dataQ) - 1
        /\ DOMAIN dataQ = 1 .. Len(dataQ)
        /\ Len(dataQ) \in Nat /\ Len(dataQ) > 0
        /\ \A i \in DOMAIN dataQ' : dataQ'[i] = dataQ[i + 1]
        /\ Head(dataQ) = dataQ[1]
    BY <1>3, TailedQueue DEF DriverTypeOK, RadioTypeOK
  <2>2. \A i \in DOMAIN dataQ' : i + 1 \in DOMAIN dataQ /\ i + 1 # 1
    BY <2>1
  <2>3. OneFrameAtATime'
    BY <1>1, <2>1, <2>2 DEF ConfirmInv
  <2>4. buf' = TxConfirm => cnfPending' /\ ~unconfirmed' /\ NoConfirmWaits'
    BY <1>1, <1>3, <2>1, <2>2 DEF ConfirmInv
  <2>5. QED
    BY <1>1, <2>3, <2>4 DEF ConfirmInv
<1>4. QED
  BY <1>2, <1>3 DEF ReadMessage

(* Neither zg_send() nor the state machine lets a second frame out. *)
LEMMA WifiKeepsConfirmInv ==
  ASSUME DriverTypeOK, ConfirmInv, WifiStep PROVE ConfirmInv'
<1> USE DEF OneFrameAtATime, NoConfirmWaits, Started, IsTxConfirm, ConfirmInv, isrVars, drvVars,
            radioVars
<1>1. CASE ZgInit
  BY <1>1 DEF ZgInit
<1>2. CASE ZgChipReset
  BY <1>2 DEF ZgChipReset
<1>3. CASE EnableINT0
  BY <1>3 DEF EnableINT0
<1>4. CASE NetConnecting \/ NetConnected \/ NetWaits \/ NetTurn \/ NetEnds
  BY <1>4 DEF NetConnecting, NetConnected, NetWaits, NetTurn, NetEnds
<1>5. CASE StackInput \/ StackPeriodic \/ StackIdle
  BY <1>5 DEF StackInput, StackPeriodic, StackIdle
<1>6. CASE SendFrame
  BY <1>6 DEF SendFrame, ZgSend, MaySend
<1>7. CASE NothingToSend \/ NoInterrupt \/ ReadNothing
  BY <1>7 DEF NothingToSend, NoInterrupt, ReadNothing
<1>8. CASE ReadMessage
  BY <1>8, ReadKeepsConfirmInv
<1>9. CASE ClearFlag \/ EnableInterrupt
  BY <1>9 DEF ClearFlag, EnableInterrupt
<1>10. CASE DriverStep
  BY <1>10 DEF DriverStep, CnfRead
<1>11. QED
  BY <1>1, <1>2, <1>3, <1>4, <1>5, <1>6, <1>7, <1>8, <1>9, <1>10 DEF WifiStep

(* The radio confirms a frame once, if at all. *)
LEMMA RadioKeepsConfirmInv ==
  ASSUME DriverTypeOK, ConfirmInv, RadioStep PROVE ConfirmInv'
<1>1. UNCHANGED <<pc, phase, intrValid, buf, cnfPending>>
  BY DEF RadioStep, Grant, Refuse, ConfirmFrame, ReceiveFrame, LoseRequest, LoseConfirm,
         LoseAccessPoint, Rejoin, BecomeReliable, MgmtMessage, DataMessage, wifiVars, drvVars
<1>2. CASE ConfirmFrame \/ ReceiveFrame
  <2>1. /\ DOMAIN dataQ' = 1 .. Len(dataQ) + 1
        /\ DOMAIN dataQ = 1 .. Len(dataQ)
        /\ \A i \in DOMAIN dataQ : dataQ'[i] = dataQ[i]
        /\ Len(dataQ) \in Nat
    BY <1>2, AppendedRx DEF ConfirmFrame, ReceiveFrame, DataMessage, DriverTypeOK, RadioTypeOK
  <2>2. \A i \in DOMAIN dataQ' : i \in DOMAIN dataQ \/ i = Len(dataQ) + 1
    BY <2>1
  <2>3. CASE ConfirmFrame
    BY <1>1, <2>1, <2>2, <2>3 DEF ConfirmFrame, ConfirmInv, OneFrameAtATime, NoConfirmWaits,
                                  IsTxConfirm, Started
  <2>4. CASE ReceiveFrame
    <3>1. dataQ'[Len(dataQ) + 1] # TxConfirm
      BY <2>4, AppendedRx DEF ReceiveFrame, DataMessage, DriverTypeOK, RadioTypeOK, RxData, TxConfirm
    <3>2. QED
      BY <1>1, <2>1, <2>2, <2>4, <3>1 DEF ReceiveFrame, ConfirmInv, OneFrameAtATime,
                                          NoConfirmWaits, IsTxConfirm, Started
  <2>5. QED
    BY <1>2, <2>3, <2>4
<1>3. CASE ~(ConfirmFrame \/ ReceiveFrame)
  <2>1. dataQ' = dataQ /\ (unconfirmed' = unconfirmed \/ unconfirmed' = FALSE)
    <3>1. CASE LoseConfirm
      BY <3>1 DEF LoseConfirm
    <3>2. CASE LoseAccessPoint \/ Rejoin \/ BecomeReliable
      BY <3>2 DEF LoseAccessPoint, Rejoin, BecomeReliable, MgmtMessage
    <3>3. CASE \E q \in Requests : Grant(q) \/ Refuse(q) \/ LoseRequest(q)
      BY <3>3 DEF Grant, Refuse, LoseRequest, MgmtMessage
    <3>4. QED
      BY <1>3, <3>1, <3>2, <3>3 DEF RadioStep
  <2>2. QED
    BY <1>1, <2>1 DEF ConfirmInv, OneFrameAtATime, NoConfirmWaits, IsTxConfirm, Started
<1>4. QED
  BY <1>2, <1>3

LEMMA NextConfirmInv ==
  DriverTypeOK /\ ConfirmInv /\ [DriverNext]_vars => ConfirmInv'
<1> SUFFICES ASSUME DriverTypeOK, ConfirmInv, [DriverNext]_vars PROVE ConfirmInv'
  OBVIOUS
<1>1. CASE NextTurn \/ Intervene \/ Restart \/ ZgIsr \/ TimerExpires
  <2> USE DEF ConfirmInv, OneFrameAtATime, NoConfirmWaits, IsTxConfirm, Started,
              wifiVars, isrVars, drvVars, radioVars
  <2>1. CASE NextTurn
    BY <2>1 DEF NextTurn
  <2>2. CASE Intervene
    BY <2>2 DEF Intervene
  <2>3. CASE Restart
    BY <2>3 DEF Restart
  <2>4. CASE ZgIsr \/ TimerExpires
    BY <2>4 DEF ZgIsr, TimerExpires
  <2>5. QED
    BY <1>1, <2>1, <2>2, <2>3, <2>4
<1>2. CASE UNCHANGED vars
  BY <1>2 DEF vars, wifiVars, drvVars, radioVars, ConfirmInv, OneFrameAtATime, NoConfirmWaits,
              IsTxConfirm, Started
<1>3. QED
  BY <1>1, <1>2, WifiKeepsConfirmInv, RadioKeepsConfirmInv DEF DriverNext

(* zg_send() is not called while the radio has a frame it has not confirmed, nor
   while the confirmation is still to be read: cnf_pending is a lock. *)
THEOREM NeverTwoFrames == DriverSpec => []OneFrameAtATime
<1>1. DriverInit => ConfirmInv
  BY DEF DriverInit, ConfirmInv, OneFrameAtATime, NoConfirmWaits, Started
<1>2. ConfirmInv => OneFrameAtATime
  BY DEF ConfirmInv
<1>3. QED
  BY <1>1, <1>2, DriverTypeCorrect, NextConfirmInv, PTL DEF DriverSpec

-----------------------------------------------------------------------------
(* What the radio must have granted before a request is sent, and before the
   driver is in a state. *)
Keyed == IF Wpa THEN {"CALC_PSK", "PMK_KEY"} ELSE {}
SetUp == {"GET_PARAM", "CONNECT_MANAGE"} \cup Keyed

Before(r) ==
  CASE r = "GET_PARAM"      -> {}
    [] r = "CALC_PSK"       -> {"GET_PARAM"}
    [] r = "PMK_KEY"        -> {"GET_PARAM", "CALC_PSK"}
    [] r = "CONNECT_MANAGE" -> {"GET_PARAM"} \cup Keyed
    [] r = "CONNECT"        -> SetUp

Reached(state) == IF state \in DOMAIN RequestOf THEN Before(RequestOf[state]) ELSE {}

(* What a message of the radio tells about that. *)
Granted(m) ==
  CASE m = Disassoc -> SetUp
    [] m # Disassoc -> {p \in Requests : \E r \in Requests :
                          m = Confirm(r, TRUE) /\ p \in Before(r) \cup {r}}

SetupInv ==
  /\ pc \in {"chip", "int0"} => drvState = "INIT" /\ ~intrValid
  /\ Reached(drvState) \subseteq done
  /\ \A r \in asked : Before(r) \subseteq done
  /\ \A i \in DOMAIN mgmtQ : Granted(mgmtQ[i]) \subseteq done
  /\ intrValid => Granted(buf) \subseteq done
  /\ link # "none" => SetUp \subseteq done

LEMMA BeforeAreRequests == \A r \in Requests : Before(r) \subseteq Requests
BY DEF Before, Requests, StateAfter, Keyed, SetUp

LEMMA GrantedIsBefore ==
  /\ \A r \in Requests : Granted(Confirm(r, TRUE)) = Before(r) \cup {r}
  /\ \A r \in Requests : Granted(Confirm(r, FALSE)) = {}
  /\ \A b \in BOOLEAN : Granted(Status(b)) = {}
  /\ Granted(Disassoc) = SetUp /\ Granted(TxConfirm) = {} /\ Granted(RxData) = {}
<1>1. \A r, s \in Requests : Confirm(r, TRUE) = Confirm(s, TRUE) <=> r = s
  BY DEF Confirm
<1>2. \A r, s \in Requests : Confirm(r, FALSE) # Confirm(s, TRUE)
  BY DEF Confirm
<1>3. \A r \in Requests, b \in BOOLEAN : Confirm(r, b).type = "MGMT_CONFIRM"
  BY DEF Confirm
<1>4. \A b \in BOOLEAN : Status(b).type = "CONN_STATUS"
  BY DEF Status
<1>5. Disassoc.type = "DISASSOC" /\ TxConfirm.type = "TXDATA_CONFIRM" /\ RxData.type = "RXDATA"
  BY DEF Disassoc, TxConfirm, RxData
<1>6. ASSUME NEW r \in Requests PROVE Granted(Confirm(r, TRUE)) = Before(r) \cup {r}
  BY <1>1, <1>3, <1>5, BeforeAreRequests DEF Granted
<1>7. ASSUME NEW r \in Requests PROVE Granted(Confirm(r, FALSE)) = {}
  BY <1>2, <1>3, <1>5 DEF Granted
<1>8. ASSUME NEW b \in BOOLEAN PROVE Granted(Status(b)) = {}
  BY <1>3, <1>4, <1>5 DEF Granted
<1>9. Granted(Disassoc) = SetUp /\ Granted(TxConfirm) = {} /\ Granted(RxData) = {}
  BY <1>3, <1>5 DEF Granted
<1>10. QED
  BY <1>6, <1>7, <1>8, <1>9

(* A queue that a message is taken from or put at the end of. *)
LEMMA TailedMgmt ==
  ASSUME mgmtQ \in Seq(MgmtMessages), mgmtQ # <<>>, mgmtQ' = Tail(mgmtQ)
  PROVE  /\ DOMAIN mgmtQ' = 1 .. Len(mgmtQ) - 1
         /\ DOMAIN mgmtQ = 1 .. Len(mgmtQ)
         /\ Len(mgmtQ) \in Nat /\ Len(mgmtQ) > 0
         /\ \A i \in DOMAIN mgmtQ' : mgmtQ'[i] = mgmtQ[i + 1]
         /\ Head(mgmtQ) = mgmtQ[1]
  OBVIOUS

LEMMA AppendedMgmt ==
  ASSUME mgmtQ \in Seq(MgmtMessages), NEW m, mgmtQ' = Append(mgmtQ, m)
  PROVE  /\ DOMAIN mgmtQ' = 1 .. Len(mgmtQ) + 1
         /\ DOMAIN mgmtQ = 1 .. Len(mgmtQ)
         /\ Len(mgmtQ) \in Nat
         /\ \A i \in DOMAIN mgmtQ : mgmtQ'[i] = mgmtQ[i]
         /\ mgmtQ'[Len(mgmtQ) + 1] = m
  OBVIOUS

(* The state a message leads to has been reached. *)
LEMMA StateReadReached ==
  ASSUME DriverTypeOK, SetupInv PROVE Reached(StateRead) \subseteq done
<1>1. CASE intrValid /\ buf.type = "MGMT_CONFIRM"
  <2>1. PICK r \in Requests, b \in BOOLEAN : buf = Confirm(r, b)
    <3>1. buf \notin {Disassoc, TxConfirm, RxData, Reply, KeepAlive, Shifted}
      BY <1>1 DEF Disassoc, TxConfirm, RxData, Reply, KeepAlive, Shifted
    <3>2. \A b \in BOOLEAN : buf # Status(b)
      BY <1>1 DEF Status
    <3>3. QED
      BY <3>1, <3>2 DEF DriverTypeOK, DrvTypeOK, Contents, Messages, MgmtMessages
  <2>2. buf.req = r /\ buf.ok = b
    BY <2>1 DEF Confirm
  <2>3. CASE b /\ r # "CONNECT"
    <3>1. Before(r) \cup {r} \subseteq done
      BY <1>1, <2>1, <2>3, GrantedIsBefore DEF SetupInv
    <3>2. Reached(StateAfter[r]) \subseteq Before(r) \cup {r}
      BY <2>3 DEF Reached, StateAfter, RequestOf, Before, Requests, SetUp, Keyed
    <3>3. StateRead = StateAfter[r]
      BY <1>1, <2>2, <2>3 DEF StateRead, RxData, Disassoc
    <3>4. QED
      BY <3>1, <3>2, <3>3
  <2>4. CASE ~(b /\ r # "CONNECT")
    <3>1. StateRead = drvState
      BY <1>1, <2>2, <2>4 DEF StateRead, RxData, Disassoc
    <3>2. QED
      BY <3>1 DEF SetupInv
  <2>5. QED
    BY <2>3, <2>4
<1>2. CASE intrValid /\ buf = Disassoc
  <2>1. StateRead = "START_CONN"
    BY <1>2 DEF StateRead, Disassoc, RxData
  <2>2. Reached("START_CONN") = SetUp
    BY DEF Reached, RequestOf, Before
  <2>3. QED
    BY <1>2, <2>1, <2>2, GrantedIsBefore DEF SetupInv
<1>3. CASE ~intrValid \/ (buf.type # "MGMT_CONFIRM" /\ buf # Disassoc)
  <2>1. StateRead \in {drvState, "PROCESS_RX"}
    BY <1>3 DEF StateRead
  <2>2. Reached("PROCESS_RX") = {}
    BY DEF Reached, RequestOf
  <2>3. QED
    BY <2>1, <2>2 DEF SetupInv
<1>4. QED
  BY <1>1, <1>2, <1>3

(* And so has every state the machine goes on to; it asks for what is due. *)
LEMMA AdvanceReached ==
  ASSUME Advance(StateRead), Reached(StateRead) \subseteq done, UNCHANGED done,
         \A r \in asked : Before(r) \subseteq done
  PROVE  Reached(drvState') \subseteq done /\ \A r \in asked' : Before(r) \subseteq done
<1>1. Reached("GET_MAC") = {} /\ Reached("IDLE") = {}
  BY DEF Reached, RequestOf, Before
<1>2. ~Wpa => Reached("ENABLE_CONN_MANAGE") = Reached("SETUP_SECURITY")
  BY DEF Reached, RequestOf, Before, Keyed
<1>3. \A st \in DOMAIN RequestOf : Before(RequestOf[st]) = Reached(st)
  BY DEF Reached
<1>4. QED
  BY <1>1, <1>2, <1>3 DEF Advance, SendRequest, ZgRecv

LEMMA WifiKeepsSetupInv ==
  ASSUME DriverTypeOK, ConfirmInv, SetupInv, WifiStep PROVE SetupInv'
<1> USE DEF SetupInv
<1> USE DEF isrVars, drvVars, radioVars
<1>1. CASE ZgInit
  <2>1. Reached("INIT") = {}
    BY DEF Reached, RequestOf
  <2>2. QED
    BY <1>1, <2>1 DEF ZgInit
<1>2. CASE ZgChipReset
  <2>1. Reached("INIT") = {}
    BY DEF Reached, RequestOf
  <2>2. drvState = "INIT" /\ ~intrValid
    BY <1>2 DEF ZgChipReset
  <2>3. DOMAIN mgmtQ' = {}
    BY <1>2 DEF ZgChipReset
  <2>4. QED
    BY <1>2, <2>1, <2>2, <2>3 DEF ZgChipReset
<1>3. CASE EnableINT0
  BY <1>3 DEF EnableINT0
<1>4. CASE NetConnecting \/ NetConnected \/ NetWaits \/ NetTurn \/ NetEnds
  BY <1>4 DEF NetConnecting, NetConnected, NetWaits, NetTurn, NetEnds
<1>5. CASE StackInput \/ StackPeriodic \/ StackIdle
  <2>1. ~intrValid
    BY <1>5 DEF StackInput, StackPeriodic, StackIdle, ConfirmInv
  <2>2. QED
    BY <1>5, <2>1 DEF StackInput, StackPeriodic, StackIdle
<1>6. CASE SendFrame
  <2>1. ~intrValid
    BY <1>6 DEF SendFrame, ZgSend, ConfirmInv
  <2>2. QED
    BY <1>6, <2>1 DEF SendFrame, ZgSend
<1>7. CASE NothingToSend \/ NoInterrupt \/ ReadNothing \/ ClearFlag \/ EnableInterrupt
  BY <1>7 DEF NothingToSend, NoInterrupt, ReadNothing, ClearFlag, EnableInterrupt
<1>8. CASE ReadMessage
  <2>1. UNCHANGED <<drvState, asked, done, link>> /\ pc' = "clear"
    BY <1>8 DEF ReadMessage
  <2>2. CASE mgmtQ # <<>> /\ buf' = Head(mgmtQ) /\ mgmtQ' = Tail(mgmtQ)
    <3>1. /\ DOMAIN mgmtQ' = 1 .. Len(mgmtQ) - 1
          /\ DOMAIN mgmtQ = 1 .. Len(mgmtQ)
          /\ Len(mgmtQ) \in Nat /\ Len(mgmtQ) > 0
          /\ \A i \in DOMAIN mgmtQ' : mgmtQ'[i] = mgmtQ[i + 1]
          /\ Head(mgmtQ) = mgmtQ[1]
      BY <2>2, TailedMgmt DEF DriverTypeOK, RadioTypeOK
    <3>2. \A i \in DOMAIN mgmtQ' : i + 1 \in DOMAIN mgmtQ
      BY <3>1
    <3>3. 1 \in DOMAIN mgmtQ
      BY <3>1
    <3>4. \A i \in DOMAIN mgmtQ' : Granted(mgmtQ'[i]) \subseteq done
      BY <3>1, <3>2
    <3>5. Granted(buf') \subseteq done
      BY <2>2, <3>1, <3>3
    <3>6. QED
      BY <2>1, <3>4, <3>5
  <2>3. CASE dataQ # <<>> /\ buf' = Head(dataQ) /\ UNCHANGED mgmtQ
    <3>1. buf' \in {TxConfirm, RxData}
      BY <2>3, QueueTail DEF DriverTypeOK, RadioTypeOK
    <3>2. Granted(buf') = {}
      BY <3>1, GrantedIsBefore
    <3>3. QED
      BY <2>1, <2>3, <3>2
  <2>4. QED
    BY <1>8, <2>2, <2>3 DEF ReadMessage
<1>9. CASE DriverStep
  <2>1. UNCHANGED <<done, mgmtQ, link>> /\ pc' = "other" /\ intrValid' = FALSE
        /\ Advance(StateRead)
    BY <1>9 DEF DriverStep
  <2>2. Reached(drvState') \subseteq done /\ \A r \in asked' : Before(r) \subseteq done
    BY <2>1, StateReadReached, AdvanceReached
  <2>3. QED
    BY <2>1, <2>2
<1>10. QED
  BY <1>1, <1>2, <1>3, <1>4, <1>5, <1>6, <1>7, <1>8, <1>9 DEF WifiStep

(* A message that tells no more than was granted may join the queue. *)
LEMMA MgmtKeepsSetupInv ==
  ASSUME DriverTypeOK, SetupInv, NEW m, MgmtMessage(m),
         done \subseteq done', Granted(m) \subseteq done', asked' \subseteq asked,
         link' # "none" => SetUp \subseteq done'
  PROVE  SetupInv'
<1>1. /\ UNCHANGED <<pc, drvState, intrValid, buf>>
      /\ mgmtQ' = Append(mgmtQ, m)
  BY DEF MgmtMessage, wifiVars, drvVars
<1>2. /\ DOMAIN mgmtQ' = 1 .. Len(mgmtQ) + 1
      /\ DOMAIN mgmtQ = 1 .. Len(mgmtQ)
      /\ Len(mgmtQ) \in Nat
      /\ \A i \in DOMAIN mgmtQ : mgmtQ'[i] = mgmtQ[i]
      /\ mgmtQ'[Len(mgmtQ) + 1] = m
  BY <1>1, AppendedMgmt DEF DriverTypeOK, RadioTypeOK
<1>3. \A i \in DOMAIN mgmtQ' : i \in DOMAIN mgmtQ \/ i = Len(mgmtQ) + 1
  BY <1>2
<1>4. \A i \in DOMAIN mgmtQ' : Granted(mgmtQ'[i]) \subseteq done'
  BY <1>2, <1>3 DEF SetupInv
<1>5. QED
  BY <1>1, <1>4 DEF SetupInv

LEMMA RadioKeepsSetupInv ==
  ASSUME DriverTypeOK, SetupInv, RadioStep PROVE SetupInv'
<1>1. ASSUME NEW r \in Requests, Grant(r) PROVE SetupInv'
  <2>1. MgmtMessage(Confirm(r, TRUE)) /\ done' = done \cup {r} /\ asked' \subseteq asked
        /\ r \in asked
    BY <1>1 DEF Grant
  <2>2. Before(r) \subseteq done
    BY <2>1 DEF SetupInv
  <2>3. Granted(Confirm(r, TRUE)) \subseteq done'
    BY <2>1, <2>2, GrantedIsBefore
  <2>4. link' # "none" => SetUp \subseteq done'
    <3>1. CASE r = "CONNECT"
      BY <2>1, <2>2, <3>1 DEF Before
    <3>2. CASE r # "CONNECT"
      BY <1>1, <2>1, <3>2 DEF Grant, SetupInv
    <3>3. QED
      BY <3>1, <3>2
  <2>5. QED
    BY <2>1, <2>3, <2>4, MgmtKeepsSetupInv
<1>2. ASSUME NEW r \in Requests, Refuse(r) PROVE SetupInv'
  <2>1. /\ MgmtMessage(Confirm(r, FALSE)) /\ done' = done /\ asked' \subseteq asked
        /\ link' = link
    BY <1>2 DEF Refuse
  <2>2. Granted(Confirm(r, FALSE)) \subseteq done'
    BY GrantedIsBefore
  <2>3. QED
    BY <2>1, <2>2, MgmtKeepsSetupInv DEF SetupInv
<1>3. CASE LoseAccessPoint \/ Rejoin
  <2>1. UNCHANGED <<asked, done>> /\ link # "none"
    BY <1>3 DEF LoseAccessPoint, Rejoin
  <2>2. \E m \in {Disassoc, Status(TRUE), Status(FALSE)} : MgmtMessage(m)
    BY <1>3 DEF LoseAccessPoint, Rejoin
  <2>3. SetUp \subseteq done
    BY <2>1 DEF SetupInv
  <2>4. \A m \in {Disassoc, Status(TRUE), Status(FALSE)} : Granted(m) \subseteq done
    BY <2>3, GrantedIsBefore
  <2>5. QED
    BY <2>1, <2>2, <2>3, <2>4, MgmtKeepsSetupInv
<1>4. CASE \/ ConfirmFrame \/ ReceiveFrame \/ LoseConfirm \/ BecomeReliable
           \/ \E r \in Requests : LoseRequest(r)
  BY <1>4 DEF ConfirmFrame, ReceiveFrame, LoseConfirm, BecomeReliable, LoseRequest, DataMessage,
              wifiVars, drvVars, SetupInv
<1>5. QED
  BY <1>1, <1>2, <1>3, <1>4 DEF RadioStep

LEMMA NextSetupInv ==
  DriverTypeOK /\ ConfirmInv /\ SetupInv /\ [DriverNext]_vars => SetupInv'
<1> SUFFICES ASSUME DriverTypeOK, ConfirmInv, SetupInv, [DriverNext]_vars PROVE SetupInv'
  OBVIOUS
<1>1. CASE NextTurn \/ Intervene \/ ZgIsr \/ TimerExpires
  <2>1. UNCHANGED <<drvVars, radioVars>>
    BY <1>1 DEF NextTurn, Intervene, ZgIsr, TimerExpires
  <2>2. pc' \in {"chip", "int0"} => pc \in {"chip", "int0"}
    BY <1>1 DEF NextTurn, Intervene, ZgIsr, TimerExpires, wifiVars
  <2>3. QED
    BY <2>1, <2>2 DEF SetupInv, drvVars, radioVars
<1>2. CASE Restart
  <2>1. Reached("INIT") = {}
    BY DEF Reached, RequestOf
  <2>2. QED
    BY <1>2, <2>1 DEF Restart, SetupInv, radioVars
<1>3. CASE UNCHANGED vars
  BY <1>3 DEF vars, wifiVars, drvVars, radioVars, SetupInv
<1>4. QED
  BY <1>1, <1>2, <1>3, WifiKeepsSetupInv, RadioKeepsSetupInv DEF DriverNext

LEMMA InitConfirmInv == DriverInit => ConfirmInv
BY DEF DriverInit, ConfirmInv, OneFrameAtATime, NoConfirmWaits, Started

(* However the radio refuses, loses the access point and is started again, the state
   machine of g2100.c asks to be connected only when all before it was granted. *)
THEOREM ConnectsInOrder == DriverSpec => []ConnectsWhenSetUp
<1>1. DriverInit => SetupInv
  <2>1. Reached("INIT") = {}
    BY DEF Reached, RequestOf
  <2>2. QED
    BY <2>1 DEF DriverInit, SetupInv
<1>2. SetupInv => ConnectsWhenSetUp
  BY DEF SetupInv, ConnectsWhenSetUp, Before, SetUp, Keyed
<1>3. QED
  BY <1>1, <1>2, InitConfirmInv, DriverTypeCorrect, NextConfirmInv, NextSetupInv, PTL DEF DriverSpec
-----------------------------------------------------------------------------
(* The status of the connection.  The last message that tells it, still to be read,
   tells the radio's own; if there is none, the driver knows. *)
Tells(m) == TellsUp(m) \/ TellsDown(m)
Silent   == \A i \in DOMAIN mgmtQ : ~Tells(mgmtQ[i])
LastTells(i) ==
  /\ i \in DOMAIN mgmtQ /\ Tells(mgmtQ[i])
  /\ \A j \in DOMAIN mgmtQ : Tells(mgmtQ[j]) => j <= i

Follows ==
  \/ Silent /\ (StatusRead <=> link = "joined")
  \/ \E i \in DOMAIN mgmtQ : LastTells(i) /\ (TellsUp(mgmtQ[i]) <=> link = "joined")

FollowInv ==
  /\ pc \in {"chip", "int0"} => phase = "start" /\ ~connStatus /\ ~intrValid
  /\ pc = "int0" => /\ mgmtQ = <<>> /\ dataQ = <<>> /\ asked = {}
                    /\ link = "none" /\ ~unconfirmed
  /\ Started => Follows

LEMMA WhatTells ==
  /\ \A m : ~(TellsUp(m) /\ TellsDown(m))
  /\ TellsUp(Confirm("CONNECT", TRUE)) /\ TellsUp(Status(TRUE))
  /\ TellsDown(Disassoc) /\ TellsDown(Status(FALSE))
  /\ ~Tells(TxConfirm) /\ ~Tells(RxData)
  /\ \A r \in Requests : ~Tells(Confirm(r, FALSE)) /\ (r # "CONNECT" => ~Tells(Confirm(r, TRUE)))
<1>1. Confirm("CONNECT", TRUE) # Disassoc /\ Confirm("CONNECT", TRUE) # Status(FALSE)
      /\ Status(TRUE) # Disassoc /\ Status(TRUE) # Status(FALSE)
  BY DEF Confirm, Status, Disassoc
<1>2. \A m \in {Confirm("CONNECT", TRUE), Disassoc} \cup {Status(TRUE), Status(FALSE)} :
        m # TxConfirm /\ m # RxData
  BY DEF Confirm, Status, Disassoc, TxConfirm, RxData
<1>3. ASSUME NEW r \in Requests, NEW b \in BOOLEAN, ~(b /\ r = "CONNECT")
      PROVE  ~Tells(Confirm(r, b))
  BY <1>3 DEF Tells, TellsUp, TellsDown, Confirm, Status, Disassoc
<1>4. QED
  BY <1>1, <1>2, <1>3 DEF Tells, TellsUp, TellsDown

(* Reading a message hands on what it tells. *)
LEMMA ReadFollows ==
  ASSUME DriverTypeOK, ConfirmInv, FollowInv, ReadMessage PROVE Follows'
<1>1. /\ pc = "isr" /\ phase' = phase /\ intrValid' = TRUE
      /\ UNCHANGED <<connStatus, link>>
      /\ ~intrValid /\ phase # "start"
  BY DEF ReadMessage, ConfirmInv, FollowInv
<1>2. Follows /\ (StatusRead <=> connStatus)
  BY <1>1 DEF FollowInv, Started, StatusRead, DriverTypeOK, DrvTypeOK
<1>3. StatusRead' <=> (connStatus \/ TellsUp(buf')) /\ ~TellsDown(buf')
  BY <1>1 DEF StatusRead, TellsUp, TellsDown
<1>4. CASE mgmtQ # <<>> /\ buf' = Head(mgmtQ) /\ mgmtQ' = Tail(mgmtQ)
  <2>1. /\ DOMAIN mgmtQ' = 1 .. Len(mgmtQ) - 1
        /\ DOMAIN mgmtQ = 1 .. Len(mgmtQ)
        /\ Len(mgmtQ) \in Nat /\ Len(mgmtQ) > 0
        /\ \A i \in DOMAIN mgmtQ' : mgmtQ'[i] = mgmtQ[i + 1]
        /\ Head(mgmtQ) = mgmtQ[1]
    BY <1>4, TailedMgmt DEF DriverTypeOK, RadioTypeOK
  <2>2. /\ \A i \in DOMAIN mgmtQ' : i + 1 \in DOMAIN mgmtQ
        /\ \A i \in DOMAIN mgmtQ : i # 1 => i - 1 \in DOMAIN mgmtQ' /\ (i - 1) + 1 = i
        /\ 1 \in DOMAIN mgmtQ
    BY <2>1
  <2>3. CASE Silent
    <3>1. Silent' /\ ~Tells(buf')
      BY <1>4, <2>1, <2>2, <2>3 DEF Silent
    <3>2. StatusRead <=> link = "joined"
      BY <1>2, <2>3 DEF Follows, Silent, LastTells
    <3>3. QED
      BY <1>1, <1>2, <1>3, <3>1, <3>2 DEF Follows, Tells
  <2>4. ASSUME NEW i \in DOMAIN mgmtQ, LastTells(i), TellsUp(mgmtQ[i]) <=> link = "joined"
        PROVE  Follows'
    <3>1. CASE i = 1
      <4>1. Silent'
        <5> SUFFICES ASSUME NEW j \in DOMAIN mgmtQ', Tells(mgmtQ'[j]) PROVE FALSE
          BY DEF Silent, Tells, TellsUp, TellsDown
        <5>1. Tells(mgmtQ[j + 1]) /\ j + 1 \in DOMAIN mgmtQ
          BY <2>1, <2>2
        <5>2. j + 1 <= 1
          BY <2>4, <3>1, <5>1 DEF LastTells
        <5>3. QED
          BY <2>1, <5>2
      <4>2. Tells(buf') /\ (TellsUp(buf') <=> link = "joined")
        BY <1>4, <2>1, <2>4, <3>1 DEF LastTells
      <4>3. StatusRead' <=> link' = "joined"
        BY <1>1, <1>3, <4>2, WhatTells DEF Tells
      <4>4. QED
        BY <4>1, <4>3 DEF Follows
    <3>2. CASE i # 1
      <4>1. i - 1 \in DOMAIN mgmtQ' /\ (i - 1) + 1 = i
        BY <2>2, <3>2
      <4>2. mgmtQ'[i - 1] = mgmtQ[i]
        BY <2>1, <4>1
      <4>3. \A j \in DOMAIN mgmtQ' : Tells(mgmtQ'[j]) => j + 1 <= i
        BY <2>1, <2>2, <2>4 DEF LastTells
      <4>4. \A j \in DOMAIN mgmtQ' : j + 1 <= i => j <= i - 1
        BY <2>1
      <4>5. LastTells(i - 1)'
        BY <2>4, <4>1, <4>2, <4>3, <4>4 DEF LastTells, Tells, TellsUp, TellsDown
      <4>6. TellsUp(mgmtQ'[i - 1]) <=> link' = "joined"
        BY <1>1, <2>4, <4>2
      <4>7. QED
        BY <4>1, <4>5, <4>6 DEF Follows, TellsUp
    <3>3. QED
      BY <3>1, <3>2
  <2>5. QED
    BY <1>2, <2>3, <2>4 DEF Follows
<1>5. CASE dataQ # <<>> /\ buf' = Head(dataQ) /\ UNCHANGED mgmtQ
  <2>1. buf' \in {TxConfirm, RxData}
    BY <1>5, QueueTail DEF DriverTypeOK, RadioTypeOK
  <2>2. StatusRead' <=> StatusRead
    BY <1>2, <1>3, <2>1, WhatTells DEF Tells
  <2>3. QED
    BY <1>1, <1>2, <1>5, <2>2 DEF Follows, Silent, LastTells, Tells, TellsUp, TellsDown
<1>6. QED
  BY <1>4, <1>5 DEF ReadMessage

(* The driver's own steps leave the radio and what the driver knows of it alone. *)
LEMMA WifiKeepsFollowInv ==
  ASSUME DriverTypeOK, ConfirmInv, FollowInv, WifiStep PROVE FollowInv'
<1> USE DEF isrVars, drvVars, radioVars
<1>1. CASE ZgInit \/ ZgChipReset
  BY <1>1 DEF ZgInit, ZgChipReset, FollowInv, Started
<1>2. CASE EnableINT0
  <2>1. /\ mgmtQ' = <<>> /\ link' = "none" /\ ~connStatus' /\ ~intrValid'
        /\ pc' = "drv"
    BY <1>2 DEF EnableINT0, FollowInv
  <2>2. DOMAIN mgmtQ' = {}
    BY <2>1
  <2>3. Silent' /\ ~StatusRead'
    BY <2>1, <2>2 DEF Silent, StatusRead
  <2>4. QED
    BY <2>1, <2>3 DEF FollowInv, Follows
<1>3. CASE ReadMessage
  BY <1>3, ReadFollows DEF ReadMessage, FollowInv
<1>4. CASE ~(ZgInit \/ ZgChipReset \/ EnableINT0 \/ ReadMessage)
  <2>1. /\ pc \notin {"chip", "int0"} /\ pc' \notin {"chip", "int0"}
        /\ UNCHANGED <<mgmtQ, link>> /\ (phase' = "start" <=> phase = "start")
    BY <1>4 DEF WifiStep, NetConnecting, NetConnected, NetWaits, NetTurn, NetEnds, StackInput,
                StackPeriodic, StackIdle, SendFrame, ZgSend, NothingToSend, NoInterrupt, ReadNothing,
                ClearFlag, EnableInterrupt, DriverStep
  <2>2. StatusRead' <=> StatusRead
    <3>1. CASE StackInput \/ StackPeriodic \/ SendFrame
      BY <3>1 DEF StackInput, StackPeriodic, SendFrame, ZgSend, ConfirmInv, StatusRead
    <3>2. CASE DriverStep
      BY <3>2 DEF DriverStep, StatusRead
    <3>3. CASE \/ NetConnecting \/ NetConnected \/ NetWaits \/ NetTurn \/ NetEnds \/ StackIdle
               \/ NothingToSend \/ NoInterrupt \/ ReadNothing \/ ClearFlag \/ EnableInterrupt
      <4>1. UNCHANGED <<connStatus, intrValid, buf>>
        BY <3>3 DEF NetConnecting, NetConnected, NetWaits, NetTurn, NetEnds, StackIdle,
                    NothingToSend, NoInterrupt, ReadNothing, ClearFlag, EnableInterrupt
      <4>2. QED
        BY <4>1 DEF StatusRead, TellsUp, TellsDown
    <3>4. QED
      BY <1>4, <3>1, <3>2, <3>3 DEF WifiStep
  <2>3. QED
    BY <2>1, <2>2 DEF FollowInv, Started, Follows, Silent, LastTells, Tells, TellsUp, TellsDown
<1>5. QED
  BY <1>1, <1>2, <1>3, <1>4

(* A message that joins the queue tells the truth, or nothing and nothing changed. *)
LEMMA MgmtKeepsFollows ==
  ASSUME DriverTypeOK, Follows, NEW m, MgmtMessage(m),
         \/ Tells(m) /\ (TellsUp(m) <=> link' = "joined")
         \/ ~Tells(m) /\ link' = link
  PROVE  Follows'
<1>1. /\ UNCHANGED <<connStatus, intrValid, buf>>
      /\ mgmtQ' = Append(mgmtQ, m)
  BY DEF MgmtMessage, drvVars
<1>2. /\ DOMAIN mgmtQ' = 1 .. Len(mgmtQ) + 1
      /\ DOMAIN mgmtQ = 1 .. Len(mgmtQ)
      /\ Len(mgmtQ) \in Nat
      /\ \A i \in DOMAIN mgmtQ : mgmtQ'[i] = mgmtQ[i]
      /\ mgmtQ'[Len(mgmtQ) + 1] = m
  BY <1>1, AppendedMgmt DEF DriverTypeOK, RadioTypeOK
<1>3. /\ \A i \in DOMAIN mgmtQ' : i \in DOMAIN mgmtQ \/ i = Len(mgmtQ) + 1
      /\ \A i \in DOMAIN mgmtQ' : i <= Len(mgmtQ) + 1
      /\ \A i \in DOMAIN mgmtQ : i \in DOMAIN mgmtQ'
      /\ Len(mgmtQ) + 1 \in DOMAIN mgmtQ'
  BY <1>2
<1>4. StatusRead' <=> StatusRead
  BY <1>1 DEF StatusRead, TellsUp, TellsDown
<1>5. CASE Tells(m) /\ (TellsUp(m) <=> link' = "joined")
  <2>1. PICK n \in Nat : n = Len(mgmtQ) + 1
    BY <1>2
  <2>2. n \in DOMAIN mgmtQ' /\ mgmtQ'[n] = m /\ \A j \in DOMAIN mgmtQ' : j <= n
    BY <1>2, <1>3, <2>1
  <2>3. LastTells(n)'
    BY <1>5, <2>2 DEF LastTells, Tells, TellsUp, TellsDown
  <2>4. TellsUp(mgmtQ'[n]) <=> link' = "joined"
    BY <1>5, <2>2
  <2>5. QED
    BY <2>2, <2>3, <2>4 DEF Follows, TellsUp
<1>6. CASE ~Tells(m) /\ link' = link
  <2>1. CASE Silent /\ (StatusRead <=> link = "joined")
    <3>1. Silent'
      BY <1>2, <1>3, <1>6, <2>1 DEF Silent, Tells, TellsUp, TellsDown
    <3>2. QED
      BY <1>4, <1>6, <2>1, <3>1 DEF Follows
  <2>2. ASSUME NEW i \in DOMAIN mgmtQ, LastTells(i), TellsUp(mgmtQ[i]) <=> link = "joined"
        PROVE  Follows'
    <3>1. \A j \in DOMAIN mgmtQ' : Tells(mgmtQ'[j]) => j <= i
      BY <1>2, <1>3, <1>6, <2>2 DEF LastTells
    <3>2. LastTells(i)' /\ i \in DOMAIN mgmtQ'
      BY <1>2, <1>3, <2>2, <3>1 DEF LastTells, Tells, TellsUp, TellsDown
    <3>3. TellsUp(mgmtQ'[i]) <=> link' = "joined"
      BY <1>2, <1>6, <2>2
    <3>4. QED
      BY <3>2, <3>3 DEF Follows, TellsUp
  <2>3. QED
    BY <2>1, <2>2 DEF Follows
<1>7. QED
  BY <1>5, <1>6

LEMMA RadioKeepsFollowInv ==
  ASSUME DriverTypeOK, FollowInv, RadioStep PROVE FollowInv'
<1>1. UNCHANGED <<pc, phase, connStatus, intrValid, buf>>
  BY DEF RadioStep, Grant, Refuse, ConfirmFrame, ReceiveFrame, LoseRequest, LoseConfirm,
         LoseAccessPoint, Rejoin, BecomeReliable, MgmtMessage, DataMessage, wifiVars, drvVars
<1>2. CASE \/ \E r \in Requests : Grant(r) \/ Refuse(r)
           \/ LoseAccessPoint \/ Rejoin
  <2>1. pc # "int0"
    BY <1>2 DEF Grant, Refuse, LoseAccessPoint, Rejoin, FollowInv
  <2>2. \E m : /\ MgmtMessage(m)
               /\ \/ Tells(m) /\ (TellsUp(m) <=> link' = "joined")
                  \/ ~Tells(m) /\ link' = link
    <3>1. ASSUME NEW r \in Requests, Grant(r)
          PROVE  /\ MgmtMessage(Confirm(r, TRUE))
                 /\ IF r = "CONNECT" THEN link' = "joined" ELSE link' = link
      BY <3>1 DEF Grant
    <3>2. ASSUME NEW r \in Requests, Refuse(r)
          PROVE  MgmtMessage(Confirm(r, FALSE)) /\ link' = link
      BY <3>2 DEF Refuse
    <3>3. CASE LoseAccessPoint \/ Rejoin
      BY <3>3, WhatTells DEF LoseAccessPoint, Rejoin, Tells
    <3>4. QED
      BY <1>2, <3>1, <3>2, <3>3, WhatTells DEF Tells
  <2>3. Started => Follows'
    BY <2>2, MgmtKeepsFollows DEF FollowInv
  <2>4. QED
    BY <1>1, <2>1, <2>3 DEF FollowInv, Started
<1>3. CASE \/ ConfirmFrame \/ ReceiveFrame \/ LoseConfirm \/ BecomeReliable
           \/ \E r \in Requests : LoseRequest(r)
  <2>1. UNCHANGED <<mgmtQ, link>>
        /\ (pc = "int0" => dataQ' = dataQ /\ asked' = {} /\ ~unconfirmed')
    BY <1>3 DEF ConfirmFrame, ReceiveFrame, LoseConfirm, BecomeReliable, LoseRequest, DataMessage,
                FollowInv
  <2>2. QED
    BY <1>1, <2>1 DEF FollowInv, Started, Follows, Silent, LastTells, Tells, TellsUp, TellsDown,
                      StatusRead
<1>4. QED
  BY <1>2, <1>3 DEF RadioStep

LEMMA NextFollowInv ==
  DriverTypeOK /\ ConfirmInv /\ FollowInv /\ [DriverNext]_vars => FollowInv'
<1> SUFFICES ASSUME DriverTypeOK, ConfirmInv, FollowInv, [DriverNext]_vars PROVE FollowInv'
  OBVIOUS
<1>1. CASE NextTurn \/ Intervene \/ ZgIsr \/ TimerExpires \/ UNCHANGED vars
  <2>1. UNCHANGED <<connStatus, intrValid, buf, radioVars>>
    BY <1>1 DEF NextTurn, Intervene, ZgIsr, TimerExpires, vars, drvVars
  <2>2. /\ pc' \in {"chip", "int0"} => pc' = pc /\ phase' = phase
        /\ Started' => Started
    BY <1>1 DEF NextTurn, Intervene, ZgIsr, TimerExpires, vars, wifiVars, Started
  <2>3. QED
    BY <2>1, <2>2 DEF FollowInv, Follows, Silent, LastTells, Tells, TellsUp, TellsDown,
                      StatusRead, radioVars
<1>2. CASE Restart
  BY <1>2 DEF Restart, FollowInv, Started
<1>3. QED
  BY <1>1, <1>2, WifiKeepsFollowInv, RadioKeepsFollowInv DEF DriverNext

(* When the driver knows, it knows what StatusFollowsRadio says. *)
LEMMA FollowsTheRadio == DriverTypeOK /\ FollowInv => StatusFollowsRadio
<1> SUFFICES ASSUME DriverTypeOK, FollowInv, Started, ~intrValid PROVE StatusFollowsRadio
  BY DEF StatusFollowsRadio
<1>1. StatusRead <=> connStatus
  BY DEF StatusRead, DriverTypeOK, DrvTypeOK
<1>2. connStatus \in BOOLEAN /\ \A m : TellsUp(m) \in BOOLEAN
  BY DEF DriverTypeOK, DrvTypeOK, TellsUp
<1>3. CASE Silent /\ (StatusRead <=> link = "joined")
  <2>1. Telling = {}
    BY <1>3 DEF Silent, Telling, Tells
  <2>2. connStatus = (link = "joined")
    BY <1>1, <1>2, <1>3
  <2>3. QED
    BY <2>1, <2>2 DEF StatusFollowsRadio
<1>4. ASSUME NEW i \in DOMAIN mgmtQ, LastTells(i), TellsUp(mgmtQ[i]) <=> link = "joined"
      PROVE  StatusFollowsRadio
  <2>1. i \in Telling /\ \A j \in Telling : j <= i
    BY <1>4 DEF LastTells, Telling, Tells
  <2>2. TellsUp(mgmtQ[i]) = (link = "joined")
    BY <1>2, <1>4
  <2>3. QED
    BY <2>1, <2>2 DEF StatusFollowsRadio
<1>5. QED
  BY <1>3, <1>4 DEF FollowInv, Follows

-----------------------------------------------------------------------------
(* A received frame.  While the clock connects there is none: the radio receives one
   only when the driver has read that it is connected, and then the next turn of
   Wifi::run is the stack's. *)
NoFrameWaits == \A i \in DOMAIN dataQ : dataQ[i] # RxData

FrameInv ==
  /\ drvState # "PROCESS_RX"
  /\ rxReady => buf = RxData /\ pc \in {"net", "stack", "other"} /\ phase # "connecting"
  /\ pc = "stack" => phase = "running"
  /\ phase = "connecting" =>
       /\ StatusRead \/ NoFrameWaits
       /\ pc \in {"drv", "isr"} => ~connStatus /\ NoFrameWaits
       /\ intrValid => buf # RxData

(* Only a frame that was read leads to PROCESS_RX. *)
LEMMA FrameRead ==
  ASSUME DriverTypeOK, FrameInv, StateRead = "PROCESS_RX" PROVE intrValid /\ buf = RxData
<1>1. CASE intrValid /\ buf.type = "MGMT_CONFIRM"
  <2>1. PICK r \in Requests, b \in BOOLEAN : buf = Confirm(r, b)
    <3>1. buf \notin {Disassoc, TxConfirm, RxData, Reply, KeepAlive, Shifted}
      BY <1>1 DEF Disassoc, TxConfirm, RxData, Reply, KeepAlive, Shifted
    <3>2. \A b \in BOOLEAN : buf # Status(b)
      BY <1>1 DEF Status
    <3>3. QED
      BY <3>1, <3>2 DEF DriverTypeOK, DrvTypeOK, Contents, Messages, MgmtMessages
  <2>2. buf.req # "CONNECT" => StateAfter[buf.req] # "PROCESS_RX"
    BY <2>1 DEF Confirm, Requests, StateAfter
  <2>3. StateRead # "PROCESS_RX"
    BY <1>1, <2>2 DEF StateRead, FrameInv, RxData, Disassoc
  <2>4. QED
    BY <2>3
<1>2. CASE ~(intrValid /\ buf.type = "MGMT_CONFIRM")
  BY <1>2 DEF StateRead, FrameInv
<1>3. QED
  BY <1>1, <1>2

LEMMA WifiKeepsFrameInv ==
  ASSUME DriverTypeOK, ConfirmInv, FollowInv, FrameInv, WifiStep PROVE FrameInv'
<1> USE DEF isrVars, drvVars, radioVars, FrameInv
<1>1. CASE ZgInit \/ ZgChipReset
  <2>1. pc = "chip" => phase = "start"
    BY DEF FollowInv
  <2>2. QED
    BY <1>1, <2>1 DEF ZgInit, ZgChipReset
<1>2. CASE EnableINT0
  <2>1. /\ dataQ' = <<>> /\ ~connStatus' /\ ~intrValid' /\ pc' = "drv" /\ ~rxReady'
        /\ drvState' = drvState
    BY <1>2 DEF EnableINT0, FollowInv
  <2>2. NoFrameWaits'
    BY <2>1 DEF NoFrameWaits
  <2>3. QED
    BY <2>1, <2>2
<1>3. CASE NetConnecting \/ NetConnected \/ NetWaits \/ NetTurn \/ NetEnds
  <2>1. /\ UNCHANGED <<drvState, connStatus, intrValid, rxReady, buf, dataQ>> /\ ~intrValid
    BY <1>3 DEF NetConnecting, NetConnected, NetWaits, NetTurn, NetEnds, ConfirmInv
  <2>2. /\ NoFrameWaits' <=> NoFrameWaits
        /\ StatusRead' <=> StatusRead
        /\ StatusRead <=> connStatus
    BY <2>1 DEF NoFrameWaits, StatusRead, DriverTypeOK, DrvTypeOK
  <2>3. QED
    BY <1>3, <2>1, <2>2 DEF NetConnecting, NetConnected, NetWaits, NetTurn, NetEnds
<1>4. CASE StackInput \/ StackPeriodic \/ StackIdle
  BY <1>4 DEF StackInput, StackPeriodic, StackIdle, RxAfterRead
<1>5. CASE SendFrame \/ NothingToSend \/ NoInterrupt \/ ReadNothing
  <2>1. /\ UNCHANGED <<drvState, connStatus, intrValid, rxReady, dataQ, phase>>
        /\ ~rxReady /\ ~intrValid /\ pc \in {"drv", "isr"} /\ pc' # "stack"
    BY <1>5 DEF SendFrame, ZgSend, NothingToSend, NoInterrupt, ReadNothing, ConfirmInv
  <2>2. NoFrameWaits' <=> NoFrameWaits
    BY <2>1 DEF NoFrameWaits
  <2>3. QED
    BY <2>1, <2>2
<1>6. CASE ReadMessage
  <2>1. /\ UNCHANGED <<drvState, connStatus, rxReady, phase>>
        /\ ~rxReady /\ pc = "isr" /\ pc' = "clear"
    BY <1>6 DEF ReadMessage
  <2>2. CASE mgmtQ # <<>> /\ buf' = Head(mgmtQ) /\ UNCHANGED dataQ
    <3>1. Head(mgmtQ) \in MgmtMessages
      BY <2>2, QueueTail DEF DriverTypeOK, RadioTypeOK
    <3>2. buf' # RxData
      BY <2>2, <3>1 DEF MgmtMessages, Confirm, Status, Disassoc, RxData
    <3>3. NoFrameWaits' <=> NoFrameWaits
      BY <2>2 DEF NoFrameWaits
    <3>4. QED
      BY <2>1, <3>2, <3>3
  <2>3. CASE dataQ # <<>> /\ buf' = Head(dataQ) /\ dataQ' = Tail(dataQ)
    <3>1. /\ DOMAIN dataQ' = 1 .. Len(dataQ) - 1
          /\ DOMAIN dataQ = 1 .. Len(dataQ)
          /\ Len(dataQ) \in Nat /\ Len(dataQ) > 0
          /\ \A i \in DOMAIN dataQ' : dataQ'[i] = dataQ[i + 1]
          /\ Head(dataQ) = dataQ[1]
      BY <2>3, TailedQueue DEF DriverTypeOK, RadioTypeOK
    <3>2. 1 \in DOMAIN dataQ /\ \A i \in DOMAIN dataQ' : i + 1 \in DOMAIN dataQ
      BY <3>1
    <3>3. NoFrameWaits => NoFrameWaits' /\ buf' # RxData
      BY <2>3, <3>1, <3>2 DEF NoFrameWaits
    <3>4. QED
      BY <2>1, <3>3
  <2>4. QED
    BY <1>6, <2>2, <2>3 DEF ReadMessage
<1>7. CASE ClearFlag \/ EnableInterrupt
  <2>1. /\ UNCHANGED <<drvState, connStatus, intrValid, rxReady, buf, dataQ, phase>>
        /\ ~rxReady /\ pc' \in {"enable", "step"}
    BY <1>7 DEF ClearFlag, EnableInterrupt
  <2>2. /\ NoFrameWaits' <=> NoFrameWaits
        /\ StatusRead' <=> StatusRead
    BY <2>1 DEF NoFrameWaits, StatusRead, TellsUp, TellsDown
  <2>3. QED
    BY <2>1, <2>2
<1>8. CASE DriverStep
  <2>1. /\ UNCHANGED <<phase, dataQ>> /\ pc' = "other" /\ ~rxReady
        /\ connStatus' = StatusRead /\ intrValid' = FALSE /\ Advance(StateRead)
    BY <1>8 DEF DriverStep
  <2>2. drvState' # "PROCESS_RX"
    BY <2>1 DEF Advance, SendRequest, ZgRecv, RequestOf
  <2>3. rxReady' => StateRead = "PROCESS_RX" /\ buf' = buf
    BY <2>1 DEF Advance, SendRequest, ZgRecv
  <2>4. rxReady' => buf' = RxData /\ phase' # "connecting"
    BY <2>1, <2>3, FrameRead
  <2>5. /\ NoFrameWaits' <=> NoFrameWaits
        /\ StatusRead' <=> StatusRead
    BY <2>1 DEF NoFrameWaits, StatusRead
  <2>6. QED
    BY <2>1, <2>2, <2>4, <2>5
<1>9. QED
  BY <1>1, <1>2, <1>3, <1>4, <1>5, <1>6, <1>7, <1>8 DEF WifiStep

LEMMA RadioKeepsFrameInv ==
  ASSUME DriverTypeOK, ConfirmInv, FollowInv, FrameInv, RadioStep PROVE FrameInv'
<1>1. UNCHANGED <<pc, phase, connStatus, intrValid, buf, rxReady, drvState>>
  BY DEF RadioStep, Grant, Refuse, ConfirmFrame, ReceiveFrame, LoseRequest, LoseConfirm,
         LoseAccessPoint, Rejoin, BecomeReliable, MgmtMessage, DataMessage, wifiVars, drvVars
<1>2. StatusRead' <=> StatusRead
  BY <1>1 DEF StatusRead, TellsUp, TellsDown
<1>3. CASE ReceiveFrame
  <2>1. link = "joined" /\ DOMAIN mgmtQ = {}
    BY <1>3 DEF ReceiveFrame
  <2>2. phase = "connecting" => StatusRead
    BY <2>1 DEF FollowInv, Follows, Started
  <2>3. phase = "connecting" => pc \notin {"drv", "isr"}
    BY <2>2 DEF FrameInv, ConfirmInv, StatusRead
  <2>4. QED
    BY <1>1, <1>2, <2>2, <2>3 DEF FrameInv
<1>4. CASE ~ReceiveFrame
  <2>1. NoFrameWaits => NoFrameWaits'
    <3>1. CASE ConfirmFrame
      <4>1. /\ DOMAIN dataQ' = 1 .. Len(dataQ) + 1
            /\ DOMAIN dataQ = 1 .. Len(dataQ) /\ Len(dataQ) \in Nat
            /\ \A i \in DOMAIN dataQ : dataQ'[i] = dataQ[i]
            /\ dataQ'[Len(dataQ) + 1] = TxConfirm
        BY <3>1, AppendedRx DEF ConfirmFrame, DataMessage, DriverTypeOK, RadioTypeOK
      <4>2. \A i \in DOMAIN dataQ' : i \in DOMAIN dataQ \/ i = Len(dataQ) + 1
        BY <4>1
      <4>3. QED
        BY <4>1, <4>2 DEF NoFrameWaits, TxConfirm, RxData
    <3>2. CASE ~ConfirmFrame
      <4>1. dataQ' = dataQ
        BY <1>4, <3>2 DEF RadioStep, Grant, Refuse, LoseRequest, LoseConfirm, LoseAccessPoint,
                          Rejoin, BecomeReliable, MgmtMessage
      <4>2. QED
        BY <4>1 DEF NoFrameWaits
    <3>3. QED
      BY <3>1, <3>2
  <2>2. QED
    BY <1>1, <1>2, <2>1 DEF FrameInv
<1>5. QED
  BY <1>3, <1>4

LEMMA NextFrameInv ==
  DriverTypeOK /\ ConfirmInv /\ FollowInv /\ FrameInv /\ [DriverNext]_vars => FrameInv'
<1> SUFFICES ASSUME DriverTypeOK, ConfirmInv, FollowInv, FrameInv, [DriverNext]_vars
             PROVE  FrameInv'
  OBVIOUS
<1>1. CASE NextTurn \/ Intervene \/ ZgIsr \/ TimerExpires \/ UNCHANGED vars
  <2>1. UNCHANGED <<drvVars, dataQ>>
    BY <1>1 DEF NextTurn, Intervene, ZgIsr, TimerExpires, vars, radioVars
  <2>2. /\ NoFrameWaits' <=> NoFrameWaits
        /\ StatusRead' <=> StatusRead
    BY <2>1 DEF NoFrameWaits, StatusRead, TellsUp, TellsDown, drvVars
  <2>3. /\ pc' = pc \/ pc' = "net"
        /\ phase' = phase \/ (phase' = "start" /\ pc' = "net")
    BY <1>1 DEF NextTurn, Intervene, ZgIsr, TimerExpires, vars, wifiVars
  <2>4. QED
    BY <2>1, <2>2, <2>3 DEF FrameInv, drvVars
<1>2. CASE Restart
  BY <1>2 DEF Restart, FrameInv
<1>3. QED
  BY <1>1, <1>2, WifiKeepsFrameInv, RadioKeepsFrameInv DEF DriverNext

(* Whatever the radio and its access point do, the driver knows whether it is connected,
   up to the messages it has still to read; and what it hands to the stack as received
   is a frame, although everything is read into the one buffer. *)
THEOREM RadioUnderstood == DriverSpec => []RadioIsUnderstood
<1>1. DriverInit => FollowInv /\ FrameInv
  BY DEF DriverInit, FollowInv, FrameInv, Started
<1>2. DriverTypeOK /\ FollowInv /\ FrameInv => RadioIsUnderstood
  BY FollowsTheRadio DEF FrameInv, FrameIsReceived, RadioIsUnderstood
<1>3. QED
  BY <1>1, <1>2, InitConfirmInv, DriverTypeCorrect, NextConfirmInv, NextFollowInv, NextFrameInv,
     PTL DEF DriverSpec

-----------------------------------------------------------------------------
(* The supervision. *)

----------------------------------------------------------------------------
\* handleButtons() and handleNetworkErrors() only do what RadioDriver lets its caller do.
LEMMA SuperviseIsDriverStep ==
  ASSUME DriverTypeOK, NEW pressed \in SUBSET Keys, Supervise(pressed)
  PROVE  DriverNext
<1> DEFINE lateNow      == IF pressed \cap {"left", "right"} # {} THEN 0 ELSE late
           connectedNow == connected /\ "left" \notin pressed
           tooLong      == LastsTooLong(connectedNow, lateNow)
           jumps        == "center" \in pressed \/ (tooLong /\ ~connectedNow)
<1>1. CASE jumps
  <2>1. Jump
    BY <1>1 DEF Supervise
  <2> QED
    BY <2>1 DEF Jump, DriverNext
<1>2. CASE ~jumps
  <2>1. /\ pc = "other"
        /\ connected' = (connectedNow /\ ~tooLong)
        /\ timerDue' = (timerDue /\ "right" \notin pressed)
        /\ UNCHANGED <<pc, phase, isrVars, drvVars, radioVars>>
    BY <1>2 DEF Supervise
  <2>2. connected \in BOOLEAN /\ timerDue \in BOOLEAN
    BY DEF DriverTypeOK, WifiTypeOK
  <2>3. connected' \in {connected, FALSE}
    BY <2>1, <2>2
  <2>4. timerDue' \in {timerDue, FALSE}
    BY <2>1, <2>2
  <2>5. Intervene
    BY <2>1, <2>3, <2>4 DEF Intervene
  <2> QED
    BY <2>5 DEF DriverNext
<1> QED
  BY <1>1, <1>2

LEMMA NetStepIsDriverStep == DriverTypeOK /\ [NetNext]_netVars => [DriverNext]_vars
<1> SUFFICES ASSUME DriverTypeOK, [NetNext]_netVars PROVE [DriverNext]_vars
  OBVIOUS
<1>1. CASE Input \/ Output
  BY <1>1 DEF Input, Output, DriverNext, WifiStep
<1>2. CASE WifiOther
  BY <1>2 DEF WifiOther, DriverNext, WifiStep
<1>3. CASE Wait \/ Turn
  BY <1>3 DEF Wait, Turn, DriverNext, WifiStep
<1>4. CASE ShowWaits
  BY <1>4 DEF ShowWaits
<1>5. CASE Show
  <2>1. PICK pressed \in SUBSET Keys : Supervise(pressed)
    BY <1>5 DEF Show
  <2> QED
    BY <2>1, SuperviseIsDriverStep
<1>6. CASE SameSecond \/ NextSecond
  BY <1>6 DEF SameSecond, NextSecond, EndOfTurn, DriverNext
<1>7. CASE NetEnv(ZgIsr) \/ NetEnv(TimerExpires) \/ NetEnv(RadioStep)
  BY <1>7 DEF NetEnv, DriverNext
<1>8. CASE UNCHANGED netVars
  BY <1>8 DEF netVars
<1> QED
  BY <1>1, <1>2, <1>3, <1>4, <1>5, <1>6, <1>7, <1>8 DEF NetNext, MainRuns

\* Whatever the keys, the host and the clock's time do, the driver is called as
\* RadioDriver says: what is proved of it holds of the firmware.
THEOREM SupervisionImplementsDriver == NetSafety => ImplementsDriver
<1>1. NetInit => DriverInit
  BY DEF NetInit
<1>2. NetSafety => []DriverTypeOK
  BY <1>1, InitDriverType, NextDriverType, NetStepIsDriverStep, PTL DEF NetSafety
<1> QED
  BY <1>1, <1>2, NetStepIsDriverStep, PTL DEF NetSafety, ImplementsDriver, DriverSpec

----------------------------------------------------------------------------
\* A Wifi that has not begun to connect is not at the end of a turn, where seconds pass.
BeginsAtOnce ==
  /\ phase = "start" => pc \in {"net", "chip", "int0"}
  /\ pc \in {"chip", "int0"} => phase = "start"

TimesInRange == late \in 0 .. LateMax /\ attempt \in 0 .. LateMax

AttemptInv == BeginsAtOnce /\ TimesInRange /\ AttemptGetsItsTime

LEMMA LaterIsLater ==
  ASSUME NEW s \in 0 .. LateMax, NEW t \in 0 .. LateMax
  PROVE  Later(t) \in 0 .. LateMax /\ (s <= t => Later(s) <= Later(t))
<1>1. LateMax \in Nat
  BY NetConstants DEF LateMax
<1> QED
  BY <1>1 DEF Later

LEMMA ZeroInRange == 0 \in 0 .. LateMax
BY NetConstants DEF LateMax

LEMMA WifiKeepsAttemptInv ==
  ASSUME AttemptInv, Input \/ Output \/ WifiOther \/ Wait \/ Turn
  PROVE  AttemptInv'
<1>1. attempt' = attempt /\ (late' = late \/ late' = 0)
  BY DEF Input, Output, WifiOther, Wait, Turn
<1>2. TimesInRange'
  BY <1>1, ZeroInRange DEF AttemptInv, TimesInRange
<1>3. late' <= late
  BY <1>1 DEF AttemptInv, TimesInRange
<1>4. WifiStep
  BY DEF Input, Output, WifiOther, Wait, Turn, WifiStep
<1>5. BeginsAtOnce'
  <2>1. BeginsAtOnce
    BY DEF AttemptInv, BeginsAtOnce
  <2>2. CASE ZgInit \/ ZgChipReset \/ EnableINT0
    BY <2>1, <2>2 DEF BeginsAtOnce, ZgInit, ZgChipReset, EnableINT0
  <2>3. CASE NetConnecting \/ NetConnected \/ NetWaits \/ NetTurn \/ NetEnds
    BY <2>3 DEF BeginsAtOnce, NetConnecting, NetConnected, NetWaits, NetTurn, NetEnds
  <2>4. CASE StackInput \/ StackPeriodic \/ StackIdle \/ SendFrame \/ NothingToSend
    BY <2>1, <2>4 DEF BeginsAtOnce, StackInput, StackPeriodic, StackIdle, SendFrame, ZgSend, NothingToSend
  <2>5. CASE NoInterrupt \/ ReadMessage \/ ReadNothing \/ ClearFlag \/ EnableInterrupt \/ DriverStep
    BY <2>1, <2>5 DEF BeginsAtOnce, NoInterrupt, ReadMessage, ReadNothing, ClearFlag,
        EnableInterrupt, DriverStep
  <2> QED
    BY <1>4, <2>2, <2>3, <2>4, <2>5 DEF WifiStep
<1>6. phase' \in {"start", "connecting"} => phase \in {"start", "connecting"}
  <2>1. CASE ZgInit \/ ZgChipReset \/ EnableINT0
    BY <2>1 DEF AttemptInv, BeginsAtOnce, ZgInit, ZgChipReset, EnableINT0
  <2>2. CASE ~(ZgInit \/ ZgChipReset \/ EnableINT0)
    BY <1>4, <2>2 DEF WifiStep,
      NetConnecting, NetConnected, NetWaits, NetTurn, NetEnds, StackInput, StackPeriodic,
      StackIdle, SendFrame, ZgSend, NothingToSend, NoInterrupt, ReadMessage, ReadNothing, ClearFlag,
      EnableInterrupt, DriverStep
  <2> QED
    BY <2>1, <2>2
<1>7. AttemptGetsItsTime'
  BY <1>1, <1>2, <1>3, <1>6 DEF AttemptInv, AttemptGetsItsTime, TimesInRange
<1> QED
  BY <1>2, <1>5, <1>7 DEF AttemptInv

LEMMA JumpKeepsAttemptInv ==
  ASSUME AttemptInv, Jump
  PROVE  AttemptInv'
<1>1. pc' = "net" /\ late' = 0 /\ attempt' = 0
  BY DEF Jump, Restart
<1> QED
  BY <1>1, ZeroInRange DEF AttemptInv, BeginsAtOnce, TimesInRange, AttemptGetsItsTime

LEMMA ShowKeepsAttemptInv ==
  ASSUME AttemptInv, NEW pressed \in SUBSET Keys, Supervise(pressed)
  PROVE  AttemptInv'
<1> DEFINE lateNow      == IF pressed \cap {"left", "right"} # {} THEN 0 ELSE late
           connectedNow == connected /\ "left" \notin pressed
           tooLong      == LastsTooLong(connectedNow, lateNow)
           jumps        == "center" \in pressed \/ (tooLong /\ ~connectedNow)
<1>1. CASE jumps
  <2>1. Jump
    BY <1>1 DEF Supervise
  <2> QED
    BY <2>1, JumpKeepsAttemptInv
<1>2. CASE ~jumps
  <2>1. UNCHANGED <<pc, phase, attempt>> /\ late' = lateNow
    BY <1>2 DEF Supervise
  <2>2. late' = late \/ late' = 0
    BY <2>1
  <2>3. TimesInRange'
    BY <2>1, <2>2, ZeroInRange DEF AttemptInv, TimesInRange
  <2>4. late' <= late
    BY <2>2 DEF AttemptInv, TimesInRange
  <2> QED
    BY <2>1, <2>3, <2>4 DEF AttemptInv, BeginsAtOnce, AttemptGetsItsTime, TimesInRange
<1> QED
  BY <1>1, <1>2

LEMMA EndOfTurnKeepsAttemptInv ==
  ASSUME AttemptInv, NEW passes \in BOOLEAN, EndOfTurn(passes)
  PROVE  AttemptInv'
<1>1. pc = "other" /\ pc' = "net" /\ phase' = IF phase = "ended" THEN "start" ELSE phase
  BY DEF EndOfTurn, NextTurn
<1>2. phase # "start"
  BY <1>1 DEF AttemptInv, BeginsAtOnce
<1>3. BeginsAtOnce'
  BY <1>1 DEF BeginsAtOnce
<1>4. CASE phase = "ended"
  <2>1. late' = 0 /\ attempt' = 0
    BY <1>4 DEF EndOfTurn, StartLate
  <2> QED
    BY <1>3, <2>1, ZeroInRange DEF AttemptInv, TimesInRange, AttemptGetsItsTime
<1>5. CASE phase # "ended"
  <2>1. /\ late' = IF passes THEN Later(late) ELSE late
        /\ attempt' = IF phase # "connecting" THEN 0
                      ELSE IF passes THEN Later(attempt) ELSE attempt
    BY <1>5 DEF EndOfTurn
  <2>2. late \in 0 .. LateMax /\ attempt \in 0 .. LateMax
    BY DEF AttemptInv, TimesInRange
  <2>3. late' \in 0 .. LateMax
    BY <2>1, <2>2, LaterIsLater
  <2>4. CASE phase # "connecting"
    <3>1. attempt' = 0
      BY <2>1, <2>4
    <3>2. phase' \notin {"start", "connecting"}
      BY <1>1, <1>2, <1>5, <2>4
    <3> QED
      BY <1>3, <2>3, <3>1, <3>2, ZeroInRange DEF AttemptInv, TimesInRange, AttemptGetsItsTime
  <2>5. CASE phase = "connecting"
    <3>1. late <= attempt
      BY <2>5 DEF AttemptInv, AttemptGetsItsTime
    <3>2. attempt' = IF passes THEN Later(attempt) ELSE attempt
      BY <2>1, <2>5
    <3>3. attempt' \in 0 .. LateMax /\ late' <= attempt'
      BY <2>1, <2>2, <3>1, <3>2, LaterIsLater
    <3> QED
      BY <1>3, <2>3, <3>3 DEF AttemptInv, TimesInRange, AttemptGetsItsTime
  <2> QED
    BY <2>4, <2>5
<1> QED
  BY <1>4, <1>5

LEMMA NextAttemptInv == AttemptInv /\ [NetNext]_netVars => AttemptInv'
<1> SUFFICES ASSUME AttemptInv, [NetNext]_netVars PROVE AttemptInv'
  OBVIOUS
<1>1. CASE Input \/ Output \/ WifiOther \/ Wait \/ Turn
  BY <1>1, WifiKeepsAttemptInv
<1>2. CASE Show
  BY <1>2, ShowKeepsAttemptInv DEF Show
<1>3. CASE SameSecond \/ NextSecond
  BY <1>3, EndOfTurnKeepsAttemptInv DEF SameSecond, NextSecond
<1>4. CASE ShowWaits \/ NetEnv(ZgIsr) \/ NetEnv(TimerExpires) \/ NetEnv(RadioStep) \/ UNCHANGED netVars
  <2>1. UNCHANGED <<pc, phase, late, attempt>>
    BY <1>4 DEF ShowWaits, NetEnv, ZgIsr, TimerExpires, RadioStep, Grant, Refuse, ConfirmFrame,
        ReceiveFrame, LoseRequest, LoseConfirm, LoseAccessPoint, Rejoin, BecomeReliable,
        MgmtMessage, DataMessage, netVars, vars, wifiVars
  <2> QED
    BY <2>1 DEF AttemptInv, BeginsAtOnce, TimesInRange, AttemptGetsItsTime
<1> QED
  BY <1>1, <1>2, <1>3, <1>4 DEF NetNext, MainRuns

\* For any two limits: a silence from before an attempt to connect is never held against
\* it (handleNetworkErrors(), radioclock.cpp:82).
THEOREM AttemptsGetTheirTime == NetSafety => []AttemptGetsItsTime
<1>1. NetInit => AttemptInv
  BY ZeroInRange DEF NetInit, DriverInit, AttemptInv, BeginsAtOnce, TimesInRange, AttemptGetsItsTime
<1>2. AttemptInv => AttemptGetsItsTime
  BY DEF AttemptInv
<1> QED
  BY <1>1, <1>2, NextAttemptInv, PTL DEF NetSafety
================================================================================
