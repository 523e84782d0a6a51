-------------------------- MODULE EventTableProofs --------------------------
(***************************************************************************)
(* What the display shows: which event, and that its picture is right.     *)
(*                                                                         *)
(* The event table for every size of table, every agenda and any sequence  *)
(* of uploads, losses, restarts and settings of the clock: TableInv is     *)
(* inductive, and what the clock shows follows from it.                    *)
(*                                                                         *)
(* The pictures that are drawn of what is chosen, for every font, text,    *)
(* duration and frame: ScreenInv says how far a picture is, character by   *)
(* character, and what it looks like follows when it is done.              *)
(***************************************************************************)
EXTENDS EventTable, Screen, FiniteSetTheorems, SequenceTheorems, TLAPS

(* At the start the table is empty. *)
LEMMA InitTableInv == PlanInit => TableInv
<1> SUFFICES ASSUME PlanInit PROVE TableInv
  OBVIOUS
<1> USE PlanConstants DEF PlanInit, Entries, Titled, NoPlan
<1>1. PlanTypeOK
  <2>1. events \in [Entries -> Nat] /\ titles \in [Titled -> Shows \cup {NoShow}]
    OBVIOUS
  <2>2. unixTime \in Nat /\ hostTime \in Nat /\ next \in 0 .. NumShows + 1 /\ count \in 0 .. MaxEvents
    BY DEF NoShow
  <2>3. intact \in BOOLEAN /\ arrived \in BOOLEAN /\ plan \in [first : Nat, last : Nat]
    OBVIOUS
  <2>4. QED
    BY <2>1, <2>2, <2>3 DEF PlanTypeOK
<1>2. \A i : ~EventExists(i)
  BY DEF EventExists
<1>3. LastUnused /\ NoneSkipped /\ UploadFollows /\ UploadArrived
  BY DEF LastUnused, NoneSkipped, UploadFollows, UploadArrived
<1>4. NeighboursAreShows /\ TitlesInv
  BY <1>2 DEF NeighboursAreShows, TitlesInv
<1>5. PlanStored
  BY DEF PlanStored, Holds
<1>6. QED
  BY <1>1, <1>3, <1>4, <1>5 DEF TableInv

(* The show a command sends comes right after the one sent before it. *)
LEMMA NextShowLasts ==
  ASSUME TableInv, ShowIsSent
  PROVE  /\ next \in Shows /\ count \in Entries
         /\ next' = next + 1 /\ count' = count + 1 /\ count' \in 0 .. MaxEvents
         /\ next' \in 0 .. NumShows + 1 /\ next' # NoShow
         /\ next' \in Shows => hostTime' < End[next']
  <1> USE PlanConstants DEF Shows
  <1>1. next \in Shows /\ count \in Entries /\ next' = next + 1 /\ count' = count + 1
        /\ hostTime < End[next] /\ hostTime' = hostTime /\ hostTime \in Nat
    BY DEF ShowIsSent, Sending, TableInv, PlanTypeOK, Entries
  <1>2. next + 1 \in Shows => End[next] < End[next + 1]
    <2>1. next + 1 \in Shows => /\ End[next] <= Start[next + 1]
                                /\ Start[next + 1] < End[next + 1]
                                /\ End[next] \in Nat /\ Start[next + 1] \in Nat
                                /\ End[next + 1] \in Nat
      BY <1>1
    <2>2. QED
      BY <2>1
  <1>3. next' \in Shows => hostTime' < End[next']
    <2>1. next + 1 \in Shows => End[next] \in Nat /\ End[next + 1] \in Nat
      BY <1>1
    <2>2. QED
      BY <1>1, <1>2, <2>1
  <1>4. QED
    BY <1>1, <1>3 DEF Entries, NoShow

(* A command that arrives: the only step that writes shows into the table. *)
LEMMA EventCommandKeepsTableInv ==
  ASSUME TableInv, EventCommand PROVE TableInv'
<1> USE PlanConstants
<1>0. PICK i, k : i = count /\ k = next
  OBVIOUS
<1>1. /\ PlanTypeOK /\ LastUnused /\ NoneSkipped /\ UploadFollows
      /\ NeighboursAreShows /\ TitlesInv /\ UploadArrived /\ PlanStored
  BY DEF TableInv
<1>2. /\ ShowIsSent /\ events' = Stored(i, Start[k], End[k])
      /\ titles' = [j \in Titled |-> IF j = i THEN k ELSE titles[j]]
      /\ plan' = NoPlan /\ intact' = intact /\ arrived' = arrived
      /\ unixTime' = unixTime /\ hostTime' = hostTime
  BY <1>0 DEF EventCommand, SetEvent, SetEventTitle, ShowIsSent
<1>3. /\ k \in Shows /\ i \in Entries /\ next' = k + 1 /\ count' = i + 1
      /\ count' \in 0 .. MaxEvents /\ next' \in 0 .. NumShows + 1 /\ next' # NoShow
      /\ next' \in Shows => hostTime' < End[next']
  BY <1>0, <1>2, NextShowLasts
<1>4. Start[k] \in Nat /\ End[k] \in Nat /\ Start[k] < End[k] /\ FirstTime < Start[k]
  BY <1>3
<1>5. /\ events' \in [Entries -> Nat] /\ events'[MaxEvents - 1] = 0
      /\ i <= MaxEvents - 2 => events'[i] = Start[k]
      /\ i + 1 \in Entries /\ i + 1 <= MaxEvents - 2 => events'[i + 1] = End[k]
      /\ i + 2 \in Entries => events'[i + 2] = 0
      /\ \A j \in Entries : j < i \/ j > i + 2 => events'[j] = events[j]
  <2>1. events \in [Entries -> Nat] /\ LastUnused /\ i \in Nat
    BY <1>1, <1>3 DEF PlanTypeOK, Entries
  <2>2. Start[k] \in Nat /\ End[k] \in Nat
    BY <1>4
  <2>3. /\ Stored(i, Start[k], End[k]) \in [Entries -> Nat]
        /\ Stored(i, Start[k], End[k])[MaxEvents - 1] = 0
        /\ i \in Entries /\ i <= MaxEvents - 2 => Stored(i, Start[k], End[k])[i] = Start[k]
        /\ i + 1 \in Entries /\ i + 1 <= MaxEvents - 2
             => Stored(i, Start[k], End[k])[i + 1] = End[k]
        /\ i + 2 \in Entries => Stored(i, Start[k], End[k])[i + 2] = 0
        /\ \A j \in Entries : j < i \/ j > i + 2 =>
             Stored(i, Start[k], End[k])[j] = events[j]
    BY <2>1, <2>2 DEF Stored, Entries, LastUnused
  <2>4. QED
    BY <2>3, <1>2, <1>3
<1>6. PlanTypeOK'
  BY <1>1, <1>2, <1>3, <1>5 DEF PlanTypeOK, NoPlan
<1>7. LastUnused' /\ NoneSkipped' /\ UploadFollows'
  <2>1. LastUnused'
    BY <1>5 DEF LastUnused
  <2>2. NoneSkipped'
    BY <1>3 DEF NoneSkipped, Sending, Shows
  <2>3. UploadFollows'
    <3>1. count' - 1 = i /\ next' - 1 = k
      BY <1>3 DEF Entries, Shows
    <3>2. events'[i] \in {0, Start[k]}
      BY <1>3, <1>5 DEF Entries
    <3>3. QED
      BY <3>1, <3>2 DEF UploadFollows
  <2>4. QED
    BY <2>1, <2>2, <2>3
<1>8. NeighboursAreShows'
  <2> SUFFICES ASSUME intact, NEW j \in Entries, EventExists(j)', EventExists(j + 1)'
               PROVE  IsShow(events'[j], events'[j + 1])
    BY <1>2 DEF NeighboursAreShows, IsShow
  <2>1. /\ j + 1 \in Entries /\ j \in 0 .. MaxEvents - 2 /\ i \in 0 .. MaxEvents - 1
        /\ events'[j] > FirstTime /\ events'[j + 1] > FirstTime
    BY <1>3 DEF EventExists, Entries
  <2>2. j + 1 <= MaxEvents - 2
    BY <2>1, <1>5
  <2>3. CASE j = i
    <3>1. events'[j] = Start[k] /\ events'[j + 1] = End[k]
      BY <2>3, <2>1, <2>2, <1>5
    <3>2. QED
      BY <3>1, <1>3 DEF IsShow
  <2>4. CASE j + 1 = i
    <3>1. events'[j + 1] = Start[k]
      BY <2>4, <2>1, <2>2, <1>5
    <3>2. events'[j] = events[i - 1] /\ count > 0
      BY <1>0, <2>4, <2>1, <1>5
    <3>3. events[i - 1] = Start[k - 1] /\ k - 1 \in Shows
      BY <1>0, <3>2, <2>1, <1>1 DEF UploadFollows, NoneSkipped
    <3>4. (k - 1) + 1 = k
      BY <1>3 DEF Shows
    <3>5. QED
      BY <3>1, <3>2, <3>3, <3>4, <1>3 DEF IsShow
  <2>5. CASE j = i + 1 \/ j = i + 2
    BY <2>5, <2>1, <1>5
  <2>6. CASE j + 1 < i \/ j > i + 2
    <3>1. events'[j] = events[j] /\ events'[j + 1] = events[j + 1]
      BY <2>6, <2>1, <1>5 DEF Entries
    <3>2. EventExists(j) /\ EventExists(j + 1)
      BY <3>1, <2>1 DEF EventExists
    <3>3. QED
      BY <3>1, <3>2, <1>1 DEF NeighboursAreShows
  <2>7. QED
    BY <2>1, <2>3, <2>4, <2>5, <2>6
<1>9. TitlesInv'
  <2> SUFFICES ASSUME intact, NEW t \in Titled, EventExists(t)'
               PROVE  HasItsTitle(t)' \/ EndOfFirst(t)'
    BY <1>2 DEF TitlesInv
  <2>1. /\ t \in {0, 1} /\ t \in Entries /\ t <= MaxEvents - 2 /\ events'[t] > FirstTime
        /\ i \in 0 .. MaxEvents - 1
    <3>1. t \in Entries /\ events'[t] > FirstTime
      BY DEF EventExists
    <3>2. t # MaxEvents - 1
      BY <3>1, <1>5
    <3>3. QED
      BY <3>1, <3>2, <1>3 DEF Titled, Entries
  <2>2. CASE t = i
    <3>1. titles'[t] = k /\ events'[t] = Start[k]
      BY <2>1, <2>2, <1>2, <1>5
    <3>2. QED
      BY <3>1, <1>3 DEF HasItsTitle
  <2>3. CASE t < i
    <3>1. events'[t] = events[t] /\ titles'[t] = titles[t] /\ EventExists(t)
      BY <2>1, <2>3, <1>2, <1>5 DEF EventExists
    <3>2. ~EndOfFirst(t)
      BY <1>0, <2>1, <2>3 DEF EndOfFirst
    <3>3. QED
      BY <3>1, <3>2, <1>1 DEF TitlesInv, HasItsTitle
  <2>4. CASE t > i
    <3>1. t = 1 /\ i = 0
      BY <2>1, <2>4
    <3>2. events'[0] = Start[k] /\ events'[1] = End[k] /\ count' = 1
      BY <3>1, <2>1, <1>3, <1>5
    <3>3. ~EventExists(2)'
      BY <3>1, <1>5 DEF EventExists
    <3>4. EventExists(0)'
      BY <3>2, <3>1, <1>3, <1>4 DEF EventExists
    <3>5. QED
      BY <3>1, <3>2, <3>3, <3>4, <1>4 DEF EndOfFirst
  <2>5. QED
    BY <2>1, <2>2, <2>3, <2>4
<1>10. UploadArrived'
  <2> SUFFICES ASSUME arrived PROVE Holds(k - i, i + 1)'
    <3>1. next' - count' = k - i
      BY <1>3 DEF Shows, Entries
    <3>2. QED
      BY <1>2, <1>3, <3>1 DEF UploadArrived, Holds
  <2>1. Holds(k - i, i)
    BY <1>0, <1>1, <1>2, <1>3 DEF UploadArrived, Shows, NoShow
  <2>2. /\ i \in 0 .. MaxEvents - 1 /\ k \in Int /\ (k - i) + i = k
        /\ (k - i) + (i + 1) - 1 = k /\ (i + 1) - 1 = i
    BY <1>3 DEF Shows, Entries
  <2>3. ASSUME NEW j \in 0 .. i
        PROVE  /\ (k - i) + j \in Shows
               /\ j <= MaxEvents - 2 => events'[j] = Start[(k - i) + j]
               /\ j \in Titled => titles'[j] = (k - i) + j
    <3>1. CASE j = i
      BY <3>1, <2>2, <1>2, <1>3, <1>5
    <3>2. CASE j < i
      <4>1. j \in 0 .. i - 1 /\ j \in Entries
        BY <3>2, <2>2 DEF Entries
      <4>2. events'[j] = events[j] /\ (j \in Titled => titles'[j] = titles[j])
        BY <4>1, <3>2, <1>2, <1>5
      <4>3. QED
        BY <4>1, <4>2, <2>1 DEF Holds
    <3>3. QED
      BY <3>1, <3>2, <2>2
  <2>4. i + 1 <= MaxEvents - 2 => events'[i + 1] = End[k]
    BY <2>2, <1>5 DEF Entries
  <2>5. QED
    BY <2>2, <2>3, <2>4 DEF Holds
<1>11. PlanStored'
  BY <1>2 DEF PlanStored, Holds, NoPlan
<1>12. QED
  BY <1>6, <1>7, <1>8, <1>9, <1>10, <1>11 DEF TableInv

(* A step that leaves the table and the plan alone keeps what is said of them,
   if the upload position it leaves is one the table still agrees with. *)
LEMMA SameTableKeepsInv ==
  ASSUME TableInv, PlanTypeOK', UNCHANGED <<events, titles, plan>>,
         intact' => intact,
         intact' /\ count' > 1 => count' = count,
         NoneSkipped', UploadFollows', UploadArrived'
  PROVE  TableInv'
<1> USE PlanConstants
<1>1. PlanTypeOK /\ LastUnused /\ NeighboursAreShows /\ TitlesInv /\ PlanStored
  BY DEF TableInv
<1>2. LastUnused' /\ PlanStored'
  BY <1>1 DEF LastUnused, PlanStored, Holds
<1>3. \A i : (EventExists(i)' <=> EventExists(i)) /\ (HasItsTitle(i)' <=> HasItsTitle(i))
  BY DEF EventExists, HasItsTitle
<1>4. NeighboursAreShows'
  <2> SUFFICES ASSUME intact', NEW j \in Entries, EventExists(j)', EventExists(j + 1)'
               PROVE  IsShow(events'[j], events'[j + 1])
    BY DEF NeighboursAreShows, IsShow
  <2>1. EventExists(j) /\ EventExists(j + 1)
    BY <1>3
  <2>2. QED
    BY <2>1, <1>1 DEF NeighboursAreShows
<1>5. TitlesInv'
  <2> SUFFICES ASSUME intact', NEW t \in Titled, EventExists(t)'
               PROVE  HasItsTitle(t)' \/ EndOfFirst(t)'
    BY DEF TitlesInv
  <2>1. HasItsTitle(t) \/ EndOfFirst(t)
    BY <1>1, <1>3 DEF TitlesInv
  <2>2. ASSUME EndOfFirst(t) PROVE EndOfFirst(t)'
    <3>1. count \in Nat /\ count' \in Nat
      BY <1>1 DEF PlanTypeOK
    <3>2. count' <= 1
      BY <2>2, <3>1 DEF EndOfFirst
    <3>3. QED
      BY <2>2, <3>2, <1>3 DEF EndOfFirst
  <2>3. QED
    BY <2>1, <2>2, <1>3
<1>6. QED
  BY <1>2, <1>4, <1>5 DEF TableInv

(* TableInv is kept by every step. *)
LEMMA NextTableInv == TableInv /\ [PlanNext]_planVars => TableInv'
<1> SUFFICES ASSUME TableInv, [PlanNext]_planVars PROVE TableInv'
  OBVIOUS
<1> USE PlanConstants
<1>0. /\ PlanTypeOK /\ LastUnused /\ NoneSkipped /\ UploadFollows
      /\ NeighboursAreShows /\ TitlesInv /\ UploadArrived /\ PlanStored
  BY DEF TableInv
<1>1. CASE SendPlan
  <2>1. PlanTypeOK' /\ NoneSkipped' /\ UploadFollows' /\ UploadArrived'
    BY <1>0, <1>1 DEF SendPlan, tableVars, PlanTypeOK, NoneSkipped, UploadFollows,
                      UploadArrived, Holds
  <2>2. QED
    BY <2>1, <1>1, SameTableKeepsInv DEF SendPlan, tableVars
<1>2. CASE SkipShow
  <2>1. next \in Shows /\ count = 0 /\ count' = 0 /\ next' = next + 1 /\ End[next] <= hostTime
    <3>1. next \in Shows /\ End[next] <= hostTime /\ count' = count /\ next' = next + 1
      BY <1>2 DEF SkipShow, Sending
    <3>2. count \in Nat /\ hostTime \in Nat /\ End[next] \in Nat
      BY <3>1, <1>0 DEF PlanTypeOK
    <3>3. QED
      BY <3>1, <3>2, <1>0 DEF NoneSkipped, Sending
  <2>2. PlanTypeOK'
    BY <2>1, <1>0, <1>2 DEF SkipShow, tableVars, auxVars, PlanTypeOK, Shows
  <2>3. NoneSkipped' /\ UploadFollows' /\ UploadArrived'
    BY <2>1 DEF NoneSkipped, UploadFollows, UploadArrived, Holds
  <2>4. QED
    BY <2>1, <2>2, <2>3, <1>2, SameTableKeepsInv DEF SkipShow, tableVars, auxVars
<1>3. CASE EventCommand
  BY <1>3, EventCommandKeepsTableInv
<1>4. CASE EventCommandLost
  <2>1. /\ ShowIsSent /\ ~intact' /\ ~arrived' /\ UNCHANGED <<events, titles, plan>>
        /\ UNCHANGED <<unixTime, hostTime>> /\ intact' = FALSE /\ arrived' = FALSE
    BY <1>4 DEF EventCommandLost, ShowIsSent, tableVars
  <2>2. /\ next \in Shows /\ next' = next + 1 /\ next' # NoShow
        /\ count' \in 0 .. MaxEvents /\ next' \in 0 .. NumShows + 1
        /\ next' \in Shows => hostTime' < End[next']
    BY <2>1, NextShowLasts
  <2>3. PlanTypeOK'
    BY <2>1, <2>2, <1>0 DEF PlanTypeOK
  <2>4. NoneSkipped' /\ UploadFollows' /\ UploadArrived'
    BY <2>1, <2>2 DEF NoneSkipped, UploadFollows, UploadArrived, Sending, Shows
  <2>5. QED
    BY <2>1, <2>3, <2>4, SameTableKeepsInv
<1>5. CASE PlanSent
  <2>1. /\ next # NoShow /\ next' = NoShow /\ count' = 0
        /\ UNCHANGED <<events, titles, unixTime, hostTime, intact, arrived>>
        /\ plan' = IF arrived /\ count > 0
                   THEN [first |-> next - count, last |-> next - 1] ELSE plan
    BY <1>5 DEF PlanSent, tableVars
  <2>2. /\ PlanTypeOK' /\ PlanStored'
    <3>1. CASE arrived /\ count > 0
      <4>1. PICK n, c : n = next /\ c = count
        OBVIOUS
      <4>2. c \in Nat \ {0} /\ n \in Nat /\ n # 0
        BY <4>1, <3>1, <2>1, <1>0 DEF PlanTypeOK, NoShow
      <4>3. Holds(n - c, c)
        BY <4>1, <3>1, <2>1, <1>0 DEF UploadArrived
      <4>4. (n - c) + 0 \in Shows
        BY <4>2, <4>3 DEF Holds
      <4>5. plan' = [first |-> n - c, last |-> n - 1] /\ n - c \in Nat /\ n - 1 \in Nat
        BY <4>1, <4>2, <4>4, <3>1, <2>1 DEF Shows
      <4>6. PlanTypeOK'
        BY <4>5, <2>1, <1>0 DEF PlanTypeOK, NoShow
      <4>7. plan'.first = n - c /\ plan'.last - plan'.first + 1 = c
        BY <4>5, <4>2
      <4>8. Holds(n - c, c)'
        BY <4>3, <2>1 DEF Holds
      <4>9. QED
        BY <4>6, <4>7, <4>8 DEF PlanStored
    <3>2. CASE ~(arrived /\ count > 0)
      BY <3>2, <2>1, <1>0 DEF PlanTypeOK, PlanStored, Holds, NoShow
    <3>3. QED
      BY <3>1, <3>2
  <2>3. LastUnused' /\ NoneSkipped' /\ UploadFollows' /\ UploadArrived'
    BY <2>1, <1>0 DEF LastUnused, NoneSkipped, UploadFollows, UploadArrived
  <2>4. NeighboursAreShows'
    BY <2>1, <1>0 DEF NeighboursAreShows, EventExists, IsShow
  <2>5. TitlesInv'
    BY <2>1, <1>0 DEF TitlesInv, EventExists, HasItsTitle, EndOfFirst
  <2>6. QED
    BY <2>2, <2>3, <2>4, <2>5 DEF TableInv
<1>6. CASE HostRestarts
  <2>1. PlanTypeOK' /\ NoneSkipped' /\ UploadFollows' /\ UploadArrived'
    BY <1>0, <1>6 DEF HostRestarts, tableVars, auxVars, PlanTypeOK, NoneSkipped,
                      UploadFollows, UploadArrived, NoShow
  <2>2. QED
    BY <2>1, <1>6, SameTableKeepsInv DEF HostRestarts, tableVars, auxVars
<1>7. CASE HostTick
  <2>1. PlanTypeOK' /\ UploadFollows' /\ UploadArrived'
    BY <1>0, <1>7 DEF HostTick, tableVars, hostVars, auxVars, PlanTypeOK, UploadFollows,
                      UploadArrived, Holds
  <2>2. NoneSkipped'
    BY <1>0, <1>7 DEF HostTick, hostVars, NoneSkipped, Sending
  <2>3. QED
    BY <2>1, <2>2, <1>7, SameTableKeepsInv DEF HostTick, tableVars, hostVars, auxVars
<1>8. CASE ClockTick \/ SetUnixTime
  <2>1. /\ UNCHANGED <<events, titles, next, count, hostTime, intact, arrived, plan>>
        /\ unixTime' \in Nat
    BY <1>8, <1>0 DEF ClockTick, SetUnixTime, tableVars, hostVars, auxVars, PlanTypeOK
  <2>2. PlanTypeOK' /\ NoneSkipped' /\ UploadFollows' /\ UploadArrived'
    BY <2>1, <1>0 DEF PlanTypeOK, NoneSkipped, Sending, UploadFollows, UploadArrived, Holds
  <2>3. QED
    BY <2>1, <2>2, SameTableKeepsInv
<1>9. CASE Restart
  <2>1. \A i : ~EventExists(i)'
    BY <1>9 DEF Restart, EventExists, Entries
  <2>2. /\ events' = [i \in Entries |-> 0] /\ titles' = [i \in Titled |-> NoShow]
        /\ arrived' = FALSE /\ intact' = TRUE /\ plan' = NoPlan
        /\ UNCHANGED <<next, count, unixTime, hostTime>>
    BY <1>9 DEF Restart, hostVars
  <2>3. PlanTypeOK'
    <3>1. events' \in [Entries -> Nat] /\ titles' \in [Titled -> Shows \cup {NoShow}]
      BY <2>2
    <3>2. plan' \in [first : Nat, last : Nat] /\ arrived' \in BOOLEAN /\ intact' \in BOOLEAN
      BY <2>2 DEF NoPlan
    <3>3. QED
      BY <3>1, <3>2, <2>2, <1>0 DEF PlanTypeOK
  <2>4. LastUnused' /\ NoneSkipped' /\ UploadArrived'
    BY <2>2, <1>0 DEF LastUnused, NoneSkipped, Sending, UploadArrived, Entries
  <2>5. UploadFollows'
    <3>1. count > 0 => count - 1 \in Entries
      BY <1>0 DEF PlanTypeOK, Entries
    <3>2. QED
      BY <3>1, <2>2 DEF UploadFollows
  <2>6. NeighboursAreShows' /\ TitlesInv'
    BY <2>1 DEF NeighboursAreShows, TitlesInv
  <2>7. PlanStored'
    BY <2>2 DEF PlanStored, Holds, NoPlan
  <2>8. QED
    BY <2>3, <2>4, <2>5, <2>6, <2>7 DEF TableInv
<1>10. CASE UNCHANGED planVars
  <2>1. UNCHANGED <<events, titles, next, count, unixTime, hostTime, intact, arrived, plan>>
    BY <1>10 DEF planVars
  <2>2. PlanTypeOK' /\ NoneSkipped' /\ UploadFollows' /\ UploadArrived'
    BY <2>1, <1>0 DEF PlanTypeOK, NoneSkipped, Sending, UploadFollows, UploadArrived, Holds
  <2>3. QED
    BY <2>1, <2>2, SameTableKeepsInv
<1>11. QED
  BY <1>1, <1>2, <1>3, <1>4, <1>5, <1>6, <1>7, <1>8, <1>9, <1>10 DEF PlanNext

(* TableInv holds always: for every table size, agenda and history of uploads. *)
THEOREM TableInvariant == PlanSpec => []TableInv
  BY InitTableInv, NextTableInv, PTL DEF PlanSpec

(* The variables of table and host keep their types. *)
THEOREM PlanTypeCorrect == PlanSpec => []PlanTypeOK
<1>1. TableInv => PlanTypeOK
  BY DEF TableInv
<1>2. QED
  BY <1>1, TableInvariant, PTL

(* No step of an upload makes up a show: two entries in a row are a show. *)
THEOREM OnlyShowsInTable == PlanSpec => []NeighboursAreShows
<1>1. TableInv => NeighboursAreShows
  BY DEF TableInv
<1>2. QED
  BY <1>1, TableInvariant, PTL

(* An event that runs has an end, which is stored in the next entry. *)
LEMMA RunningHasEnd ==
  ASSUME PlanTypeOK, NEW i \in Int, RunsAt(i)
  PROVE  /\ i \in Entries /\ i + 1 \in Entries
         /\ EventExists(i) /\ EventExists(i + 1)
         /\ events[i] <= unixTime /\ unixTime <= events[i + 1]
<1> USE PlanConstants
<1>1. EventExists(i) /\ i \in Entries /\ events[i] \in Nat /\ events[i] > FirstTime
  BY DEF RunsAt, EventExists, PlanTypeOK
<1>2. events[i] <= unixTime /\ unixTime \in Nat
  BY <1>1 DEF RunsAt, EventStart, PlanTypeOK
<1>3. EventExists(i + 1)
  <2> SUFFICES ASSUME ~EventExists(i + 1) PROVE FALSE
    OBVIOUS
  <2>1. unixTime <= 0
    BY DEF RunsAt, EventEnd, EventStart
  <2>2. QED
    BY <2>1, <1>1, <1>2
<1>4. unixTime <= events[i + 1]
  BY <1>3 DEF RunsAt, EventEnd, EventStart
<1>5. QED
  BY <1>1, <1>2, <1>3, <1>4 DEF EventExists

(* What is shown as running has begun, and no later show has begun before. *)
THEOREM RunningEventOnAir == PlanSpec => []RunningIsOnAir
<1>1. TableInv => RunningIsOnAir
  <2> SUFFICES ASSUME TableInv, intact, NEW i \in Entries, IsRunningEvent(i)
               PROVE  \E k \in Shows : /\ Start[k] = events[i] /\ Start[k] <= unixTime
                                       /\ k + 1 \in Shows => unixTime <= Start[k + 1]
                                       /\ k + 1 \notin Shows => unixTime <= End[k]
    BY DEF RunningIsOnAir
  <2> USE PlanConstants
  <2>1. PlanTypeOK /\ NeighboursAreShows /\ RunsAt(i) /\ i \in Int /\ unixTime \in Nat
    BY DEF TableInv, IsRunningEvent, Entries, PlanTypeOK
  <2>2. /\ EventExists(i) /\ EventExists(i + 1)
        /\ events[i] <= unixTime /\ unixTime <= events[i + 1]
    BY <2>1, RunningHasEnd
  <2>3. PICK k \in Shows : /\ events[i] = Start[k]
                           /\ \/ events[i + 1] = End[k]
                              \/ k + 1 \in Shows /\ events[i + 1] = Start[k + 1]
    BY <2>1, <2>2 DEF NeighboursAreShows, IsShow
  <2>4. k + 1 \in Shows => End[k] <= Start[k + 1] /\ End[k] \in Nat /\ Start[k + 1] \in Nat
    BY DEF Shows
  <2>5. QED
    BY <2>1, <2>2, <2>3, <2>4
<1>2. QED
  BY <1>1, TableInvariant, PTL

(* The title displayed is that of the show whose time is displayed. *)
THEOREM TitleOfItsShow == PlanSpec => []TitleMatchesTime
<1>1. TableInv => TitleMatchesTime
  <2> SUFFICES ASSUME TableInv, intact, NEW i \in Titled, IsCurrentEvent(i)
               PROVE  HasItsTitle(i)
    BY DEF TitleMatchesTime, HasItsTitle
  <2> USE PlanConstants
  <2>1. PlanTypeOK /\ TitlesInv /\ i \in Int /\ i \in {0, 1} /\ unixTime \in Nat
    BY DEF TableInv, PlanTypeOK, Titled
  <2>2. EventExists(i)
    BY DEF IsCurrentEvent, IsRunningEvent, IsNextEvent, RunsAt
  <2> SUFFICES ASSUME EndOfFirst(i) PROVE FALSE
    BY <2>1, <2>2 DEF TitlesInv
  <2>3. i = 1 /\ EventExists(0) /\ events[0] < events[1] /\ ~EventExists(2)
    BY DEF EndOfFirst
  <2>4. ~RunsAt(1)
    <3>1. 1 \in Int /\ 1 + 1 = 2
      OBVIOUS
    <3>2. QED
      BY <3>1, <2>1, <2>3, RunningHasEnd
  <2>5. /\ IsNextEvent(1) /\ \A j \in 0 .. MaxEvents - 2 : ~RunsAt(j)
        /\ 1 \in Entries /\ 0 \in 0 .. MaxEvents - 2
    BY <2>2, <2>3, <2>4 DEF IsCurrentEvent, IsRunningEvent, EventExists, Entries
  <2>6. /\ events[0] \in Nat /\ events[1] \in Nat
        /\ events[1] >= unixTime /\ ~(events[0] >= unixTime)
    BY <2>1, <2>3, <2>5 DEF IsNextEvent, EventStart, EventExists, PlanTypeOK, Entries
  <2>7. RunsAt(0)
    <3>1. EventStart(0) = events[0] /\ EventEnd(0) = events[1]
      BY <2>2, <2>3 DEF EventEnd, EventStart
    <3>2. QED
      BY <3>1, <2>1, <2>3, <2>6 DEF RunsAt
  <2>8. QED
    BY <2>5, <2>7
<1>2. QED
  BY <1>1, TableInvariant, PTL

(* After a complete upload the show on air is the one shown as running. *)
THEOREM CompletePlanTakesEffect == PlanSpec => []PlanTakesEffect
<1>1. TableInv => PlanTakesEffect
  <2> SUFFICES ASSUME TableInv, NEW k \in Shows, k \in plan.first .. plan.last,
                      k - plan.first <= MaxEvents - 3,
                      Start[k] < unixTime, unixTime <= End[k]
               PROVE  /\ IsRunningEvent(k - plan.first)
                      /\ k - plan.first \in Titled => titles[k - plan.first] = k
    BY DEF PlanTakesEffect
  <2> USE PlanConstants
  <2>1. PlanTypeOK /\ PlanStored /\ plan.first \in Nat /\ plan.last \in Nat /\ unixTime \in Nat
    BY DEF TableInv, PlanTypeOK
  <2> DEFINE f == plan.first
             n == plan.last - plan.first + 1
             i == k - plan.first
  <2>2. /\ i \in 0 .. n - 1 /\ i + 1 <= MaxEvents - 2 /\ f + i = k /\ i \in Entries
        /\ i + 1 \in Entries /\ n \in Nat
    <3>1. /\ f \in Int /\ plan.last \in Int /\ k \in Int /\ MaxEvents \in Int
          /\ f <= k /\ k <= plan.last /\ k - f <= MaxEvents - 3
      BY <2>1 DEF Shows
    <3>2. PICK a, b : a = plan.first /\ b = plan.last
      OBVIOUS
    <3>3. /\ k - a \in 0 .. (b - a + 1) - 1 /\ (k - a) + 1 <= MaxEvents - 2 /\ a + (k - a) = k
          /\ k - a \in 0 .. MaxEvents - 1 /\ (k - a) + 1 \in 0 .. MaxEvents - 1
          /\ b - a + 1 \in Nat
      BY <3>1, <3>2
    <3>4. QED
      BY <3>2, <3>3 DEF Entries
  <2>3. /\ \A j \in 0 .. n - 1 : /\ f + j \in Shows
                                 /\ j <= MaxEvents - 2 => events[j] = Start[f + j]
                                 /\ j \in Titled => titles[j] = f + j
        /\ n > 0 /\ n <= MaxEvents - 2 => events[n] = End[f + n - 1]
    BY <2>1 DEF PlanStored, Holds
  <2>4. events[i] = Start[k] /\ (i \in Titled => titles[i] = k)
    BY <2>2, <2>3
  <2>5. events[i + 1] \in Nat /\ End[k] \in Nat /\ End[k] <= events[i + 1]
    <3>1. CASE i + 1 = n
      <4>1. events[i + 1] = End[f + n - 1] /\ f + n - 1 = k
        BY <3>1, <2>1, <2>2, <2>3
      <4>2. QED
        BY <4>1
    <3>2. CASE i + 1 < n
      <4>1. i + 1 \in 0 .. n - 1 /\ f + (i + 1) = k + 1
        BY <3>2, <2>1, <2>2
      <4>2. k + 1 \in Shows /\ events[i + 1] = Start[k + 1]
        BY <4>1, <2>2, <2>3
      <4>3. End[k] <= Start[k + 1] /\ End[k] \in Nat /\ Start[k + 1] \in Nat
        BY <4>2 DEF Shows
      <4>4. QED
        BY <4>2, <4>3
    <3>3. QED
      BY <3>1, <3>2, <2>2
  <2>6. /\ Start[k] \in Nat /\ FirstTime < Start[k] /\ Start[k] < End[k]
    OBVIOUS
  <2>7. EventExists(i) /\ EventExists(i + 1)
    BY <2>2, <2>4, <2>5, <2>6 DEF EventExists
  <2>8. RunsAt(i)
    <3>1. EventStart(i) = events[i] /\ EventEnd(i) = events[i + 1]
      BY <2>7 DEF EventStart, EventEnd
    <3>2. QED
      BY <3>1, <2>1, <2>4, <2>5, <2>6, <2>7 DEF RunsAt
  <2>9. ASSUME NEW j \in 0 .. i - 1, RunsAt(j) PROVE FALSE
    <3>1. j \in Int /\ j + 1 \in 0 .. n - 1 /\ j + 1 <= MaxEvents - 2 /\ f + (j + 1) <= k
      BY <2>1, <2>2
    <3>2. unixTime <= events[j + 1]
      BY <2>1, <2>9, <3>1, RunningHasEnd
    <3>3. events[j + 1] = Start[f + (j + 1)] /\ f + (j + 1) \in Shows
      BY <3>1, <2>3
    <3>4. Start[f + (j + 1)] <= Start[k]
      <4>1. CASE f + (j + 1) = k
        BY <4>1, <2>6
      <4>2. CASE f + (j + 1) < k
        <5>1. /\ End[f + (j + 1)] <= Start[k] /\ Start[f + (j + 1)] < End[f + (j + 1)]
              /\ End[f + (j + 1)] \in Nat /\ Start[f + (j + 1)] \in Nat
          BY <4>2, <3>3
        <5>2. QED
          BY <5>1, <2>6
      <4>3. QED
        BY <4>1, <4>2, <3>1, <3>3 DEF Shows
    <3>5. Start[f + (j + 1)] \in Nat
      BY <3>3
    <3>6. QED
      BY <3>2, <3>3, <3>4, <3>5, <2>1, <2>6
  <2>10. IsRunningEvent(i)
    BY <2>2, <2>8, <2>9 DEF IsRunningEvent
  <2>11. QED
    BY <2>4, <2>10
<1>2. QED
  BY <1>1, TableInvariant, PTL

(***************************************************************************)
(* The pictures: Screen.                                                   *)
(***************************************************************************)

\* A set of naturals that is not empty has a least member.
LEMMA FirstOfNaturals ==
  ASSUME NEW S, S \subseteq Nat, S # {}
  PROVE  \E s \in S : \A r \in S : s <= r
<1>1. \E s \in S : \A r \in S : ~ (<<r, s>> \in OpToRel(<, Nat))
  BY WFMin, NatLessThanWellFounded
<1>2. PICK s \in S : \A r \in S : ~ (<<r, s>> \in OpToRel(<, Nat))
  BY <1>1
<1>3. \A r \in S : ~ (r < s)
  BY <1>2 DEF OpToRel
<1>4. s \in S
  BY <1>2
<1>5. \A r \in S : s <= r
  BY <1>3, <1>4
<1> QED
  BY <1>4, <1>5

\* Induction over an interval: a set that has its first number, and the next one of
\* each it has, has them all.
LEMMA IntervalInduction ==
  ASSUME NEW a \in Nat, NEW b \in Nat, NEW S, a \in S,
         \A n \in a .. b : n \in S /\ n < b => n + 1 \in S
  PROVE  \A n \in a .. b : n \in S
<1> DEFINE Out == {n \in a .. b : n \notin S}
<1> SUFFICES ASSUME Out # {} PROVE FALSE
  OBVIOUS
<1>1. PICK m \in Out : \A r \in Out : m <= r
  <2>1. Out \subseteq Nat
    OBVIOUS
  <2> HIDE DEF Out
  <2> QED
    BY <2>1, FirstOfNaturals
<1>2. m \in Nat /\ a < m /\ m <= b /\ m \notin S
  <2>1. m \in a .. b /\ m \notin S
    OBVIOUS
  <2>2. m # a
    BY <2>1
  <2> QED
    BY <2>1, <2>2
<1>3. m - 1 \in a .. b /\ m - 1 < b /\ m - 1 < m
  BY <1>2
<1>4. m - 1 \notin Out
  <2>1. ~ (m <= m - 1)
    BY <1>2
  <2> QED
    BY <1>1, <2>1
<1>5. m - 1 \in S
  BY <1>3, <1>4
<1>6. (m - 1) + 1 = m
  BY <1>2
<1> QED
  BY <1>2, <1>3, <1>5, <1>6

\* A function defined by what it is at n, from what it is at n - 1.
Recurs(g, N, first, step) == g[0] = first /\ \A n \in 1 .. N : g[n] = step[n][g[n - 1]]

\* A function on an interval that is defined from one number to the next.
LEMMA FiniteRecursion ==
  ASSUME NEW N \in Nat, NEW S, NEW first \in S, NEW step \in [1 .. N -> [S -> S]]
  PROVE  \E g \in [0 .. N -> S] : Recurs(g, N, first, step)
<1> DEFINE Loops(m) == {g \in [0 .. m -> S] :
                         g[0] = first /\ \A n \in 1 .. m : g[n] = step[n][g[n - 1]]}
           Done    == {m \in Nat : Loops(m) # {}}
<1>1. 0 \in Done
  <2>1. [n \in 0 .. 0 |-> first] \in Loops(0)
    OBVIOUS
  <2> QED
    BY <2>1
<1>2. ASSUME NEW m \in 0 .. N, m \in Done, m < N PROVE m + 1 \in Done
  <2>1. PICK g : g \in Loops(m)
    BY <1>2
  <2>2. g \in [0 .. m -> S] /\ g[0] = first
        /\ \A n \in 1 .. m : g[n] = step[n][g[n - 1]]
    BY <2>1
  <2>3. m \in 0 .. m /\ m + 1 \in 1 .. N /\ m \in Nat
    BY <1>2
  <2>4. PICK w \in S : w = step[m + 1][g[m]]
    <3>1. step[m + 1] \in [S -> S] /\ g[m] \in S
      BY <2>2, <2>3
    <3> QED
      BY <3>1
  <2>5. PICK h : h = [n \in 0 .. m + 1 |-> IF n = m + 1 THEN w ELSE g[n]]
    OBVIOUS
  <2>6. \A n \in 0 .. m + 1 : n = m + 1 \/ n \in 0 .. m
    BY <2>3
  <2>7. h \in [0 .. m + 1 -> S]
    BY <2>2, <2>5, <2>6
  <2>8. 0 \in 0 .. m + 1 /\ 0 # m + 1 /\ h[0] = first
    BY <2>2, <2>3, <2>5
  <2>9. ASSUME NEW n \in 1 .. m + 1 PROVE h[n] = step[n][h[n - 1]]
    <3>1. n \in 0 .. m + 1 /\ n - 1 \in 0 .. m + 1 /\ n - 1 # m + 1
      BY <2>3
    <3>2. h[n - 1] = g[n - 1]
      BY <2>5, <3>1
    <3>3. CASE n = m + 1
      <4>1. h[n] = w /\ n - 1 = m
        BY <2>3, <2>5, <3>1, <3>3
      <4> QED
        BY <2>4, <3>2, <3>3, <4>1
    <3>4. CASE n # m + 1
      <4>1. n \in 1 .. m /\ h[n] = g[n]
        BY <2>3, <2>5, <3>1, <3>4
      <4> QED
        BY <2>2, <3>2, <4>1
    <3> QED
      BY <3>3, <3>4
  <2>10. h \in Loops(m + 1)
    BY <2>7, <2>8, <2>9
  <2> QED
    BY <2>3, <2>10
<1>3. N \in Done
  <2> HIDE DEF Done
  <2>1. \A n \in 0 .. N : n \in Done
    BY <1>1, <1>2, IntervalInduction
  <2> QED
    BY <2>1
<1>4. PICK g : g \in Loops(N)
  BY <1>3
<1> QED
  BY <1>4 DEF Recurs

\* The dots of a byte tell which byte it is, and one that is zero has none.
LEMMA DotsOfNewLine ==
  ASSUME NEW byte \in 0 .. 255
  PROVE  byte = NewLine <=> {k \in 0 .. 7 : IsLit(byte, k)} = {4, 6}
<1>1. /\ IsLit(byte, 0) <=> (byte \div 128) % 2 = 1
      /\ IsLit(byte, 1) <=> (byte \div 64) % 2 = 1
      /\ IsLit(byte, 2) <=> (byte \div 32) % 2 = 1
      /\ IsLit(byte, 3) <=> (byte \div 16) % 2 = 1
      /\ IsLit(byte, 4) <=> (byte \div 8) % 2 = 1
      /\ IsLit(byte, 5) <=> (byte \div 4) % 2 = 1
      /\ IsLit(byte, 6) <=> (byte \div 2) % 2 = 1
      /\ IsLit(byte, 7) <=> (byte \div 1) % 2 = 1
  BY DEF IsLit, Weight
<1>2. byte = 10 <=> /\ (byte \div 128) % 2 # 1 /\ (byte \div 64) % 2 # 1
                    /\ (byte \div 32) % 2 # 1 /\ (byte \div 16) % 2 # 1
                    /\ (byte \div 8) % 2 = 1 /\ (byte \div 4) % 2 # 1
                    /\ (byte \div 2) % 2 = 1 /\ (byte \div 1) % 2 # 1
  BY SMTT(30)
<1>3. {k \in 0 .. 7 : IsLit(byte, k)} = {4, 6} <=>
        /\ ~IsLit(byte, 0) /\ ~IsLit(byte, 1) /\ ~IsLit(byte, 2) /\ ~IsLit(byte, 3)
        /\ IsLit(byte, 4) /\ ~IsLit(byte, 5) /\ IsLit(byte, 6) /\ ~IsLit(byte, 7)
  <2>1. \A k \in 0 .. 7 : k = 0 \/ k = 1 \/ k = 2 \/ k = 3 \/ k = 4 \/ k = 5 \/ k = 6 \/ k = 7
    OBVIOUS
  <2>2. 0 \in 0 .. 7 /\ 1 \in 0 .. 7 /\ 2 \in 0 .. 7 /\ 3 \in 0 .. 7 /\ 4 \in 0 .. 7
        /\ 5 \in 0 .. 7 /\ 6 \in 0 .. 7 /\ 7 \in 0 .. 7
    OBVIOUS
  <2> QED
    BY <2>1, <2>2
<1> QED
  BY <1>1, <1>2, <1>3 DEF NewLine

\* A byte that is zero has no dots.
LEMMA ZeroHasNoDots ==
  ASSUME NEW k \in 0 .. 7
  PROVE  ~IsLit(0, k)
<1>1. k = 0 \/ k = 1 \/ k = 2 \/ k = 3 \/ k = 4 \/ k = 5 \/ k = 6 \/ k = 7
  OBVIOUS
<1> QED
  BY <1>1 DEF IsLit, Weight

\* The bytes of a row, and where a dot is in them.
Row == [1 .. XRES \div 4 -> 0 .. 255]

\* The byte a dot is in, and the dots of that byte.
LEMMA DotInByte ==
  ASSUME NEW p \in 0 .. 2 * XRES - 1
  PROVE  /\ (p \div 8) + 1 \in 1 .. XRES \div 4 /\ p % 8 \in 0 .. 7
         /\ (p \div 8) + 1 > XRES \div 8 <=> p >= XRES
         /\ \A k \in 0 .. 7 : /\ (p - (p % 8)) + k \in 0 .. 2 * XRES - 1
                              /\ ((p - (p % 8)) + k) \div 8 = p \div 8
                              /\ ((p - (p % 8)) + k) % 8 = k
<1>1. PICK x \in Nat : x = XRES /\ x % 8 = 0
  BY FontAssumption
<1>2. PICK h \in Nat : h = x \div 8 /\ x = 8 * h
  BY <1>1
<1>3. x \div 4 = 2 * h /\ 2 * x = 16 * h
  BY <1>2
<1>4. PICK q \in Nat : q = p \div 8
  BY <1>1
<1>5. PICK r \in 0 .. 7 : r = p % 8 /\ p = 8 * q + r
  BY <1>1, <1>4
<1>6. q + 1 \in 1 .. 2 * h /\ (q + 1 > h <=> p >= x)
  BY <1>1, <1>2, <1>3, <1>5
<1>7. ASSUME NEW k \in 0 .. 7
      PROVE  /\ (p - r) + k \in 0 .. 2 * x - 1
             /\ ((p - r) + k) \div 8 = q /\ ((p - r) + k) % 8 = k
  <2>1. (p - r) + k = 8 * q + k
    BY <1>5, <1>1
  <2>2. (8 * q + k) \div 8 = q /\ (8 * q + k) % 8 = k
    OBVIOUS
  <2>3. 8 * q + k <= 16 * h - 1
    BY <1>6
  <2> QED
    BY <1>3, <2>1, <2>2, <2>3
<1> QED
  BY <1>1, <1>2, <1>3, <1>4, <1>5, <1>6, <1>7

\* What is lit in the bytes of a row, dot by dot.
LEMMA DotIsLit ==
  ASSUME NEW bytes, NEW p \in 0 .. 2 * XRES - 1, NEW k \in 0 .. 7
  PROVE  /\ p \in DotsOf(bytes) <=> IsLit(bytes[(p \div 8) + 1], p % 8)
         /\ (p - (p % 8)) + k \in DotsOf(bytes) <=> IsLit(bytes[(p \div 8) + 1], k)
BY DotInByte DEF DotsOf

\* playMovie() leaves no end of a line in a line, so that all of it is received.
LEMMA LineIsReceived ==
  ASSUME NEW bytes \in Row
  PROVE  Received(Line(bytes)) = Line(bytes)
<1>1. PICK line : line = Line(bytes)
  OBVIOUS
<1>2. PICK kept : kept = [i \in DOMAIN bytes |-> IF bytes[i] = NewLine THEN 0 ELSE bytes[i]]
  OBVIOUS
<1>3. line = IF redOnly THEN [i \in DOMAIN kept |-> IF i > XRES \div 8 THEN 0 ELSE kept[i]]
                        ELSE kept
  BY <1>1, <1>2 DEF Line
<1>4. DOMAIN bytes = 1 .. XRES \div 4 /\ DOMAIN kept = DOMAIN bytes /\ DOMAIN line = DOMAIN bytes
  BY <1>2, <1>3 DEF Row
<1>5. \A i \in DOMAIN line : line[i] # NewLine
  <2>1. \A i \in DOMAIN kept : kept[i] # NewLine /\ 0 # NewLine
    BY <1>2 DEF NewLine
  <2> QED
    BY <1>3, <1>4, <2>1
<1>6. \A i \in DOMAIN line : \A k \in 1 .. i : k \in DOMAIN line
  <2>1. XRES \in Nat
    BY FontAssumption
  <2>2. PICK n \in Nat : n = XRES \div 4
    BY <2>1
  <2> QED
    BY <1>4, <2>2
<1>7. Received(line) = [i \in DOMAIN line |-> line[i]]
  BY <1>5, <1>6 DEF Received
<1>8. line = [i \in DOMAIN line |-> line[i]]
  BY <1>2, <1>3
<1> QED
  BY <1>1, <1>7, <1>8

\* What becomes of a byte of a frame on its way to the clock.
LEMMA LineOfByte ==
  ASSUME NEW bytes \in Row, NEW i \in 1 .. XRES \div 4
  PROVE  Line(bytes)[i] = IF bytes[i] = NewLine \/ (redOnly /\ i > XRES \div 8) THEN 0
                          ELSE bytes[i]
BY DEF Line, Row

\* The dots of a line are those of the frame, but for the bytes it must not hold.
LEMMA DotsOfLine ==
  ASSUME NEW bytes \in Row
  PROVE  DotsOf(Line(bytes)) =
           {p \in DotsOf(bytes) : /\ redOnly => p < XRES
                                  /\ {k \in 0 .. 7 : (p - (p % 8)) + k \in DotsOf(bytes)} # {4, 6}}
<1> SUFFICES ASSUME NEW p \in 0 .. 2 * XRES - 1
             PROVE  p \in DotsOf(Line(bytes)) <=>
                      /\ p \in DotsOf(bytes) /\ (redOnly => p < XRES)
                      /\ {k \in 0 .. 7 : (p - (p % 8)) + k \in DotsOf(bytes)} # {4, 6}
  BY DEF DotsOf
<1>1. PICK i \in 1 .. XRES \div 4 : i = (p \div 8) + 1 /\ (i > XRES \div 8 <=> p >= XRES)
  BY DotInByte
<1>2. PICK k \in 0 .. 7 : k = p % 8
  BY DotInByte
<1>3. PICK byte \in 0 .. 255 : byte = bytes[i]
  BY DEF Row
<1>4. p \in DotsOf(bytes) <=> IsLit(byte, k)
  BY <1>1, <1>2, <1>3, DotIsLit
<1>5. p \in DotsOf(Line(bytes)) <=> IsLit(Line(bytes)[i], k)
  BY <1>1, <1>2, DotIsLit
<1>6. {j \in 0 .. 7 : (p - (p % 8)) + j \in DotsOf(bytes)} = {j \in 0 .. 7 : IsLit(byte, j)}
  BY <1>1, <1>3, DotIsLit
<1>7. byte = NewLine <=> {j \in 0 .. 7 : IsLit(byte, j)} = {4, 6}
  BY DotsOfNewLine
<1>8. Line(bytes)[i] = IF byte = NewLine \/ (redOnly /\ p >= XRES) THEN 0 ELSE byte
  BY <1>1, <1>3, LineOfByte
<1>9. p >= XRES <=> ~(p < XRES)
  BY FontAssumption
<1> QED
  BY <1>4, <1>5, <1>6, <1>7, <1>8, <1>9, ZeroHasNoDots

\* The frame on its way: made, made a line of, received.
FrameInv ==
  show = "video" =>
    \E f \in Frames :
      /\ dots = DotsOf(f)
      /\ picture = IF stage = "file" THEN f ELSE Line(f)

\* The frame that was made is the one on file.
LEMMA InitFrame == Init => FrameInv
BY DEF Init, FrameInv

\* Each step of a frame's way changes what it may change.
LEMMA NextFrame == FrameInv /\ [Next]_vars => FrameInv'
<1> SUFFICES ASSUME FrameInv, [Next]_vars, show = "video" PROVE FrameInv'
  BY DEF Next, vars, given, MakeLine, TakeFrame, StartRound, DrawNextFigure, StartTitle,
         DrawNextChar, EndRound, NextRound, FrameInv
<1>1. PICK f \in Frames : dots = DotsOf(f) /\ picture = IF stage = "file" THEN f ELSE Line(f)
  BY DEF FrameInv
<1>2. UNCHANGED <<show, dots, redOnly>>
  BY DEF Next, vars, given, MakeLine, TakeFrame, StartRound, DrawNextFigure, StartTitle,
         DrawNextChar, EndRound, NextRound
<1>3. \A g : Line(g)' = Line(g)
  BY <1>2 DEF Line
<1>4. CASE MakeLine
  BY <1>1, <1>2, <1>3, <1>4 DEF MakeLine, FrameInv
<1>5. CASE TakeFrame
  <2>1. f \in Row
    BY ScreenAssumption DEF Row
  <2>2. picture' = Line(f) /\ stage' = "ready"
    BY <1>1, <1>5, <2>1, LineIsReceived DEF TakeFrame
  <2> QED
    BY <1>1, <1>2, <1>3, <2>2 DEF FrameInv
<1>6. CASE ~MakeLine /\ ~TakeFrame
  <2>1. picture' = picture /\ (stage' = "file" <=> stage = "file")
    BY <1>6 DEF Next, vars, given, StartRound, StartNumber, StartString, DrawNextFigure,
                StartTitle, DrawNextChar, EndRound, NextRound
  <2> QED
    BY <1>1, <1>2, <1>3, <2>1 DEF FrameInv
<1> QED
  BY <1>4, <1>5, <1>6

\* For any frames of a display of any width: what is drawn is the frame that was made,
\* except bytes that look like the end of a line, and green where only red was asked for
\* (videotest.pl, showScreen.pl, RadioEvent.cpp).
THEOREM FramesAreKept == Spec => []PictureIsKept
<1>1. FrameInv => PictureIsKept
  <2> SUFFICES ASSUME FrameInv, show = "video", stage \notin {"file", "line"}
               PROVE  DotsOf(picture) =
                        {p \in dots : /\ redOnly => p < XRES
                                      /\ {k \in 0 .. 7 : (p - (p % 8)) + k \in dots} # {4, 6}}
    BY DEF PictureIsKept
  <2>1. PICK f \in Frames : dots = DotsOf(f) /\ picture = Line(f)
    BY DEF FrameInv
  <2>2. f \in Row
    BY ScreenAssumption DEF Row
  <2> QED
    BY <2>1, <2>2, DotsOfLine
<1> QED
  BY <1>1, InitFrame, NextFrame, PTL DEF Spec

----------------------------------------------------------------------------
\* A character with the gap behind it takes two to six columns, and its dots are left of
\* the gap.
LEMMA SizeIs ==
  ASSUME NEW c \in Chars
  PROVE  /\ CharSize(c) \in 2 .. 6 /\ CharWidth(c) = CharSize(c)
         /\ InRow[c] \subseteq 0 .. 4 /\ \A k \in InRow[c] : k + 2 <= CharSize(c)
<1>1. PICK S : S = Columns[c] /\ S \subseteq 0 .. 4 /\ InRow[c] \subseteq S
  BY FontAssumption
<1>2. CASE S = {}
  BY <1>1, <1>2 DEF CharSize, CharWidth
<1>3. CASE S # {}
  <2>1. \E m \in S : \A k \in S : m >= k
    <3>1. CASE 4 \in S
      BY <1>1, <3>1
    <3>2. CASE 4 \notin S /\ 3 \in S
      BY <1>1, <3>2
    <3>3. CASE 4 \notin S /\ 3 \notin S /\ 2 \in S
      BY <1>1, <3>3
    <3>4. CASE 4 \notin S /\ 3 \notin S /\ 2 \notin S /\ 1 \in S
      BY <1>1, <3>4
    <3>5. CASE 4 \notin S /\ 3 \notin S /\ 2 \notin S /\ 1 \notin S
      BY <1>1, <1>3, <3>5
    <3> QED
      BY <3>1, <3>2, <3>3, <3>4, <3>5
  <2>2. PICK m : m = Max(S) /\ m \in S /\ \A k \in S : m >= k
    BY <2>1 DEF Max
  <2>3. CharSize(c) = m + 2
    BY <1>1, <1>3, <2>2 DEF CharSize
  <2>4. m \in 0 .. 4 /\ \A k \in S : k \in 0 .. 4 /\ k + 2 <= m + 2
    BY <1>1, <2>2
  <2> QED
    BY <1>1, <2>3, <2>4 DEF CharWidth
<1> QED
  BY <1>2, <1>3

\* A character takes its columns and one more.
LEMMA WidthIs ==
  ASSUME NEW c
  PROVE  CharWidth(c) \in 2 .. 6
BY SizeIs DEF CharWidth

\* Where each character of a text ends.
LEMMA ReachIs ==
  ASSUME NEW s, Len(s) \in Nat
  PROVE  /\ Reach(s)[0] = 0
         /\ \A n \in 1 .. Len(s) : Reach(s)[n] = Reach(s)[n - 1] + CharWidth(s[n])
         /\ \A n \in 0 .. Len(s) : Reach(s)[n] \in Nat
<1>1. PICK N \in Nat : N = Len(s)
  OBVIOUS
<1> DEFINE step == [n \in 1 .. N |-> [w \in Nat |-> w + CharWidth(s[n])]]
<1>2. step \in [1 .. N -> [Nat -> Nat]]
  <2>1. ASSUME NEW n \in 1 .. N, NEW w \in Nat PROVE w + CharWidth(s[n]) \in Nat
    <3>1. CharWidth(s[n]) \in Nat
      BY WidthIs
    <3> QED
      BY <3>1
  <2> QED
    BY <2>1
<1>3. PICK g \in [0 .. N -> Nat] : Recurs(g, N, 0, step)
  <2> HIDE DEF step
  <2> QED
    BY ONLY <1>1, <1>2, FiniteRecursion
<1> DEFINE Loop(l) == l = [n \in 0 .. N |-> IF n = 0 THEN 0 ELSE l[n - 1] + CharWidth(s[n])]
<1>4. Loop(g)
  <2>1. ASSUME NEW n \in 0 .. N
        PROVE  g[n] = IF n = 0 THEN 0 ELSE g[n - 1] + CharWidth(s[n])
    <3>1. CASE n = 0
      BY <1>3, <3>1 DEF Recurs
    <3>2. CASE n # 0
      <4>1. n \in 1 .. N /\ n - 1 \in 0 .. N
        BY <3>2
      <4>2. g[n] = step[n][g[n - 1]] /\ g[n - 1] \in Nat
        BY <1>3, <4>1 DEF Recurs
      <4> QED
        BY <3>2, <4>1, <4>2
    <3> QED
      BY <3>1, <3>2
  <2>2. g = [n \in 0 .. N |-> g[n]]
    BY <1>3
  <2> QED
    BY <2>1, <2>2
<1>5. PICK l : l = Reach(s)
  OBVIOUS
<1>6. Loop(l)
  <2>1. l = CHOOSE k : Loop(k)
    BY <1>1, <1>5 DEF Reach
  <2> HIDE DEF Loop
  <2> QED
    BY <1>4, <2>1
<1>7. l[0] = 0
  <2>1. 0 \in 0 .. N
    OBVIOUS
  <2> QED
    BY <1>6, <2>1
<1>8. ASSUME NEW n \in 1 .. N PROVE l[n] = l[n - 1] + CharWidth(s[n])
  <2>1. n \in 0 .. N /\ n # 0
    OBVIOUS
  <2> QED
    BY <1>6, <2>1
<1>9. \A n \in 0 .. N : l[n] \in Nat
  <2> DEFINE T == {n \in Nat : l[n] \in Nat}
  <2>1. 0 \in T
    BY <1>7
  <2>2. ASSUME NEW n \in 0 .. N, n \in T, n < N PROVE n + 1 \in T
    <3>1. n + 1 \in 1 .. N /\ (n + 1) - 1 = n
      BY <2>2
    <3>2. l[n + 1] = l[n] + CharWidth(s[n + 1])
      <4> HIDE DEF Loop
      <4> QED
        BY <1>8, <3>1
    <3>3. CharWidth(s[n + 1]) \in Nat
      BY WidthIs
    <3> QED
      BY <2>2, <3>2, <3>3
  <2>3. 0 \in Nat /\ N \in Nat
    OBVIOUS
  <2>4. \A n \in 0 .. N : n \in T
    <3> HIDE DEF T
    <3> QED
      BY ONLY <2>1, <2>2, <2>3, IntervalInduction
  <2> QED
    BY <2>4
<1> HIDE DEF Loop
<1> QED
  BY <1>1, <1>5, <1>7, <1>8, <1>9

\* A later character ends further right.
LEMMA ReachGrows ==
  ASSUME NEW s, Len(s) \in Nat, NEW m \in 0 .. Len(s)
  PROVE  \A n \in m .. Len(s) : Reach(s)[m] <= Reach(s)[n]
<1>1. PICK N \in Nat : N = Len(s)
  OBVIOUS
<1>2. PICK r : r = Reach(s)
  OBVIOUS
<1>3. /\ \A n \in 1 .. N : r[n] = r[n - 1] + CharWidth(s[n])
      /\ \A n \in 0 .. N : r[n] \in Nat
  BY <1>1, <1>2, ReachIs
<1> DEFINE T == {n \in Nat : r[m] <= r[n]}
<1>4. m \in T
  <2>1. m \in Nat /\ r[m] \in Nat
    BY <1>1, <1>3
  <2> QED
    BY <2>1
<1>5. ASSUME NEW n \in m .. N, n \in T, n < N PROVE n + 1 \in T
  <2>1. n + 1 \in 1 .. N /\ (n + 1) - 1 = n /\ n \in 0 .. N /\ m \in 0 .. N /\ n + 1 \in 0 .. N
    BY <1>1, <1>5
  <2>2. r[n + 1] = r[n] + CharWidth(s[n + 1])
    BY <1>3, <2>1
  <2>3. PICK w \in Nat : w = CharWidth(s[n + 1])
    BY WidthIs
  <2>4. PICK a \in Nat, b \in Nat : a = r[m] /\ b = r[n] /\ a <= b
    BY <1>3, <1>5, <2>1
  <2> QED
    BY <2>1, <2>2, <2>3, <2>4
<1>6. m \in Nat /\ N \in Nat
  BY <1>1
<1>7. \A n \in m .. N : n \in T
  <2> HIDE DEF T
  <2> QED
    BY ONLY <1>4, <1>5, <1>6, IntervalInduction
<1> QED
  BY <1>1, <1>2, <1>7

----------------------------------------------------------------------------
\* What is left of a text after its first n characters.
Rest(s, n) == SubSeq(s, n + 1, Len(s))

\* What is left after some characters begins with the next.
LEMMA RestIs ==
  ASSUME NEW S, NEW s \in Seq(S), NEW n \in 0 .. Len(s)
  PROVE  /\ Rest(s, 0) = s
         /\ Rest(s, n) = <<>> <=> n = Len(s)
         /\ n < Len(s) => /\ Head(Rest(s, n)) = s[n + 1] /\ s[n + 1] \in S
                          /\ Tail(Rest(s, n)) = Rest(s, n + 1) /\ n + 1 \in 0 .. Len(s)
<1>1. PICK N \in Nat : N = Len(s) /\ \A i \in 1 .. N : s[i] \in S
  BY LenProperties, ElementOfSeq
<1>2. \A m \in 0 .. N : /\ Rest(s, m) \in Seq(S) /\ Len(Rest(s, m)) = N - m
                        /\ \A i \in 1 .. N - m : Rest(s, m)[i] = s[m + i]
  <2> SUFFICES ASSUME NEW m \in 0 .. N
               PROVE  /\ Rest(s, m) \in Seq(S) /\ Len(Rest(s, m)) = N - m
                      /\ \A i \in 1 .. N - m : Rest(s, m)[i] = s[m + i]
    OBVIOUS
  <2>1. PICK k \in Nat : k = m + 1
    OBVIOUS
  <2>2. PICK r : r = SubSeq(s, k, N)
    OBVIOUS
  <2>3. \A i \in k .. N : s[i] \in S
    BY <1>1, <2>1
  <2>4. /\ r \in Seq(S) /\ Len(r) = IF k <= N THEN N - k + 1 ELSE 0
        /\ \A i \in 1 .. N - k + 1 : r[i] = s[k + i - 1]
    BY <2>2, <2>3, SubSeqProperties
  <2>5. Len(r) = N - m
    BY <2>1, <2>4
  <2>6. \A i \in 1 .. N - m : i \in 1 .. N - k + 1 /\ k + i - 1 = m + i
    BY <2>1
  <2>7. r = Rest(s, m)
    BY <1>1, <2>1, <2>2 DEF Rest
  <2> QED
    BY <2>4, <2>5, <2>6, <2>7
<1>3. Rest(s, 0) = s
  <2>1. PICK r : r = Rest(s, 0)
    OBVIOUS
  <2>2. 0 \in 0 .. N /\ N - 0 = N
    OBVIOUS
  <2>3. r \in Seq(S) /\ Len(r) = N /\ \A i \in 1 .. N : r[i] = s[0 + i]
    BY <1>2, <2>1, <2>2
  <2>4. \A i \in 1 .. N : r[i] = s[i]
    BY <2>3
  <2> QED
    BY <1>1, <2>1, <2>3, <2>4, SeqEqual
<1>4. n \in 0 .. N /\ Rest(s, n) \in Seq(S) /\ Len(Rest(s, n)) = N - n
  BY <1>1, <1>2
<1>5. Rest(s, n) = <<>> <=> n = N
  BY <1>4, EmptySeq
<1>6. ASSUME n < N
      PROVE  /\ Head(Rest(s, n)) = s[n + 1] /\ s[n + 1] \in S
             /\ Tail(Rest(s, n)) = Rest(s, n + 1) /\ n + 1 \in 0 .. N
  <2>1. n + 1 \in 0 .. N /\ n + 1 \in 1 .. N /\ 1 \in 1 .. N - n
    BY <1>4, <1>6
  <2>2. PICK r : r = Rest(s, n) /\ r # <<>> /\ r \in Seq(S) /\ Len(r) = N - n
                 /\ \A i \in 1 .. N - n : r[i] = s[n + i]
    BY <1>2, <1>4, <1>5, <1>6
  <2>3. Head(r) = s[n + 1]
    BY <2>1, <2>2
  <2>4. PICK t : t = Tail(r) /\ t \in Seq(S) /\ Len(t) = (N - n) - 1
                 /\ \A i \in 1 .. Len(t) : t[i] = r[i + 1]
    <3>1. PICK t : t = Tail(r)
      OBVIOUS
    <3>2. t \in Seq(S) /\ Len(t) = Len(r) - 1 /\ \A i \in 1 .. Len(t) : t[i] = r[i + 1]
      BY <2>2, <3>1, HeadTailProperties
    <3> QED
      BY <2>2, <3>1, <3>2
  <2>5. PICK u : u = Rest(s, n + 1) /\ u \in Seq(S) /\ Len(u) = N - (n + 1)
                 /\ \A i \in 1 .. N - (n + 1) : u[i] = s[(n + 1) + i]
    BY <1>2, <2>1
  <2>6. Len(t) = Len(u)
    BY <1>4, <2>4, <2>5
  <2>7. ASSUME NEW i \in 1 .. Len(t) PROVE t[i] = u[i]
    <3>1. i \in 1 .. N - (n + 1) /\ i + 1 \in 1 .. N - n /\ n + (i + 1) = (n + 1) + i
      BY <1>4, <2>4
    <3> QED
      BY <2>2, <2>4, <2>5, <3>1
  <2>8. t = u
    BY <2>4, <2>5, <2>6, <2>7, SeqEqual
  <2> QED
    BY <1>1, <2>1, <2>2, <2>3, <2>4, <2>5, <2>8
<1> QED
  BY <1>1, <1>3, <1>4, <1>5, <1>6

----------------------------------------------------------------------------
\* The dots of a character at x.
DotsAt(c, x) == {x + k : k \in InRow[c]}

\* Both ways draw what of a character is between the borders.
LEMMA CharIsDrawn ==
  ASSUME NEW c \in Chars, NEW x \in Int, NEW hue, NEW from \in Nat, NEW to, to = XRES - 1
  PROVE  DrawChar(c, x, hue, from, to) = Paint(hue, DotsAt(c, x) \cap (from .. to))
<1>1. PICK size \in 2 .. 6 : /\ size = CharSize(c)
                             /\ \A k \in InRow[c] : k \in 0 .. 4 /\ k + 2 <= size
  BY SizeIs
<1>2. PICK h \in Nat : XRES = 8 * h
  BY FontAssumption
<1>3. to \in Int /\ to = 8 * h - 1
  BY <1>2
<1>4. CASE x > to \/ x < from - size
  <2>1. DrawChar(c, x, hue, from, to) = {}
    BY <1>1, <1>4 DEF DrawChar
  <2>2. DotsAt(c, x) \cap (from .. to) = {}
    <3>1. ASSUME NEW k \in InRow[c] PROVE x + k \notin from .. to
      BY <1>1, <1>3, <1>4
    <3> QED
      BY <3>1 DEF DotsAt
  <2> QED
    BY <2>1, <2>2 DEF Paint
<1>5. CASE ~(x > to \/ x < from - size) /\ x > from /\ x < to - size
  <2>1. DrawChar(c, x, hue, from, to) = Bytes(c, x, hue)
    BY <1>1, <1>5 DEF DrawChar, Inside
  <2>2. PICK r \in 0 .. 7 : r = x % 8
    BY <1>5
  <2>3. DotsAt(c, x) \cap (from .. to) = DotsAt(c, x)
    <3>1. ASSUME NEW k \in InRow[c] PROVE x + k \in from .. to
      BY <1>1, <1>3, <1>5
    <3> QED
      BY <3>1 DEF DotsAt
  <2>4. PICK first : first = {x + k : k \in {k \in InRow[c] : r + k < 8}}
    OBVIOUS
  <2>5. PICK second : second = {x + k : k \in {k \in InRow[c] : r + k >= 8}}
    OBVIOUS
  <2>6. Bytes(c, x, hue) = Paint(hue, IF x < XRES - 8 THEN first \cup second ELSE first)
    BY <2>2, <2>4, <2>5 DEF Bytes, Paint
  <2>7. first \cup second = DotsAt(c, x)
    <3>1. \A k \in InRow[c] : r + k < 8 \/ r + k >= 8
      BY <1>1, <2>2
    <3> QED
      BY <2>4, <2>5, <3>1 DEF DotsAt
  <2>8. CASE ~(x < XRES - 8)
    <3>1. ASSUME NEW k \in InRow[c] PROVE r + k < 8
      <4>1. x >= 8 * h - 8 /\ x < 8 * h /\ h > 0
        BY <1>2, <1>3, <1>5, <2>8
      <4>2. x = 8 * (h - 1) + r
        <5>1. PICK q \in Nat : q = x \div 8 /\ x = 8 * q + r
          BY <1>5, <2>2
        <5>2. q = h - 1
          BY <4>1, <5>1
        <5> QED
          BY <5>1, <5>2
      <4> QED
        BY <1>1, <1>3, <1>5, <4>1, <4>2
    <3>2. first = DotsAt(c, x)
      BY <2>4, <3>1 DEF DotsAt
    <3> QED
      BY <2>1, <2>3, <2>6, <2>8, <3>2
  <2> QED
    BY <2>1, <2>3, <2>6, <2>7, <2>8
<1>6. CASE ~(x > to \/ x < from - size) /\ ~(x > from /\ x < to - size)
  <2>1. DrawChar(c, x, hue, from, to) = Dots(c, x, hue, from, to)
    BY <1>1, <1>6 DEF DrawChar, Inside
  <2>2. \A k \in InRow[c] : k < size
    BY <1>1
  <2>3. PICK near : near = {k \in InRow[c] : x + k \in from .. to}
    OBVIOUS
  <2>4. Dots(c, x, hue, from, to) = UNION {Plot(x + k, hue) : k \in near}
    BY <1>1, <2>2, <2>3 DEF Dots
  <2>5. \A k \in near : Plot(x + k, hue) = {half + (x + k) : half \in hue}
    <3>1. \A k \in near : x + k \in 0 .. XRES - 1
      BY <1>2, <1>3, <2>3
    <3> QED
      BY <3>1 DEF Plot
  <2>6. DotsAt(c, x) \cap (from .. to) = {x + k : k \in near}
    BY <2>3 DEF DotsAt
  <2>7. UNION {Plot(x + k, hue) : k \in near} = Paint(hue, {x + k : k \in near})
    BY <2>5 DEF Paint
  <2> QED
    BY <2>1, <2>4, <2>6, <2>7
<1> QED
  BY <1>4, <1>5, <1>6

\* A figure is drawn within the display; a bar is not, in the last row.
LEMMA FigureIsDrawn ==
  ASSUME NEW c \in Chars, NEW x \in Nat, NEW hue, NEW last \in BOOLEAN
  PROVE  DrawFigure(c, x, hue, last) =
           IF c = "bar" /\ last THEN {} ELSE Paint(hue, DotsAt(c, x) \cap (0 .. XRES - 1))
<1>1. CASE c # "bar"
  BY <1>1, CharIsDrawn DEF DrawFigure
<1>2. CASE c = "bar" /\ last
  BY <1>2 DEF DrawFigure
<1>3. CASE c = "bar" /\ ~last
  <2>1. DrawFigure(c, x, hue, last) = Plot(x, hue)
    BY <1>3 DEF DrawFigure
  <2>2. DotsAt(c, x) = {x}
    BY <1>3, FigureAssumption DEF DotsAt
  <2>3. CASE x \in 0 .. XRES - 1
    <3>1. Plot(x, hue) = {half + x : half \in hue}
      BY <2>3 DEF Plot
    <3>2. DotsAt(c, x) \cap (0 .. XRES - 1) = {x}
      BY <2>2, <2>3
    <3> QED
      BY <1>3, <2>1, <3>1, <3>2 DEF Paint
  <2>4. CASE x \notin 0 .. XRES - 1
    <3>1. DotsAt(c, x) \cap (0 .. XRES - 1) = {}
      BY <2>2, <2>4
    <3>2. Plot(x, hue) = {}
      BY <2>4 DEF Plot
    <3> QED
      BY <1>3, <2>1, <3>1, <3>2 DEF Paint
  <2> QED
    BY <2>3, <2>4
<1> QED
  BY <1>1, <1>2, <1>3

\* showProgressBar() draws as many dots as it is meant to.
LEMMA BarIsDrawn ==
  ASSUME NEW p \in 0 .. XRES - 1
  PROVE  Bar(p) = {XRES + x : x \in 0 .. p - 1}
<1>1. CASE p = 0
  BY <1>1 DEF Bar
<1>2. CASE p # 0
  <2>1. PICK w \in Nat : w = XRES /\ p \in 1 .. w - 1
    BY <1>2, FontAssumption
  <2>2. PICK q \in Nat : q = 8 * (p \div 8) /\ q <= p
    BY <2>1
  <2>3. PICK r \in Nat : r = p % 8 /\ q + r = p
    BY <2>1, <2>2
  <2> DEFINE Dotted(m, n) == UNION {Plot(m + x, {Green}) : x \in 0 .. n - 1}
             Filled(n)    == {Green + x : x \in 0 .. n - 1}
             Most         == UNION {Plot(x, {Green}) : x \in 0 .. p - 1}
             Meant        == {w + x : x \in 0 .. p - 1}
  <2>4. Bar(p) = Most \cup Filled(8 * (p \div 8)) \cup Dotted(8 * (p \div 8), p % 8)
    <3>1. p \in 1 .. XRES - 1
      BY <2>1
    <3> QED
      BY <3>1, Zenon DEF Bar
  <2>5. \A x \in 0 .. p - 1 : Plot(x, {Green}) = {w + x}
    BY <2>1 DEF Plot, Green
  <2>6. Dotted(q, r) \subseteq Meant
    <3>1. ASSUME NEW x \in 0 .. r - 1 PROVE Plot(q + x, {Green}) \subseteq Meant
      <4>1. PICK y \in 0 .. p - 1 : y = q + x
        BY <2>2, <2>3
      <4>2. Plot(y, {Green}) = {w + y}
        BY <2>5
      <4> QED
        BY <4>1, <4>2
    <3> QED
      BY <3>1
  <2>7. Filled(q) \subseteq Meant
    <3>1. \A x \in 0 .. q - 1 : x \in 0 .. p - 1
      BY <2>1, <2>2
    <3> QED
      BY <2>1, <3>1 DEF Green
  <2>8. Most = Meant
    BY <2>5
  <2> HIDE DEF Dotted, Filled, Most, Meant
  <2>9. Filled(8 * (p \div 8)) = Filled(q) /\ Dotted(8 * (p \div 8), p % 8) = Dotted(q, r)
    <3>1. 8 * (p \div 8) = q /\ p % 8 = r
      BY <2>2, <2>3
    <3> QED
      BY ONLY <3>1, Zenon
  <2>10. Bar(p) = Meant
    BY <2>4, <2>6, <2>7, <2>8, <2>9
  <2> QED
    BY <2>1, <2>10, Zenon DEF Meant
<1> QED
  BY <1>1, <1>2

\* An event that has begun and is not over has a bar shorter than the display.
LEMMA ProgressFits ==
  ASSUME NEW passed \in Nat, NEW whole \in Nat, passed < whole
  PROVE  Progress(passed, whole) \in 0 .. XRES - 1
<1>1. PICK w \in Nat : w = XRES /\ w > 0
  BY FontAssumption
<1>2. PICK n \in Nat : n = w * passed
  OBVIOUS
<1>3. n < w * whole
  BY <1>1, <1>2
<1>4. PICK q \in Nat : q = n \div whole /\ whole * q <= n
  BY <1>2
<1>5. q < w
  <2> SUFFICES ASSUME q >= w PROVE FALSE
    BY <1>1, <1>4
  <2>1. whole * q >= whole * w
    BY <1>1, <1>4
  <2> QED
    BY <1>1, <1>2, <1>3, <1>4, <2>1
<1>6. Progress(passed, whole) = q
  BY <1>1, <1>2, <1>4 DEF Progress
<1> QED
  BY <1>1, <1>4, <1>5, <1>6

----------------------------------------------------------------------------
\* Numbers, durations and times of day are written in characters of the font.
LEMMA FigureIs ==
  ASSUME NEW n \in 0 .. 9, NEW align \in BOOLEAN
  PROVE  Figure(n, align) \in Chars
<1>1. n + 1 \in 1 .. 10
  OBVIOUS
<1>2. Digit[n + 1] \in Chars /\ "bar" \in Chars
  BY <1>1, FigureAssumption
<1> QED
  BY <1>2 DEF Figure

\* A number is made of characters of the font.
LEMMA NumberIs ==
  ASSUME NEW n \in Nat, NEW leadingZero \in BOOLEAN, NEW align \in BOOLEAN
  PROVE  Number(n, leadingZero, align) \in Seq(Chars)
<1>1. CASE n >= 100
  BY <1>1 DEF Number
<1>2. CASE n < 100
  <2>1. PICK a \in 0 .. 9, b \in 0 .. 9 : a = n \div 10 /\ b = n % 10
    BY <1>2
  <2>2. Figure(a, align) \in Chars /\ Figure(b, align) \in Chars
    BY FigureIs
  <2>3. "0" \in Chars
    BY FigureAssumption DEF Digit
  <2>4. << Figure(a, align) >> \in Seq(Chars) /\ << Figure(b, align) >> \in Seq(Chars)
        /\ << "0" >> \in Seq(Chars) /\ <<>> \in Seq(Chars)
    BY <2>2, <2>3
  <2>5. PICK front \in Seq(Chars) :
          front = IF n >= 10 THEN << Figure(a, align) >> ELSE IF leadingZero THEN << "0" >> ELSE <<>>
    BY <2>4
  <2>6. Number(n, leadingZero, align) = front \o << Figure(b, align) >>
    BY <1>2, <2>1, <2>5 DEF Number
  <2> QED
    BY <2>4, <2>5, <2>6, ConcatProperties
<1> QED
  BY <1>1, <1>2

\* So is a time of day.
LEMMA ClockIs ==
  ASSUME NEW t \in Nat
  PROVE  /\ Days(t) \in 0 .. 255 /\ Hours(t) \in 0 .. 23 /\ Minutes(t) \in 0 .. 59
         /\ t % 60 \in 0 .. 59
BY DEF Days, Hours, Minutes

\* And a duration.
LEMMA DurationIs ==
  ASSUME NEW t \in Nat
  PROVE  Duration(t) \in Seq(Chars) /\ TimeOfDay(t) \in Seq(Chars)
<1>1. PICK d \in Nat, h \in Nat, m \in Nat, s \in Nat :
        d = Days(t) /\ h = Hours(t) /\ m = Minutes(t) /\ s = t % 60
  <2>1. Days(t) \in Nat /\ Hours(t) \in Nat /\ Minutes(t) \in Nat /\ t % 60 \in Nat
    BY ClockIs
  <2> QED
    BY <2>1
<1>2. \A n \in Nat : \A z \in BOOLEAN, a \in BOOLEAN : Number(n, z, a) \in Seq(Chars)
  BY NumberIs
<1>3. <<"T">> \in Seq(Chars) /\ <<":">> \in Seq(Chars) /\ <<>> \in Seq(Chars)
  BY FigureAssumption
<1>4. \A a \in Seq(Chars), b \in Seq(Chars) : a \o b \in Seq(Chars)
  BY ConcatProperties
<1>5. TimeOfDay(t) \in Seq(Chars)
  <2>1. PICK a \in Seq(Chars), b \in Seq(Chars), c \in Seq(Chars), e \in Seq(Chars) :
          /\ a = Number(h, TRUE, FALSE) /\ b = Number(m, TRUE, FALSE)
          /\ c = Number(s, TRUE, FALSE) /\ e = <<":">>
    BY <1>2, <1>3
  <2>2. TimeOfDay(t) = a \o e \o b \o e \o c
    BY <1>1, <2>1 DEF TimeOfDay
  <2> QED
    BY <1>4, <2>2
<1>6. Duration(t) \in Seq(Chars)
  <2>1. PICK a \in Seq(Chars) : a = IF d > 0 THEN Number(d, FALSE, TRUE) \o <<"T">> ELSE <<>>
    BY <1>2, <1>3, <1>4
  <2>2. PICK b \in Seq(Chars) :
          b = IF d > 0 \/ h > 0 THEN Number(h, TRUE, TRUE) \o <<":">> ELSE <<>>
    BY <1>2, <1>3, <1>4
  <2>3. PICK c \in Seq(Chars) :
          c = IF d > 0 \/ h > 0 \/ m > 0 THEN Number(m, TRUE, TRUE) \o <<":">> ELSE <<>>
    BY <1>2, <1>3, <1>4
  <2>4. PICK e \in Seq(Chars) : e = Number(s, TRUE, FALSE)
    BY <1>2
  <2>5. Duration(t) = a \o b \o c \o e
    BY <1>1, <2>1, <2>2, <2>3, <2>4 DEF Duration
  <2> QED
    BY <1>4, <2>5
<1> QED
  BY <1>5, <1>6

----------------------------------------------------------------------------
\* The dots of some of the characters of a text that begins at b.
Marks(s, b, J) == UNION {DotsAt(s[i], Place(s, b, i)) : i \in J}

\* A character more is drawn.
LEMMA MarksGrow ==
  ASSUME NEW s, NEW b, NEW J, NEW i
  PROVE  Marks(s, b, J \cup {i}) = Marks(s, b, J) \cup DotsAt(s[i], Place(s, b, i))
BY DEF Marks

\* Painting one set of dots after the other paints both.
LEMMA PaintJoins ==
  ASSUME NEW hue, NEW D, NEW E
  PROVE  Paint(hue, D \cup E) = Paint(hue, D) \cup Paint(hue, E)
BY DEF Paint

\* n characters of a text have been drawn: what is left, and where it goes on.
At(s, n, r, p, b) == n \in 0 .. Len(s) /\ r = Rest(s, n) /\ p = b + Reach(s)[n]

\* A text that begins.
LEMMA AtStart ==
  ASSUME NEW S, NEW s \in Seq(S), NEW b \in Int
  PROVE  At(s, 0, s, b, b)
<1>1. Len(s) \in Nat
  BY LenProperties
<1>2. 0 \in 0 .. Len(s) /\ Reach(s)[0] = 0 /\ Rest(s, 0) = s
  BY <1>1, ReachIs, RestIs
<1> QED
  BY <1>2 DEF At

\* A text one character later.
LEMMA AtNext ==
  ASSUME NEW s \in Seq(Chars \cup {Umlaut}), NEW n, NEW r, NEW p, NEW b \in Int,
         At(s, n, r, p, b), r # <<>>, Head(r) \in Chars
  PROVE  /\ n \in Nat /\ n + 1 \in 1 .. Len(s) /\ Head(r) = s[n + 1]
         /\ p = Place(s, b, n + 1) /\ p \in Int /\ (b \in Nat => p \in Nat)
         /\ At(s, n + 1, Tail(r), p + CharSize(Head(r)), b)
<1>1. PICK N \in Nat : N = Len(s)
  BY LenProperties
<1>2. n \in 0 .. N /\ r = Rest(s, n) /\ p = b + Reach(s)[n]
  BY <1>1 DEF At
<1>3. n < N /\ Head(r) = s[n + 1] /\ Tail(r) = Rest(s, n + 1)
  BY <1>1, <1>2, RestIs
<1>4. n + 1 \in 1 .. N /\ (n + 1) - 1 = n
  BY <1>2, <1>3
<1>5. Reach(s)[n + 1] = Reach(s)[n] + CharWidth(s[n + 1]) /\ Reach(s)[n] \in Nat
  BY <1>1, <1>2, <1>4, ReachIs
<1>6. CharWidth(s[n + 1]) = CharSize(Head(r)) /\ CharSize(Head(r)) \in Nat
  BY <1>3, SizeIs
<1>7. p + CharSize(Head(r)) = b + Reach(s)[n + 1]
  BY <1>2, <1>5, <1>6
<1> QED
  BY <1>1, <1>2, <1>3, <1>4, <1>5, <1>7 DEF At, Place

\* The character that comes next.
LEMMA AtChar ==
  ASSUME NEW S, NEW s \in Seq(S), NEW n, NEW r, NEW p, NEW b, At(s, n, r, p, b), r # <<>>
  PROVE  Head(r) \in S
<1>1. PICK N \in Nat : N = Len(s)
  BY LenProperties
<1>2. n \in 0 .. N /\ r = Rest(s, n)
  BY <1>1 DEF At
<1>3. n < N
  BY <1>1, <1>2, RestIs
<1> QED
  BY <1>1, <1>2, <1>3, RestIs

\* A text that is over.
LEMMA AtEnd ==
  ASSUME NEW S, NEW s \in Seq(S), NEW n, NEW p, NEW b, At(s, n, <<>>, p, b)
  PROVE  n = Len(s) /\ p = b + StringSize(s)
<1>1. n \in 0 .. Len(s) /\ Rest(s, n) = <<>> /\ p = b + Reach(s)[n]
  BY DEF At
<1>2. n = Len(s)
  BY <1>1, RestIs
<1> QED
  BY <1>1, <1>2 DEF StringSize

\* The columns of a text.
LEMMA StringSizeIs ==
  ASSUME NEW S, NEW s \in Seq(S)
  PROVE  StringSize(s) \in Nat
<1>1. PICK N \in Nat : N = Len(s)
  BY LenProperties
<1>2. N \in 0 .. N
  OBVIOUS
<1> QED
  BY <1>1, <1>2, ReachIs DEF StringSize

----------------------------------------------------------------------------
\* What the picture consists of, for a choice of what is drawn.
Kinds             == Events \cup {"scrolled", "centred", "video", "time"}
FiguresOf(how, t) == IF how \in Events THEN Duration(t)
                     ELSE IF how \in {"video", "time"} THEN TimeOfDay(t) ELSE <<>>
HasText(how, t)    == how \in {"scrolled", "centred"} \/ (how \in Events /\ t > BlinkTime)
Ground(how, t, image) == IF how \in Events /\ t % 2 = 1 /\ t <= BlinkTime THEN Background
                         ELSE IF how = "video" THEN DotsOf(image) ELSE {}
BarOf(how, t, last)   == IF last /\ how = "running" /\ t > BlinkTime /\ t < Length
                         THEN {XRES + x : x \in 0 .. ((XRES * (Length - t)) \div Length) - 1} ELSE {}

\* The dots of the first n figures, and of the first n characters of a title.
Numbers(cells, b, last, n) ==
  Marks(cells, b, {i \in 1 .. n : ~(cells[i] = "bar" /\ last)}) \cap (0 .. XRES - 1)
Letters(s, b, n, from, to) == Marks(s, b, 1 .. n) \cap (from .. to)

AllNumbers(how, t, b, last) == Numbers(FiguresOf(how, t), b, last, Len(FiguresOf(how, t)))

\* Where a title or a message begins, and its left border.
Behind(t) == StringSize(Duration(t)) + 2
Placed(how, s, t, now, from, b) ==
  CASE how = "scrolled" -> from = 0 /\ b = XRES - (now % ScrollRange(s))
    [] how = "centred"  -> from = 0 /\ b = Centre(s)
    [] OTHER            -> IF StringSize(s) > XRES - Behind(t)
                           THEN /\ from = Behind(t)
                                /\ b = XRES - 1 - (now % (XRES - 1 - Behind(t) + StringSize(s)))
                           ELSE from = 0 /\ b = Behind(t)

GivenInv ==
  /\ show \in Kinds /\ string \in Seq(Chars \cup {Umlaut}) /\ seconds \in Nat
  /\ show \in Events => seconds \in Durations
  /\ lastRow \in BOOLEAN /\ turn \in Nat /\ begun \in [number : Nat, string : Int]

NumberInv ==
  stage = "number" =>
    /\ show \in Events \cup {"video", "time"}
    /\ left = 0 /\ right = XRES - 1 /\ (show \in Events => begun.number = 0)
    /\ \E n : /\ At(FiguresOf(show, seconds), n, rest, pos, begun.number)
              /\ lit = Ground(show, seconds, picture)
                       \cup Paint(colour, Numbers(FiguresOf(show, seconds), begun.number, lastRow, n))

TextInv ==
  stage = "string" \/ (stage = "done" /\ HasText(show, seconds)) =>
    /\ HasText(show, seconds) /\ right = XRES - 1 /\ left \in Nat
    /\ Placed(show, string, seconds, turn, left, begun.string)
    /\ stage = "done" => ~GoesOn
    /\ \E n : /\ At(string, n, rest, pos, begun.string)
              /\ \A i \in 1 .. n : string[i] \in Chars /\ Place(string, begun.string, i) < right
              /\ lit = Ground(show, seconds, picture)
                       \cup (IF stage = "done" THEN BarOf(show, seconds, lastRow) ELSE {})
                       \cup Paint(colour, AllNumbers(show, seconds, begun.number, lastRow)
                                          \cup Letters(string, begun.string, n, left, right))

DoneInv ==
  stage = "done" /\ ~HasText(show, seconds) =>
    lit = Ground(show, seconds, picture)
          \cup Paint(colour, AllNumbers(show, seconds, begun.number, lastRow))

ScreenInv == GivenInv /\ NumberInv /\ TextInv /\ DoneInv

\* The picture of a number, one figure later.
LEMMA NumbersGrow ==
  ASSUME NEW cells, NEW b, NEW last \in BOOLEAN, NEW n \in Nat
  PROVE  Numbers(cells, b, last, n + 1) =
           Numbers(cells, b, last, n)
           \cup (IF cells[n + 1] = "bar" /\ last THEN {}
                 ELSE DotsAt(cells[n + 1], Place(cells, b, n + 1)) \cap (0 .. XRES - 1))
<1> DEFINE J == {i \in 1 .. n : ~(cells[i] = "bar" /\ last)}
           K == {i \in 1 .. n + 1 : ~(cells[i] = "bar" /\ last)}
<1>1. 1 .. n + 1 = (1 .. n) \cup {n + 1}
  OBVIOUS
<1>2. CASE cells[n + 1] = "bar" /\ last
  <2>1. K = J
    BY <1>1, <1>2
  <2> QED
    BY <1>2, <2>1 DEF Numbers
<1>3. CASE ~(cells[n + 1] = "bar" /\ last)
  <2>1. K = J \cup {n + 1}
    BY <1>1, <1>3
  <2>2. Marks(cells, b, K) = Marks(cells, b, J) \cup DotsAt(cells[n + 1], Place(cells, b, n + 1))
    <3> HIDE DEF J, K
    <3>1. Marks(cells, b, J \cup {n + 1})
            = Marks(cells, b, J) \cup DotsAt(cells[n + 1], Place(cells, b, n + 1))
      BY MarksGrow
    <3> QED
      BY <2>1, <3>1
  <2>3. /\ Numbers(cells, b, last, n + 1) = Marks(cells, b, K) \cap (0 .. XRES - 1)
        /\ Numbers(cells, b, last, n) = Marks(cells, b, J) \cap (0 .. XRES - 1)
    BY Zenon DEF Numbers
  <2> HIDE DEF J, K
  <2> QED
    BY <1>3, <2>2, <2>3
<1> QED
  BY <1>2, <1>3

\* The picture of a text, one character later.
LEMMA LettersGrow ==
  ASSUME NEW s, NEW b, NEW n \in Nat, NEW from, NEW to
  PROVE  Letters(s, b, n + 1, from, to) =
           Letters(s, b, n, from, to) \cup (DotsAt(s[n + 1], Place(s, b, n + 1)) \cap (from .. to))
<1>1. 1 .. n + 1 = (1 .. n) \cup {n + 1}
  OBVIOUS
<1>2. PICK J, K : J = 1 .. n /\ K = 1 .. n + 1 /\ K = J \cup {n + 1}
  BY <1>1
<1>3. Marks(s, b, K) = Marks(s, b, J) \cup DotsAt(s[n + 1], Place(s, b, n + 1))
  <2>1. Marks(s, b, J \cup {n + 1}) = Marks(s, b, J) \cup DotsAt(s[n + 1], Place(s, b, n + 1))
    BY MarksGrow
  <2> QED
    BY <1>2, <2>1
<1>4. /\ Letters(s, b, n + 1, from, to) = Marks(s, b, K) \cap (from .. to)
      /\ Letters(s, b, n, from, to) = Marks(s, b, J) \cap (from .. to)
  BY <1>2 DEF Letters
<1> QED
  BY <1>3, <1>4

\* Before its first character nothing is drawn of a text.
LEMMA NothingYet ==
  ASSUME NEW cells, NEW b, NEW last, NEW s, NEW at, NEW from, NEW to, NEW hue
  PROVE  /\ Numbers(cells, b, last, 0) = {} /\ Letters(s, at, 0, from, to) = {}
         /\ Paint(hue, {}) = {}
BY DEF Numbers, Letters, Marks, Paint

\* The sizes of the screen.
LEMMA ScreenIs ==
  XRES \in Nat /\ XRES > 16 /\ DatePos \in Nat /\ XRES - 1 \in Int
BY FontAssumption, ScreenAssumption

\* Whatever is shown, its figures are of the font.
LEMMA FiguresOfAre ==
  ASSUME NEW how, NEW t \in Nat
  PROVE  FiguresOf(how, t) \in Seq(Chars) /\ FiguresOf(how, t) \in Seq(Chars \cup {Umlaut})
<1>1. <<>> \in Seq(Chars)
  OBVIOUS
<1>2. FiguresOf(how, t) \in Seq(Chars)
  BY <1>1, DurationIs DEF FiguresOf
<1>3. Chars \subseteq Chars \cup {Umlaut}
  OBVIOUS
<1>4. \A s \in Seq(Chars) : s \in Seq(Chars \cup {Umlaut})
  <2> SUFFICES ASSUME NEW s \in Seq(Chars) PROVE s \in Seq(Chars \cup {Umlaut})
    OBVIOUS
  <2>1. PICK N \in Nat : N = Len(s) /\ s \in [1 .. N -> Chars]
    BY LenProperties
  <2>2. s \in [1 .. N -> Chars \cup {Umlaut}]
    BY <2>1
  <2> QED
    BY <2>1, <2>2, IsASeq
<1> QED
  BY <1>2, <1>4

\* ScreenInv holds at the start.
LEMMA InitScreen ==
  ASSUME Init
  PROVE  ScreenInv
<1>1. GivenInv
  <2>1. show \in Kinds
    BY DEF Init, Kinds, Events
  <2>2. string \in Seq(Chars \cup {Umlaut})
    <3>1. string \in Strings \/ string = <<>>
      BY DEF Init
    <3>2. <<>> \in Seq(Chars \cup {Umlaut})
      OBVIOUS
    <3> QED
      BY <3>1, <3>2, ScreenAssumption
  <2>3. seconds \in Nat /\ (show \in Events => seconds \in Durations)
    <3>1. CASE show \in Events \cup {"video", "time"}
      BY <3>1, ScreenAssumption DEF Init
    <3>2. CASE show \notin Events \cup {"video", "time"}
      BY <3>2 DEF Init
    <3> QED
      BY <3>1, <3>2
  <2>4. lastRow \in BOOLEAN /\ turn \in Nat /\ begun \in [number : Nat, string : Int]
    BY DEF Init
  <2> QED
    BY <2>1, <2>2, <2>3, <2>4 DEF GivenInv
<1>2. stage = "file"
  BY DEF Init
<1> QED
  BY <1>1, <1>2 DEF ScreenInv, NumberInv, TextInv, DoneInv

\* What is given does not change.
LEMMA GivenStays ==
  ASSUME GivenInv, given' = given, turn' \in Nat, begun' \in [number : Nat, string : Int]
  PROVE  GivenInv'
BY DEF GivenInv, given

\* A round that begins forgets the one before.
LEMMA NewRoundScreen ==
  ASSUME ScreenInv, MakeLine \/ TakeFrame \/ NextRound \/ UNCHANGED vars
  PROVE  ScreenInv'
<1>1. CASE MakeLine \/ TakeFrame
  <2>1. stage' \in {"line", "ready"} /\ given' = given /\ turn' = turn /\ begun' = begun
    BY <1>1 DEF MakeLine, TakeFrame, brush
  <2>2. GivenInv'
    BY <2>1, GivenStays DEF ScreenInv, GivenInv
  <2> QED
    BY <2>1, <2>2 DEF ScreenInv, NumberInv, TextInv, DoneInv
<1>2. CASE NextRound
  <2>1. stage' = "ready" /\ given' = given /\ turn' = turn + 1 /\ begun' = begun
    BY <1>2 DEF NextRound, brush
  <2>2. GivenInv'
    BY <2>1, GivenStays DEF ScreenInv, GivenInv
  <2> QED
    BY <2>1, <2>2 DEF ScreenInv, NumberInv, TextInv, DoneInv
<1>3. CASE UNCHANGED vars
  BY <1>3 DEF vars, given, brush, ScreenInv, GivenInv, NumberInv, TextInv, DoneInv, GoesOn
<1> QED
  BY <1>1, <1>2, <1>3

\* The ground, and the first text of a round.
LEMMA StartRoundScreen ==
  ASSUME ScreenInv, StartRound
  PROVE  ScreenInv'
<1>1. GivenInv /\ given' = given /\ turn' = turn /\ picture' = picture
  BY DEF ScreenInv, StartRound
<1>2. show' = show /\ string' = string /\ seconds' = seconds /\ lastRow' = lastRow
  BY <1>1 DEF given
<1>3. left' = 0 /\ right' = XRES - 1
  BY DEF StartRound, ResetBorder
<1>4. lit' = Ground(show, seconds, picture)
  BY DEF StartRound, Ground, Blinks
<1>5. show \in Kinds /\ string \in Seq(Chars \cup {Umlaut}) /\ seconds \in Nat /\ turn \in Nat
      /\ begun \in [number : Nat, string : Int]
  BY <1>1 DEF GivenInv
<1>6. FiguresOf(show, seconds) \in Seq(Chars)
  BY <1>5, FiguresOfAre
<1>7. ASSUME NEW at \in Nat, StartNumber(at, FiguresOf(show, seconds)),
             show \in Events \cup {"video", "time"}, show \in Events => at = 0
      PROVE  ScreenInv'
  <2>1. /\ stage' = "number" /\ rest' = FiguresOf(show, seconds) /\ pos' = at
        /\ begun' = [number |-> at, string |-> at]
    BY <1>7 DEF StartNumber
  <2>2. begun' \in [number : Nat, string : Int] /\ begun'.number = at
    BY <2>1
  <2>3. GivenInv'
    BY <1>1, <1>5, <2>2, GivenStays
  <2>4. At(FiguresOf(show, seconds), 0, rest', pos', at)
    BY <1>6, <2>1, AtStart
  <2>5. lit' = Ground(show, seconds, picture)
               \cup Paint(colour', Numbers(FiguresOf(show, seconds), at, lastRow, 0))
    <3>1. Paint(colour', Numbers(FiguresOf(show, seconds), at, lastRow, 0)) = {}
      BY NothingYet
    <3> QED
      BY <1>4, <3>1
  <2>6. NumberInv'
    <3>1. At(FiguresOf(show', seconds'), 0, rest', pos', begun'.number)
      BY <1>2, <2>2, <2>4
    <3>2. lit' = Ground(show', seconds', picture')
                 \cup Paint(colour', Numbers(FiguresOf(show', seconds'), begun'.number, lastRow', 0))
      BY <1>1, <1>2, <2>2, <2>5
    <3>3. show' \in Events \cup {"video", "time"} /\ (show' \in Events => begun'.number = 0)
      BY <1>2, <1>7, <2>2
    <3> QED
      BY <1>3, <3>1, <3>2, <3>3 DEF NumberInv
  <2> QED
    BY <2>1, <2>3, <2>6 DEF ScreenInv, TextInv, DoneInv
<1>8. ASSUME NEW at \in Int, StartString(at), show \in {"scrolled", "centred"},
             Placed(show, string, seconds, turn, 0, at)
      PROVE  ScreenInv'
  <2>1. /\ stage' = "string" /\ rest' = string /\ pos' = at
        /\ begun' = [begun EXCEPT !.string = at]
    BY <1>8 DEF StartString
  <2>2. begun' \in [number : Nat, string : Int] /\ begun'.string = at
    BY <1>5, <2>1
  <2>3. GivenInv'
    BY <1>1, <1>5, <2>2, GivenStays
  <2>4. At(string, 0, rest', pos', at)
    BY <1>5, <2>1, AtStart
  <2>5. AllNumbers(show, seconds, begun'.number, lastRow) = {}
    <3>1. FiguresOf(show, seconds) = <<>>
      BY <1>8 DEF FiguresOf, Events
    <3>2. Len(<<>>) = 0
      OBVIOUS
    <3> QED
      BY <3>1, <3>2, NothingYet DEF AllNumbers
  <2>6. Letters(string, at, 0, left', right') = {} /\ Paint(colour', {}) = {}
    BY NothingYet
  <2>7. lit' = Ground(show, seconds, picture) \cup {}
               \cup Paint(colour', AllNumbers(show, seconds, begun'.number, lastRow)
                                   \cup Letters(string, at, 0, left', right'))
    <3>1. PICK D : D = AllNumbers(show, seconds, begun'.number, lastRow)
                       \cup Letters(string, at, 0, left', right')
      OBVIOUS
    <3>2. D = {}
      BY <2>5, <2>6, <3>1
    <3>3. Paint(colour', D) = {}
      BY <2>6, <3>2
    <3> QED
      BY <1>4, <3>1, <3>3
  <2>8. TextInv'
    <3>1. HasText(show', seconds') /\ left' \in Nat
      BY <1>2, <1>3, <1>8 DEF HasText
    <3>2. Placed(show', string', seconds', turn', left', begun'.string)
      BY <1>1, <1>2, <1>3, <1>8, <2>2
    <3>3. At(string', 0, rest', pos', begun'.string)
      BY <1>2, <2>2, <2>4
    <3>4. \A i \in 1 .. 0 : string'[i] \in Chars /\ Place(string', begun'.string, i) < right'
      OBVIOUS
    <3>5. stage' # "done"
      BY <2>1
    <3>6. lit' = Ground(show', seconds', picture')
                 \cup (IF stage' = "done" THEN BarOf(show', seconds', lastRow') ELSE {})
                 \cup Paint(colour', AllNumbers(show', seconds', begun'.number, lastRow')
                                     \cup Letters(string', begun'.string, 0, left', right'))
      BY <1>1, <1>2, <2>2, <2>7, <3>5
    <3> QED
      BY <1>3, <3>1, <3>2, <3>3, <3>4, <3>5, <3>6 DEF TextInv
  <2> QED
    BY <2>1, <2>3, <2>8 DEF ScreenInv, NumberInv, DoneInv
<1>9. CASE show \in Events
  <2>1. StartNumber(0, Duration(seconds))
    BY <1>9 DEF StartRound, Events
  <2>2. FiguresOf(show, seconds) = Duration(seconds)
    BY <1>9 DEF FiguresOf
  <2> QED
    BY <1>7, <1>9, <2>1, <2>2
<1>10. CASE show \in {"video", "time"}
  <2>1. StartNumber(DatePos, TimeOfDay(seconds)) /\ show \notin Events
    BY <1>10 DEF StartRound, Events
  <2>2. FiguresOf(show, seconds) = TimeOfDay(seconds)
    BY <1>10, <2>1 DEF FiguresOf
  <2> QED
    BY <1>7, <1>10, <2>1, <2>2, ScreenIs
<1>11. PICK size \in Nat : size = StringSize(string)
  BY <1>5, StringSizeIs
<1>12. CASE show = "scrolled"
  <2>1. StartString(XRES - (turn % ScrollRange(string)))
    BY <1>12 DEF StartRound, Events
  <2>2. PICK at : at = XRES - (turn % ScrollRange(string))
    OBVIOUS
  <2>3. at \in Int
    <3>1. ScrollRange(string) = XRES + size
      BY <1>11 DEF ScrollRange
    <3>2. turn % (XRES + size) \in Nat
      BY <1>5, ScreenIs
    <3> QED
      BY <2>2, <3>1, <3>2, ScreenIs
  <2>4. Placed(show, string, seconds, turn, 0, at)
    BY <1>12, <2>2 DEF Placed
  <2> QED
    BY <1>8, <1>12, <2>1, <2>2, <2>3, <2>4
<1>13. CASE show = "centred"
  <2>1. StartString(Centre(string))
    BY <1>13 DEF StartRound, Events
  <2>2. Centre(string) \in Int
    <3>1. (XRES - size) \div 2 \in Int
      BY ScreenIs
    <3> QED
      BY <1>11, <3>1 DEF Centre
  <2>3. Placed(show, string, seconds, turn, 0, Centre(string))
    BY <1>13 DEF Placed
  <2> QED
    BY <1>8, <1>13, <2>1, <2>2, <2>3
<1> QED
  BY <1>5, <1>9, <1>10, <1>12, <1>13 DEF Kinds

\* A figure more.
LEMMA DrawNextFigureScreen ==
  ASSUME ScreenInv, DrawNextFigure
  PROVE  ScreenInv'
<1>1. GivenInv /\ given' = given /\ turn' = turn /\ picture' = picture /\ begun' = begun
      /\ left' = left /\ right' = right /\ colour' = colour /\ stage = "number" /\ stage' = stage
  BY DEF ScreenInv, DrawNextFigure
<1>2. show' = show /\ string' = string /\ seconds' = seconds /\ lastRow' = lastRow
  BY <1>1 DEF given
<1>3. PICK F : F = FiguresOf(show, seconds)
  OBVIOUS
<1>4. /\ show \in Events \cup {"video", "time"}
      /\ left = 0 /\ right = XRES - 1 /\ (show \in Events => begun.number = 0)
  BY <1>1 DEF ScreenInv, NumberInv
<1>5. PICK n : /\ At(F, n, rest, pos, begun.number)
               /\ lit = Ground(show, seconds, picture)
                        \cup Paint(colour, Numbers(F, begun.number, lastRow, n))
  BY <1>1, <1>3 DEF ScreenInv, NumberInv
<1>6. seconds \in Nat /\ begun.number \in Nat /\ lastRow \in BOOLEAN
      /\ turn \in Nat /\ begun \in [number : Nat, string : Int]
  BY <1>1 DEF GivenInv
<1>7. F \in Seq(Chars) /\ F \in Seq(Chars \cup {Umlaut})
  BY <1>3, <1>6, FiguresOfAre
<1>8. /\ rest # <<>> /\ pos' = pos + CharSize(Head(rest)) /\ rest' = Tail(rest)
      /\ lit' = lit \cup DrawFigure(Head(rest), pos, colour, lastRow)
  BY DEF DrawNextFigure
<1>9. PICK c : c = Head(rest) /\ c \in Chars
  BY <1>5, <1>7, <1>8, AtChar
<1>10. /\ n \in Nat /\ c = F[n + 1] /\ pos = Place(F, begun.number, n + 1) /\ pos \in Nat
       /\ At(F, n + 1, rest', pos', begun.number)
  <2>1. begun.number \in Int
    BY <1>6
  <2> QED
    BY <1>5, <1>6, <1>7, <1>8, <1>9, <2>1, AtNext
<1>11. PICK D : D = IF c = "bar" /\ lastRow THEN {} ELSE DotsAt(c, pos) \cap (0 .. XRES - 1)
  OBVIOUS
<1>12. DrawFigure(c, pos, colour, lastRow) = Paint(colour, D)
  <2>1. DrawFigure(c, pos, colour, lastRow) =
          IF c = "bar" /\ lastRow THEN {} ELSE Paint(colour, DotsAt(c, pos) \cap (0 .. XRES - 1))
    BY <1>6, <1>9, <1>10, FigureIsDrawn
  <2>2. Paint(colour, {}) = {}
    BY NothingYet
  <2> QED
    BY <1>11, <2>1, <2>2
<1>13. Numbers(F, begun.number, lastRow, n + 1) = Numbers(F, begun.number, lastRow, n) \cup D
  BY <1>6, <1>10, <1>11, NumbersGrow
<1>14. lit' = Ground(show, seconds, picture)
              \cup Paint(colour, Numbers(F, begun.number, lastRow, n + 1))
  <2>1. PICK N : N = Numbers(F, begun.number, lastRow, n)
    OBVIOUS
  <2>2. Paint(colour, N \cup D) = Paint(colour, N) \cup Paint(colour, D)
    BY PaintJoins
  <2>3. lit' = lit \cup Paint(colour, D)
    BY <1>8, <1>9, <1>12
  <2> QED
    BY <1>5, <1>13, <2>1, <2>2, <2>3
<1>15. NumberInv'
  <2>1. At(FiguresOf(show', seconds'), n + 1, rest', pos', begun'.number)
    BY <1>1, <1>2, <1>3, <1>10
  <2>2. lit' = Ground(show', seconds', picture')
               \cup Paint(colour', Numbers(FiguresOf(show', seconds'), begun'.number, lastRow', n + 1))
    BY <1>1, <1>2, <1>3, <1>14
  <2>3. /\ show' \in Events \cup {"video", "time"} /\ (show' \in Events => begun'.number = 0)
        /\ left' = 0 /\ right' = XRES - 1
    BY <1>1, <1>2, <1>4
  <2> QED
    BY <2>1, <2>2, <2>3 DEF NumberInv
<1>16. GivenInv'
  BY <1>1, <1>6, GivenStays
<1> QED
  BY <1>1, <1>15, <1>16 DEF ScreenInv, TextInv, DoneInv

\* What is left of the display behind a duration.
LEMMA BehindIs ==
  ASSUME NEW t \in Durations
  PROVE  /\ StringSize(Duration(t)) \in Nat /\ Behind(t) = StringSize(Duration(t)) + 2
         /\ Behind(t) \in Nat /\ Behind(t) < XRES /\ Behind(t) > 0
<1>1. t \in Nat /\ Duration(t) \in Seq(Chars)
  BY ScreenAssumption, DurationIs
<1>2. PICK w \in Nat : w = StringSize(Duration(t)) /\ w + 2 < XRES
  <2>1. StringSize(Duration(t)) \in Nat
    BY <1>1, StringSizeIs
  <2> QED
    BY <2>1, FigureAssumption
<1> QED
  BY <1>2 DEF Behind

\* The title behind the duration.
LEMMA StartTitleScreen ==
  ASSUME ScreenInv, StartTitle
  PROVE  ScreenInv'
<1>1. GivenInv /\ given' = given /\ turn' = turn /\ picture' = picture
      /\ colour' = colour /\ lit' = lit /\ stage = "number" /\ show \in Events
      /\ seconds > BlinkTime /\ rest = <<>>
  BY DEF ScreenInv, StartTitle
<1>2. show' = show /\ string' = string /\ seconds' = seconds /\ lastRow' = lastRow
  BY <1>1 DEF given
<1>3. string \in Seq(Chars \cup {Umlaut}) /\ seconds \in Durations /\ seconds \in Nat
      /\ turn \in Nat /\ begun \in [number : Nat, string : Int]
  BY <1>1 DEF GivenInv
<1>4. PICK F : F = FiguresOf(show, seconds) /\ F = Duration(seconds)
  BY <1>1 DEF FiguresOf
<1>5. PICK n : /\ At(F, n, <<>>, pos, 0)
               /\ lit = Ground(show, seconds, picture)
                        \cup Paint(colour, Numbers(F, begun.number, lastRow, n))
  BY <1>1, <1>4 DEF ScreenInv, NumberInv
<1>6. F \in Seq(Chars)
  BY <1>3, <1>4, DurationIs
<1>7. n = Len(F) /\ pos = 0 + StringSize(F)
  BY <1>5, <1>6, AtEnd
<1>8. PICK w \in Nat : w = Behind(seconds) /\ w = TitlePos /\ w < XRES /\ w > 0
  <2>1. StringSize(F) \in Nat /\ Behind(seconds) = StringSize(F) + 2 /\ Behind(seconds) \in Nat
        /\ Behind(seconds) < XRES /\ Behind(seconds) > 0
    BY <1>3, <1>4, BehindIs
  <2>2. TitlePos = Behind(seconds)
    BY <1>7, <2>1 DEF TitlePos
  <2> QED
    BY <2>1, <2>2
<1>9. PICK size \in Nat : size = StringSize(string)
  BY <1>3, StringSizeIs
<1>10. lit' = Ground(show, seconds, picture)
              \cup Paint(colour, AllNumbers(show, seconds, begun.number, lastRow))
  BY <1>1, <1>4, <1>5, <1>7 DEF AllNumbers
<1>11. ASSUME NEW at \in Int, NEW from \in Nat, StartString(at), left' = from, right' = XRES - 1,
              Placed(show, string, seconds, turn, from, at)
       PROVE  ScreenInv'
  <2>1. /\ stage' = "string" /\ rest' = string /\ pos' = at
        /\ begun' = [begun EXCEPT !.string = at]
    BY <1>11 DEF StartString
  <2>2. begun' \in [number : Nat, string : Int] /\ begun'.string = at /\ begun'.number = begun.number
    BY <1>3, <2>1
  <2>3. GivenInv'
    BY <1>1, <1>3, <2>2, GivenStays
  <2>4. At(string, 0, rest', pos', at)
    BY <1>3, <2>1, AtStart
  <2>5. PICK N : N = AllNumbers(show, seconds, begun.number, lastRow)
    OBVIOUS
  <2>6. Letters(string, at, 0, left', right') = {}
    BY NothingYet
  <2>7. lit' = Ground(show, seconds, picture) \cup {}
               \cup Paint(colour, N \cup Letters(string, at, 0, left', right'))
    <3>1. PICK D : D = N \cup Letters(string, at, 0, left', right')
      OBVIOUS
    <3>2. D = N
      BY <2>6, <3>1
    <3> QED
      BY <1>10, <2>5, <3>1, <3>2
  <2>8. TextInv'
    <3>1. HasText(show', seconds') /\ left' \in Nat
      BY <1>1, <1>2, <1>11 DEF HasText
    <3>2. Placed(show', string', seconds', turn', left', begun'.string)
      BY <1>1, <1>2, <1>11, <2>2
    <3>3. At(string', 0, rest', pos', begun'.string)
      BY <1>2, <2>2, <2>4
    <3>4. \A i \in 1 .. 0 : string'[i] \in Chars /\ Place(string', begun'.string, i) < right'
      OBVIOUS
    <3>5. stage' # "done"
      BY <2>1
    <3>6. lit' = Ground(show', seconds', picture')
                 \cup (IF stage' = "done" THEN BarOf(show', seconds', lastRow') ELSE {})
                 \cup Paint(colour', AllNumbers(show', seconds', begun'.number, lastRow')
                                     \cup Letters(string', begun'.string, 0, left', right'))
      BY <1>1, <1>2, <2>2, <2>5, <2>7, <3>5
    <3> QED
      BY <1>11, <3>1, <3>2, <3>3, <3>4, <3>5, <3>6 DEF TextInv
  <2> QED
    BY <2>1, <2>3, <2>8 DEF ScreenInv, NumberInv, DoneInv
<1>12. show # "scrolled" /\ show # "centred"
  BY <1>1 DEF Events
<1>13. CASE Scrolls
  <2>1. size > XRES - w
    BY <1>8, <1>9, <1>13 DEF Scrolls
  <2>2. PICK range \in Nat : range = XRES - 1 - w + size /\ range > 0
    BY <1>8, <2>1, ScreenIs
  <2>3. PICK at \in Int : at = XRES - 1 - (turn % range)
    BY <1>3, <2>2, ScreenIs
  <2>4. left' = w /\ right' = XRES - 1 /\ StartString(at)
    BY <1>8, <1>9, <1>13, <2>2, <2>3 DEF StartTitle, SetBorder, TitleRange
  <2>5. Placed(show, string, seconds, turn, w, at)
    BY <1>8, <1>9, <1>12, <2>1, <2>2, <2>3 DEF Placed
  <2> QED
    BY <1>11, <2>4, <2>5
<1>14. CASE ~Scrolls
  <2>1. ~(size > XRES - w)
    BY <1>8, <1>9, <1>14 DEF Scrolls
  <2>2. left' = 0 /\ right' = XRES - 1 /\ StartString(w)
    BY <1>8, <1>14 DEF StartTitle, ResetBorder
  <2>3. Placed(show, string, seconds, turn, 0, w)
    BY <1>8, <1>9, <1>12, <2>1 DEF Placed
  <2> QED
    BY <1>11, <2>2, <2>3
<1> QED
  BY <1>13, <1>14

\* A character of a title or a message more.
LEMMA DrawNextCharScreen ==
  ASSUME ScreenInv, DrawNextChar
  PROVE  ScreenInv'
<1>1. GivenInv /\ given' = given /\ turn' = turn /\ picture' = picture /\ begun' = begun
      /\ left' = left /\ right' = right /\ colour' = colour /\ stage = "string" /\ stage' = stage
  BY DEF ScreenInv, DrawNextChar
<1>2. show' = show /\ string' = string /\ seconds' = seconds /\ lastRow' = lastRow
  BY <1>1 DEF given
<1>3. /\ HasText(show, seconds) /\ right = XRES - 1 /\ left \in Nat
      /\ Placed(show, string, seconds, turn, left, begun.string)
  BY <1>1 DEF ScreenInv, TextInv
<1>4. PICK N : N = AllNumbers(show, seconds, begun.number, lastRow)
  OBVIOUS
<1>5. PICK n : /\ At(string, n, rest, pos, begun.string)
               /\ \A i \in 1 .. n : string[i] \in Chars /\ Place(string, begun.string, i) < right
               /\ lit = Ground(show, seconds, picture) \cup {}
                        \cup Paint(colour, N \cup Letters(string, begun.string, n, left, right))
  BY <1>1, <1>4 DEF ScreenInv, TextInv
<1>6. /\ string \in Seq(Chars \cup {Umlaut}) /\ turn \in Nat /\ begun.string \in Int
      /\ begun \in [number : Nat, string : Int]
  BY <1>1 DEF GivenInv
<1>7. /\ rest # <<>> /\ pos < right /\ Head(rest) \in Chars
      /\ pos' = pos + CharSize(Head(rest)) /\ rest' = Tail(rest)
      /\ lit' = lit \cup DrawChar(Head(rest), pos, colour, left, right)
  BY DEF DrawNextChar, GoesOn
<1>8. PICK c \in Chars : c = Head(rest)
  BY <1>7
<1>9. /\ n \in Nat /\ c = string[n + 1] /\ pos = Place(string, begun.string, n + 1) /\ pos \in Int
      /\ At(string, n + 1, rest', pos', begun.string)
  BY <1>5, <1>6, <1>7, <1>8, AtNext
<1>10. PICK D : D = DotsAt(c, pos) \cap (left .. right)
  OBVIOUS
<1>11. DrawChar(c, pos, colour, left, right) = Paint(colour, D)
  BY <1>3, <1>9, <1>10, CharIsDrawn
<1>12. PICK L : L = Letters(string, begun.string, n, left, right)
  OBVIOUS
<1>13. Letters(string, begun.string, n + 1, left, right) = L \cup D
  BY <1>9, <1>10, <1>12, LettersGrow
<1>14. lit' = Ground(show, seconds, picture) \cup {}
              \cup Paint(colour, N \cup Letters(string, begun.string, n + 1, left, right))
  <2>1. PICK M, P : M = N \cup L /\ P = N \cup Letters(string, begun.string, n + 1, left, right)
    OBVIOUS
  <2>2. P = M \cup D
    BY <1>13, <2>1
  <2>3. Paint(colour, M \cup D) = Paint(colour, M) \cup Paint(colour, D)
    BY PaintJoins
  <2>4. lit' = lit \cup Paint(colour, D)
    BY <1>7, <1>8, <1>11
  <2>5. lit = Ground(show, seconds, picture) \cup Paint(colour, M)
    BY <1>5, <1>12, <2>1
  <2>6. lit' = Ground(show, seconds, picture) \cup Paint(colour, P)
    BY <2>2, <2>3, <2>4, <2>5
  <2> QED
    BY <2>1, <2>6
<1>15. TextInv'
  <2>1. HasText(show', seconds') /\ left' \in Nat /\ right' = XRES - 1
    BY <1>1, <1>2, <1>3
  <2>2. Placed(show', string', seconds', turn', left', begun'.string)
    BY <1>1, <1>2, <1>3
  <2>3. At(string', n + 1, rest', pos', begun'.string)
    BY <1>1, <1>2, <1>9
  <2>4. \A i \in 1 .. n + 1 : string'[i] \in Chars /\ Place(string', begun'.string, i) < right'
    <3>1. \A i \in 1 .. n + 1 : i \in 1 .. n \/ i = n + 1
      BY <1>9
    <3>2. string[n + 1] \in Chars /\ Place(string, begun.string, n + 1) < right
      BY <1>7, <1>8, <1>9
    <3> QED
      BY <1>1, <1>2, <1>5, <3>1, <3>2
  <2>5. stage' # "done"
    BY <1>1
  <2>6. lit' = Ground(show', seconds', picture')
               \cup (IF stage' = "done" THEN BarOf(show', seconds', lastRow') ELSE {})
               \cup Paint(colour', AllNumbers(show', seconds', begun'.number, lastRow')
                                   \cup Letters(string', begun'.string, n + 1, left', right'))
    BY <1>1, <1>2, <1>4, <1>14, <2>5
  <2> QED
    BY <2>1, <2>2, <2>3, <2>4, <2>5, <2>6 DEF TextInv
<1>16. GivenInv'
  BY <1>1, <1>6, GivenStays
<1> QED
  BY <1>1, <1>15, <1>16 DEF ScreenInv, NumberInv, DoneInv

\* The end of a round, with the bar of what has been seen.
LEMMA EndRoundScreen ==
  ASSUME ScreenInv, EndRound
  PROVE  ScreenInv'
<1>1. GivenInv /\ given' = given /\ turn' = turn /\ picture' = picture /\ begun' = begun
      /\ left' = left /\ right' = right /\ colour' = colour /\ rest' = rest /\ pos' = pos
      /\ stage' = "done"
  BY DEF ScreenInv, EndRound, brush
<1>2. show' = show /\ string' = string /\ seconds' = seconds /\ lastRow' = lastRow
  BY <1>1 DEF given
<1>3. GivenInv'
  BY <1>1, GivenStays DEF GivenInv
<1>4. seconds \in Nat /\ Length \in Nat /\ BlinkTime = 10
  BY <1>1, ScreenAssumption DEF GivenInv, BlinkTime
<1>5. lit' = lit \cup BarOf(show, seconds, lastRow)
  <2>1. CASE lastRow /\ show = "running" /\ seconds > BlinkTime /\ seconds < Length
    <3>1. lit' = lit \cup Bar(Progress(Length - seconds, Length))
      BY <2>1 DEF EndRound
    <3>2. Length - seconds \in Nat /\ Length - seconds < Length
      BY <1>4, <2>1
    <3>3. PICK p \in 0 .. XRES - 1 : p = Progress(Length - seconds, Length)
      BY <1>4, <3>2, ProgressFits
    <3>4. Bar(p) = {XRES + x : x \in 0 .. p - 1}
      BY BarIsDrawn
    <3>5. p = (XRES * (Length - seconds)) \div Length
      BY <3>3 DEF Progress
    <3>6. BarOf(show, seconds, lastRow) = {XRES + x : x \in 0 .. p - 1}
      BY <2>1, <3>5 DEF BarOf
    <3> QED
      BY <3>1, <3>3, <3>4, <3>6
  <2>2. CASE ~(lastRow /\ show = "running" /\ seconds > BlinkTime /\ seconds < Length)
    <3>1. lit' = lit
      BY <2>2 DEF EndRound
    <3>2. BarOf(show, seconds, lastRow) = {}
      BY <2>2 DEF BarOf
    <3> QED
      BY <3>1, <3>2
  <2> QED
    BY <2>1, <2>2
<1>6. CASE stage = "string" /\ ~GoesOn
  <2>1. /\ HasText(show, seconds) /\ right = XRES - 1 /\ left \in Nat
        /\ Placed(show, string, seconds, turn, left, begun.string)
    BY <1>6 DEF ScreenInv, TextInv
  <2>2. PICK n : /\ At(string, n, rest, pos, begun.string)
                 /\ \A i \in 1 .. n : string[i] \in Chars /\ Place(string, begun.string, i) < right
                 /\ lit = Ground(show, seconds, picture) \cup {}
                          \cup Paint(colour, AllNumbers(show, seconds, begun.number, lastRow)
                                             \cup Letters(string, begun.string, n, left, right))
    BY <1>6 DEF ScreenInv, TextInv
  <2>3. GoesOn' = GoesOn
    BY <1>1 DEF GoesOn
  <2>4. PICK P : P = Paint(colour, AllNumbers(show, seconds, begun.number, lastRow)
                                   \cup Letters(string, begun.string, n, left, right))
    OBVIOUS
  <2>5. lit' = Ground(show, seconds, picture) \cup BarOf(show, seconds, lastRow) \cup P
    BY <1>5, <2>2, <2>4
  <2>6. TextInv'
    <3>1. HasText(show', seconds') /\ left' \in Nat /\ right' = XRES - 1 /\ ~GoesOn'
      BY <1>1, <1>2, <1>6, <2>1, <2>3
    <3>2. Placed(show', string', seconds', turn', left', begun'.string)
      BY <1>1, <1>2, <2>1
    <3>3. At(string', n, rest', pos', begun'.string)
      BY <1>1, <1>2, <2>2
    <3>4. \A i \in 1 .. n : string'[i] \in Chars /\ Place(string', begun'.string, i) < right'
      BY <1>1, <1>2, <2>2
    <3>5. lit' = Ground(show', seconds', picture')
                 \cup (IF stage' = "done" THEN BarOf(show', seconds', lastRow') ELSE {})
                 \cup Paint(colour', AllNumbers(show', seconds', begun'.number, lastRow')
                                     \cup Letters(string', begun'.string, n, left', right'))
      BY <1>1, <1>2, <2>4, <2>5
    <3> QED
      BY <3>1, <3>2, <3>3, <3>4, <3>5 DEF TextInv
  <2>7. HasText(show', seconds')
    BY <1>2, <2>1
  <2> QED
    BY <1>1, <1>3, <2>6, <2>7 DEF ScreenInv, NumberInv, DoneInv
<1>7. CASE stage = "number" /\ rest = <<>> /\ ~(show \in Events /\ seconds > BlinkTime)
  <2>1. show \in Events \cup {"video", "time"}
    BY <1>7 DEF ScreenInv, NumberInv
  <2>2. PICK F : F = FiguresOf(show, seconds)
    OBVIOUS
  <2>3. PICK n : /\ At(F, n, <<>>, pos, begun.number)
                 /\ lit = Ground(show, seconds, picture)
                          \cup Paint(colour, Numbers(F, begun.number, lastRow, n))
    BY <1>7, <2>2 DEF ScreenInv, NumberInv
  <2>4. n = Len(F)
    BY <1>4, <2>2, <2>3, AtEnd, FiguresOfAre
  <2>5. ~HasText(show, seconds)
    BY <1>7, <2>1 DEF HasText, Events
  <2>6. BarOf(show, seconds, lastRow) = {}
    BY <1>7, <2>1 DEF BarOf, Events
  <2>7. lit' = Ground(show, seconds, picture)
               \cup Paint(colour, AllNumbers(show, seconds, begun.number, lastRow))
    BY <1>5, <2>2, <2>3, <2>4, <2>6 DEF AllNumbers
  <2>8. lit' = Ground(show', seconds', picture')
               \cup Paint(colour', AllNumbers(show', seconds', begun'.number, lastRow'))
    BY <1>1, <1>2, <2>7
  <2>9. ~HasText(show', seconds')
    BY <1>2, <2>5
  <2> QED
    BY <1>1, <1>3, <2>8, <2>9 DEF ScreenInv, NumberInv, TextInv, DoneInv
<1> QED
  BY <1>6, <1>7 DEF EndRound

\* Every step keeps ScreenInv.
LEMMA NextScreen ==
  ASSUME ScreenInv, [Next]_vars
  PROVE  ScreenInv'
BY NewRoundScreen, StartRoundScreen, DrawNextFigureScreen, StartTitleScreen,
   DrawNextCharScreen, EndRoundScreen DEF Next

\* The invariant of the rounds.
LEMMA ScreenIsKept == Spec => []ScreenInv
<1>1. Init => ScreenInv
  BY InitScreen
<1>2. ScreenInv /\ [Next]_vars => ScreenInv'
  BY NextScreen
<1> QED
  BY <1>1, <1>2, PTL DEF Spec

\* The characters of a title that were drawn are those that can be read and begin left
\* of the right border.
LEMMA LettersAreExpected ==
  ASSUME NEW s \in Seq(Chars \cup {Umlaut}), NEW b \in Int, NEW n, NEW r, NEW p,
         NEW from, NEW to, to = XRES - 1, At(s, n, r, p, b),
         \A i \in 1 .. n : s[i] \in Chars /\ Place(s, b, i) < to,
         ~(r # <<>> /\ p < XRES /\ p < to /\ Head(r) \in Chars)
  PROVE  Letters(s, b, n, from, to) = Expected(s, b, from, to)
<1>1. PICK N \in Nat : N = Len(s) /\ DOMAIN s = 1 .. N
  BY LenProperties
<1>2. n \in 0 .. N /\ r = Rest(s, n) /\ p = b + Reach(s)[n]
  BY <1>1 DEF At
<1>3. PICK J : J = {i \in Readable(s) : Place(s, b, i) < to}
  OBVIOUS
<1>4. Umlaut \notin Chars /\ to \in Int
  BY FontAssumption
<1>5. ASSUME NEW i \in 1 .. n PROVE i \in J
  <2>1. i \in 1 .. N /\ \A k \in 1 .. i : k \in 1 .. n
    BY <1>2
  <2> QED
    BY <1>1, <1>3, <1>4, <2>1 DEF Readable
<1>6. ASSUME NEW i \in J PROVE i \in 1 .. n
  <2> SUFFICES ASSUME i \notin 1 .. n PROVE FALSE
    OBVIOUS
  <2>1. i \in 1 .. N /\ \A k \in 1 .. i : s[k] # Umlaut
    BY <1>1, <1>3, <1>6 DEF Readable
  <2>2. n < i /\ n < N /\ n + 1 \in 1 .. i
    BY <1>2, <2>1
  <2>3. r # <<>> /\ Head(r) = s[n + 1] /\ s[n + 1] \in Chars
    <3>1. r # <<>> /\ Head(r) = s[n + 1] /\ s[n + 1] \in Chars \cup {Umlaut}
      BY <1>1, <1>2, <2>2, RestIs
    <3> QED
      BY <2>1, <2>2, <3>1
  <2>4. ~(p < XRES /\ p < to)
    BY <2>3
  <2>5. PICK u \in Nat, v \in Nat : u = Reach(s)[n] /\ v = Reach(s)[i - 1] /\ u <= v
    <3>1. i - 1 \in n .. N /\ i - 1 \in 0 .. N
      BY <1>2, <2>1, <2>2
    <3>2. Reach(s)[n] \in Nat /\ Reach(s)[i - 1] \in Nat
      BY <1>1, <1>2, <3>1, ReachIs
    <3>3. Reach(s)[n] <= Reach(s)[i - 1]
      BY <1>1, <1>2, <3>1, ReachGrows
    <3> QED
      BY <3>2, <3>3
  <2>6. ~(b + u < to)
    BY <1>2, <1>4, <2>4, <2>5, ScreenIs
  <2>7. b + v < to
    BY <1>3, <2>5 DEF Place
  <2> QED
    BY <1>4, <2>5, <2>6, <2>7
<1>7. J = 1 .. n
  BY <1>5, <1>6
<1>8. Letters(s, b, n, from, to) = Marks(s, b, J) \cap (from .. to)
  BY <1>7 DEF Letters
<1>9. Expected(s, b, from, to) = Marks(s, b, J) \cap (from .. to)
  BY <1>3, Zenon DEF Expected, Marks, DotsAt
<1> QED
  BY <1>8, <1>9

\* What DrawnRight says of the picture follows from the invariant.
LEMMA LitFollows ==
  ASSUME ScreenInv
  PROVE  LitAsWritten
<1> SUFFICES ASSUME stage = "done" PROVE LitAsWritten
  BY DEF LitAsWritten
<1>1. GivenInv
  BY DEF ScreenInv
<1>2. seconds \in Nat /\ string \in Seq(Chars \cup {Umlaut}) /\ begun.string \in Int
      /\ lastRow \in BOOLEAN
  BY <1>1 DEF GivenInv
<1>3. PICK F \in Seq(Chars) : F = Figures /\ F = FiguresOf(show, seconds)
  BY <1>2, FiguresOfAre DEF Figures, FiguresOf
<1>4. PICK N \in Nat : N = Len(F) /\ DOMAIN F = 1 .. N
  BY LenProperties
<1>5. FigureDots = AllNumbers(show, seconds, begun.number, lastRow)
  <2> DEFINE bars == {i \in DOMAIN Figures : Figures[i] = "bar" /\ lastRow}
  <2>1. DOMAIN F \ {i \in DOMAIN F : F[i] = "bar" /\ lastRow}
          = {i \in 1 .. N : ~(F[i] = "bar" /\ lastRow)}
    BY <1>4
  <2>2. PICK J : J = DOMAIN F \ {i \in DOMAIN F : F[i] = "bar" /\ lastRow}
                 /\ J = {i \in 1 .. N : ~(F[i] = "bar" /\ lastRow)}
    BY <2>1
  <2>3. Numbers(F, begun.number, lastRow, N) = Marks(F, begun.number, J) \cap (0 .. XRES - 1)
    BY <2>2 DEF Numbers
  <2>4. FigureDots = Marks(Figures, begun.number, DOMAIN Figures \ bars) \cap (0 .. XRES - 1)
    BY Zenon DEF FigureDots, Marks, DotsAt
  <2>5. J = DOMAIN Figures \ bars
    BY <1>3, <2>2
  <2> HIDE DEF bars
  <2> QED
    BY <1>3, <1>4, <2>3, <2>4, <2>5 DEF AllNumbers
<1>6. Under = Ground(show, seconds, picture) /\ BarDots = BarOf(show, seconds, lastRow)
  BY Zenon DEF Under, BarDots, Ground, BarOf, Blinks
<1>7. HasString <=> HasText(show, seconds)
  BY DEF HasString, HasText
<1>8. lit = Under \cup BarDots \cup Paint(colour, FigureDots \cup TextDots)
  <2>1. CASE HasText(show, seconds)
    <3>1. PICK n : /\ At(string, n, rest, pos, begun.string)
                   /\ \A i \in 1 .. n : string[i] \in Chars /\ Place(string, begun.string, i) < right
                   /\ lit = Ground(show, seconds, picture) \cup BarOf(show, seconds, lastRow)
                            \cup Paint(colour, AllNumbers(show, seconds, begun.number, lastRow)
                                               \cup Letters(string, begun.string, n, left, right))
      BY <2>1 DEF ScreenInv, TextInv
    <3>2. right = XRES - 1 /\ ~GoesOn
      BY <2>1 DEF ScreenInv, TextInv
    <3>3. Letters(string, begun.string, n, left, right) = TextDots
      <4>1. Letters(string, begun.string, n, left, right) = Expected(string, begun.string, left, right)
        <5>1. ~(rest # <<>> /\ pos < XRES /\ pos < right /\ Head(rest) \in Chars)
          BY <3>2 DEF GoesOn
        <5> QED
          BY <1>2, <3>1, <3>2, <5>1, LettersAreExpected
      <4> QED
        BY <1>7, <2>1, <4>1 DEF TextDots
    <3> QED
      BY <1>5, <1>6, <3>1, <3>3
  <2>2. CASE ~HasText(show, seconds)
    <3>1. lit = Ground(show, seconds, picture)
                \cup Paint(colour, AllNumbers(show, seconds, begun.number, lastRow))
      BY <2>2 DEF ScreenInv, DoneInv
    <3>2. BarOf(show, seconds, lastRow) = {}
      BY <2>2 DEF BarOf, HasText, Events
    <3>3. TextDots = {}
      BY <1>7, <2>2 DEF TextDots
    <3>4. FigureDots \cup TextDots = FigureDots
      BY <3>3
    <3> QED
      BY <1>5, <1>6, <3>1, <3>2, <3>4
  <2> QED
    BY <2>1, <2>2
<1> QED
  BY <1>8 DEF LitAsWritten

----------------------------------------------------------------------------
\* The column of a text that scrolls which is at the left border in a round.
Scrolling(how, s, t)  == how = "scrolled"
                         \/ (how \in Events /\ t > BlinkTime /\ StringSize(s) > XRES - Behind(t))
Gap(how, t)           == IF how = "scrolled" THEN XRES ELSE XRES - 1 - Behind(t)
Column(k, gap, size)  == (k % (gap + size)) - gap
Came(upto, gap, size, columns) ==
  \A k \in 0 .. upto : Column(k, gap, size) \in Nat => Column(k, gap, size) \in columns

ShownInv ==
  Scrolling(show, string, seconds) =>
    Came(IF stage = "done" THEN turn ELSE turn - 1, Gap(show, seconds), StringSize(string), shown)

\* Before the first round no column has been at the border.
LEMMA InitShown ==
  ASSUME Init
  PROVE  ShownInv
<1>1. stage # "done" /\ turn - 1 = -1
  BY DEF Init
<1>2. \A gap, size : Came(-1, gap, size, shown)
  BY DEF Came
<1> QED
  BY <1>1, <1>2 DEF ShownInv

\* A round adds the column that is at the border in it.
LEMMA NextShown ==
  ASSUME ScreenInv, ShownInv, [Next]_vars
  PROVE  ShownInv'
<1>1. GivenInv
  BY DEF ScreenInv
<1>2. turn \in Nat /\ string \in Seq(Chars \cup {Umlaut}) /\ seconds \in Nat
  BY <1>1 DEF GivenInv
<1>3. CASE UNCHANGED vars
  BY <1>3 DEF vars, given, ShownInv
<1>4. CASE MakeLine \/ TakeFrame \/ StartRound \/ DrawNextFigure \/ StartTitle \/ DrawNextChar
  <2>1. given' = given /\ turn' = turn /\ shown' = shown
    BY <1>4 DEF MakeLine, TakeFrame, StartRound, DrawNextFigure, StartTitle, DrawNextChar
  <2>2. show' = show /\ string' = string /\ seconds' = seconds
    BY <2>1 DEF given
  <2>3. stage # "done" /\ stage' # "done"
    <3>1. CASE StartRound
      <4>1. stage = "ready" /\ show \in Kinds
        BY <1>1, <3>1 DEF StartRound, GivenInv
      <4>2. CASE show \in Events
        <5>1. StartNumber(0, Duration(seconds))
          BY <3>1, <4>2 DEF StartRound, Events
        <5> QED
          BY <4>1, <5>1 DEF StartNumber
      <4>3. CASE show \in {"video", "time"}
        BY <3>1, <4>1, <4>3 DEF StartRound, StartNumber, Events
      <4>4. CASE show = "scrolled"
        BY <3>1, <4>1, <4>4 DEF StartRound, StartString, Events
      <4>5. CASE show = "centred"
        BY <3>1, <4>1, <4>5 DEF StartRound, StartString, Events
      <4> QED
        BY <4>1, <4>2, <4>3, <4>4, <4>5 DEF Kinds
    <3>2. CASE StartTitle
      BY <3>2 DEF StartTitle, StartString
    <3>3. CASE MakeLine \/ TakeFrame \/ DrawNextFigure \/ DrawNextChar
      BY <3>3 DEF MakeLine, TakeFrame, DrawNextFigure, DrawNextChar
    <3> QED
      BY <1>4, <3>1, <3>2, <3>3
  <2> QED
    BY <2>1, <2>2, <2>3 DEF ShownInv
<1>5. CASE NextRound
  <2>1. given' = given /\ turn' = turn + 1 /\ shown' = shown /\ stage = "done" /\ stage' = "ready"
    BY <1>5 DEF NextRound
  <2>2. show' = show /\ string' = string /\ seconds' = seconds
    BY <2>1 DEF given
  <2>3. turn' - 1 = turn /\ stage' # "done"
    BY <1>2, <2>1
  <2> QED
    BY <2>1, <2>2, <2>3 DEF ShownInv
<1>6. CASE EndRound
  <2>1. given' = given /\ turn' = turn /\ stage' = "done" /\ stage # "done"
        /\ shown' = shown \cup ({left - begun.string} \cap Nat)
    BY <1>6 DEF EndRound
  <2>2. show' = show /\ string' = string /\ seconds' = seconds
    BY <2>1 DEF given
  <2> SUFFICES ASSUME Scrolling(show, string, seconds)
               PROVE  Came(turn, Gap(show, seconds), StringSize(string), shown')
    BY <2>1, <2>2 DEF ShownInv
  <2>3. PICK gap, size : gap = Gap(show, seconds) /\ size = StringSize(string)
    OBVIOUS
  <2>4. \A k \in 0 .. turn - 1 : Column(k, gap, size) \in Nat => Column(k, gap, size) \in shown
    BY <2>1, <2>3 DEF ShownInv, Came
  <2>5. stage = "string"
    <3> SUFFICES ASSUME stage # "string" PROVE FALSE
      OBVIOUS
    <3>1. stage = "number" /\ ~(show \in Events /\ seconds > BlinkTime)
      BY <1>6 DEF EndRound
    <3>2. show \in Events \cup {"video", "time"}
      BY <3>1 DEF ScreenInv, NumberInv
    <3> QED
      BY <3>1, <3>2 DEF Scrolling, Events
  <2>6. Placed(show, string, seconds, turn, left, begun.string)
    BY <2>5 DEF ScreenInv, TextInv
  <2>7. left - begun.string = Column(turn, gap, size)
    <3>1. size \in Nat
      BY <1>2, <2>3, StringSizeIs
    <3>2. CASE show = "scrolled"
      <4>1. PICK m : m = turn % (XRES + size)
        OBVIOUS
      <4>2. m \in Nat
        BY <1>2, <3>1, <4>1, ScreenIs
      <4>3. left = 0 /\ begun.string = XRES - m
        BY <2>3, <2>6, <3>2, <4>1 DEF Placed, ScrollRange
      <4>4. Column(turn, gap, size) = m - XRES
        BY <2>3, <3>2, <4>1 DEF Column, Gap
      <4> QED
        BY <4>2, <4>3, <4>4, ScreenIs
    <3>3. CASE show # "scrolled"
      <4>1. show \in Events /\ size > XRES - Behind(seconds)
        BY <2>3, <3>3 DEF Scrolling
      <4>2. PICK w \in Nat : w = Behind(seconds) /\ w < XRES
        BY <1>1, <4>1, BehindIs DEF GivenInv
      <4>3. PICK m : m = turn % (XRES - 1 - w + size)
        OBVIOUS
      <4>4. m \in Nat
        <5>1. XRES - 1 - w + size \in Nat /\ XRES - 1 - w + size > 0
          BY <3>1, <4>1, <4>2, ScreenIs
        <5> QED
          BY <1>2, <4>3, <5>1
      <4>5. show # "centred"
        BY <4>1 DEF Events
      <4>6. left = w /\ begun.string = XRES - 1 - m
        BY <2>3, <2>6, <3>3, <4>1, <4>2, <4>3, <4>5 DEF Placed
      <4>7. Column(turn, gap, size) = m - (XRES - 1 - w)
        BY <2>3, <3>3, <4>2, <4>3 DEF Column, Gap
      <4> QED
        BY <4>2, <4>4, <4>6, <4>7, ScreenIs
    <3> QED
      BY <3>2, <3>3
  <2>8. \A k \in 0 .. turn : k \in 0 .. turn - 1 \/ k = turn
    BY <1>2
  <2>9. Came(turn, gap, size, shown')
    <3> SUFFICES ASSUME NEW k \in 0 .. turn, Column(k, gap, size) \in Nat
                 PROVE  Column(k, gap, size) \in shown'
      BY DEF Came
    <3>1. CASE k \in 0 .. turn - 1
      BY <2>1, <2>4, <3>1
    <3>2. CASE k = turn
      BY <2>1, <2>7, <3>2
    <3> QED
      BY <2>8, <3>1, <3>2
  <2> QED
    BY <2>3, <2>9
<1> QED
  BY <1>3, <1>4, <1>5, <1>6 DEF Next

\* When a text has come round, every column of it was at the border.
LEMMA HiddenFollows ==
  ASSUME ScreenInv, ShownInv
  PROVE  NothingStaysHidden
<1> SUFFICES ASSUME stage = "done", HasString PROVE NothingStaysHidden
  BY DEF NothingStaysHidden
<1>1. GivenInv
  BY DEF ScreenInv
<1>2. /\ show \in Kinds /\ string \in Seq(Chars \cup {Umlaut}) /\ seconds \in Nat
      /\ (show \in Events => seconds \in Durations) /\ turn \in Nat
  BY <1>1 DEF GivenInv
<1>3. HasText(show, seconds)
  BY DEF HasString, HasText
<1>4. /\ right = XRES - 1 /\ left \in Nat /\ ~GoesOn
      /\ Placed(show, string, seconds, turn, left, begun.string)
  BY <1>3 DEF ScreenInv, TextInv
<1>5. PICK size \in Nat : size = StringSize(string)
  BY <1>2, StringSizeIs
<1>6. CASE show = "scrolled" \/ left > 0
  <2>1. /\ Scrolling(show, string, seconds) /\ Gap(show, seconds) \in Nat
        /\ (IF show = "scrolled" THEN ScrollRange(string) ELSE XRES - 1 - left + StringSize(string))
             = Gap(show, seconds) + size
    <3>1. CASE show = "scrolled"
      <4>1. Scrolling(show, string, seconds) /\ Gap(show, seconds) = XRES
        BY <3>1 DEF Scrolling, Gap
      <4>2. ScrollRange(string) = XRES + size
        BY <1>5 DEF ScrollRange
      <4> QED
        BY <3>1, <4>1, <4>2, ScreenIs
    <3>2. CASE show # "scrolled"
      <4>1. show # "centred"
        BY <1>4, <1>6, <3>2 DEF Placed
      <4>2. show \in Events /\ seconds > BlinkTime
        BY <1>3, <3>2, <4>1 DEF HasText
      <4>3. size > XRES - Behind(seconds) /\ left = Behind(seconds)
        BY <1>4, <1>5, <1>6, <3>2, <4>1 DEF Placed
      <4>4. Behind(seconds) \in Nat /\ Behind(seconds) < XRES
        BY <1>2, <4>2, BehindIs
      <4> QED
        BY <1>5, <3>2, <4>2, <4>3, <4>4, ScreenIs DEF Scrolling, Gap
    <3> QED
      BY <3>1, <3>2
  <2>2. PICK gap \in Nat : gap = Gap(show, seconds)
    BY <2>1
  <2>3. Came(turn, gap, size, shown)
    BY <1>5, <2>1, <2>2 DEF ShownInv
  <2>4. ASSUME turn + 1 >= gap + size, NEW c \in 0 .. size - 1 PROVE c \in shown
    <3>1. c + gap \in 0 .. turn /\ c + gap \in Nat /\ c + gap < gap + size
      BY <1>2, <2>4
    <3>2. (c + gap) % (gap + size) = c + gap
      <4>1. PICK k \in Nat, m \in Nat : k = c + gap /\ m = gap + size /\ k < m
        BY <3>1
      <4>2. k % m = k
        BY <4>1
      <4> QED
        BY <4>1, <4>2
    <3>3. Column(c + gap, gap, size) = c /\ c \in Nat
      BY <3>2 DEF Column
    <3> QED
      BY <2>3, <3>1, <3>3 DEF Came
  <2>5. turn + 1 >= gap + size => 0 .. size - 1 \subseteq shown
    BY <2>4
  <2> QED
    BY <1>5, <1>6, <2>1, <2>2, <2>5 DEF NothingStaysHidden
<1>7. CASE ~(show = "scrolled" \/ left > 0)
  <2>1. CASE show = "centred" /\ size > XRES
    BY <1>5, <1>7, <2>1 DEF NothingStaysHidden
  <2>2. CASE ~(show = "centred" /\ size > XRES)
    <3>1. PICK b \in Nat : b = begun.string /\ b + size <= XRES
      <4>1. CASE show = "centred"
        <5>1. begun.string = Centre(string) /\ size <= XRES
          BY <1>4, <1>5, <2>2, <4>1, ScreenIs DEF Placed
        <5> QED
          BY <1>5, <5>1, ScreenIs DEF Centre
      <4>2. CASE show # "centred"
        <5>1. show \in Events
          BY <1>3, <1>7, <4>2 DEF HasText
        <5>2. Behind(seconds) \in Nat /\ Behind(seconds) < XRES /\ Behind(seconds) > 0
          BY <1>2, <5>1, BehindIs
        <5>3. ~(size > XRES - Behind(seconds)) /\ begun.string = Behind(seconds)
          BY <1>4, <1>5, <1>7, <4>2, <5>2 DEF Placed
        <5> QED
          BY <5>2, <5>3, ScreenIs
      <4> QED
        BY <4>1, <4>2
    <3>2. rest = <<>> \/ Head(rest) = Umlaut
      <4> SUFFICES ASSUME rest # <<>>, Head(rest) # Umlaut PROVE FALSE
        OBVIOUS
      <4>1. PICK n : At(string, n, rest, pos, b)
        BY <1>3, <3>1 DEF ScreenInv, TextInv
      <4>2. Head(rest) \in Chars
        BY <1>2, <4>1, AtChar
      <4>3. ~(pos < XRES /\ pos < right)
        BY <1>4, <4>2 DEF GoesOn
      <4>4. PICK N \in Nat : N = Len(string)
        BY <1>2, LenProperties
      <4>5. /\ n \in Nat /\ n + 1 \in 1 .. N /\ pos \in Int
            /\ At(string, n + 1, Tail(rest), pos + CharSize(Head(rest)), b)
        BY <1>2, <4>1, <4>2, <4>4, AtNext
      <4>6. PICK v \in Nat, k \in 2 .. 6 : /\ v = Reach(string)[n + 1] /\ k = CharSize(Head(rest))
                                           /\ pos + k = b + v
        <5>1. Reach(string)[n + 1] \in Nat
          BY <4>4, <4>5, ReachIs
        <5>2. CharSize(Head(rest)) \in 2 .. 6
          BY <4>2, SizeIs
        <5> QED
          BY <4>5, <5>1, <5>2 DEF At
      <4>7. v <= size
        <5>1. n + 1 \in 0 .. N /\ N \in n + 1 .. N
          BY <4>5
        <5>2. Reach(string)[n + 1] <= Reach(string)[N]
          BY <4>4, <5>1, ReachGrows
        <5> QED
          BY <1>5, <4>4, <4>6, <5>2 DEF StringSize
      <4> QED
        BY <1>4, <3>1, <4>3, <4>5, <4>6, <4>7, ScreenIs
    <3> QED
      BY <1>5, <1>7, <3>1, <3>2 DEF NothingStaysHidden
  <2> QED
    BY <2>1, <2>2
<1> QED
  BY <1>6, <1>7

\* However a text is put on the display, none of it stays hidden, whatever the font,
\* the texts and the durations are.
THEOREM NothingIsHidden == Spec => []NothingStaysHidden
<1>1. Init => ScreenInv /\ ShownInv
  BY InitScreen, InitShown
<1>2. ScreenInv /\ ShownInv /\ [Next]_vars => (ScreenInv /\ ShownInv)'
  BY NextScreen, NextShown
<1>3. ScreenInv /\ ShownInv => NothingStaysHidden
  BY HiddenFollows
<1> QED
  BY <1>1, <1>2, <1>3, PTL DEF Spec

----------------------------------------------------------------------------
\* What a duration is read from, and what has been read of it.
Legible   == {Digit[i] : i \in 1 .. 10} \cup {"bar", "T", ":"}
ReadSoFar == [sum : Nat, group : Nat, size : Nat, ok : BOOLEAN]
Nothing   == [sum |-> 0, group |-> 0, size |-> 0, ok |-> TRUE]

\* The figures are different characters.
LEMMA DigitsDiffer ==
  ASSUME NEW n \in 0 .. 9
  PROVE  /\ Digit[n + 1] \notin {"bar", "T", ":"}
         /\ \A m \in 0 .. 9 : Digit[m + 1] = Digit[n + 1] => m = n
BY DEF Digit

\* A figure stands for its number, the bar for a one.
LEMMA FigureWorth ==
  ASSUME NEW n \in 0 .. 9, NEW align \in BOOLEAN
  PROVE  /\ Figure(n, align) \in Legible /\ Figure(n, align) \notin {"T", ":"}
         /\ Worth(Figure(n, align)) = n
<1>1. CASE align /\ n = 1
  BY <1>1 DEF Figure, Legible, Worth
<1>2. CASE ~(align /\ n = 1)
  <2>1. PICK c : c = Digit[n + 1] /\ c = Figure(n, align)
    BY <1>2 DEF Figure
  <2>2. c \in Legible /\ c \notin {"bar", "T", ":"}
    <3>1. n + 1 \in 1 .. 10
      OBVIOUS
    <3> QED
      BY <2>1, <3>1, DigitsDiffer DEF Legible
  <2>3. \A m \in 0 .. 9 : Digit[m + 1] = c <=> m = n
    BY <2>1, DigitsDiffer
  <2>4. (CHOOSE m \in 0 .. 9 : Digit[m + 1] = c) = n
    BY <2>3
  <2>5. Worth(c) = n
    BY <2>2, <2>4 DEF Worth
  <2> QED
    BY <2>1, <2>2, <2>5
<1> QED
  BY <1>1, <1>2

\* What has been read is a sum, a group, its size and whether it could be read.
LEMMA ReadIs ==
  ASSUME NEW r \in ReadSoFar, NEW c \in Legible
  PROVE  Read(r, c) \in ReadSoFar
<1>1. r.sum \in Nat /\ r.group \in Nat /\ r.size \in Nat /\ r.ok \in BOOLEAN
  BY DEF ReadSoFar
<1>2. CASE c = "T"
  BY <1>1, <1>2 DEF Read, ReadSoFar
<1>3. CASE c = ":"
  BY <1>1, <1>3 DEF Read, ReadSoFar
<1>4. CASE c \notin {"T", ":"}
  <2>1. PICK w \in Nat : w = Worth(c)
    <3>1. CASE c = "bar"
      BY <3>1 DEF Worth
    <3>2. CASE c # "bar"
      <4>1. PICK n \in 0 .. 9 : c = Digit[n + 1]
        <5>1. PICK i \in 1 .. 10 : c = Digit[i]
          BY <1>4, <3>2 DEF Legible
        <5>2. i - 1 \in 0 .. 9 /\ (i - 1) + 1 = i
          OBVIOUS
        <5> QED
          BY <5>1, <5>2
      <4>2. Figure(n, FALSE) = c
        BY <4>1 DEF Figure
      <4>3. Worth(c) = n
        BY <4>2, FigureWorth
      <4> QED
        BY <4>3
    <3> QED
      BY <3>1, <3>2
  <2>2. Read(r, c) = [sum |-> r.sum, group |-> 10 * r.group + w, size |-> r.size + 1, ok |-> r.ok]
    BY <1>4, <2>1 DEF Read
  <2>3. 10 * r.group + w \in Nat /\ r.size + 1 \in Nat
    BY <1>1, <2>1
  <2> QED
    BY <1>1, <2>2, <2>3 DEF ReadSoFar
<1> QED
  BY <1>2, <1>3, <1>4

Reads(s, N, g) == /\ g \in [0 .. N -> ReadSoFar] /\ g[0] = Nothing
                  /\ \A n \in 1 .. N : g[n] = Read(g[n - 1], s[n])

\* Reading goes through the characters one by one.
LEMMA ReadingIs ==
  ASSUME NEW s \in Seq(Legible)
  PROVE  \E g : Reads(s, Len(s), g) /\ Reading(s) = g[Len(s)]
<1>1. PICK N \in Nat : N = Len(s) /\ \A i \in 1 .. N : s[i] \in Legible
  BY LenProperties, ElementOfSeq
<1> DEFINE step == [n \in 1 .. N |-> [r \in ReadSoFar |-> Read(r, s[n])]]
<1>2. step \in [1 .. N -> [ReadSoFar -> ReadSoFar]]
  BY <1>1, ReadIs
<1>3. PICK g \in [0 .. N -> ReadSoFar] : Recurs(g, N, Nothing, step)
  <2>1. Nothing \in ReadSoFar
    BY DEF Nothing, ReadSoFar
  <2> HIDE DEF step
  <2> QED
    BY ONLY <1>1, <1>2, <2>1, FiniteRecursion
<1>4. Reads(s, N, g)
  <2>1. ASSUME NEW n \in 1 .. N PROVE g[n] = Read(g[n - 1], s[n])
    <3>1. g[n] = step[n][g[n - 1]] /\ n - 1 \in 0 .. N
      BY <1>3 DEF Recurs
    <3>2. g[n - 1] \in ReadSoFar
      BY <1>3, <3>1
    <3> QED
      BY <3>1, <3>2
  <2>2. g[0] = Nothing
    BY <1>3 DEF Recurs
  <2> HIDE DEF step
  <2> QED
    BY <1>3, <2>1, <2>2 DEF Reads
<1> DEFINE Loop(l) == l = [n \in 0 .. N |-> IF n = 0 THEN Nothing ELSE Read(l[n - 1], s[n])]
<1>5. Loop(g)
  <2>1. \A n \in 0 .. N : g[n] = IF n = 0 THEN Nothing ELSE Read(g[n - 1], s[n])
    <3>1. \A n \in 0 .. N : n = 0 \/ n \in 1 .. N
      OBVIOUS
    <3> QED
      BY <1>4, <3>1 DEF Reads
  <2>2. g = [n \in 0 .. N |-> g[n]]
    BY <1>3
  <2> QED
    BY <2>1, <2>2
<1>6. PICK l : l = (CHOOSE k : Loop(k))
  OBVIOUS
<1>7. Loop(l)
  <2> HIDE DEF Loop
  <2> QED
    BY <1>5, <1>6
<1>8. Reading(s) = l[N]
  BY <1>1, <1>6, Zenon DEF Reading, Nothing
<1>9. \A n \in 0 .. N : l[n] = g[n]
  <2> DEFINE T == {n \in Nat : l[n] = g[n]}
  <2>1. 0 \in T
    <3>1. 0 \in 0 .. N
      OBVIOUS
    <3>2. l[0] = Nothing
      BY <1>7, <3>1
    <3> QED
      BY <1>4, <3>2 DEF Reads
  <2>2. ASSUME NEW n \in 0 .. N, n \in T, n < N PROVE n + 1 \in T
    <3>1. n + 1 \in 1 .. N /\ n + 1 \in 0 .. N /\ (n + 1) - 1 = n /\ n + 1 # 0
      BY <2>2
    <3>2. l[n + 1] = Read(l[n], s[n + 1])
      BY <1>7, <3>1
    <3>3. g[n + 1] = Read(g[n], s[n + 1])
      BY <1>4, <3>1 DEF Reads
    <3> QED
      BY <2>2, <3>2, <3>3
  <2>3. \A n \in 0 .. N : n \in T
    <3>1. 0 \in Nat /\ N \in Nat
      OBVIOUS
    <3> HIDE DEF T
    <3> QED
      BY ONLY <2>1, <2>2, <3>1, IntervalInduction
  <2> QED
    BY <2>3
<1>10. N \in 0 .. N
  OBVIOUS
<1> HIDE DEF Loop
<1> QED
  BY <1>1, <1>4, <1>8, <1>9, <1>10

\* A character more.
LEMMA ReadingNext ==
  ASSUME NEW s \in Seq(Legible), NEW c \in Legible
  PROVE  Reading(s \o <<c>>) = Read(Reading(s), c) /\ s \o <<c>> \in Seq(Legible)
<1>1. PICK N \in Nat : N = Len(s)
  BY LenProperties
<1>2. PICK u : u = s \o <<c>> /\ u \in Seq(Legible) /\ Len(u) = N + 1
               /\ u[N + 1] = c /\ \A i \in 1 .. N : u[i] = s[i]
  <2>1. <<c>> \in Seq(Legible) /\ Len(<<c>>) = 1 /\ <<c>>[1] = c
    OBVIOUS
  <2>2. PICK u : u = s \o <<c>>
    OBVIOUS
  <2>3. u \in Seq(Legible) /\ Len(u) = N + 1
        /\ \A i \in 1 .. N + 1 : u[i] = IF i <= N THEN s[i] ELSE <<c>>[i - N]
    BY <1>1, <2>1, <2>2, ConcatProperties
  <2>4. N + 1 \in 1 .. N + 1 /\ ~(N + 1 <= N) /\ (N + 1) - N = 1
    BY <1>1
  <2>5. \A i \in 1 .. N : i \in 1 .. N + 1 /\ i <= N
    BY <1>1
  <2> QED
    BY <2>1, <2>2, <2>3, <2>4, <2>5
<1>3. PICK g : Reads(u, N + 1, g) /\ Reading(u) = g[N + 1]
  BY <1>2, ReadingIs
<1>4. PICK h : Reads(s, N, h) /\ Reading(s) = h[N]
  BY <1>1, ReadingIs
<1> DEFINE T == {n \in Nat : g[n] = h[n]}
<1>5. 0 \in T
  BY <1>3, <1>4 DEF Reads
<1>6. ASSUME NEW n \in 0 .. N, n \in T, n < N PROVE n + 1 \in T
  <2>1. n + 1 \in 1 .. N /\ n + 1 \in 1 .. N + 1 /\ (n + 1) - 1 = n
    BY <1>6
  <2>2. g[n + 1] = Read(g[n], u[n + 1]) /\ h[n + 1] = Read(h[n], s[n + 1])
    BY <1>3, <1>4, <2>1 DEF Reads
  <2> QED
    BY <1>2, <1>6, <2>1, <2>2
<1>7. \A n \in 0 .. N : n \in T
  <2>1. 0 \in Nat /\ N \in Nat
    OBVIOUS
  <2> HIDE DEF T
  <2> QED
    BY ONLY <1>5, <1>6, <2>1, IntervalInduction
<1>8. N \in 0 .. N /\ N + 1 \in 1 .. N + 1 /\ (N + 1) - 1 = N
  BY <1>1
<1>9. g[N] = h[N]
  BY <1>7, <1>8
<1>10. g[N + 1] = Read(g[N], c)
  <2>1. g[N + 1] = Read(g[N], u[N + 1])
    BY <1>3, <1>8 DEF Reads
  <2> QED
    BY <1>2, <2>1
<1> QED
  BY <1>2, <1>3, <1>4, <1>9, <1>10

\* Nothing has been read of nothing.
LEMMA ReadingNothing == Reading(<<>>) = Nothing /\ <<>> \in Seq(Legible)
<1>1. <<>> \in Seq(Legible) /\ Len(<<>>) = 0
  OBVIOUS
<1>2. PICK g : Reads(<<>>, 0, g) /\ Reading(<<>>) = g[0]
  BY <1>1, ReadingIs
<1> QED
  BY <1>1, <1>2 DEF Reads

----------------------------------------------------------------------------
Sofar(m, n, k) == [sum |-> m, group |-> n, size |-> k, ok |-> TRUE]

\* The parts of what has been read.
LEMMA SofarIs ==
  ASSUME NEW m \in Nat, NEW n \in Nat, NEW k \in Nat
  PROVE  /\ Sofar(m, n, k).sum = m /\ Sofar(m, n, k).group = n
         /\ Sofar(m, n, k).size = k /\ Sofar(m, n, k).ok = TRUE
BY DEF Sofar

\* One character is a text.
LEMMA OneChar ==
  ASSUME NEW c \in Legible
  PROVE  \E u \in Seq(Legible) : u = <<c>>
<1>1. <<c>> \in Seq(Legible)
  OBVIOUS
<1> QED
  BY <1>1

\* Texts put behind each other.
LEMMA Regroup ==
  ASSUME NEW s \in Seq(Legible), NEW w \in Seq(Legible), NEW u \in Seq(Legible)
  PROVE  (s \o w) \o u = s \o (w \o u)
BY ConcatAssociative

\* One figure.
LEMMA ReadFigure ==
  ASSUME NEW s \in Seq(Legible), NEW m \in Nat, NEW n \in Nat, NEW k \in Nat,
         Reading(s) = Sofar(m, n, k), NEW c \in Legible, c \notin {"T", ":"},
         NEW e, e = 10 * n + Worth(c), NEW j, j = k + 1
  PROVE  s \o <<c>> \in Seq(Legible) /\ Reading(s \o <<c>>) = Sofar(m, e, j)
<1>1. s \o <<c>> \in Seq(Legible) /\ Reading(s \o <<c>>) = Read(Sofar(m, n, k), c)
  BY ReadingNext
<1>2. Read(Sofar(m, n, k), c) = Sofar(m, e, j)
  BY SofarIs DEF Read, Sofar
<1> QED
  BY <1>1, <1>2

\* A colon after a group of two.
LEMMA ReadColon ==
  ASSUME NEW s \in Seq(Legible), NEW m \in Nat, NEW n \in Nat, Reading(s) = Sofar(m, n, 2)
  PROVE  /\ s \o <<":">> \in Seq(Legible)
         /\ Reading(s \o <<":">>) = Sofar((m + n) * 60, 0, 0)
<1>1. ":" \in Legible
  BY DEF Legible
<1>2. s \o <<":">> \in Seq(Legible) /\ Reading(s \o <<":">>) = Read(Sofar(m, n, 2), ":")
  BY <1>1, ReadingNext
<1>3. Read(Sofar(m, n, 2), ":") = Sofar((m + n) * 60, 0, 0)
  BY SofarIs DEF Read, Sofar
<1> QED
  BY <1>2, <1>3

\* The sign behind the days.
LEMMA ReadDays ==
  ASSUME NEW s \in Seq(Legible), NEW n \in Nat, NEW k \in Nat, Reading(s) = Sofar(0, n, k)
  PROVE  /\ s \o <<"T">> \in Seq(Legible)
         /\ Reading(s \o <<"T">>) = Sofar(n * 24, 0, 0)
<1>1. "T" \in Legible
  BY DEF Legible
<1>2. s \o <<"T">> \in Seq(Legible) /\ Reading(s \o <<"T">>) = Read(Sofar(0, n, k), "T")
  BY <1>1, ReadingNext
<1>3. Read(Sofar(0, n, k), "T") = Sofar((0 + n) * 24, 0, 0)
  BY SofarIs DEF Read, Sofar
<1>4. 0 + n = n
  OBVIOUS
<1> QED
  BY <1>2, <1>3, <1>4

\* A number below a hundred, with a zero in front or without.
LEMMA ReadNumber ==
  ASSUME NEW s \in Seq(Legible), NEW m \in Nat, Reading(s) = Sofar(m, 0, 0),
         NEW n \in 0 .. 99, NEW zero \in BOOLEAN, NEW align \in BOOLEAN
  PROVE  /\ Number(n, zero, align) \in Seq(Legible)
         /\ s \o Number(n, zero, align) \in Seq(Legible)
         /\ \E k \in 1 .. 2 : /\ Reading(s \o Number(n, zero, align)) = Sofar(m, n, k)
                              /\ zero => k = 2
<1>1. PICK a \in 0 .. 9, b \in 0 .. 9 : a = n \div 10 /\ b = n % 10 /\ n = 10 * a + b
  <2>1. n \div 10 \in 0 .. 9 /\ n % 10 \in 0 .. 9 /\ n = 10 * (n \div 10) + (n % 10)
    OBVIOUS
  <2> QED
    BY <2>1
<1>2. PICK y \in Legible : y = Figure(b, align) /\ Worth(y) = b /\ y \notin {"T", ":"}
  BY <1>1, FigureWorth
<1>3. ASSUME NEW x \in Legible, Worth(x) = a, x \notin {"T", ":"},
             Number(n, zero, align) = <<x>> \o <<y>>
      PROVE  /\ Number(n, zero, align) \in Seq(Legible)
             /\ s \o Number(n, zero, align) \in Seq(Legible)
             /\ Reading(s \o Number(n, zero, align)) = Sofar(m, n, 2)
  <2>1. PICK u \in Seq(Legible), v \in Seq(Legible) : u = <<x>> /\ v = <<y>>
    BY OneChar
  <2>2. PICK t : t = s \o <<x>>
    OBVIOUS
  <2>3. t \in Seq(Legible) /\ Reading(t) = Sofar(m, a, 1)
    <3>1. a = 10 * 0 + Worth(x) /\ 1 = 0 + 1
      BY <1>1, <1>3
    <3> QED
      BY <1>3, <2>2, <3>1, ReadFigure
  <2>4. t \o <<y>> \in Seq(Legible) /\ Reading(t \o <<y>>) = Sofar(m, n, 2)
    <3>1. n = 10 * a + Worth(y) /\ 2 = 1 + 1 /\ a \in Nat /\ 1 \in Nat
      BY <1>1, <1>2
    <3> QED
      BY <1>2, <2>3, <3>1, ReadFigure
  <2>5. (s \o u) \o v = s \o (u \o v)
    BY Regroup
  <2>6. u \o v \in Seq(Legible)
    BY ConcatProperties
  <2> QED
    BY <1>3, <2>1, <2>2, <2>4, <2>5, <2>6
<1>4. CASE n >= 10
  <2>1. PICK x \in Legible : x = Figure(a, align) /\ Worth(x) = a /\ x \notin {"T", ":"}
    BY <1>1, FigureWorth
  <2>2. Number(n, zero, align) = <<x>> \o <<y>>
    BY <1>1, <1>2, <1>4, <2>1 DEF Number
  <2> QED
    BY <1>3, <2>1, <2>2
<1>5. CASE n < 10 /\ zero
  <2>1. PICK x \in Legible : x = Figure(0, FALSE) /\ Worth(x) = 0 /\ x \notin {"T", ":"}
    <3>1. PICK z \in 0 .. 9 : z = 0
      OBVIOUS
    <3>2. /\ Figure(z, FALSE) \in Legible /\ Figure(z, FALSE) \notin {"T", ":"}
          /\ Worth(Figure(z, FALSE)) = z
      BY FigureWorth
    <3> QED
      BY <3>1, <3>2
  <2>2. a = 0 /\ x = "0"
    BY <1>1, <1>5, <2>1 DEF Figure, Digit
  <2>3. Number(n, zero, align) = <<x>> \o <<y>>
    BY <1>1, <1>2, <1>5, <2>2 DEF Number
  <2>4. Number(n, zero, align) \in Seq(Legible) /\ s \o Number(n, zero, align) \in Seq(Legible)
        /\ Reading(s \o Number(n, zero, align)) = Sofar(m, n, 2)
    BY <1>3, <2>1, <2>2, <2>3
  <2>5. 2 \in 1 .. 2
    OBVIOUS
  <2> QED
    BY <2>4, <2>5
<1>6. CASE n < 10 /\ ~zero
  <2>1. PICK v \in Seq(Legible) : v = <<y>>
    BY OneChar
  <2>2. Number(n, zero, align) = <<>> \o <<y>>
    <3>1. PICK front : front = IF n >= 10 THEN << Figure(n \div 10, align) >>
                               ELSE IF zero THEN << "0" >> ELSE <<>>
      OBVIOUS
    <3>2. Number(n, zero, align) = front \o <<y>>
      BY <1>1, <1>2, <1>6, <3>1 DEF Number
    <3>3. front = <<>>
      BY <1>6, <3>1
    <3> QED
      BY <3>2, <3>3
  <2>3. Number(n, zero, align) = v
    BY <2>1, <2>2, ConcatEmptySeq
  <2>4. s \o <<y>> \in Seq(Legible) /\ Reading(s \o <<y>>) = Sofar(m, n, 1)
    <3>1. n = 10 * 0 + Worth(y) /\ 1 = 0 + 1
      BY <1>1, <1>2, <1>6
    <3> QED
      BY <1>2, <3>1, ReadFigure
  <2>5. 1 \in 1 .. 2
    OBVIOUS
  <2> QED
    BY <1>6, <2>1, <2>3, <2>4, <2>5
<1> QED
  BY <1>4, <1>5, <1>6

\* A number of two figures and the colon behind it.
LEMMA ReadGroup ==
  ASSUME NEW s \in Seq(Legible), NEW m \in Nat, Reading(s) = Sofar(m, 0, 0),
         NEW n \in 0 .. 99, NEW align \in BOOLEAN
  PROVE  /\ s \o (Number(n, TRUE, align) \o <<":">>) \in Seq(Legible)
         /\ Reading(s \o (Number(n, TRUE, align) \o <<":">>)) = Sofar((m + n) * 60, 0, 0)
<1>1. PICK w : /\ w = Number(n, TRUE, align) /\ w \in Seq(Legible) /\ s \o w \in Seq(Legible)
               /\ Reading(s \o w) = Sofar(m, n, 2)
  <2>1. PICK w : w = Number(n, TRUE, align)
    OBVIOUS
  <2>2. /\ w \in Seq(Legible) /\ s \o w \in Seq(Legible)
        /\ \E k \in 1 .. 2 : Reading(s \o w) = Sofar(m, n, k) /\ (TRUE => k = 2)
    BY <2>1, ReadNumber
  <2> QED
    BY <2>1, <2>2
<1>2. PICK u : u = s \o w /\ u \in Seq(Legible) /\ Reading(u) = Sofar(m, n, 2)
  BY <1>1
<1>3. u \o <<":">> \in Seq(Legible) /\ Reading(u \o <<":">>) = Sofar((m + n) * 60, 0, 0)
  <2>1. n \in Nat
    OBVIOUS
  <2> QED
    BY <1>2, <2>1, ReadColon
<1>4. u \o <<":">> = s \o (w \o <<":">>)
  <2>1. <<":">> \in Seq(Legible)
    BY DEF Legible
  <2>2. PICK colon : colon = <<":">> /\ colon \in Seq(Legible)
    BY <2>1
  <2>3. (s \o w) \o colon = s \o (w \o colon)
    BY <1>1, <2>2, Regroup
  <2> QED
    BY <1>2, <2>2, <2>3
<1> QED
  BY <1>1, <1>3, <1>4

\* A part of a number, and the rest.
LEMMA WholeHours ==
  ASSUME NEW q \in Nat, NEW r \in Nat, r < 3600, NEW x \in Nat, x = 3600 * q + r
  PROVE  x \div 3600 = q
OBVIOUS

\* The same of a number of days.
LEMMA WholeDays ==
  ASSUME NEW q \in Nat, NEW r \in Nat, r < 86400, NEW x \in Nat, x = 86400 * q + r
  PROVE  x \div 86400 = q
OBVIOUS

\* What is left of a hundred days, a day at most eight bits wide.
LEMMA FewDays ==
  ASSUME NEW d \in Nat, NEW z \in Nat, 86400 * d + z < 8640000
  PROVE  d \in 0 .. 99 /\ d % 256 = d
<1>1. d < 100
  OBVIOUS
<1>2. d \in 0 .. 99
  BY <1>1
<1> QED
  BY ONLY <1>2

\* A number in sixties.
LEMMA Sixties ==
  ASSUME NEW t \in Nat
  PROVE  \E m \in Nat, s \in 0 .. 59 : m = t \div 60 /\ s = t % 60 /\ t = 60 * m + s
<1>1. t \div 60 \in Nat /\ t % 60 \in 0 .. 59 /\ t = 60 * (t \div 60) + (t % 60)
  OBVIOUS
<1> QED
  BY <1>1

\* Hours in days.
LEMMA DaysOf ==
  ASSUME NEW t \in Nat
  PROVE  \E d \in Nat, r \in 0 .. 23 : d = t \div 24 /\ r = t % 24 /\ t = 24 * d + r
<1>1. t \div 24 \in Nat /\ t % 24 \in 0 .. 23 /\ t = 24 * (t \div 24) + (t % 24)
  OBVIOUS
<1> QED
  BY <1>1

\* The minutes and seconds of an hour, the hours and the rest of a day.
LEMMA OfAnHour ==
  ASSUME NEW n \in 0 .. 59, NEW s \in 0 .. 59
  PROVE  \E y \in Nat : y = 60 * n + s /\ y < 3600
<1>1. 60 * n + s \in Nat /\ 60 * n + s < 3600
  OBVIOUS
<1> QED
  BY <1>1

\* The hours of a day with what is left of an hour.
LEMMA OfADay ==
  ASSUME NEW r \in 0 .. 23, NEW y \in Nat, y < 3600
  PROVE  \E z \in Nat : z = 3600 * r + y /\ z < 86400
<1>1. 3600 * r + y \in Nat /\ 3600 * r + y < 86400
  OBVIOUS
<1> QED
  BY <1>1

\* A number of seconds put together from its parts.
LEMMA PartsAre ==
  ASSUME NEW d \in Nat, NEW r \in Nat, NEW n \in Nat, NEW s \in Nat, NEW m \in Nat,
         NEW h \in Nat, NEW y \in Nat, NEW z \in Nat, NEW t \in Nat,
         t = 60 * m + s, m = 60 * h + n, h = 24 * d + r, y = 60 * n + s, z = 3600 * r + y
  PROVE  t = ((d * 24 + r) * 60 + n) * 60 + s /\ t = 3600 * h + y /\ t = 86400 * d + z
OBVIOUS

\* The parts of a number of seconds.
Parts(t, d, h, n, s) ==
  /\ d = Days(t) /\ h = Hours(t) /\ n = Minutes(t) /\ s = t % 60
  /\ t = ((d * 24 + h) * 60 + n) * 60 + s

HasParts(t) == \E d \in 0 .. 99, h \in 0 .. 23, n \in 0 .. 59, s \in 0 .. 59 : Parts(t, d, h, n, s)

\* A number of seconds has these parts.
LEMMA SecondsAre ==
  ASSUME NEW t \in Nat, t < 100 * 86400
  PROVE  HasParts(t)
<1>1. PICK m \in Nat, s \in 0 .. 59 : m = t \div 60 /\ s = t % 60 /\ t = 60 * m + s
  BY ONLY t \in Nat, Sixties
<1>2. PICK h \in Nat, n \in 0 .. 59 : h = m \div 60 /\ n = m % 60 /\ m = 60 * h + n
  BY ONLY m \in Nat, Sixties
<1>3. PICK d \in Nat, r \in 0 .. 23 : d = h \div 24 /\ r = h % 24 /\ h = 24 * d + r
  BY ONLY h \in Nat, DaysOf
<1>4. PICK y \in Nat : y = 60 * n + s /\ y < 3600
  BY ONLY n \in 0 .. 59, s \in 0 .. 59, OfAnHour
<1>5. PICK z \in Nat : z = 3600 * r + y /\ z < 86400
  BY ONLY r \in 0 .. 23, y \in Nat, <1>4, OfADay
<1>6. t = ((d * 24 + r) * 60 + n) * 60 + s /\ t = 3600 * h + y /\ t = 86400 * d + z
  <2>1. t = 60 * m + s /\ m = 60 * h + n /\ h = 24 * d + r /\ y = 60 * n + s /\ z = 3600 * r + y
    BY ONLY <1>1, <1>2, <1>3, <1>4, <1>5
  <2>2. d \in Nat /\ r \in Nat /\ n \in Nat /\ s \in Nat /\ m \in Nat /\ h \in Nat /\ y \in Nat
        /\ z \in Nat /\ t \in Nat
    OBVIOUS
  <2> QED
    BY ONLY <2>1, <2>2, PartsAre
<1>7. t \div 3600 = h
  BY ONLY h \in Nat, y \in Nat, t \in Nat, <1>4, <1>6, WholeHours
<1>8. t \div 86400 = d
  BY ONLY d \in Nat, z \in Nat, t \in Nat, <1>5, <1>6, WholeDays
<1>9. d \in 0 .. 99 /\ d % 256 = d
  <2>1. 86400 * d + z < 8640000
    <3>1. t < 8640000
      BY ONLY t < 100 * 86400, t \in Nat
    <3> QED
      BY ONLY <1>6, <3>1
  <2> QED
    BY ONLY d \in Nat, z \in Nat, <2>1, FewDays
<1>10. Days(t) = d /\ Hours(t) = r /\ Minutes(t) = n /\ t % 60 = s
  BY ONLY <1>1, <1>2, <1>3, <1>7, <1>8, <1>9 DEF Days, Hours, Minutes
<1>11. Parts(t, d, r, n, s)
  BY ONLY <1>6, <1>10 DEF Parts
<1> QED
  BY ONLY r \in 0 .. 23, n \in 0 .. 59, s \in 0 .. 59, <1>9, <1>11 DEF HasParts

\* A number of two figures, and one without the zero in front.
LEMMA ReadTwo ==
  ASSUME NEW s \in Seq(Legible), NEW m \in Nat, Reading(s) = Sofar(m, 0, 0),
         NEW n \in 0 .. 99
  PROVE  Reading(s \o Number(n, TRUE, FALSE)) = Sofar(m, n, 2)
<1>1. PICK w : w = Number(n, TRUE, FALSE)
  OBVIOUS
<1>2. \E k \in 1 .. 2 : Reading(s \o w) = Sofar(m, n, k) /\ (TRUE => k = 2)
  BY <1>1, ReadNumber
<1> QED
  BY <1>1, <1>2

\* The number of days, which comes first.
LEMMA ReadFirst ==
  ASSUME NEW n \in 0 .. 99
  PROVE  /\ Number(n, FALSE, TRUE) \o <<"T">> \in Seq(Legible)
         /\ Reading(Number(n, FALSE, TRUE) \o <<"T">>) = Sofar(n * 24, 0, 0)
<1>1. PICK w : w = Number(n, FALSE, TRUE)
  OBVIOUS
<1>2. PICK e \in Seq(Legible), m \in Nat : e = <<>> /\ m = 0 /\ Reading(e) = Sofar(m, 0, 0)
  BY ReadingNothing DEF Nothing, Sofar
<1>3. w \in Seq(Legible) /\ \E k \in 1 .. 2 : Reading(e \o w) = Sofar(m, n, k)
  BY <1>1, <1>2, ReadNumber
<1>4. e \o w = w
  BY <1>2, <1>3, ConcatEmptySeq
<1>5. PICK k \in Nat : Reading(w) = Sofar(0, n, k)
  BY <1>2, <1>3, <1>4
<1>6. w \o <<"T">> \in Seq(Legible) /\ Reading(w \o <<"T">>) = Sofar(n * 24, 0, 0)
  <2>1. n \in Nat
    OBVIOUS
  <2> QED
    BY <1>3, <1>5, <2>1, ReadDays
<1> QED
  BY <1>1, <1>6

\* A duration is read as the seconds it was written for.
LEMMA DurationReads ==
  ASSUME NEW t \in Nat, NEW d \in 0 .. 99, NEW h \in 0 .. 23, NEW n \in 0 .. 59,
         NEW s \in 0 .. 59, Parts(t, d, h, n, s)
  PROVE  \E m \in Nat : Reading(Duration(t)) = Sofar(m, s, 2) /\ m + s = t
<1>2. d \in Nat /\ h \in 0 .. 99 /\ n \in 0 .. 99 /\ s \in 0 .. 99
  OBVIOUS
<1>3. PICK a : a = IF d > 0 THEN Number(d, FALSE, TRUE) \o <<"T">> ELSE <<>>
  OBVIOUS
<1>4. PICK b : b = IF d > 0 \/ h > 0 THEN Number(h, TRUE, TRUE) \o <<":">> ELSE <<>>
  OBVIOUS
<1>5. PICK c : c = IF d > 0 \/ h > 0 \/ n > 0 THEN Number(n, TRUE, TRUE) \o <<":">> ELSE <<>>
  OBVIOUS
<1>6. Duration(t) = a \o b \o c \o Number(s, TRUE, FALSE)
  BY <1>3, <1>4, <1>5 DEF Duration, Parts
<1>7. <<>> \in Seq(Legible) /\ Reading(<<>>) = Sofar(0, 0, 0)
  BY ReadingNothing DEF Nothing, Sofar
<1>8. a \in Seq(Legible) /\ Reading(a) = Sofar(d * 24, 0, 0)
  <2>1. CASE d > 0
    BY <1>3, <2>1, ReadFirst
  <2>2. CASE ~(d > 0)
    <3>1. a = <<>>
      BY <1>3, <2>2
    <3>2. d * 24 = 0
      BY <2>2
    <3> QED
      BY <1>7, <3>1, <3>2
  <2> QED
    BY <2>1, <2>2
<1>9. PICK x \in Nat : x = d * 24
  OBVIOUS
<1>10. PICK u : /\ u = a \o b /\ u \in Seq(Legible) /\ Reading(u) = Sofar((x + h) * 60, 0, 0)
  <2>1. CASE d > 0 \/ h > 0
    <3>1. b = Number(h, TRUE, TRUE) \o <<":">>
      BY <1>4, <2>1
    <3>2. /\ a \o (Number(h, TRUE, TRUE) \o <<":">>) \in Seq(Legible)
          /\ Reading(a \o (Number(h, TRUE, TRUE) \o <<":">>)) = Sofar((x + h) * 60, 0, 0)
      BY <1>2, <1>8, <1>9, ReadGroup
    <3> QED
      BY <3>1, <3>2
  <2>2. CASE ~(d > 0 \/ h > 0)
    <3>1. b = <<>> /\ d * 24 = 0 /\ (x + h) * 60 = 0
      <4>1. b = <<>>
        BY <1>4, <2>2
      <4>2. d = 0 /\ h = 0
        BY <2>2
      <4>3. x = 0
        BY <1>9, <4>2
      <4> QED
        BY <4>1, <4>2, <4>3
    <3>2. a \o b = a
      BY <1>8, <3>1, ConcatEmptySeq
    <3> QED
      BY <1>8, <3>1, <3>2
  <2> QED
    BY <2>1, <2>2
<1>11. PICK y \in Nat : y = (x + h) * 60
  BY <1>9
<1>12. PICK v : /\ v = u \o c /\ v \in Seq(Legible) /\ Reading(v) = Sofar((y + n) * 60, 0, 0)
  <2>1. CASE d > 0 \/ h > 0 \/ n > 0
    <3>1. c = Number(n, TRUE, TRUE) \o <<":">>
      BY <1>5, <2>1
    <3>2. /\ u \o (Number(n, TRUE, TRUE) \o <<":">>) \in Seq(Legible)
          /\ Reading(u \o (Number(n, TRUE, TRUE) \o <<":">>)) = Sofar((y + n) * 60, 0, 0)
      BY <1>2, <1>10, <1>11, ReadGroup
    <3> QED
      BY <3>1, <3>2
  <2>2. CASE ~(d > 0 \/ h > 0 \/ n > 0)
    <3>1. c = <<>> /\ (x + h) * 60 = 0 /\ (y + n) * 60 = 0
      <4>1. c = <<>>
        BY <1>5, <2>2
      <4>2. d = 0 /\ h = 0 /\ n = 0
        BY <2>2
      <4>3. x = 0
        BY <1>9, <4>2
      <4>4. y = 0
        BY <1>11, <4>2, <4>3
      <4> QED
        BY <4>1, <4>2, <4>3, <4>4
    <3>2. u \o c = u
      BY <1>10, <3>1, ConcatEmptySeq
    <3> QED
      BY <1>10, <3>1, <3>2
  <2> QED
    BY <2>1, <2>2
<1>13. PICK m \in Nat : m = (y + n) * 60
  BY <1>11
<1>14. Reading(v \o Number(s, TRUE, FALSE)) = Sofar(m, s, 2)
  BY <1>2, <1>12, <1>13, ReadTwo
<1>15. m + s = t
  BY <1>9, <1>11, <1>13 DEF Parts
<1>16. Duration(t) = v \o Number(s, TRUE, FALSE)
  BY <1>6, <1>10, <1>12
<1> QED
  BY <1>13, <1>14, <1>15, <1>16

\* A duration that is about to be drawn can be read.
LEMMA ReadFollows ==
  ASSUME ScreenInv
  PROVE  DurationIsRead
<1> SUFFICES ASSUME stage = "number", pos = begun.number, show \in Events, seconds < 100 * 86400
             PROVE  LET r == Reading(rest) IN r.ok /\ r.size = 2 /\ r.sum + r.group = seconds
  BY DEF DurationIsRead
<1>1. seconds \in Nat
  BY DEF ScreenInv, GivenInv
<1>2. PICK F \in Seq(Chars) : F = FiguresOf(show, seconds) /\ F = Duration(seconds)
  BY <1>1, FiguresOfAre DEF FiguresOf
<1>3. PICK n : At(F, n, rest, 0, 0)
  BY <1>2 DEF ScreenInv, NumberInv
<1>4. PICK N \in Nat : N = Len(F)
  BY LenProperties
<1>5. n \in 0 .. N /\ rest = Rest(F, n) /\ Reach(F)[n] = 0
  <2>1. n \in 0 .. N /\ rest = Rest(F, n) /\ 0 = 0 + Reach(F)[n]
    BY <1>3, <1>4 DEF At
  <2>2. Reach(F)[n] \in Nat
    BY <1>4, <2>1, ReachIs
  <2> QED
    BY <2>1, <2>2
<1>6. n = 0
  <2> SUFFICES ASSUME n # 0 PROVE FALSE
    OBVIOUS
  <2>1. n \in 1 .. N /\ n - 1 \in 0 .. N
    BY <1>5
  <2>2. Reach(F)[n] = Reach(F)[n - 1] + CharWidth(F[n]) /\ Reach(F)[n - 1] \in Nat
    BY <1>4, <2>1, ReachIs
  <2>3. CharWidth(F[n]) \in 2 .. 6
    BY WidthIs
  <2> QED
    BY <1>5, <2>2, <2>3
<1>7. rest = Duration(seconds)
  BY <1>2, <1>5, <1>6, <1>4, RestIs
<1>8. PICK d \in 0 .. 99, h \in 0 .. 23, k \in 0 .. 59, s \in 0 .. 59 : Parts(seconds, d, h, k, s)
  <2>1. PICK t \in Nat : t = seconds /\ t < 100 * 86400
    BY <1>1
  <2>2. HasParts(t)
    BY ONLY t \in Nat, <2>1, SecondsAre
  <2>3. HasParts(seconds)
    BY ONLY <2>1, <2>2
  <2> QED
    BY ONLY <2>3 DEF HasParts
<1>9. PICK m \in Nat : Reading(Duration(seconds)) = Sofar(m, s, 2) /\ m + s = seconds
  BY ONLY <1>1, d \in 0 .. 99, h \in 0 .. 23, k \in 0 .. 59, s \in 0 .. 59, <1>8, DurationReads
<1>10. PICK r : r = Reading(rest)
  OBVIOUS
<1>11. r.ok /\ r.size = 2 /\ r.sum + r.group = seconds
  <2>1. r = Sofar(m, s, 2)
    BY <1>7, <1>9, <1>10
  <2> QED
    BY <1>9, <2>1 DEF Sofar
<1> QED
  BY <1>10, <1>11

\* Every round ends with the picture that was to be drawn, and begins with a duration
\* that says what is left, whatever the font, the texts and the durations are.
THEOREM PicturesAreRight == Spec => []DrawnRight
<1>1. ScreenInv => DrawnRight
  BY LitFollows, ReadFollows DEF DrawnRight
<1> QED
  BY <1>1, ScreenIsKept, PTL
=============================================================================
