----------------------------- MODULE Twi_proofs -----------------------------
(***************************************************************************)
(* Proofs about Twi, for every size of the rings, every program, every     *)
(* interleaving with the handler, and faults whose flags stay up.  What a  *)
(* transfer may rely on depends on how it was started: tracked, if state_  *)
(* was not READY; granted, if its room was checked with the bus at rest.   *)
(***************************************************************************)
EXTENDS Twi, TLAPS

LEMMA InitTwiInv == Init => TwiInv
<1> SUFFICES ASSUME Init PROVE TwiInv
  OBVIOUS
<1>1. TypeOK
  <2>1. granted \in BOOLEAN /\ tracked \in BOOLEAN
    BY DEF Init
  <2>2. main \in Call
    BY RequestAssumption DEF Init, NoCall, Call
  <2>3. 0 \in 0 .. InputRoom /\ 0 \in 0 .. OutputRoom /\ 0 \in 0 .. MaxRequest
    BY RoomAssumption, RequestAssumption
  <2> QED
    BY <2>1, <2>2, <2>3 DEF Init, TypeOK
<1>2. ~Busy /\ main.op = "none" /\ main.done = "none"
  BY DEF Init, Busy, NoCall
<1>3. ReadyMeansIdle /\ OnlyFaultsMislead /\ StartsAtRest /\ StatusFits /\ GrantKept
  BY <1>2 DEF Init, ReadyMeansIdle, OnlyFaultsMislead, StartsAtRest, StatusFits,
              GrantKept
<1> QED
  BY <1>1, <1>3 DEF TwiInv

\* The counters, and the rest of the types.
Counts == /\ received \in Nat /\ requested \in 0 .. MaxRequest
          /\ input \in 0 .. InputRoom /\ output \in 0 .. OutputRoom
Kinds == /\ state \in {"READY", "TRANSMITTING", "RECEIVING"}
         /\ error \in {"NONE", "NO_ACK", "UNEXPECTED_STATE"} \cup Faults
         /\ slarw \in {"read", "write"}
         /\ bus \in {"off", "idle"} \cup Writes \cup Reads
         /\ status \in {"none", "ack", "nack", "byte"} \cup Stuck
         /\ main \in Call
         /\ granted \in BOOLEAN /\ tracked \in BOOLEAN

LEMMA NextCounts == TypeOK /\ [Next]_vars => Counts'
<1> SUFFICES ASSUME Counts, main \in Call, [Next]_vars PROVE Counts'
  BY DEF TypeOK, Counts
<1> USE RoomAssumption, RequestAssumption DEF Counts, code
<1>1. ASSUME TwiInit PROVE Counts'
  BY <1>1 DEF TwiInit
<1>2. ASSUME TwiDone PROVE Counts'
  BY <1>2 DEF TwiDone
<1>3. ASSUME PutByte PROVE Counts'
  BY <1>3 DEF PutByte
<1>4. ASSUME GetByte PROVE Counts'
  BY <1>4 DEF GetByte
<1>5. ASSUME FlushInputBuffer PROVE Counts'
  BY <1>5 DEF FlushInputBuffer
<1>6. ASSUME FlushOutputBuffer PROVE Counts'
  BY <1>6 DEF FlushOutputBuffer
<1>7. ASSUME NEW n \in 0 .. MaxRequest, RequestCheck(n) PROVE Counts'
  BY <1>7 DEF RequestCheck
<1>8. ASSUME SendCheck PROVE Counts'
  BY <1>8 DEF SendCheck
<1>9. ASSUME StateCheck PROVE Counts'
  BY <1>9 DEF StateCheck
<1>10. ASSUME MarkReceiving PROVE Counts'
  BY <1>10 DEF MarkReceiving, Call
<1>11. ASSUME MarkTransmitting PROVE Counts'
  BY <1>11 DEF MarkTransmitting
<1>12. ASSUME StartBus PROVE Counts'
  BY <1>12 DEF StartBus
<1>13. ASSUME BusReports PROVE Counts'
  BY <1>13 DEF BusReports
<1>14. ASSUME OnFault PROVE Counts'
  BY <1>14 DEF OnFault
<1>15. ASSUME OnUnexpected PROVE Counts'
  BY <1>15 DEF OnUnexpected
<1>16. ASSUME OnNack PROVE Counts'
  BY <1>16 DEF OnNack
<1>17. ASSUME OnReadyToWrite PROVE Counts'
  BY <1>17 DEF OnReadyToWrite
<1>18. ASSUME OnReaddress PROVE Counts'
  BY <1>18 DEF OnReaddress
<1>19. ASSUME OnAllWritten PROVE Counts'
  BY <1>19 DEF OnAllWritten
<1>20. ASSUME OnByte PROVE Counts'
  BY <1>20 DEF OnByte, StoreByte
<1>21. ASSUME UNCHANGED vars PROVE Counts'
  BY <1>21 DEF vars
<1> QED
  BY <1>1, <1>2, <1>3, <1>4, <1>5, <1>6, <1>7, <1>8, <1>9, <1>10, <1>11,
     <1>12, <1>13, <1>14, <1>15, <1>16, <1>17, <1>18, <1>19, <1>20, <1>21
  DEF Next, MainStep, InterruptHandler

LEMMA NextKinds == TypeOK /\ [Next]_vars => Kinds'
<1> SUFFICES ASSUME Kinds, [Next]_vars PROVE Kinds'
  BY DEF TypeOK, Kinds
<1> USE RequestAssumption DEF Kinds, Faults, Stuck, Writes, Reads, code
<1>1. ASSUME TwiInit PROVE Kinds'
  BY <1>1 DEF TwiInit
<1>2. ASSUME TwiDone PROVE Kinds'
  BY <1>2 DEF TwiDone
<1>3. ASSUME PutByte PROVE Kinds'
  BY <1>3 DEF PutByte
<1>4. ASSUME GetByte PROVE Kinds'
  BY <1>4 DEF GetByte
<1>5. ASSUME FlushInputBuffer PROVE Kinds'
  BY <1>5 DEF FlushInputBuffer
<1>6. ASSUME FlushOutputBuffer PROVE Kinds'
  BY <1>6 DEF FlushOutputBuffer
<1>7. ASSUME NEW n \in 0 .. MaxRequest, RequestCheck(n) PROVE Kinds'
  BY <1>7 DEF RequestCheck, Call, BusSeen
<1>8. ASSUME SendCheck PROVE Kinds'
  BY <1>8 DEF SendCheck, Call, BusSeen
<1>9. ASSUME StateCheck PROVE Kinds'
  <2>1. CASE state # "READY"
    BY <1>9, <2>1 DEF StateCheck, Call, NoCall
  <2>2. CASE state = "READY"
    BY <1>9, <2>2 DEF StateCheck, Call, NoCall
  <2> QED
    BY <2>1, <2>2
<1>10. ASSUME MarkReceiving PROVE Kinds'
  BY <1>10 DEF MarkReceiving, Call
<1>11. ASSUME MarkTransmitting PROVE Kinds'
  BY <1>11 DEF MarkTransmitting, Call
<1>12. ASSUME StartBus PROVE Kinds'
  BY <1>12 DEF StartBus, Call, NoCall, Addressing
<1>13. ASSUME BusReports PROVE Kinds'
  BY <1>13 DEF BusReports, Outcomes
<1>14. ASSUME OnFault PROVE Kinds'
  BY <1>14 DEF OnFault
<1>15. ASSUME OnUnexpected PROVE Kinds'
  BY <1>15 DEF OnUnexpected
<1>16. ASSUME OnNack PROVE Kinds'
  BY <1>16 DEF OnNack
<1>17. ASSUME OnReadyToWrite PROVE Kinds'
  BY <1>17 DEF OnReadyToWrite
<1>18. ASSUME OnReaddress PROVE Kinds'
  BY <1>18 DEF OnReaddress, Addressing
<1>19. ASSUME OnAllWritten PROVE Kinds'
  BY <1>19 DEF OnAllWritten
<1>20. ASSUME OnByte PROVE Kinds'
  BY <1>20 DEF OnByte
<1>21. ASSUME UNCHANGED vars PROVE Kinds'
  BY <1>21 DEF vars
<1> QED
  BY <1>1, <1>2, <1>3, <1>4, <1>5, <1>6, <1>7, <1>8, <1>9, <1>10, <1>11,
     <1>12, <1>13, <1>14, <1>15, <1>16, <1>17, <1>18, <1>19, <1>20, <1>21
  DEF Next, MainStep, InterruptHandler

\* Every step keeps the types.
LEMMA NextTypeOK == TypeOK /\ [Next]_vars => TypeOK'
BY NextCounts, NextKinds DEF TypeOK, Counts, Kinds

\* Every step keeps what state_ says of the bus.
LEMMA NextTruth ==
  TwiInv /\ [Next]_vars => (ReadyMeansIdle /\ OnlyFaultsMislead /\ StartsAtRest)'
<1> DEFINE Truth == ReadyMeansIdle /\ OnlyFaultsMislead /\ StartsAtRest
<1> SUFFICES ASSUME Kinds, Truth, StatusFits, [Next]_vars PROVE Truth'
  BY DEF TwiInv, TypeOK, Kinds
<1> USE DEF Kinds, Call, NoCall, ReadyMeansIdle, OnlyFaultsMislead, StartsAtRest, StatusFits,
        Busy, Faults, Stuck, Writes, Reads, code
<1>1. ASSUME TwiInit PROVE Truth'
  BY <1>1 DEF TwiInit
<1>2. ASSUME TwiDone PROVE Truth'
  BY <1>2 DEF TwiDone
<1>3. ASSUME PutByte PROVE Truth'
  BY <1>3 DEF PutByte
<1>4. ASSUME GetByte PROVE Truth'
  BY <1>4 DEF GetByte
<1>5. ASSUME FlushInputBuffer PROVE Truth'
  BY <1>5 DEF FlushInputBuffer
<1>6. ASSUME FlushOutputBuffer PROVE Truth'
  BY <1>6 DEF FlushOutputBuffer
<1>7. ASSUME NEW n \in 0 .. MaxRequest, RequestCheck(n) PROVE Truth'
  BY <1>7 DEF RequestCheck, BusSeen
<1>8. ASSUME SendCheck PROVE Truth'
  BY <1>8 DEF SendCheck, BusSeen
<1>9. ASSUME StateCheck PROVE Truth'
  <2>1. CASE state # "READY"
    BY <1>9, <2>1 DEF StateCheck
  <2>2. CASE state = "READY"
    BY <1>9, <2>2 DEF StateCheck
  <2> QED
    BY <2>1, <2>2
<1>10. ASSUME MarkReceiving PROVE Truth'
  BY <1>10 DEF MarkReceiving
<1>11. ASSUME MarkTransmitting PROVE Truth'
  BY <1>11 DEF MarkTransmitting
<1>12. ASSUME StartBus PROVE Truth'
  BY <1>12 DEF StartBus, Addressing
<1>13. ASSUME BusReports PROVE Truth'
  BY <1>13 DEF BusReports, Outcomes
<1>14. ASSUME OnFault PROVE Truth'
  BY <1>14 DEF OnFault
<1>15. ASSUME OnUnexpected PROVE Truth'
  BY <1>15 DEF OnUnexpected
<1>16. ASSUME OnNack PROVE Truth'
  BY <1>16 DEF OnNack
<1>17. ASSUME OnReadyToWrite PROVE Truth'
  BY <1>17 DEF OnReadyToWrite
<1>18. ASSUME OnReaddress PROVE Truth'
  <2>1. CASE slarw = "read"
    BY <1>18, <2>1 DEF OnReaddress, Addressing
  <2>2. CASE slarw # "read"
    BY <1>18, <2>2 DEF OnReaddress, Addressing
  <2> QED
    BY <2>1, <2>2
<1>19. ASSUME OnAllWritten PROVE Truth'
  BY <1>19 DEF OnAllWritten
<1>20. ASSUME OnByte PROVE Truth'
  BY <1>20 DEF OnByte
<1>21. ASSUME UNCHANGED vars PROVE Truth'
  BY <1>21 DEF vars
<1> QED
  BY <1>1, <1>2, <1>3, <1>4, <1>5, <1>6, <1>7, <1>8, <1>9, <1>10, <1>11,
     <1>12, <1>13, <1>14, <1>15, <1>16, <1>17, <1>18, <1>19, <1>20, <1>21
  DEF Next, MainStep, InterruptHandler

\* Every step keeps the agreement of the flags and of the assignments.
LEMMA NextStatusFits == TwiInv /\ [Next]_vars => StatusFits'
<1> SUFFICES ASSUME Kinds, StatusFits, ReadyMeansIdle, StartsAtRest, [Next]_vars
             PROVE  StatusFits'
  BY DEF TwiInv, TypeOK, Kinds
<1> USE DEF Kinds, Call, NoCall, StartsAtRest, StatusFits,
        Busy, Faults, Stuck, Writes, Reads, code
<1>1. ASSUME TwiInit PROVE StatusFits'
  BY <1>1 DEF TwiInit
<1>2. ASSUME TwiDone PROVE StatusFits'
  BY <1>2 DEF TwiDone
<1>3. ASSUME PutByte PROVE StatusFits'
  BY <1>3 DEF PutByte
<1>4. ASSUME GetByte PROVE StatusFits'
  BY <1>4 DEF GetByte
<1>5. ASSUME FlushInputBuffer PROVE StatusFits'
  BY <1>5 DEF FlushInputBuffer
<1>6. ASSUME FlushOutputBuffer PROVE StatusFits'
  BY <1>6 DEF FlushOutputBuffer
<1>7. ASSUME NEW n \in 0 .. MaxRequest, RequestCheck(n) PROVE StatusFits'
  BY <1>7 DEF RequestCheck, BusSeen
<1>8. ASSUME SendCheck PROVE StatusFits'
  BY <1>8 DEF SendCheck, BusSeen
<1>9. ASSUME StateCheck PROVE StatusFits'
  <2>1. CASE state # "READY"
    BY <1>9, <2>1 DEF StateCheck
  <2>2. CASE state = "READY"
    BY <1>9, <2>2 DEF StateCheck
  <2> QED
    BY <2>1, <2>2
<1>10. ASSUME MarkReceiving PROVE StatusFits'
  BY <1>10 DEF MarkReceiving
<1>11. ASSUME MarkTransmitting PROVE StatusFits'
  BY <1>11 DEF MarkTransmitting
<1>12. ASSUME StartBus PROVE StatusFits'
  BY <1>12 DEF StartBus, Addressing
<1>13. ASSUME BusReports PROVE StatusFits'
  BY <1>13 DEF BusReports, Outcomes
<1>14. ASSUME OnFault PROVE StatusFits'
  BY <1>14 DEF OnFault
<1>15. ASSUME OnUnexpected PROVE StatusFits'
  BY <1>15 DEF OnUnexpected
<1>16. ASSUME OnNack PROVE StatusFits'
  BY <1>16 DEF OnNack
<1>17. ASSUME OnReadyToWrite PROVE StatusFits'
  BY <1>17 DEF OnReadyToWrite
<1>18. ASSUME OnReaddress PROVE StatusFits'
  <2>1. CASE slarw = "read"
    BY <1>18, <2>1 DEF OnReaddress, Addressing
  <2>2. CASE slarw # "read"
    BY <1>18, <2>2 DEF OnReaddress, Addressing
  <2> QED
    BY <2>1, <2>2
<1>19. ASSUME OnAllWritten PROVE StatusFits'
  BY <1>19 DEF OnAllWritten
<1>20. ASSUME OnByte PROVE StatusFits'
  BY <1>20 DEF OnByte
<1>21. ASSUME UNCHANGED vars PROVE StatusFits'
  BY <1>21 DEF vars
<1> QED
  BY <1>1, <1>2, <1>3, <1>4, <1>5, <1>6, <1>7, <1>8, <1>9, <1>10, <1>11,
     <1>12, <1>13, <1>14, <1>15, <1>16, <1>17, <1>18, <1>19, <1>20, <1>21
  DEF Next, MainStep, InterruptHandler

\* What fits still fits when there is less.
LEMMA LessStillFits ==
  ASSUME NEW a \in Int, NEW b \in Int, NEW e \in Int, NEW room \in Int,
         b <= a, a + e <= room
  PROVE  b + e <= room
OBVIOUS

\* Every step keeps the room that was found.
LEMMA NextGrantKept == TwiInv /\ [Next]_vars => GrantKept'
<1> SUFFICES ASSUME Counts, Kinds, GrantKept, StatusFits, StartsAtRest, [Next]_vars
             PROVE  GrantKept'
  BY DEF TwiInv, TypeOK, Counts, Kinds
<1> USE RoomAssumption, RequestAssumption
    DEF Counts, Kinds, GrantKept, Expected, Busy, Faults, Stuck, Writes, Reads, code
<1>1. ASSUME TwiInit PROVE GrantKept'
  BY <1>1 DEF TwiInit
<1>2. ASSUME TwiDone PROVE GrantKept'
  BY <1>2 DEF TwiDone
<1>3. ASSUME PutByte PROVE GrantKept'
  BY <1>3 DEF PutByte
<1>4. ASSUME GetByte PROVE GrantKept'
  <2>1. input' <= input /\ input' \in 0 .. InputRoom
    BY <1>4 DEF GetByte
  <2>2. Busy' = Busy /\ Expected' = Expected /\ (bus \in Reads)' = (bus \in Reads)
    BY <1>4 DEF GetByte
  <2>3. main.op = "request" /\ main.bus = "resting" => main.n < InputRoom - input'
    BY <2>1 DEF Call
  <2>4. granted /\ tracked /\ Busy /\ bus \in Reads => input' + Expected <= InputRoom
    <3>1. Expected \in Int /\ InputRoom \in Int /\ input \in Int
      OBVIOUS
    <3>2. granted /\ tracked /\ Busy /\ bus \in Reads => input + Expected <= InputRoom
      BY DEF GrantKept
    <3>3. input + Expected <= InputRoom => input' + Expected <= InputRoom
      <4> HIDE DEF Expected, Counts, Kinds, GrantKept
      <4>1. input' \in Int /\ input' <= input
        BY <2>1, <3>1
      <4> QED
        BY <3>1, <4>1, LessStillFits
    <3> QED
      BY <3>2, <3>3
  <2>5. UNCHANGED <<main, granted, tracked, bus, status>>
    BY <1>4 DEF GetByte
  <2> QED
    BY <2>2, <2>3, <2>4, <2>5
<1>5. ASSUME FlushInputBuffer PROVE GrantKept'
  <2>1. input' <= input /\ input' \in 0 .. InputRoom
    BY <1>5 DEF FlushInputBuffer
  <2>2. Busy' = Busy /\ Expected' = Expected /\ (bus \in Reads)' = (bus \in Reads)
    BY <1>5 DEF FlushInputBuffer
  <2>3. main.op = "request" /\ main.bus = "resting" => main.n < InputRoom - input'
    BY <2>1 DEF Call
  <2>4. granted /\ tracked /\ Busy /\ bus \in Reads => input' + Expected <= InputRoom
    <3>1. Expected \in Int /\ InputRoom \in Int /\ input \in Int
      OBVIOUS
    <3>2. granted /\ tracked /\ Busy /\ bus \in Reads => input + Expected <= InputRoom
      BY DEF GrantKept
    <3>3. input + Expected <= InputRoom => input' + Expected <= InputRoom
      <4> HIDE DEF Expected, Counts, Kinds, GrantKept
      <4>1. input' \in Int /\ input' <= input
        BY <2>1, <3>1
      <4> QED
        BY <3>1, <4>1, LessStillFits
    <3> QED
      BY <3>2, <3>3
  <2>5. UNCHANGED <<main, granted, tracked, bus, status>>
    BY <1>5 DEF FlushInputBuffer
  <2> QED
    BY <2>2, <2>3, <2>4, <2>5
<1>6. ASSUME FlushOutputBuffer PROVE GrantKept'
  BY <1>6 DEF FlushOutputBuffer
<1>7. ASSUME NEW n \in 0 .. MaxRequest, RequestCheck(n) PROVE GrantKept'
  BY <1>7 DEF RequestCheck, RequestFits, BusSeen
<1>8. ASSUME SendCheck PROVE GrantKept'
  BY <1>8 DEF SendCheck, BusSeen
<1>9. ASSUME StateCheck PROVE GrantKept'
  <2>1. CASE state # "READY"
    BY <1>9, <2>1 DEF StateCheck, NoCall
  <2>2. CASE state = "READY"
    <3>1. /\ main'.op = main.op /\ main'.bus = main.bus /\ main'.n = main.n
          /\ UNCHANGED <<received, requested, input, bus, status, granted, tracked>>
      BY <1>9, <2>2 DEF StateCheck, Call
    <3> QED
      BY <3>1
  <2> QED
    BY <2>1, <2>2
<1>10. ASSUME MarkReceiving PROVE GrantKept'
  BY <1>10 DEF MarkReceiving, StartsAtRest
<1>11. ASSUME MarkTransmitting PROVE GrantKept'
  BY <1>11 DEF MarkTransmitting, StartsAtRest
<1>12. ASSUME StartBus PROVE GrantKept'
  <2>1. main'.op = "none" /\ UNCHANGED <<code, input>>
    BY <1>12 DEF StartBus, NoCall
  <2>2. ASSUME granted', tracked', bus' \in Reads PROVE input + Expected <= InputRoom
    <3>1. main.bus = "resting" /\ slarw = "read" /\ state # "READY" /\ main.done = "marked"
      BY <1>12, <2>2 DEF StartBus, Addressing
    <3>2. main.op = "request"
      BY <3>1 DEF StatusFits, Call
    <3>3. received = 0 /\ requested = main.n /\ main.n < InputRoom - input
      BY <3>1, <3>2 DEF StatusFits
    <3> QED
      BY <3>3
  <2>3. Expected' = Expected
    BY <2>1
  <2> QED
    BY <2>1, <2>2, <2>3
<1>13. ASSUME BusReports PROVE GrantKept'
  BY <1>13 DEF BusReports
<1>14. ASSUME OnFault PROVE GrantKept'
  BY <1>14 DEF OnFault
<1>15. ASSUME OnUnexpected PROVE GrantKept'
  BY <1>15 DEF OnUnexpected
<1>16. ASSUME OnNack PROVE GrantKept'
  BY <1>16 DEF OnNack
<1>17. ASSUME OnReadyToWrite PROVE GrantKept'
  BY <1>17 DEF OnReadyToWrite
<1>18. ASSUME OnReaddress PROVE GrantKept'
  <2>1. status = "ack" /\ Busy /\ bus \in Writes
    BY <1>18 DEF OnReaddress, StatusFits
  <2>2. tracked => slarw = "write"
    BY <2>1 DEF StatusFits, StartsAtRest
  <2>3. tracked' => bus' \notin Reads
    BY <1>18, <2>2 DEF OnReaddress, Addressing
  <2>4. UNCHANGED <<main, input>>
    BY <1>18 DEF OnReaddress
  <2> QED
    BY <2>3, <2>4
<1>19. ASSUME OnAllWritten PROVE GrantKept'
  BY <1>19 DEF OnAllWritten
<1>20. ASSUME OnByte PROVE GrantKept'
  <2>1. status = "byte" /\ Busy /\ bus \in Reads
    BY <1>20 DEF OnByte, StatusFits
  <2>2. UNCHANGED <<main, granted, tracked>> /\ received' = received + 1
    BY <1>20 DEF OnByte
  <2>3. ~(main'.op = "request" /\ main'.bus = "resting")
    <3>1. main.op # "none" /\ main.done = "none" => FALSE
      BY DEF StatusFits
    <3> QED
      BY <2>1, <2>2, <3>1 DEF StartsAtRest
  <2>4. ASSUME granted, tracked, received' < requested
        PROVE  input' + Expected' <= InputRoom
    <3>1. input + (requested - received) <= InputRoom
      BY <2>1, <2>2, <2>4
    <3>2. input' = input + 1
      BY <1>20, <2>2, <2>4, <3>1 DEF OnByte, StoreByte
    <3>3. Expected' = requested - received - 1
      BY <1>20, <2>2, <2>4 DEF OnByte
    <3> QED
      BY <3>1, <3>2, <3>3
  <2>5. CASE received' < requested
    BY <2>2, <2>3, <2>4, <2>5
  <2>6. CASE ~(received' < requested)
    BY <1>20, <2>2, <2>3, <2>6 DEF OnByte
  <2> QED
    BY <2>5, <2>6
<1>21. ASSUME UNCHANGED vars PROVE GrantKept'
  BY <1>21 DEF vars
<1> QED
  BY <1>1, <1>2, <1>3, <1>4, <1>5, <1>6, <1>7, <1>8, <1>9, <1>10, <1>11,
     <1>12, <1>13, <1>14, <1>15, <1>16, <1>17, <1>18, <1>19, <1>20, <1>21
  DEF Next, MainStep, InterruptHandler

LEMMA NextTwiInv == TwiInv /\ [Next]_vars => TwiInv'
BY NextTypeOK, NextTruth, NextStatusFits, NextGrantKept DEF TwiInv

\* The inductive invariant: types, the state against the bus and its flags, and
\* the room that a transfer found with the bus at rest.
THEOREM TwiInvariance == Spec => []TwiInv
<1>1. Init => TwiInv
  BY InitTwiInv
<1>2. TwiInv /\ [Next]_vars => TwiInv'
  BY NextTwiInv
<1> QED
  BY <1>1, <1>2, PTL DEF Spec

\* state_ tells the direction of the transfer the hardware is at work on, and is
\* READY when it is idle; but for a transfer that was started, while the flag of
\* a fault was still up, with state_ READY again.
THEOREM StateTellsTheTruth == Spec => [](ReadyMeansIdle /\ OnlyFaultsMislead)
<1>1. TwiInv => ReadyMeansIdle /\ OnlyFaultsMislead
  BY DEF TwiInv
<1> QED
  BY <1>1, TwiInvariance, PTL

\* A byte of a transfer whose room was checked with the bus at rest is stored
\* in a place that is free, whatever the program does with the buffers meanwhile
\* and whatever it did before.
THEOREM InputNeverOverrun == Spec => []ByteFits
<1>1. ASSUME TwiInv PROVE ByteFits
  <2> SUFFICES ASSUME granted, tracked, status = "byte" PROVE input < InputRoom
    BY DEF ByteFits
  <2>1. bus \in Reads /\ Busy
    BY <1>1 DEF TwiInv, StatusFits, Busy, Stuck, Reads
  <2>2. input + Expected <= InputRoom
    BY <1>1, <2>1 DEF TwiInv, GrantKept
  <2> QED
    BY <1>1, <2>2, RoomAssumption, RequestAssumption DEF TwiInv, TypeOK, Expected
<1> QED
  BY <1>1, TwiInvariance, PTL

-----------------------------------------------------------------------------
(* Complete transfers.                                                     *)

LEMMA StepCompletes == TwiInv /\ [Next]_vars => [CompleteStep]_vars
<1> SUFFICES ASSUME TwiInv, Next, tracked,
                    state # "READY", state' = "READY", error' = "NONE",
                    bus # "off"
             PROVE  /\ state = "RECEIVING" => received' >= requested
                    /\ state = "TRANSMITTING" => output' = 0
  BY DEF CompleteStep
<1> USE DEF TwiInv, TypeOK, ReadyMeansIdle, StatusFits, Busy, Stuck, Writes, Reads,
            Faults, code
<1>1. CASE TwiInit
  BY <1>1 DEF TwiInit
<1>2. CASE \/ TwiDone \/ PutByte \/ GetByte \/ FlushInputBuffer
           \/ FlushOutputBuffer \/ SendCheck \/ BusReports
           \/ \E n \in 0 .. MaxRequest : RequestCheck(n)
  BY <1>2 DEF TwiDone, PutByte, GetByte, FlushInputBuffer,
              FlushOutputBuffer, SendCheck, BusReports, RequestCheck
<1>3. CASE StateCheck \/ MarkReceiving \/ MarkTransmitting \/ StartBus
  BY <1>3 DEF StateCheck, MarkReceiving, MarkTransmitting, StartBus
<1>4. CASE OnFault \/ OnUnexpected \/ OnNack
  BY <1>4 DEF OnFault, OnUnexpected, OnNack
<1>5. CASE OnReadyToWrite \/ OnReaddress \/ OnAllWritten
  BY <1>5 DEF OnReadyToWrite, OnReaddress, OnAllWritten
<1>6. CASE OnByte
  <2>1. state = "RECEIVING"
    BY <1>6 DEF OnByte
  <2>2. ~(received' < requested) /\ received' \in Nat
    BY <1>6 DEF OnByte
  <2> QED
    BY <2>1, <2>2
<1> QED
  BY <1>1, <1>2, <1>3, <1>4, <1>5, <1>6 DEF Next, MainStep, InterruptHandler

\* A tracked transfer that ends with no error has received all that was
\* requested, or transmitted all that was waiting, whatever the interleaving.
THEOREM TransfersComplete == Spec => CompletesInFull
<1>1. Init => TwiInv
  BY InitTwiInv
<1>2. TwiInv /\ [Next]_vars => TwiInv'
  BY NextTwiInv
<1>3. TwiInv /\ [Next]_vars => [CompleteStep]_vars
  BY StepCompletes
<1> QED
  BY <1>1, <1>2, <1>3, PTL DEF Spec, CompletesInFull
=============================================================================
