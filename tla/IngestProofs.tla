---------------------------- MODULE IngestProofs ----------------------------
(***************************************************************************)
(* Theorems about Ingest, for any clocks, any block size and any stream.   *)
(*                                                                         *)
(* Between two packets the block being written has room for the saved PAT  *)
(* and is shorter than SEGMENT_MAX_SEC (ReadInv).  A clock that went back  *)
(* wraps to a duration no shorter than that, so the test on the packet     *)
(* that carries it splits the block, or panics, before anything uses it.   *)
(***************************************************************************)
EXTENDS Ingest, Recursion

\* A clock reference is kept from the first one on.
ClocksInv ==
    /\ clock_latest = None <=> clock_first = None
    /\ clock_first = None => segment_clock = None

ReadInv == pc = "read" => Duration < SegmentMax /\ ~ Underflow

\* A block waits to be sent, and a packet to be written after it.
SplitInv ==
    /\ pc \in {"send_split", "send_last"} => mc # <<>>
    /\ pc = "send_split" => input # <<>>

IInv == TypeOK /\ ClocksInv /\ ReadInv /\ SplitInv /\ BlocksFit /\ DurationsBelowTarget
-----------------------------------------------------------------------------
\* Subtraction of two u64.
LEMMA Wrapping ==
    ASSUME NEW M \in Nat \ {0}, NEW a \in 0 .. M - 1, NEW b \in 0 .. M - 1
    PROVE  (a - b) % M = IF a >= b THEN a - b ELSE a - b + M
<1>1. CASE a >= b
  BY <1>1
<1>2. CASE a < b
  BY <1>2
<1> QED BY <1>1, <1>2

Ticks(clock, first) == IF clock # None THEN clock ELSE IF first # None THEN first ELSE 0

LEMMA ClockFacts ==
    ASSUME NEW latest \in Clocks \cup {None}, NEW first \in Clocks \cup {None},
           NEW segment \in Clocks \cup {None},
           latest = None <=> first = None, first = None => segment = None
    PROVE  LET l == Ticks(latest, first)
               s == Ticks(segment, first) IN
           /\ (l - s) % Modulus \in 0 .. Modulus - 1
           /\ l < s => (l - s) % Modulus >= SegmentMax
           /\ segment = latest => l = s /\ (l - s) % Modulus = 0
<1> DEFINE l == Ticks(latest, first)
           s == Ticks(segment, first)
<1> SUFFICES /\ (l - s) % Modulus \in 0 .. Modulus - 1
             /\ l < s => (l - s) % Modulus >= SegmentMax
             /\ segment = latest => l = s /\ (l - s) % Modulus = 0
  OBVIOUS
<1> USE IngestAssumption
<1>1. /\ l \in 0 .. Modulus - 1 /\ s \in 0 .. Modulus - 1
      /\ l < s => l \in Clocks /\ s \in Clocks
      /\ segment = latest => l = s
  BY DEF Ticks, None
<1>2. (l - s) % Modulus = IF l >= s THEN l - s ELSE l - s + Modulus
  BY <1>1, Wrapping
<1>3. l < s => Modulus - (s - l) >= SegmentMax
  BY <1>1
<1> HIDE DEF l, s
<1> QED BY <1>1, <1>2, <1>3

\* The clocks of a state, and of the state after it.
LEMMA Clocked ==
    ASSUME TypeOK, ClocksInv
    PROVE  /\ Duration \in 0 .. Modulus - 1
           /\ Underflow => Duration >= SegmentMax
           /\ segment_clock = clock_latest => ~ Underflow /\ Duration = 0
<1>1. /\ clock_latest \in Clocks \cup {None} /\ clock_first \in Clocks \cup {None}
      /\ segment_clock \in Clocks \cup {None}
  BY DEF TypeOK
<1>2. /\ AsTicks(clock_latest) = Ticks(clock_latest, clock_first)
      /\ AsTicks(segment_clock) = Ticks(segment_clock, clock_first)
  BY DEF AsTicks, Ticks
<1>3. /\ \A c \in Clocks \cup {None} : Ticks(c, clock_first) \in Int
  BY <1>1, IngestAssumption DEF Ticks, None
<1>4. LET l == Ticks(clock_latest, clock_first)
          s == Ticks(segment_clock, clock_first) IN
      /\ (l - s) % Modulus \in 0 .. Modulus - 1
      /\ l < s => (l - s) % Modulus >= SegmentMax
      /\ segment_clock = clock_latest => l = s /\ (l - s) % Modulus = 0
  BY <1>1, ClockFacts DEF ClocksInv
<1> QED BY <1>1, <1>2, <1>3, <1>4 DEF Duration, Underflow

LEMMA ClockedNext ==
    ASSUME TypeOK', ClocksInv'
    PROVE  /\ Duration' \in 0 .. Modulus - 1
           /\ Underflow' => Duration' >= SegmentMax
           /\ segment_clock' = clock_latest' => ~ Underflow' /\ Duration' = 0
<1>1. /\ clock_latest' \in Clocks \cup {None} /\ clock_first' \in Clocks \cup {None}
      /\ segment_clock' \in Clocks \cup {None}
  BY DEF TypeOK
<1>2. /\ AsTicks(clock_latest)' = Ticks(clock_latest', clock_first')
      /\ AsTicks(segment_clock)' = Ticks(segment_clock', clock_first')
  BY DEF AsTicks, Ticks
<1>3. /\ \A c \in Clocks \cup {None} : Ticks(c, clock_first') \in Int
  BY <1>1, IngestAssumption DEF Ticks, None
<1>4. LET l == Ticks(clock_latest', clock_first')
          s == Ticks(segment_clock', clock_first') IN
      /\ (l - s) % Modulus \in 0 .. Modulus - 1
      /\ l < s => (l - s) % Modulus >= SegmentMax
      /\ segment_clock' = clock_latest' => l = s /\ (l - s) % Modulus = 0
  BY <1>1, ClockFacts DEF ClocksInv
<1> QED BY <1>1, <1>2, <1>3, <1>4 DEF Duration, Underflow

LEMMA InitInv == Init => IInv
<1> SUFFICES ASSUME Init PROVE IInv
  OBVIOUS
<1> USE IngestAssumption DEF Init
<1>1. TypeOK
  BY DEF TypeOK, packets_read
<1>2. ClocksInv /\ ReadInv /\ BlocksFit /\ DurationsBelowTarget /\ SplitInv
  BY DEF ClocksInv, ReadInv, BlocksFit, DurationsBelowTarget, SplitInv
<1> QED BY <1>1, <1>2 DEF IInv

LEMMA Inspected ==
    ASSUME TypeOK, ClocksInv, NEW is_pat \in BOOLEAN, NEW pcr \in Clocks \cup {None},
           NEW splits \in BOOLEAN, InspectPacket(is_pat, pcr, splits),
           segment_clock' = segment_clock
    PROVE  /\ {clock_latest', clock_first', segment_clock'} \subseteq Clocks \cup {None}
           /\ pat' \in 0 .. packets_read'
           /\ input' \in Seq([is_pat : BOOLEAN, splits : BOOLEAN, back : BOOLEAN])
           /\ packets_read' <= MaxPackets
           /\ packets_read' \in Packet
           /\ ClocksInv'
<1>1. input \in Seq([is_pat : BOOLEAN, splits : BOOLEAN, back : BOOLEAN]) /\ Len(input) \in Nat
  BY DEF TypeOK
<1>2. /\ input' \in Seq([is_pat : BOOLEAN, splits : BOOLEAN, back : BOOLEAN])
      /\ Len(input') = Len(input) + 1 /\ Len(input) < MaxPackets
  BY <1>1 DEF InspectPacket, packets_read
<1>3. pat' \in 0 .. packets_read' /\ packets_read' <= MaxPackets /\ packets_read' \in Packet
  BY <1>1, <1>2, IngestAssumption DEF InspectPacket, packets_read, TypeOK, Packet
<1>4. /\ {clock_latest', clock_first', segment_clock'} \subseteq Clocks \cup {None}
      /\ ClocksInv'
  BY DEF InspectPacket, TypeOK, ClocksInv
<1> QED BY <1>2, <1>3, <1>4

\* A block of what was written enters the container.
LEMMA Pushed ==
    ASSUME IInv, PushBlock(Duration), pc = "read"
    PROVE  /\ mc' \in Seq(Block) /\ Len(mc') <= MaxBlocks /\ mc' # <<>>
           /\ \A i \in 1 .. Len(mc') :
                 Len(mc'[i].packets) <= BlockMax /\ mc'[i].duration < SegmentMax
<1> DEFINE b == [packets |-> write_buffer, duration |-> Duration]
<1>1. b \in Block
  BY Clocked DEF IInv, TypeOK, Block
<1>2. mc \in Seq(Block) /\ Len(mc) \in Nat /\ Len(mc) < MaxBlocks /\ mc' = Append(mc, b)
  BY DEF IInv, TypeOK, PushBlock
<1>3. Len(b.packets) <= BlockMax /\ b.duration < SegmentMax
  BY DEF IInv, ReadInv, BlocksFit
<1> HIDE DEF b
<1>4. /\ mc' \in Seq(Block) /\ Len(mc') = Len(mc) + 1 /\ mc' # <<>>
      /\ \A i \in 1 .. Len(mc) : mc'[i] = mc[i]
      /\ mc'[Len(mc) + 1] = b
  BY <1>1, <1>2, Appended
<1>5. Len(mc') <= MaxBlocks
  BY <1>2, <1>4, IngestAssumption
<1>6. ASSUME NEW i \in 1 .. Len(mc')
      PROVE  Len(mc'[i].packets) <= BlockMax /\ mc'[i].duration < SegmentMax
  BY <1>2, <1>3, <1>4 DEF IInv, BlocksFit, DurationsBelowTarget
<1> QED BY <1>4, <1>5, <1>6

\* What is sent is typed.
LEMMA Sent ==
    ASSUME TypeOK, (SendBlock /\ mc # <<>>) \/ SendContainer
    PROVE  bus' \in Seq(Update) /\ Len(bus') <= BusCapacity
<1>1. bus \in Seq(Update) /\ Len(bus) \in Nat /\ Len(bus) < BusCapacity
      /\ mc \in Seq(Block) /\ Len(mc) \in Nat /\ Len(mc) <= MaxBlocks
  BY DEF TypeOK, SendBlock, SendContainer, HasRoom
<1>2. CASE SendBlock /\ mc # <<>>
  <2>1. Last(mc) \in Block /\ Len(mc) - 1 \in 0 .. MaxBlocks
    BY <1>1, <1>2, IngestAssumption DEF Last
  <2>2. [type |-> "Block", block |-> Last(mc), sequence |-> Len(mc) - 1] \in Update
    BY <2>1 DEF Update
  <2> QED BY <1>1, <1>2, <2>2, Appended, IngestAssumption DEF SendBlock
<1>3. CASE SendContainer
  <2>1. [type |-> "Container", blocks |-> mc] \in Update
    BY <1>1 DEF Update
  <2> QED BY <1>1, <1>3, <2>1, Appended, IngestAssumption DEF SendContainer
<1> QED BY <1>2, <1>3

\* Steps outside the packet loop.
LEMMA OuterStep ==
    ASSUME IInv,
           \/ OpenSegment \/ LeaveLoop \/ AcceptFails \/ ReadFails \/ WriteFails
           \/ SendLast \/ SendPeriodic \/ NotDue
           \/ ChildSucceeded \/ ChildFailed \/ Receive
    PROVE  IInv'
<1> USE IngestAssumption
<1>1. mc' = mc /\ pat' = pat /\ input' = input
      /\ clock_latest' = clock_latest /\ clock_first' = clock_first
      /\ segment_clock' \in {segment_clock, clock_latest}
      /\ write_buffer' \in {write_buffer, <<>>}
  BY DEF OpenSegment, LeaveLoop, AcceptFails, ReadFails, WriteFails, SendLast, SendPeriodic, NotDue,
         ChildSucceeded, ChildFailed, Receive, clocks
<1>2. bus' \in Seq(Update) /\ Len(bus') <= BusCapacity
  <2>1. CASE bus' = bus
    BY <2>1 DEF IInv, TypeOK
  <2>2. CASE Receive
    BY <2>2 DEF Receive, IInv, TypeOK
  <2>3. CASE SendLast \/ SendPeriodic \/ ChildSucceeded
    BY <2>3, Sent DEF SendLast, SendPeriodic, ChildSucceeded, IInv, SplitInv
  <2> QED BY <2>1, <2>2, <2>3
          DEF OpenSegment, LeaveLoop, AcceptFails, ReadFails, WriteFails, NotDue, ChildFailed
<1>3. /\ pc' \in {"accept", "read", "periodic", "exit", "done", "panicked", pc}
      /\ pc' = "read" => \/ segment_clock' = clock_latest
                         \/ pc = "read" /\ segment_clock' = segment_clock
      /\ pc' \in {"send_split", "send_last"} => pc' = pc
  BY DEF OpenSegment, LeaveLoop, AcceptFails, ReadFails, WriteFails, SendLast, SendPeriodic, NotDue,
         ChildSucceeded, ChildFailed, Receive, clocks
<1>4. TypeOK'
  <2>1. write_buffer' \in Seq(Entry)
    <3>1. write_buffer \in Seq(Entry) /\ <<>> \in Seq(Entry)
      BY DEF IInv, TypeOK
    <3> QED BY <1>1, <3>1
  <2>2. pc' \in {"accept", "read", "send_split", "send_last", "periodic", "exit",
                "done", "panicked"}
    BY <1>3 DEF IInv, TypeOK
  <2>3. {clock_latest', clock_first', segment_clock'} \subseteq Clocks \cup {None}
    BY <1>1 DEF IInv, TypeOK
  <2> QED BY <1>1, <1>2, <2>1, <2>2, <2>3 DEF IInv, TypeOK, packets_read
<1>5. ClocksInv'
  BY <1>1 DEF IInv, ClocksInv
<1>6. ReadInv'
  <2>1. CASE segment_clock' = clock_latest
    <3>1. ~ Underflow' /\ Duration' = 0
      BY <1>1, <1>4, <1>5, <2>1, ClockedNext
    <3> QED BY <3>1 DEF ReadInv
  <2>2. CASE pc' = "read" /\ pc = "read" /\ segment_clock' = segment_clock
    <3>1. (Underflow' <=> Underflow) /\ Duration' = Duration
      BY <1>1, <2>2 DEF Underflow, Duration, AsTicks
    <3> QED BY <2>2, <3>1 DEF IInv, ReadInv
  <2> QED BY <1>3, <2>1, <2>2 DEF ReadInv
<1>7. BlocksFit' /\ DurationsBelowTarget'
  BY <1>1 DEF IInv, BlocksFit, DurationsBelowTarget
<1>8. SplitInv'
  BY <1>1, <1>3 DEF IInv, SplitInv
<1> QED BY <1>4, <1>5, <1>6, <1>7, <1>8 DEF IInv

\* The packet stays in the block only if the tests let it.
LEMMA KeepStep ==
    ASSUME IInv, NEW is_pat \in BOOLEAN, NEW pcr \in Clocks \cup {None},
           KeepPacket(is_pat, pcr)
    PROVE  IInv'
<1> USE IngestAssumption
<1>1. /\ bus' = bus /\ pc' = pc /\ mc' = mc /\ segment_clock' = segment_clock /\ pc = "read"
      /\ InspectPacket(is_pat, pcr, FALSE)
      /\ Len(write_buffer) # BlockMax /\ write_buffer' = Append(write_buffer, packets_read')
  BY DEF KeepPacket, InspectPacket, Full
<1>2. /\ {clock_latest', clock_first', segment_clock'} \subseteq Clocks \cup {None}
      /\ pat' \in 0 .. packets_read'
      /\ input' \in Seq([is_pat : BOOLEAN, splits : BOOLEAN, back : BOOLEAN])
      /\ packets_read' <= MaxPackets /\ packets_read' \in Packet /\ ClocksInv'
  BY <1>1, Inspected DEF IInv
<1>3. /\ write_buffer' \in Seq(Entry) /\ Len(write_buffer') <= BlockMax
  <2>1. write_buffer \in Seq(Entry) /\ Len(write_buffer) \in Nat
        /\ Len(write_buffer) <= BlockMax
    BY DEF IInv, TypeOK, BlocksFit
  <2>2. packets_read' \in Entry
    BY <1>2 DEF Entry
  <2> QED BY <1>1, <2>1, <2>2, Appended
<1>4. TypeOK'
  BY <1>1, <1>2, <1>3 DEF IInv, TypeOK
<1>5. ReadInv'
  <2>1. ~ TooLong'
    BY DEF KeepPacket
  <2>2. Duration' \in 0 .. Modulus - 1 /\ (Underflow' => Duration' >= SegmentMax)
    BY <1>2, <1>4, ClockedNext
  <2>3. Duration' < SegmentMax
    BY <2>1, <2>2 DEF TooLong
  <2> QED BY <2>2, <2>3 DEF ReadInv
<1>6. BlocksFit' /\ DurationsBelowTarget'
  BY <1>1, <1>3 DEF IInv, BlocksFit, DurationsBelowTarget
<1> QED BY <1>1, <1>2, <1>4, <1>5, <1>6 DEF IInv, SplitInv

LEMMA PushStep ==
    ASSUME IInv,
           \/ EndSegment
           \/ \E is_pat \in BOOLEAN, pcr \in Clocks \cup {None} :
                 SplitBlock(is_pat, pcr) \/ ClockPanic(is_pat, pcr)
    PROVE  IInv'
<1> USE IngestAssumption
<1>1. CASE EndSegment
  <2>1. /\ bus' = bus /\ write_buffer' = write_buffer /\ pat' = pat /\ input' = input
        /\ clock_latest' = clock_latest /\ clock_first' = clock_first
        /\ segment_clock' = segment_clock
        /\ pc = "read" /\ pc' = "send_last" /\ PushBlock(Duration)
    BY <1>1 DEF EndSegment, clocks
  <2>2. /\ mc' \in Seq(Block) /\ Len(mc') <= MaxBlocks /\ mc' # <<>>
        /\ \A i \in 1 .. Len(mc') :
              Len(mc'[i].packets) <= BlockMax /\ mc'[i].duration < SegmentMax
    BY <2>1, Pushed
  <2>3. TypeOK'
    BY <2>1, <2>2 DEF IInv, TypeOK, packets_read
  <2>4. ClocksInv' /\ ReadInv' /\ BlocksFit' /\ DurationsBelowTarget'
    BY <2>1, <2>2 DEF IInv, ClocksInv, ReadInv, BlocksFit, DurationsBelowTarget
  <2> QED BY <2>1, <2>2, <2>3, <2>4 DEF IInv, SplitInv
<1>2. ASSUME NEW is_pat \in BOOLEAN, NEW pcr \in Clocks \cup {None},
             SplitBlock(is_pat, pcr)
      PROVE  IInv'
  <2>1. /\ bus' = bus /\ write_buffer' = write_buffer
        /\ segment_clock' = segment_clock /\ InspectPacket(is_pat, pcr, TRUE)
        /\ pc = "read" /\ pc' = "send_split" /\ PushBlock(Duration)
    BY <1>2 DEF SplitBlock, InspectPacket
  <2>2. /\ mc' \in Seq(Block) /\ Len(mc') <= MaxBlocks /\ mc' # <<>>
        /\ \A i \in 1 .. Len(mc') :
              Len(mc'[i].packets) <= BlockMax /\ mc'[i].duration < SegmentMax
    BY <2>1, Pushed
  <2>3. /\ {clock_latest', clock_first', segment_clock'} \subseteq Clocks \cup {None}
        /\ pat' \in 0 .. packets_read'
        /\ input' \in Seq([is_pat : BOOLEAN, splits : BOOLEAN, back : BOOLEAN])
        /\ packets_read' <= MaxPackets /\ ClocksInv'
    BY <2>1, Inspected DEF IInv
  <2>4. TypeOK'
    BY <2>1, <2>2, <2>3 DEF IInv, TypeOK
  <2>5. ReadInv' /\ BlocksFit' /\ DurationsBelowTarget'
    BY <2>1, <2>2 DEF IInv, ReadInv, BlocksFit, DurationsBelowTarget
  <2>6. SplitInv'
    <3>1. packets_read' \in Packet
      BY <2>1, Inspected DEF IInv
    <3>2. input' # <<>>
      BY <3>1 DEF packets_read, Packet
    <3> QED BY <2>1, <2>2, <3>2 DEF SplitInv
  <2> QED BY <2>3, <2>4, <2>5, <2>6 DEF IInv
<1>3. ASSUME NEW is_pat \in BOOLEAN, NEW pcr \in Clocks \cup {None},
             ClockPanic(is_pat, pcr)
      PROVE  IInv'
  <2>1. /\ bus' = bus /\ write_buffer' = write_buffer /\ mc' = mc
        /\ segment_clock' = segment_clock /\ InspectPacket(is_pat, pcr, FALSE)
        /\ pc' = "panicked"
    BY <1>3 DEF ClockPanic
  <2>2. /\ {clock_latest', clock_first', segment_clock'} \subseteq Clocks \cup {None}
        /\ pat' \in 0 .. packets_read'
        /\ input' \in Seq([is_pat : BOOLEAN, splits : BOOLEAN, back : BOOLEAN])
        /\ packets_read' <= MaxPackets /\ ClocksInv'
    BY <2>1, Inspected DEF IInv
  <2>3. TypeOK'
    BY <2>1, <2>2 DEF IInv, TypeOK
  <2>4. ReadInv' /\ BlocksFit' /\ DurationsBelowTarget'
    BY <2>1 DEF IInv, ReadInv, BlocksFit, DurationsBelowTarget
  <2> QED BY <2>1, <2>2, <2>3, <2>4 DEF IInv, SplitInv
<1> QED BY <1>1, <1>2, <1>3

\* The next block starts with at most two packets, and its time at zero.
LEMMA SendSplitStep == ASSUME IInv, SendSplit PROVE IInv'
<1> USE IngestAssumption
<1>1. /\ mc' = mc /\ pat' = pat /\ input' = input /\ pc = "send_split" /\ pc' = "read"
      /\ clock_latest' = clock_latest /\ clock_first' = clock_first
      /\ segment_clock' = clock_latest
      /\ write_buffer' = Reinserted \o <<packets_read>>
  BY DEF SendSplit
<1>2. bus' \in Seq(Update) /\ Len(bus') <= BusCapacity
  BY Sent DEF SendSplit, IInv, SplitInv
<1>3. write_buffer' \in Seq(Entry) /\ Len(write_buffer') <= BlockMax
  <2>1. packets_read \in Packet /\ (pat # 0 => pat \in Packet)
    <3>1. Len(input) \in Nat /\ Len(input) > 0 /\ Len(input) <= MaxPackets
      BY <1>1 DEF IInv, SplitInv, TypeOK, packets_read
    <3>2. pat \in 0 .. Len(input)
      BY DEF IInv, TypeOK, packets_read
    <3> QED BY <3>1, <3>2 DEF Packet, packets_read
  <2>2. packets_read \in Entry /\ (pat # 0 => -pat \in Entry)
    BY <2>1 DEF Entry
  <2>3. Reinserted \in Seq(Entry) /\ Len(Reinserted) <= 1
    BY <2>2 DEF Reinserted
  <2> QED BY <1>1, <2>2, <2>3
<1>4. TypeOK'
  BY <1>1, <1>2, <1>3 DEF IInv, TypeOK, packets_read
<1>5. ClocksInv'
  BY <1>1 DEF IInv, ClocksInv
<1>6. ReadInv'
  <2>1. ~ Underflow' /\ Duration' = 0
    BY <1>1, <1>4, <1>5, ClockedNext
  <2> QED BY <2>1 DEF ReadInv
<1>7. BlocksFit' /\ DurationsBelowTarget'
  BY <1>1, <1>3 DEF IInv, BlocksFit, DurationsBelowTarget
<1> QED BY <1>1, <1>4, <1>5, <1>6, <1>7 DEF IInv, SplitInv

LEMMA StepInv == IInv /\ [Next]_vars => IInv'
<1>1. ASSUME IInv, UNCHANGED vars PROVE IInv'
  BY <1>1 DEF vars, clocks, IInv, TypeOK, packets_read, ClocksInv, ReadInv, Duration, Underflow,
              AsTicks, BlocksFit, DurationsBelowTarget, SplitInv
<1> QED BY <1>1, OuterStep, KeepStep, PushStep, SendSplitStep DEF Next

(***************************************************************************)
(* The inductive invariant of the ingest thread.                           *)
(***************************************************************************)
THEOREM Invariance == Spec => []IInv
BY InitInv, StepInv, PTL DEF Spec

(***************************************************************************)
(* Every variable has its type, the bus holds no more than its capacity.   *)
(***************************************************************************)
THEOREM TypeCorrect == Spec => []TypeOK
BY Invariance, PTL DEF IInv

(***************************************************************************)
(* RawBlockFile::new never finds a block longer than BLOCK_MAX_BYTES       *)
(* (raw.rs:24), for any packets that arrive.                               *)
(***************************************************************************)
THEOREM BlocksFitCorrect == Spec => []BlocksFit
BY Invariance, PTL DEF IInv

(***************************************************************************)
(* No block reaches the playlist's target duration (hls.rs:44), though the *)
(* clock may jump and the subtraction of clocks may wrap (ingest.rs:146).  *)
(***************************************************************************)
THEOREM DurationsCorrect == Spec => []DurationsBelowTarget
BY Invariance, PTL DEF IInv

(***************************************************************************)
(* The subtractions at ingest.rs:191 and 217 never underflow.              *)
(***************************************************************************)
THEOREM SubtractionsCorrect == Spec => []SubtractionsSafe
<1>1. IInv => SubtractionsSafe
  BY DEF IInv, ReadInv, SubtractionsSafe
<1> QED BY <1>1, Invariance, PTL
-----------------------------------------------------------------------------
(***************************************************************************)
(* What the blocks hold.  The conservation of packets and the timeline are *)
(* sums over the container, which grows by one block at a time.  The saved *)
(* PAT is the last one parsed (LastPat), which is what makes the block     *)
(* that a split starts begin with it.                                      *)
(***************************************************************************)
Parse == [is_pat : BOOLEAN, splits : BOOLEAN, back : BOOLEAN]
PatsOf(inp, n) == {k \in 1 .. n : inp[k].is_pat}

LastPat ==
    LET pats == PatsOf(input, packets_read) IN
    pat = IF pats = {} THEN 0 ELSE Max(pats)

\* A block that starts at packet p[1] starts with the PAT in force there.
Begins(entries, inp) ==
    LET p == Original(entries) IN
    entries # <<>> =>
        /\ p # <<>> /\ p[1] \in 1 .. Len(inp)
        /\ entries = IF ~ inp[p[1]].splits \/ PatsOf(inp, p[1]) = {} THEN p
                     ELSE <<-Max(PatsOf(inp, p[1]))>> \o p

StartsInv ==
    /\ \A i \in 1 .. Len(mc) : Begins(mc[i].packets, input)
    /\ pc = "read" => Begins(write_buffer, input)
    /\ pc = "send_split" => input[packets_read].splits

NeverBack == \A i \in 1 .. Len(input) : ~ input[i].back

\* The blocks end where the block being written starts.
TimelineInv ==
    NeverBack =>
        Sum(Durations(mc)) <= AsTicks(IF pc = "read" THEN segment_clock ELSE clock_latest)
                                - AsTicks(clock_first)

HeldInv == PacketsConserved /\ LastPat /\ StartsInv /\ TimelineInv

\* A packet added to a block stays after the PAT set aside.
LEMMA OriginalAppend ==
    ASSUME NEW s \in Seq(Entry), NEW n \in Packet
    PROVE  /\ Original(s) \in Seq(Entry)
           /\ Original(Append(s, n)) = Append(Original(s), n)
<1>1. n \in Entry /\ n > 0 /\ n \in Int
  BY IngestAssumption DEF Packet, Entry
<1>2. CASE s = <<>>
  <2>1. Append(s, n) = <<n>> /\ Head(<<n>>) = n
    BY <1>2
  <2>2. Original(<<>>) = <<>>
    BY DEF Original
  <2>3. Original(<<n>>) = <<n>>
    BY <1>1, <2>1 DEF Original
  <2> QED BY <1>2, <2>1, <2>2, <2>3
<1>3. CASE s # <<>>
  <2> DEFINE t == Append(s, n)
             u == Append(Tail(s), n)
  <2>1. /\ t \in Seq(Entry) /\ Len(t) = Len(s) + 1 /\ t # <<>> /\ t[Len(s) + 1] = n
        /\ \A i \in 1 .. Len(s) : t[i] = s[i]
    BY <1>1, Appended
  <2>2. Len(s) >= 1 /\ Len(s) \in Nat /\ Tail(s) \in Seq(Entry) /\ Len(Tail(s)) = Len(s) - 1
        /\ \A i \in 1 .. Len(s) - 1 : Tail(s)[i] = s[i + 1]
    BY <1>3
  <2>3. /\ u \in Seq(Entry) /\ Len(u) = Len(s) /\ u[Len(s)] = n
        /\ \A i \in 1 .. Len(s) - 1 : u[i] = s[i + 1]
    BY <1>1, <2>2, Appended
  <2> HIDE DEF t, u
  <2>4. Head(t) = Head(s)
    BY <1>3, <2>1, <2>2
  <2>5. /\ Tail(t) \in Seq(Entry) /\ Len(Tail(t)) = Len(s)
        /\ \A i \in 1 .. Len(s) : Tail(t)[i] = t[i + 1]
    BY <2>1, <2>2
  <2>6. \A i \in 1 .. Len(s) : Tail(t)[i] = u[i]
    BY <2>1, <2>2, <2>3, <2>5
  <2>7. Tail(t) = u
    BY <2>3, <2>5, <2>6, SameSeq
  <2> QED BY <1>3, <2>1, <2>2, <2>4, <2>7 DEF Original, t, u
<1> QED BY <1>2, <1>3

LEMMA OriginalOfSplit ==
    ASSUME NEW n \in Packet, NEW p \in Packet
    PROVE  /\ Original(<<n>>) = <<n>> /\ Original(<<-p>> \o <<n>>) = <<n>>
           /\ Original(<<>>) = <<>>
<1> DEFINE m == -p
           s == <<m>> \o <<n>>
<1>1. n > 0 /\ n \in Int /\ m < 0 /\ m \in Int
  BY IngestAssumption DEF Packet
<1> HIDE DEF m
<1>2. Original(<<n>>) = <<n>>
  <2>1. Head(<<n>>) = n
    OBVIOUS
  <2> QED BY <1>1, <2>1 DEF Original
<1>3. Original(s) = <<n>>
  <2>1. /\ s \in Seq(Int) /\ s # <<>> /\ Head(s) = m
        /\ Tail(s) \in Seq(Int) /\ Len(Tail(s)) = 1 /\ Tail(s)[1] = n
    BY <1>1
  <2>2. <<n>> \in Seq(Int) /\ Len(<<n>>) = 1 /\ <<n>>[1] = n
    BY <1>1
  <2> HIDE DEF s
  <2>3. Tail(s) = <<n>>
    <3> DEFINE t == <<n>>
    <3>1. t \in Seq(Int) /\ Len(t) = 1 /\ t[1] = n
      BY <2>2
    <3> DEFINE u == Tail(s)
    <3>2. u \in Seq(Int) /\ Len(u) = 1 /\ u[1] = n
      BY <2>1
    <3> HIDE DEF t, u
    <3>3. Len(u) = Len(t) /\ \A i \in 1 .. Len(u) : u[i] = t[i]
      <4>1. \A i \in 1 .. Len(u) : i = 1
        BY <3>2
      <4> QED BY <3>1, <3>2, <4>1
    <3>4. u = t
      BY <3>1, <3>2, <3>3, SameSeq
    <3> QED BY <3>4 DEF t, u
  <2> QED BY <1>1, <2>1, <2>3 DEF Original
<1>4. Original(<<>>) = <<>>
  BY DEF Original
<1> QED BY <1>2, <1>3, <1>4 DEF m, s

LEMMA OriginalsType ==
    ASSUME NEW q \in Seq(Block)
    PROVE  /\ Originals(q) \in Seq(Seq(Entry)) /\ Len(Originals(q)) = Len(q)
           /\ \A i \in 1 .. Len(q) : Originals(q)[i] = Original(q[i].packets)
<1> DEFINE T == Seq(Entry)
<1>1. \A c \in Block : Original(c.packets) \in T
  BY DEF Block, Original
<1> HIDE DEF T
<1>2. \A i \in 1 .. Len(q) : Original(q[i].packets) \in T
  <2>1. \A i \in 1 .. Len(q) : q[i] \in Block
    OBVIOUS
  <2> QED BY <1>1, <2>1
<1>3. /\ Originals(q) \in Seq(T) /\ Len(Originals(q)) = Len(q)
      /\ \A i \in 1 .. Len(q) : Originals(q)[i] = Original(q[i].packets)
  BY <1>2 DEF Originals
<1> QED BY <1>3 DEF T

LEMMA OriginalsAppend ==
    ASSUME NEW s \in Seq(Block), NEW b \in Block
    PROVE  /\ Originals(s) \in Seq(Seq(Entry)) /\ Original(b.packets) \in Seq(Entry)
           /\ Originals(Append(s, b)) = Append(Originals(s), Original(b.packets))
<1> DEFINE T == Seq(Entry)
           y == Append(s, b)
           x == Original(b.packets)
<1>2. /\ y \in Seq(Block) /\ Len(y) = Len(s) + 1 /\ Len(s) \in Nat
      /\ \A i \in 1 .. Len(s) : y[i] = s[i]
      /\ y[Len(s) + 1] = b
  BY Appended
<1>3. x \in T
  BY DEF Block, Original
<1> HIDE DEF T, y
<1>5. /\ Originals(s) \in Seq(T) /\ Len(Originals(s)) = Len(s)
      /\ \A i \in 1 .. Len(s) : Originals(s)[i] = Original(s[i].packets)
  BY OriginalsType DEF T
<1>6. /\ Originals(y) \in Seq(T) /\ Len(Originals(y)) = Len(s) + 1
      /\ \A i \in 1 .. Len(s) + 1 : Originals(y)[i] = Original(y[i].packets)
  BY <1>2, OriginalsType DEF T
<1> HIDE DEF x
<1> DEFINE z == Append(Originals(s), x)
<1>7. /\ z \in Seq(T) /\ Len(z) = Len(s) + 1
      /\ \A i \in 1 .. Len(s) : z[i] = Originals(s)[i]
      /\ z[Len(s) + 1] = x
  <2>1. /\ z \in Seq(T) /\ Len(z) = Len(Originals(s)) + 1
        /\ \A i \in 1 .. Len(Originals(s)) : z[i] = Originals(s)[i]
        /\ z[Len(Originals(s)) + 1] = x
    BY <1>3, <1>5, Appended
  <2> HIDE DEF z
  <2> QED BY <1>5, <2>1
<1> HIDE DEF z
<1>8. \A i \in 1 .. Len(s) + 1 : Originals(y)[i] = z[i]
  <2>1. Originals(y)[Len(s) + 1] = x
    BY <1>2, <1>6 DEF x
  <2>2. ASSUME NEW i \in 1 .. Len(s) PROVE Originals(y)[i] = z[i]
    BY <1>2, <1>5, <1>6, <1>7
  <2> QED BY <1>2, <1>7, <2>1, <2>2
<1>9. Originals(y) = z
  BY <1>6, <1>7, <1>8, SameSeq
<1> QED BY <1>3, <1>5, <1>9 DEF T, x, y, z

\* The first k packets.
Parsed(k) == [n \in 1 .. k |-> n]

LEMMA ParsedNext ==
    ASSUME NEW k \in Nat
    PROVE  Parsed(k) \in Seq(Nat) /\ Parsed(k + 1) = Append(Parsed(k), k + 1)
<1>1. Parsed(k) \in Seq(Nat) /\ Len(Parsed(k)) = k /\ \A i \in 1 .. k : Parsed(k)[i] = i
  BY DEF Parsed
<1>2. Parsed(k + 1) \in Seq(Nat) /\ Len(Parsed(k + 1)) = k + 1
      /\ \A i \in 1 .. k + 1 : Parsed(k + 1)[i] = i
  BY DEF Parsed
<1> DEFINE z == Append(Parsed(k), k + 1)
<1>3. /\ z \in Seq(Nat) /\ Len(z) = k + 1 /\ z[k + 1] = k + 1
      /\ \A i \in 1 .. k : z[i] = i
  <2>1. /\ z \in Seq(Nat) /\ Len(z) = Len(Parsed(k)) + 1 /\ z[Len(Parsed(k)) + 1] = k + 1
        /\ \A i \in 1 .. Len(Parsed(k)) : z[i] = Parsed(k)[i]
    BY <1>1, Appended
  <2> HIDE DEF z
  <2> QED BY <1>1, <2>1
<1> HIDE DEF z
<1>4. \A i \in 1 .. k + 1 : Parsed(k + 1)[i] = z[i]
  BY <1>2, <1>3
<1>5. Parsed(k + 1) = z
  BY <1>2, <1>3, <1>4, SameSeq
<1> QED BY <1>1, <1>5 DEF z

LEMMA DurationsType ==
    ASSUME NEW q \in Seq(Block)
    PROVE  /\ Durations(q) \in Seq(Int) /\ Len(Durations(q)) = Len(q)
           /\ \A i \in 1 .. Len(q) : Durations(q)[i] = q[i].duration
<1>1. \A c \in Block : c.duration \in Int
  BY IngestAssumption DEF Block
<1>2. \A i \in 1 .. Len(q) : q[i].duration \in Int
  <2>1. \A i \in 1 .. Len(q) : q[i] \in Block
    OBVIOUS
  <2> QED BY <1>1, <2>1
<1> QED BY <1>2 DEF Durations

LEMMA DurationsAppend ==
    ASSUME NEW s \in Seq(Block), NEW b \in Block
    PROVE  /\ Durations(s) \in Seq(Int) /\ b.duration \in Int
           /\ Durations(Append(s, b)) = Append(Durations(s), b.duration)
<1> DEFINE y == Append(s, b)
           z == Append(Durations(s), b.duration)
<1>1. /\ y \in Seq(Block) /\ Len(y) = Len(s) + 1 /\ Len(s) \in Nat
      /\ \A i \in 1 .. Len(s) : y[i] = s[i]
      /\ y[Len(s) + 1] = b
  BY Appended
<1>2. b.duration \in Int
  BY IngestAssumption DEF Block
<1> HIDE DEF y
<1>4. /\ Durations(s) \in Seq(Int) /\ Len(Durations(s)) = Len(s)
      /\ \A i \in 1 .. Len(s) : Durations(s)[i] = s[i].duration
  BY DurationsType
<1>5. /\ Durations(y) \in Seq(Int) /\ Len(Durations(y)) = Len(s) + 1
      /\ \A i \in 1 .. Len(s) + 1 : Durations(y)[i] = y[i].duration
  BY <1>1, DurationsType
<1>6. /\ z \in Seq(Int) /\ Len(z) = Len(s) + 1 /\ z[Len(s) + 1] = b.duration
      /\ \A i \in 1 .. Len(s) : z[i] = s[i].duration
  <2>1. /\ z \in Seq(Int) /\ Len(z) = Len(Durations(s)) + 1
        /\ z[Len(Durations(s)) + 1] = b.duration
        /\ \A i \in 1 .. Len(Durations(s)) : z[i] = Durations(s)[i]
    BY <1>2, <1>4, Appended
  <2> HIDE DEF z
  <2> QED BY <1>4, <2>1
<1> HIDE DEF z
<1>7. \A i \in 1 .. Len(s) + 1 : Durations(y)[i] = z[i]
  BY <1>1, <1>5, <1>6
<1>8. Durations(y) = z
  BY <1>5, <1>6, <1>7, SameSeq
<1> QED BY <1>2, <1>4, <1>8 DEF y, z

LEMMA ConservedKept ==
    ASSUME IInv, PacketsConserved, [Next]_vars PROVE PacketsConserved'
<1> SUFFICES ASSUME pc' # "panicked"
             PROVE  FlattenSeq(Originals(mc')) \o Original(Unpushed') = Parsed(packets_read')
  BY DEF PacketsConserved, Parsed
<1> DEFINE flat == FlattenSeq(Originals(mc))
           all == flat \o Original(Unpushed)
           k == packets_read
<1>1. /\ mc \in Seq(Block) /\ write_buffer \in Seq(Entry)
      /\ k \in Nat /\ k <= MaxPackets /\ input \in Seq([is_pat : BOOLEAN, splits : BOOLEAN, back : BOOLEAN])
  BY DEF IInv, TypeOK, packets_read
<1>2. Originals(mc) \in Seq(Seq(Entry))
  BY <1>1, OriginalsType
<1>3. flat \in Seq(Entry)
  <2>1. <<>> \in Seq(Entry)
    OBVIOUS
  <2> QED BY <1>2, <2>1, FlattenAppend
<1>4. Parsed(k) \in Seq(Nat) /\ Parsed(k + 1) = Append(Parsed(k), k + 1)
  BY <1>1, ParsedNext
<1>5. pc # "panicked" => all = Parsed(k)
  BY DEF PacketsConserved, Parsed
<1>6. \A n \in Packet : Original(<<n>>) = <<n>> /\ Original(<<>>) = <<>>
  BY OriginalOfSplit
<1>7. ASSUME NEW is_pat \in BOOLEAN, NEW pcr \in Clocks \cup {None}, NEW splits \in BOOLEAN,
             InspectPacket(is_pat, pcr, splits)
      PROVE  packets_read' = k + 1 /\ k + 1 \in Packet /\ pc = "read"
  BY <1>1, <1>7, IngestAssumption DEF InspectPacket, packets_read, Packet
<1>8. ASSUME PushBlock(Duration), pc = "read"
      PROVE  FlattenSeq(Originals(mc')) = all /\ all = Parsed(k)
  <2> DEFINE b == [packets |-> write_buffer, duration |-> Duration]
  <2>1. b \in Block
    BY <1>1, Clocked DEF IInv, Block
  <2>2. mc' = Append(mc, b) /\ b.packets = write_buffer
    BY <1>8 DEF PushBlock
  <2> HIDE DEF b
  <2>3. /\ Originals(mc') = Append(Originals(mc), Original(write_buffer))
        /\ Original(write_buffer) \in Seq(Entry)
    BY <1>1, <2>1, <2>2, OriginalsAppend
  <2>4. FlattenSeq(Originals(mc')) = flat \o Original(write_buffer)
    BY <1>2, <2>3, FlattenAppend
  <2>5. Unpushed = write_buffer
    BY <1>8 DEF Unpushed
  <2> QED BY <1>5, <1>8, <2>4, <2>5
<1>9. CASE \E is_pat \in BOOLEAN, pcr \in Clocks \cup {None} : KeepPacket(is_pat, pcr)
  <2>1. /\ pc = "read" /\ pc' = "read" /\ mc' = mc /\ packets_read' = k + 1 /\ k + 1 \in Packet
        /\ write_buffer' = Append(write_buffer, k + 1)
    BY <1>7, <1>9 DEF KeepPacket, InspectPacket
  <2>2. Original(write_buffer) \in Seq(Entry)
        /\ Original(write_buffer') = Append(Original(write_buffer), k + 1)
    BY <1>1, <2>1, OriginalAppend
  <2>3. Unpushed = write_buffer /\ Unpushed' = write_buffer'
    BY <2>1 DEF Unpushed
  <2>4. flat \o Append(Original(write_buffer), k + 1)
           = Append(flat \o Original(write_buffer), k + 1)
    <3> HIDE DEF flat, k
    <3>1. k + 1 \in Entry
      BY <2>1 DEF Entry
    <3> QED BY <1>3, <2>2, <3>1, ConcatAppend
  <2> QED BY <1>4, <1>5, <2>1, <2>2, <2>3, <2>4
<1>10. CASE \E is_pat \in BOOLEAN, pcr \in Clocks \cup {None} : SplitBlock(is_pat, pcr)
  <2>1. /\ pc = "read" /\ pc' = "send_split" /\ PushBlock(Duration)
        /\ packets_read' = k + 1 /\ k + 1 \in Packet
    BY <1>7, <1>10 DEF SplitBlock, InspectPacket
  <2>2. Unpushed' = <<k + 1>>
    BY <2>1 DEF Unpushed
  <2>3. FlattenSeq(Originals(mc')) = Parsed(k)
    BY <1>8, <2>1
  <2>4. Parsed(k) \o <<k + 1>> = Append(Parsed(k), k + 1)
    BY <1>1, <1>4
  <2> QED BY <1>4, <1>6, <2>1, <2>2, <2>3, <2>4
<1>11. CASE EndSegment
  <2>1. pc = "read" /\ pc' = "send_last" /\ PushBlock(Duration) /\ packets_read' = k
    BY <1>11 DEF EndSegment, packets_read
  <2>2. Unpushed' = <<>> /\ Original(<<>>) = <<>>
    BY <2>1 DEF Unpushed, Original
  <2>3. Parsed(k) \o <<>> = Parsed(k)
    BY <1>4
  <2> QED BY <1>8, <2>1, <2>2, <2>3
<1>12. CASE SendSplit
  <2>1. /\ pc = "send_split" /\ pc' = "read" /\ mc' = mc /\ packets_read' = k
        /\ write_buffer' = Reinserted \o <<k>> /\ input # <<>>
    BY <1>12 DEF SendSplit, packets_read, IInv, SplitInv
  <2>2. k \in Packet /\ (pat # 0 => pat \in Packet)
    <3>1. Len(input) > 0 /\ pat \in 0 .. Len(input)
      BY <1>1, <2>1 DEF IInv, TypeOK, packets_read
    <3> QED BY <1>1, <3>1, IngestAssumption DEF packets_read, Packet
  <2>3. Original(write_buffer') = <<k>>
    <3>1. CASE pat = 0
      <4>1. <<>> \o <<k>> = <<k>>
        BY <1>1
      <4> QED BY <1>6, <2>1, <2>2, <3>1, <4>1 DEF Reinserted
    <3>2. CASE pat # 0
      BY <2>1, <2>2, <3>2, OriginalOfSplit DEF Reinserted
    <3> QED BY <3>1, <3>2
  <2>4. Unpushed = <<k>> /\ Unpushed' = write_buffer'
    BY <2>1 DEF Unpushed
  <2> QED BY <1>5, <1>6, <2>1, <2>2, <2>3, <2>4
<1>13. CASE \/ OpenSegment \/ LeaveLoop \/ AcceptFails \/ ReadFails \/ WriteFails
            \/ SendLast \/ SendPeriodic \/ NotDue
            \/ ChildSucceeded \/ ChildFailed \/ Receive \/ UNCHANGED vars
  <2>1. mc' = mc /\ packets_read' = k
    BY <1>13 DEF OpenSegment, LeaveLoop, AcceptFails, ReadFails, WriteFails, SendLast, SendPeriodic,
                 NotDue, ChildSucceeded, ChildFailed, Receive, vars, clocks, packets_read
  <2>2. Unpushed' = Unpushed /\ pc # "panicked"
    BY <1>13 DEF OpenSegment, LeaveLoop, AcceptFails, ReadFails, WriteFails, SendLast, SendPeriodic,
                 NotDue, ChildSucceeded, ChildFailed, Receive, vars, clocks, packets_read,
                 Unpushed
  <2> QED BY <1>5, <2>1, <2>2
<1>14. CASE \E is_pat \in BOOLEAN, pcr \in Clocks \cup {None} : ClockPanic(is_pat, pcr)
  BY <1>14 DEF ClockPanic
<1> QED BY <1>9, <1>10, <1>11, <1>12, <1>13, <1>14 DEF Next

\* One more packet leaves the PATs before it, and may be one itself.
LEMMA PatsAppend ==
    ASSUME NEW inp \in Seq(Parse), NEW e \in Parse
    PROVE  LET k == Len(inp)
               more == Append(inp, e) IN
           /\ more \in Seq(Parse) /\ Len(more) = k + 1 /\ k \in Nat /\ more[k + 1] = e
           /\ \A i \in 1 .. k : more[i] = inp[i]
           /\ \A n \in 0 .. k : PatsOf(more, n) = PatsOf(inp, n)
           /\ PatsOf(more, k + 1) = PatsOf(inp, k) \cup (IF e.is_pat THEN {k + 1} ELSE {})
<1> DEFINE k == Len(inp)
           more == Append(inp, e)
<1>1. /\ more \in Seq(Parse) /\ Len(more) = k + 1 /\ k \in Nat /\ more[k + 1] = e
      /\ \A i \in 1 .. k : more[i] = inp[i]
  BY Appended
<1> HIDE DEF more, k
<1>2. \A n \in 0 .. k : PatsOf(more, n) = PatsOf(inp, n)
  <2> SUFFICES ASSUME NEW n \in 0 .. k, NEW i \in 1 .. n
               PROVE  more[i].is_pat <=> inp[i].is_pat
    BY DEF PatsOf
  <2>1. i \in 1 .. k
    BY <1>1
  <2> QED BY <1>1, <2>1
<1>3. PatsOf(more, k + 1) = PatsOf(inp, k) \cup (IF e.is_pat THEN {k + 1} ELSE {})
  <2>1. 1 .. k + 1 = (1 .. k) \cup {k + 1}
    BY <1>1
  <2>2. PatsOf(more, k + 1) = PatsOf(more, k) \cup {i \in {k + 1} : more[i].is_pat}
    BY <2>1 DEF PatsOf
  <2>3. PatsOf(more, k) = PatsOf(inp, k)
    BY <1>1, <1>2
  <2>4. {i \in {k + 1} : more[i].is_pat} = IF e.is_pat THEN {k + 1} ELSE {}
    BY <1>1
  <2> QED BY <2>2, <2>3, <2>4
<1> QED BY <1>1, <1>2, <1>3 DEF more, k

\* What a block started with does not change.
LEMMA BeginsStill ==
    ASSUME NEW inp \in Seq(Parse), NEW e \in Parse, NEW entries, Begins(entries, inp)
    PROVE  Begins(entries, Append(inp, e))
<1> DEFINE more == Append(inp, e)
           p == Original(entries)
<1>1. /\ Len(more) = Len(inp) + 1 /\ Len(inp) \in Nat
      /\ \A i \in 1 .. Len(inp) : more[i] = inp[i]
      /\ \A n \in 0 .. Len(inp) : PatsOf(more, n) = PatsOf(inp, n)
  BY PatsAppend
<1> HIDE DEF more
<1> SUFFICES ASSUME entries # <<>> PROVE Begins(entries, more)
  BY DEF Begins, more
<1>2. p # <<>> /\ p[1] \in 1 .. Len(inp)
  BY DEF Begins
<1>3. more[p[1]] = inp[p[1]] /\ PatsOf(more, p[1]) = PatsOf(inp, p[1])
      /\ p[1] \in 1 .. Len(more)
  BY <1>1, <1>2
<1> QED BY <1>2, <1>3 DEF Begins

\* A packet added to a block that starts well, or to an empty one.
LEMMA BeginsAppend ==
    ASSUME NEW inp \in Seq(Parse), NEW entries \in Seq(Entry), Begins(entries, inp),
           Len(inp) \in Packet, entries = <<>> => ~ inp[Len(inp)].splits
    PROVE  Begins(Append(entries, Len(inp)), inp)
<1> DEFINE n == Len(inp)
           t == Append(entries, n)
           p == Original(entries)
<1>1. p \in Seq(Entry) /\ Original(t) = Append(p, n)
  BY OriginalAppend
<1>2. n \in Packet /\ n \in Entry /\ n \in 1 .. n
  BY IngestAssumption DEF Entry, Packet
<1>3. CASE entries = <<>>
  <2>1. p = <<>>
    BY <1>3 DEF Original
  <2>2. t = <<n>> /\ Original(t) = <<n>>
    <3> HIDE DEF n, p
    <3> QED BY <1>1, <1>2, <1>3, <2>1
  <2>3. <<n>>[1] = n /\ <<n>> # <<>>
    OBVIOUS
  <2> HIDE DEF t, n
  <2> QED BY <1>2, <1>3, <2>2, <2>3 DEF Begins, n
<1>4. CASE entries # <<>>
  <2>1. p # <<>> /\ p[1] \in 1 .. Len(inp)
    BY <1>4 DEF Begins
  <2>2. Original(t) # <<>> /\ Original(t)[1] = p[1]
    <3> HIDE DEF p, t, n
    <3>1. Len(p) > 0 /\ Append(p, n) # <<>> /\ 1 \in 1 .. Len(p)
      BY <1>1, <1>2, <2>1
    <3>2. \A i \in 1 .. Len(p) : Append(p, n)[i] = p[i]
      BY <1>1, <1>2, Appended
    <3> QED BY <1>1, <3>1, <3>2
  <2> DEFINE pats == PatsOf(inp, p[1])
  <2>3. CASE ~ inp[p[1]].splits \/ pats = {}
    <3>1. entries = p
      BY <1>4, <2>3 DEF Begins
    <3>2. t = Original(t)
      BY <1>1, <3>1
    <3> HIDE DEF t, p
    <3> QED BY <2>1, <2>2, <2>3, <3>2 DEF Begins, t, n
  <2>4. CASE inp[p[1]].splits /\ pats # {}
    <3> DEFINE m == -Max(pats)
    <3>1. entries = <<m>> \o p
      BY <1>4, <2>4 DEF Begins
    <3>2. m \in Entry
      <4>1. 1 \in 1 .. Len(entries) /\ entries[1] = m
        <5> HIDE DEF m, p
        <5> QED BY <1>1, <3>1
      <4> QED BY <4>1
    <3>3. t = <<m>> \o Append(p, n)
      <4> HIDE DEF m, p, n
      <4>1. <<m>> \in Seq(Entry)
        BY <3>2
      <4>2. <<m>> \o Append(p, n) = Append(<<m>> \o p, n)
        BY <1>1, <1>2, <4>1, ConcatAppend
      <4> QED BY <3>1, <4>2
    <3> HIDE DEF t, p
    <3> QED BY <1>1, <2>1, <2>2, <2>4, <3>3 DEF Begins, t, n
  <2> QED BY <2>3, <2>4
<1> QED BY <1>3, <1>4

\* The container grows by the block being written.
LEMMA PushedHolds ==
    ASSUME TypeOK, ClocksInv, PushBlock(Duration), NEW inp, pc = "read",
           \A i \in 1 .. Len(mc) : Begins(mc[i].packets, inp), Begins(write_buffer, inp)
    PROVE  \A i \in 1 .. Len(mc') : Begins(mc'[i].packets, inp)
<1> DEFINE b == [packets |-> write_buffer, duration |-> Duration]
<1>1. b \in Block /\ b.packets = write_buffer
  BY Clocked DEF TypeOK, Block
<1>2. mc \in Seq(Block) /\ mc' = Append(mc, b)
  BY DEF TypeOK, PushBlock
<1> HIDE DEF b
<1>3. /\ Len(mc') = Len(mc) + 1 /\ Len(mc) \in Nat /\ mc'[Len(mc) + 1] = b
      /\ \A i \in 1 .. Len(mc) : mc'[i] = mc[i]
  BY <1>1, <1>2, Appended
<1> QED BY <1>1, <1>3

LEMMA LastPatKept ==
    ASSUME IInv, LastPat, [Next]_vars PROVE LastPat'
<1>1. CASE input' = input /\ pat' = pat
  BY <1>1 DEF LastPat, packets_read
<1>2. ASSUME NEW is_pat \in BOOLEAN, NEW pcr \in Clocks \cup {None}, NEW splits \in BOOLEAN,
             InspectPacket(is_pat, pcr, splits)
      PROVE  LastPat'
  <2> DEFINE e == [is_pat |-> is_pat, splits |-> splits,
                   back |-> pcr # None /\ pcr < clock_latest]
             k == packets_read
             pats == PatsOf(input, k)
  <2>1. input \in Seq(Parse) /\ k = Len(input) /\ k \in Nat /\ e \in Parse
    BY DEF IInv, TypeOK, packets_read, Parse
  <2>2. input' = Append(input, e) /\ pat' = (IF is_pat THEN k + 1 ELSE pat) /\ e.is_pat = is_pat
    BY <1>2 DEF InspectPacket
  <2> HIDE DEF e
  <2>3. /\ packets_read' = k + 1
        /\ PatsOf(input', k + 1) = pats \cup (IF is_pat THEN {k + 1} ELSE {})
    BY <2>1, <2>2, PatsAppend DEF packets_read
  <2>4. pats \in SUBSET (1 .. k)
    BY DEF PatsOf
  <2> HIDE DEF k, pats
  <2>5. CASE is_pat
    <3> DEFINE more == pats \cup {k + 1}
    <3>1. more \in SUBSET (0 .. k + 1) /\ more # {} /\ k + 1 \in more
          /\ \A y \in more : y <= k + 1
      <4>1. k + 1 \in 0 .. k + 1 /\ 1 .. k \subseteq 0 .. k + 1
        BY <2>1
      <4>2. \A y \in 1 .. k : y <= k + 1
        BY <2>1
      <4>3. more \subseteq 0 .. k + 1 /\ k + 1 \in more /\ more # {}
        BY <2>4, <4>1
      <4>4. \A y \in more : y <= k + 1
        BY <2>1, <2>4, <4>2
      <4> QED BY <4>3, <4>4
    <3>2. Max(more) = k + 1
      <4> HIDE DEF more
      <4>1. k + 1 \in Nat
        BY <2>1
      <4> QED BY <3>1, <4>1, Greatest
    <3> HIDE DEF more
    <3>3. PatsOf(input', packets_read') = more
      BY <2>3, <2>5 DEF more
    <3> QED BY <2>2, <2>5, <3>1, <3>2, <3>3 DEF LastPat
  <2>6. CASE ~ is_pat
    <3>1. PatsOf(input', packets_read') = pats /\ pat' = pat
      BY <2>2, <2>3, <2>6
    <3> QED BY <3>1 DEF LastPat, pats, k
  <2> QED BY <2>5, <2>6
<1>3. CASE \/ \E is_pat \in BOOLEAN, pcr \in Clocks \cup {None} :
                 KeepPacket(is_pat, pcr) \/ SplitBlock(is_pat, pcr) \/ ClockPanic(is_pat, pcr)
  BY <1>2, <1>3 DEF KeepPacket, SplitBlock, ClockPanic
<1> QED BY <1>1, <1>3 DEF Next, OpenSegment, LeaveLoop, AcceptFails, ReadFails, WriteFails,
           SendSplit, EndSegment, SendLast, SendPeriodic, NotDue, ChildSucceeded, ChildFailed, Receive, vars

LEMMA StartsKept ==
    ASSUME IInv, LastPat, StartsInv, [Next]_vars PROVE StartsInv'
<1> DEFINE k == packets_read
<1>1. /\ input \in Seq(Parse) /\ k = Len(input) /\ k \in Nat /\ mc \in Seq(Block)
      /\ write_buffer \in Seq(Entry)
  BY DEF IInv, TypeOK, packets_read, Parse
<1>2. ASSUME NEW is_pat \in BOOLEAN, NEW pcr \in Clocks \cup {None}, NEW splits \in BOOLEAN,
             InspectPacket(is_pat, pcr, splits), segment_clock' = segment_clock
      PROVE  /\ packets_read' = k + 1 /\ k + 1 \in Packet /\ pc = "read"
             /\ input' \in Seq(Parse) /\ Len(input') = k + 1 /\ input'[k + 1].splits = splits
             /\ Begins(write_buffer, input')
             /\ \A i \in 1 .. Len(mc) : Begins(mc[i].packets, input')
  <2> DEFINE e == [is_pat |-> is_pat, splits |-> splits,
                   back |-> pcr # None /\ pcr < clock_latest]
  <2>1. e \in Parse /\ e.splits = splits
    BY DEF Parse
  <2>2. input' = Append(input, e) /\ pc = "read" /\ k + 1 <= MaxPackets
    BY <1>1, <1>2, IngestAssumption DEF InspectPacket
  <2> HIDE DEF e
  <2>3. input' \in Seq(Parse) /\ Len(input') = k + 1 /\ input'[k + 1] = e
    BY <1>1, <2>1, <2>2, Appended
  <2>4. k + 1 \in Packet
    BY <1>1, <2>2, IngestAssumption DEF Packet
  <2>5. Begins(write_buffer, input')
    BY <1>1, <2>1, <2>2, BeginsStill DEF StartsInv
  <2>6. ASSUME NEW i \in 1 .. Len(mc) PROVE Begins(mc[i].packets, input')
    BY <1>1, <2>1, <2>2, BeginsStill DEF StartsInv
  <2> QED BY <2>1, <2>2, <2>3, <2>4, <2>5, <2>6 DEF packets_read
<1>3. CASE \E is_pat \in BOOLEAN, pcr \in Clocks \cup {None} : KeepPacket(is_pat, pcr)
  <2>1. PICK is_pat \in BOOLEAN, pcr \in Clocks \cup {None} : KeepPacket(is_pat, pcr)
    BY <1>3
  <2>2. /\ InspectPacket(is_pat, pcr, FALSE) /\ segment_clock' = segment_clock
        /\ pc' = pc /\ mc' = mc /\ write_buffer' = Append(write_buffer, packets_read')
    BY <2>1 DEF KeepPacket
  <2>3. /\ packets_read' = k + 1 /\ k + 1 \in Packet /\ pc = "read"
        /\ input' \in Seq(Parse) /\ Len(input') = k + 1 /\ input'[k + 1].splits = FALSE
        /\ Begins(write_buffer, input')
        /\ \A i \in 1 .. Len(mc) : Begins(mc[i].packets, input')
    BY <1>2, <2>2
  <2>4. Begins(write_buffer', input')
    <3> HIDE DEF k
    <3>1. Begins(Append(write_buffer, Len(input')), input')
      BY <1>1, <2>3, BeginsAppend
    <3> QED BY <2>2, <2>3, <3>1
  <2> QED BY <2>2, <2>3, <2>4 DEF StartsInv
<1>4. CASE \E is_pat \in BOOLEAN, pcr \in Clocks \cup {None} : SplitBlock(is_pat, pcr)
  <2>1. PICK is_pat \in BOOLEAN, pcr \in Clocks \cup {None} : SplitBlock(is_pat, pcr)
    BY <1>4
  <2>2. /\ InspectPacket(is_pat, pcr, TRUE) /\ segment_clock' = segment_clock
        /\ PushBlock(Duration) /\ pc' = "send_split"
    BY <2>1 DEF SplitBlock
  <2>3. /\ packets_read' = k + 1 /\ pc = "read" /\ input'[k + 1].splits
        /\ Begins(write_buffer, input')
        /\ \A i \in 1 .. Len(mc) : Begins(mc[i].packets, input')
    BY <1>2, <2>2
  <2>4. \A i \in 1 .. Len(mc') : Begins(mc'[i].packets, input')
    BY <2>2, <2>3, PushedHolds DEF IInv
  <2> QED BY <2>2, <2>3, <2>4 DEF StartsInv
<1>5. CASE \E is_pat \in BOOLEAN, pcr \in Clocks \cup {None} : ClockPanic(is_pat, pcr)
  <2>1. PICK is_pat \in BOOLEAN, pcr \in Clocks \cup {None} : ClockPanic(is_pat, pcr)
    BY <1>5
  <2>2. InspectPacket(is_pat, pcr, FALSE) /\ segment_clock' = segment_clock
        /\ pc' = "panicked" /\ mc' = mc
    BY <2>1 DEF ClockPanic
  <2>3. \A i \in 1 .. Len(mc) : Begins(mc[i].packets, input')
    BY <1>2, <2>2
  <2> QED BY <2>2, <2>3 DEF StartsInv
<1>6. CASE EndSegment
  <2>1. PushBlock(Duration) /\ pc = "read" /\ pc' = "send_last" /\ input' = input
    BY <1>6 DEF EndSegment
  <2>2. \A i \in 1 .. Len(mc') : Begins(mc'[i].packets, input)
    BY <2>1, PushedHolds DEF IInv, StartsInv
  <2> QED BY <2>1, <2>2 DEF StartsInv
<1>7. CASE SendSplit
  <2>1. /\ pc = "send_split" /\ pc' = "read" /\ mc' = mc /\ input' = input
        /\ write_buffer' = Reinserted \o <<k>> /\ input # <<>>
    BY <1>7 DEF SendSplit, packets_read, IInv, SplitInv
  <2>2. k \in Packet /\ (pat # 0 => pat \in Packet)
    <3>1. Len(input) > 0 /\ pat \in 0 .. Len(input) /\ Len(input) <= MaxPackets
      BY <1>1, <2>1 DEF IInv, TypeOK, packets_read
    <3> QED BY <1>1, <3>1, IngestAssumption DEF packets_read, Packet
  <2> DEFINE pats == PatsOf(input, k)
  <2>3. input[k].splits /\ pat = (IF pats = {} THEN 0 ELSE Max(pats))
    BY <2>1 DEF StartsInv, LastPat
  <2>4. \A y \in pats : y > 0
    BY <1>1 DEF PatsOf
  <2>5. pats # {} => pat # 0
    <3> HIDE DEF k
    <3>1. pats \in SUBSET (0 .. k)
      BY <1>1 DEF PatsOf
    <3> HIDE DEF pats
    <3>2. pats # {} => Max(pats) \in pats
      BY <1>1, <3>1, Greatest
    <3> QED BY <2>3, <2>4, <3>2
  <2>6. Original(write_buffer') = <<k>>
        /\ write_buffer' = IF pats = {} THEN <<k>> ELSE <<-Max(pats)>> \o <<k>>
    <3> HIDE DEF pats
    <3>1. CASE pats = {}
      <4>1. Reinserted = <<>> /\ <<>> \o <<k>> = <<k>>
        BY <1>1, <2>3, <3>1 DEF Reinserted
      <4>2. Original(<<k>>) = <<k>>
        BY <2>2, OriginalOfSplit
      <4> QED BY <2>1, <3>1, <4>1, <4>2
    <3>2. CASE pats # {}
      <4>1. Reinserted = <<-pat>> /\ pat = Max(pats) /\ pat \in Packet
        BY <2>2, <2>3, <2>5, <3>2 DEF Reinserted
      <4>2. Original(<<-pat>> \o <<k>>) = <<k>>
        BY <2>2, <4>1, OriginalOfSplit
      <4> QED BY <2>1, <3>2, <4>1, <4>2
    <3> QED BY <3>1, <3>2
  <2>7. Begins(write_buffer', input)
    <3>1. <<k>> # <<>> /\ <<k>>[1] = k /\ k \in 1 .. Len(input)
      BY <1>1, <2>2, IngestAssumption DEF Packet
    <3> HIDE DEF k
    <3> QED BY <2>3, <2>6, <3>1 DEF Begins
  <2> QED BY <2>1, <2>7 DEF StartsInv
<1>8. CASE OpenSegment
  <2>1. mc' = mc /\ input' = input /\ pc' = "read" /\ write_buffer' = <<>>
    BY <1>8 DEF OpenSegment
  <2>2. Begins(<<>>, input)
    BY DEF Begins
  <2> QED BY <2>1, <2>2 DEF StartsInv
<1>9. CASE \/ LeaveLoop \/ AcceptFails \/ ReadFails \/ WriteFails
           \/ SendLast \/ SendPeriodic \/ NotDue
           \/ ChildSucceeded \/ ChildFailed \/ Receive \/ UNCHANGED vars
  <2>1. mc' = mc /\ input' = input
        /\ \/ pc' \notin {"read", "send_split"}
           \/ pc' = pc /\ write_buffer' = write_buffer
    BY <1>9 DEF LeaveLoop, AcceptFails, ReadFails, WriteFails, SendLast, SendPeriodic,
                 NotDue, ChildSucceeded, ChildFailed, Receive, vars
  <2> QED BY <2>1 DEF StartsInv, packets_read
<1> QED BY <1>3, <1>4, <1>5, <1>6, <1>7, <1>8, <1>9 DEF Next

LEMMA TimelineKept ==
    ASSUME IInv, TimelineInv, [Next]_vars PROVE TimelineInv'
<1> DEFINE total == Sum(Durations(mc))
           first == AsTicks(clock_first)
           latest == AsTicks(clock_latest)
           started == AsTicks(segment_clock)
<1>1. /\ mc \in Seq(Block) /\ Durations(mc) \in Seq(Int) /\ total \in Int
      /\ \A b \in Block : /\ b.duration \in Int
                          /\ Sum(Durations(Append(mc, b))) = total + b.duration
  <2>1. mc \in Seq(Block)
    BY DEF IInv, TypeOK
  <2>2. Durations(mc) \in Seq(Int)
    BY <2>1, DurationsType
  <2>3. ASSUME NEW b \in Block
        PROVE  b.duration \in Int /\ Sum(Durations(Append(mc, b))) = total + b.duration
    <3>1. b.duration \in Int /\ Durations(Append(mc, b)) = Append(Durations(mc), b.duration)
      BY <2>1, DurationsAppend
    <3> QED BY <2>2, <3>1, SumAppend
  <2>4. total \in Int
    <3>1. 0 \in Int
      OBVIOUS
    <3> QED BY <2>2, <3>1, SumAppend
  <2> QED BY <2>1, <2>2, <2>3, <2>4
<1>2. /\ first \in Int /\ latest \in Int /\ started \in Int
      /\ clock_latest \in Clocks \cup {None} /\ clock_first \in Clocks \cup {None}
      /\ clock_first = None => first = 0 /\ latest = 0 /\ started = 0
  <2>1. /\ clock_latest \in Clocks \cup {None} /\ clock_first \in Clocks \cup {None}
        /\ segment_clock \in Clocks \cup {None}
        /\ Clocks \subseteq Int
    BY IngestAssumption DEF IInv, TypeOK
  <2>2. clock_first = None => clock_latest = None /\ segment_clock = None
    BY DEF IInv, ClocksInv
  <2> QED BY <2>1, <2>2 DEF AsTicks, None
<1>3. pc = "read" => started <= latest
  BY <1>2 DEF IInv, ReadInv, Underflow
<1> DEFINE reached == IF pc = "read" THEN started ELSE latest
<1>4. NeverBack => total <= reached - first
  BY DEF TimelineInv
<1>5. NeverBack => total <= latest - first
  <2> HIDE DEF total, first, latest, started
  <2> QED BY <1>1, <1>2, <1>3, <1>4
<1>6. ASSUME PushBlock(Duration), pc = "read", NeverBack
      PROVE  Sum(Durations(mc')) \in Int /\ Sum(Durations(mc')) <= latest - first
  <2> DEFINE b == [packets |-> write_buffer, duration |-> Duration]
  <2>1. b \in Block
    BY Clocked DEF IInv, TypeOK, Block
  <2>2. mc' = Append(mc, b) /\ b.duration = Duration
    BY <1>6 DEF PushBlock
  <2> HIDE DEF b
  <2>3. Sum(Durations(mc')) = total + Duration /\ Duration \in Int
    BY <1>1, <2>1, <2>2
  <2>4. Duration = latest - started
    <3>1. latest \in 0 .. Modulus - 1 /\ started \in 0 .. Modulus - 1
      <4>1. Clocks \subseteq 0 .. Modulus - 1 /\ 0 \in 0 .. Modulus - 1
        BY IngestAssumption
      <4>2. {clock_latest, clock_first, segment_clock} \subseteq Clocks \cup {None}
        BY DEF IInv, TypeOK
      <4> QED BY <4>1, <4>2 DEF AsTicks
    <3> QED BY <1>2, <1>3, <1>6, <3>1, Wrapping, IngestAssumption DEF Duration
  <2>5. total <= started - first
    BY <1>4, <1>6
  <2> HIDE DEF total, first, latest, started
  <2> QED BY <1>1, <1>2, <2>3, <2>4, <2>5
<1>7. ASSUME NEW is_pat \in BOOLEAN, NEW pcr \in Clocks \cup {None}, NEW splits \in BOOLEAN,
             InspectPacket(is_pat, pcr, splits), segment_clock' = segment_clock, NeverBack'
      PROVE  /\ NeverBack /\ pc = "read"
             /\ first' \in Int /\ latest' \in Int /\ started' \in Int
             /\ latest - first <= latest' - first'
             /\ started - first = started' - first'
  <2> DEFINE e == [is_pat |-> is_pat, splits |-> splits,
                   back |-> pcr # None /\ pcr < clock_latest]
  <2>1. e \in Parse /\ e.back = (pcr # None /\ pcr < clock_latest)
    BY DEF Parse
  <2>2. input' = Append(input, e) /\ input \in Seq(Parse)
    BY <1>7 DEF InspectPacket, IInv, TypeOK, Parse
  <2> HIDE DEF e
  <2>3. /\ Len(input') = Len(input) + 1 /\ Len(input) \in Nat /\ input'[Len(input) + 1] = e
        /\ \A i \in 1 .. Len(input) : input'[i] = input[i]
    BY <2>1, <2>2, Appended
  <2>4. ~ e.back /\ NeverBack
    BY <1>7, <2>3 DEF NeverBack
  <2>5. /\ pc = "read" /\ clock_latest' = (IF pcr # None THEN pcr ELSE clock_latest)
        /\ clock_first' = (IF clock_first = None THEN pcr ELSE clock_first)
    BY <1>7 DEF InspectPacket
  <2>6. Clocks \subseteq Int /\ None \notin Clocks /\ None = -1
    BY IngestAssumption DEF None
  <2>7. segment_clock \in Clocks \cup {None} /\ (clock_first = None <=> clock_latest = None)
        /\ (clock_first = None => segment_clock = None)
    BY DEF IInv, TypeOK, ClocksInv
  <2>8. CASE clock_first = None
    <3>1. first = 0 /\ latest = 0 /\ started = 0
      BY <1>2, <2>8
    <3>2. /\ clock_latest' = pcr /\ clock_first' = pcr /\ segment_clock' = None
      BY <1>7, <2>5, <2>7, <2>8
    <3>3. first' = latest' /\ started' = first' /\ first' \in Int
      BY <2>6, <3>2 DEF AsTicks
    <3> QED BY <2>4, <2>5, <3>1, <3>3
  <2>9. CASE clock_first # None
    <3>1. clock_first' = clock_first /\ clock_latest \in Clocks /\ clock_latest' \in Clocks
      BY <1>2, <2>5, <2>7, <2>9
    <3>2. first' = first /\ started' = started /\ latest = clock_latest /\ latest' = clock_latest'
      BY <1>7, <2>6, <3>1 DEF AsTicks
    <3>3. clock_latest <= clock_latest'
      <4>1. ~ (pcr # None /\ pcr < clock_latest)
        BY <2>1, <2>4, Zenon
      <4> QED BY <2>5, <2>6, <3>1, <4>1
    <3> QED BY <1>2, <2>4, <2>5, <2>6, <3>1, <3>2, <3>3
  <2> QED BY <2>8, <2>9
<1>8. CASE \E is_pat \in BOOLEAN, pcr \in Clocks \cup {None} : KeepPacket(is_pat, pcr)
  <2>1. PICK is_pat \in BOOLEAN, pcr \in Clocks \cup {None} : KeepPacket(is_pat, pcr)
    BY <1>8
  <2>2. /\ InspectPacket(is_pat, pcr, FALSE) /\ segment_clock' = segment_clock
        /\ pc' = pc /\ mc' = mc
    BY <2>1 DEF KeepPacket
  <2> SUFFICES ASSUME NeverBack' PROVE total' <= started' - first'
    BY <1>7, <2>2 DEF TimelineInv
  <2>3. /\ NeverBack /\ pc = "read" /\ started - first = started' - first'
    BY <1>7, <2>2
  <2>4. total' = total
    BY <2>2
  <2> HIDE DEF total, first, latest, started
  <2> QED BY <1>4, <2>3, <2>4
<1>9. CASE \E is_pat \in BOOLEAN, pcr \in Clocks \cup {None} :
              SplitBlock(is_pat, pcr) \/ ClockPanic(is_pat, pcr)
  <2>1. PICK is_pat \in BOOLEAN, pcr \in Clocks \cup {None} :
           SplitBlock(is_pat, pcr) \/ ClockPanic(is_pat, pcr)
    BY <1>9
  <2>2. PICK splits \in BOOLEAN : InspectPacket(is_pat, pcr, splits)
    BY <2>1 DEF SplitBlock, ClockPanic
  <2>3. segment_clock' = segment_clock /\ pc' # "read"
        /\ (PushBlock(Duration) \/ mc' = mc)
    BY <2>1 DEF SplitBlock, ClockPanic
  <2> SUFFICES ASSUME NeverBack' PROVE total' <= latest' - first'
    BY <2>3 DEF TimelineInv
  <2>4. /\ NeverBack /\ pc = "read" /\ latest - first <= latest' - first'
        /\ first' \in Int /\ latest' \in Int
    BY <1>7, <2>2, <2>3
  <2>5. total' \in Int /\ total' <= latest - first
    <3>1. CASE PushBlock(Duration)
      BY <1>6, <2>4, <3>1
    <3>2. CASE mc' = mc
      BY <1>1, <1>5, <2>4, <3>2
    <3> QED BY <2>3, <3>1, <3>2
  <2>6. \A t, a, b, c, d \in Int : t <= a - b /\ a - b <= c - d => t <= c - d
    OBVIOUS
  <2> QED BY <1>2, <2>4, <2>5, <2>6, Zenon
<1>10. CASE EndSegment
  <2>1. PushBlock(Duration) /\ pc = "read" /\ pc' = "send_last" /\ UNCHANGED <<clocks, input>>
    BY <1>10 DEF EndSegment
  <2>2. latest' = latest /\ first' = first /\ (NeverBack' <=> NeverBack)
    BY <2>1 DEF clocks, AsTicks, NeverBack
  <2>3. NeverBack => total' <= latest - first
    BY <1>6, <2>1
  <2> QED BY <2>1, <2>2, <2>3 DEF TimelineInv
<1>11. CASE OpenSegment \/ SendSplit
  <2>1. /\ mc' = mc /\ input' = input /\ clock_latest' = clock_latest /\ clock_first' = clock_first
        /\ segment_clock' = clock_latest
    BY <1>11 DEF OpenSegment, SendSplit
  <2>2. started' = latest /\ latest' = latest /\ first' = first /\ (NeverBack' <=> NeverBack)
    BY <2>1 DEF AsTicks, NeverBack
  <2>3. total' = total
    BY <2>1
  <2> QED BY <1>5, <2>2, <2>3 DEF TimelineInv
<1>12. CASE \/ LeaveLoop \/ AcceptFails \/ ReadFails \/ WriteFails
            \/ SendLast \/ SendPeriodic \/ NotDue
            \/ ChildSucceeded \/ ChildFailed \/ Receive \/ UNCHANGED vars
  <2>1. /\ mc' = mc /\ input' = input /\ clock_latest' = clock_latest /\ clock_first' = clock_first
        /\ \/ pc' # "read"
           \/ pc' = pc /\ segment_clock' = segment_clock
    BY <1>12 DEF LeaveLoop, AcceptFails, ReadFails, WriteFails, SendLast, SendPeriodic,
                 NotDue, ChildSucceeded, ChildFailed, Receive, vars, clocks
  <2>2. latest' = latest /\ first' = first /\ (NeverBack' <=> NeverBack) /\ total' = total
    BY <2>1 DEF AsTicks, NeverBack
  <2>3. pc' = "read" => pc = "read" /\ started' = started
    BY <2>1 DEF AsTicks
  <2> QED BY <1>4, <1>5, <2>2, <2>3 DEF TimelineInv
<1> QED BY <1>8, <1>9, <1>10, <1>11, <1>12 DEF Next

LEMMA InitHeld == Init => HeldInv
<1> SUFFICES ASSUME Init PROVE HeldInv
  OBVIOUS
<1>1. /\ mc = <<>> /\ input = <<>> /\ pc = "accept" /\ pat = 0
      /\ clock_latest = None /\ clock_first = None
  BY DEF Init
<1>2. PacketsConserved
  <2>1. Originals(mc) = <<>> /\ Original(Unpushed) = <<>>
    BY <1>1 DEF Originals, Original, Unpushed
  <2>2. FlattenSeq(<<>>) = <<>> /\ <<>> \o <<>> = <<>>
    BY DEF FlattenSeq
  <2>3. [n \in 1 .. packets_read |-> n] = <<>>
    BY <1>1 DEF packets_read
  <2> QED BY <2>1, <2>2, <2>3 DEF PacketsConserved
<1>3. LastPat
  <2>1. PatsOf(input, packets_read) = {}
    BY <1>1 DEF PatsOf, packets_read
  <2> QED BY <1>1, <2>1 DEF LastPat
<1>4. StartsInv
  BY <1>1 DEF StartsInv
<1>5. TimelineInv
  <2>1. Durations(mc) = <<>>
    BY <1>1 DEF Durations
  <2> QED BY <1>1, <2>1, SumEmpty DEF TimelineInv, AsTicks
<1> QED BY <1>2, <1>3, <1>4, <1>5 DEF HeldInv

LEMMA StepHeld == IInv /\ HeldInv /\ [Next]_vars => HeldInv'
BY ConservedKept, LastPatKept, StartsKept, TimelineKept DEF HeldInv

LEMMA HeldImplies == ASSUME IInv, HeldInv PROVE StartsWithPat /\ TimelineNotAhead
<1>1. StartsWithPat
  <2> DEFINE w == [packets |-> write_buffer]
  <2>1. mc \in Seq(Block) /\ w.packets = write_buffer
    BY DEF IInv, TypeOK
  <2> HIDE DEF w
  <2>2. \A i \in 1 .. Len(Written) : Begins(Written[i].packets, input)
    <3>1. CASE pc = "read"
      <4>1. Written = Append(mc, w)
        BY <3>1 DEF Written, w
      <4> DEFINE T == Block \cup {w}
      <4>2. mc \in Seq(T) /\ w \in T
        BY <2>1
      <4> HIDE DEF T
      <4>3. /\ Len(Written) = Len(mc) + 1 /\ Len(mc) \in Nat /\ Written[Len(mc) + 1] = w
            /\ \A i \in 1 .. Len(mc) : Written[i] = mc[i]
        BY <4>1, <4>2, Appended
      <4> QED BY <2>1, <3>1, <4>3 DEF HeldInv, StartsInv
    <3>2. CASE pc # "read"
      BY <3>2 DEF HeldInv, StartsInv, Written
    <3> QED BY <3>1, <3>2
  <2>3. \A n : PatsUpTo(n) = PatsOf(input, n)
    BY DEF PatsUpTo, PatsOf
  <2> SUFFICES ASSUME NEW i \in 1 .. Len(Written), Original(Written[i].packets) # <<>>
               PROVE  LET p == Original(Written[i].packets) IN
                      Written[i].packets =
                        IF ~ input[p[1]].splits \/ PatsUpTo(p[1]) = {} THEN p
                        ELSE <<-Max(PatsUpTo(p[1]))>> \o p
    BY DEF StartsWithPat
  <2>4. Written[i].packets # <<>>
    BY DEF Original
  <2> QED BY <2>2, <2>3, <2>4 DEF Begins
<1>2. TimelineNotAhead
  <2> SUFFICES ASSUME NeverBack
               PROVE  Sum(Durations(mc)) <= AsTicks(clock_latest) - AsTicks(clock_first)
    BY DEF TimelineNotAhead, NeverBack, Sum
  <2>1. Durations(mc) \in Seq(Int) /\ Sum(Durations(mc)) \in Int
    <3>1. Durations(mc) \in Seq(Int) /\ 0 \in Int
      BY DurationsType DEF IInv, TypeOK
    <3> QED BY <3>1, SumAppend
  <2>2. AsTicks(clock_latest) \in Int /\ AsTicks(clock_first) \in Int /\ AsTicks(segment_clock) \in Int
    <3>1. Clocks \subseteq Int /\ 0 \in Int
      BY IngestAssumption
    <3>2. {clock_latest, clock_first, segment_clock} \subseteq Clocks \cup {None}
      BY DEF IInv, TypeOK
    <3> QED BY <3>1, <3>2 DEF AsTicks
  <2>3. pc = "read" => AsTicks(segment_clock) <= AsTicks(clock_latest)
    BY <2>2 DEF IInv, ReadInv, Underflow
  <2>4. Sum(Durations(mc)) <= (IF pc = "read" THEN AsTicks(segment_clock)
                                              ELSE AsTicks(clock_latest)) - AsTicks(clock_first)
    BY DEF HeldInv, TimelineInv
  <2> QED BY <2>1, <2>2, <2>3, <2>4
<1> QED BY <1>1, <1>2

(***************************************************************************)
(* The inductive invariant of what the blocks hold, for push_video_block   *)
(* and the packet loop of VideoIngest::task.                               *)
(***************************************************************************)
THEOREM HeldInvariance == Spec => [](IInv /\ HeldInv)
<1>1. Init => IInv /\ HeldInv
  BY InitInv, InitHeld
<1>2. (IInv /\ HeldInv) /\ [Next]_vars => (IInv /\ HeldInv)'
  BY StepInv, StepHeld
<1> QED BY <1>1, <1>2, PTL DEF Spec

(***************************************************************************)
(* Whatever the packets' sizes, clocks and PATs, and wherever the segments *)
(* end, the blocks hold every packet parsed, once and in order (the loop   *)
(* at ingest.rs:189 and push_video_block).                                 *)
(***************************************************************************)
THEOREM PacketsConservedCorrect == Spec => []PacketsConserved
BY HeldInvariance, PTL DEF HeldInv

(***************************************************************************)
(* A block that a split starts begins with the last PAT parsed, however    *)
(* long ago, and with nothing else of its own.                             *)
(***************************************************************************)
THEOREM StartsWithPatCorrect == Spec => []StartsWithPat
BY HeldInvariance, HeldImplies, PTL

(***************************************************************************)
(* However many blocks and segments there are, their durations add up to   *)
(* no more than the input's clock has advanced, as long as it never goes   *)
(* back: no tick is counted in two blocks.                                 *)
(***************************************************************************)
THEOREM TimelineCorrect == Spec => []TimelineNotAhead
BY HeldInvariance, HeldImplies, PTL
-----------------------------------------------------------------------------
(***************************************************************************)
(* The refinement of MediaSource, through what the bus shows of a block.   *)
(***************************************************************************)
SeenSeq(s) == [i \in 1 .. Len(s) |-> Seen(s[i])]

LEMMA SeenAppend ==
    ASSUME NEW s \in Seq(Update), NEW u \in Update
    PROVE  SeenSeq(Append(s, u)) = Append(SeenSeq(s), Seen(u))
<1> DEFINE V == {Seen(v) : v \in Update}
           t == Append(s, u)
<1>1. /\ Len(s) \in Nat /\ t \in Seq(Update) /\ Len(t) = Len(s) + 1
      /\ \A i \in 1 .. Len(s) : t[i] = s[i] /\ t[Len(s) + 1] = u
  BY Appended
<1> HIDE DEF t
<1>2. /\ SeenSeq(s) \in Seq(V) /\ Len(SeenSeq(s)) = Len(s)
      /\ \A i \in 1 .. Len(s) : SeenSeq(s)[i] = Seen(s[i])
  BY <1>1 DEF SeenSeq
<1>3. /\ SeenSeq(t) \in Seq(V) /\ Len(SeenSeq(t)) = Len(s) + 1
      /\ \A i \in 1 .. Len(s) + 1 : SeenSeq(t)[i] = Seen(t[i])
  BY <1>1 DEF SeenSeq
<1>4. Seen(u) \in V
  OBVIOUS
<1> HIDE DEF V
<1>5. /\ Append(SeenSeq(s), Seen(u)) \in Seq(V)
      /\ Len(Append(SeenSeq(s), Seen(u))) = Len(s) + 1
      /\ \A i \in 1 .. Len(s) : Append(SeenSeq(s), Seen(u))[i] = SeenSeq(s)[i]
      /\ Append(SeenSeq(s), Seen(u))[Len(s) + 1] = Seen(u)
  BY <1>2, <1>4, Appended
<1>6. t[Len(s) + 1] = u
  BY DEF t
<1>7. \A i \in 1 .. Len(s) + 1 : SeenSeq(t)[i] = Append(SeenSeq(s), Seen(u))[i]
  BY <1>1, <1>2, <1>3, <1>5, <1>6
<1>8. SeenSeq(t) = Append(SeenSeq(s), Seen(u))
  BY <1>3, <1>5, <1>7, SameSeq
<1> QED BY <1>8 DEF t

LEMMA SeenTail ==
    ASSUME NEW s \in Seq(Update), s # <<>>
    PROVE  SeenSeq(s) # <<>> /\ SeenSeq(Tail(s)) = Tail(SeenSeq(s))
<1> DEFINE V == {Seen(v) : v \in Update}
<1>1. /\ Len(s) \in Nat /\ Len(s) > 0
      /\ Tail(s) \in Seq(Update) /\ Len(Tail(s)) = Len(s) - 1
      /\ \A i \in 1 .. Len(s) - 1 : Tail(s)[i] = s[i + 1]
  OBVIOUS
<1>2. /\ SeenSeq(s) \in Seq(V) /\ Len(SeenSeq(s)) = Len(s)
      /\ \A i \in 1 .. Len(s) : SeenSeq(s)[i] = Seen(s[i])
  BY <1>1 DEF SeenSeq
<1>3. /\ SeenSeq(Tail(s)) \in Seq(V) /\ Len(SeenSeq(Tail(s))) = Len(s) - 1
      /\ \A i \in 1 .. Len(s) - 1 : SeenSeq(Tail(s))[i] = Seen(s[i + 1])
  BY <1>1 DEF SeenSeq
<1> HIDE DEF V
<1>4. /\ SeenSeq(s) # <<>>
      /\ Tail(SeenSeq(s)) \in Seq(V) /\ Len(Tail(SeenSeq(s))) = Len(s) - 1
      /\ \A i \in 1 .. Len(s) - 1 : Tail(SeenSeq(s))[i] = SeenSeq(s)[i + 1]
  BY <1>1, <1>2
<1>5. \A i \in 1 .. Len(s) - 1 : Tail(SeenSeq(s))[i] = SeenSeq(Tail(s))[i]
  BY <1>1, <1>2, <1>3, <1>4
<1> QED BY <1>3, <1>4, <1>5, SameSeq

\* The container without its last block.
LEMMA FrontAppend ==
    ASSUME NEW s \in Seq(Block), NEW b PROVE Front(Append(s, b)) = s
BY DEF Front

LEMMA FirstOf ==
    ASSUME NEW T, NEW s \in Seq(T), NEW n \in 0 .. Len(s)
    PROVE  /\ SubSeq(s, 1, n) \in Seq(T) /\ Len(SubSeq(s, 1, n)) = n
           /\ \A i \in 1 .. n : SubSeq(s, 1, n)[i] = s[i]
OBVIOUS

LEMMA DurationsFront ==
    ASSUME NEW s \in Seq(Block), s # <<>>
    PROVE  /\ Len(Durations(Front(s))) = Len(s) - 1
           /\ Append(Durations(Front(s)), Last(s).duration) = Durations(s)
<1> DEFINE f == Front(s)
           D == 0 .. Modulus - 1
<1>1. Len(s) \in Nat /\ Len(s) > 0
  OBVIOUS
<1>2. f \in Seq(Block) /\ Len(f) = Len(s) - 1 /\ \A i \in 1 .. Len(s) - 1 : f[i] = s[i]
  <2>1. f = SubSeq(s, 1, Len(s) - 1)
    BY DEF Front
  <2> HIDE DEF f
  <2>2. Len(s) - 1 \in 0 .. Len(s)
    BY <1>1
  <2> QED BY <2>1, <2>2, FirstOf
<1>3. \A i \in 1 .. Len(s) : s[i].duration \in D
  <2>1. \A i \in 1 .. Len(s) : s[i] \in Block
    OBVIOUS
  <2>2. \A b \in Block : b.duration \in D
    BY DEF Block
  <2> QED BY <2>1, <2>2
<1> HIDE DEF f, D
<1>4. /\ Durations(s) \in Seq(D) /\ Len(Durations(s)) = Len(s)
      /\ \A i \in 1 .. Len(s) : Durations(s)[i] = s[i].duration
  BY <1>1, <1>3 DEF Durations
<1>5. /\ Durations(f) \in Seq(D) /\ Len(Durations(f)) = Len(s) - 1
      /\ \A i \in 1 .. Len(s) - 1 : Durations(f)[i] = s[i].duration
  BY <1>1, <1>2, <1>3 DEF Durations
<1>6. Last(s).duration = s[Len(s)].duration /\ Last(s).duration \in D
  BY <1>1, <1>3 DEF Last
<1> DEFINE t == Append(Durations(f), Last(s).duration)
<1>7. /\ t \in Seq(D) /\ Len(t) = Len(s)
      /\ \A i \in 1 .. Len(s) - 1 : t[i] = s[i].duration
      /\ t[Len(s)] = Last(s).duration
  <2>1. /\ t \in Seq(D) /\ Len(t) = Len(Durations(f)) + 1
        /\ \A i \in 1 .. Len(Durations(f)) : t[i] = Durations(f)[i]
        /\ t[Len(Durations(f)) + 1] = Last(s).duration
    BY <1>5, <1>6, Appended
  <2> HIDE DEF t
  <2> QED BY <1>1, <1>5, <2>1
<1> HIDE DEF t
<1>8. \A i \in 1 .. Len(s) : t[i] = Durations(s)[i]
  BY <1>1, <1>4, <1>6, <1>7
<1>9. t = Durations(s)
  BY <1>4, <1>7, <1>8, SameSeq
<1> QED BY <1>5, <1>9 DEF t, f

\* What the bus shows of an update that is sent.
LEMMA SentIsSeen ==
    ASSUME IInv
    PROVE  /\ SendBlock /\ mc # <<>> =>
                 SeenSeq(bus') = Append(SeenSeq(bus),
                    [type |-> "Block", block |-> Last(mc).duration, sequence |-> Len(mc) - 1])
           /\ SendContainer =>
                 SeenSeq(bus') = Append(SeenSeq(bus),
                    [type |-> "Container", blocks |-> Durations(mc)])
<1> USE IngestAssumption
<1>1. bus \in Seq(Update) /\ mc \in Seq(Block) /\ Len(mc) \in Nat /\ Len(mc) <= MaxBlocks
  BY DEF IInv, TypeOK
<1>2. ASSUME SendBlock, mc # <<>>
      PROVE  SeenSeq(bus') = Append(SeenSeq(bus),
                [type |-> "Block", block |-> Last(mc).duration, sequence |-> Len(mc) - 1])
  <2> DEFINE u == [type |-> "Block", block |-> Last(mc), sequence |-> Len(mc) - 1]
  <2>1. u \in Update
    BY <1>1, <1>2 DEF Update, Last
  <2>2. Seen(u) = [type |-> "Block", block |-> Last(mc).duration, sequence |-> Len(mc) - 1]
    BY DEF Seen
  <2>3. bus' = Append(bus, u)
    BY <1>2 DEF SendBlock
  <2> HIDE DEF u
  <2>4. SeenSeq(Append(bus, u)) = Append(SeenSeq(bus), Seen(u))
    BY <1>1, <2>1, SeenAppend
  <2> QED BY <2>2, <2>3, <2>4
<1>3. ASSUME SendContainer
      PROVE  SeenSeq(bus') = Append(SeenSeq(bus),
                [type |-> "Container", blocks |-> Durations(mc)])
  <2> DEFINE u == [type |-> "Container", blocks |-> mc]
  <2>1. u \in Update
    BY <1>1 DEF Update
  <2>2. Seen(u) = [type |-> "Container", blocks |-> Durations(mc)]
    BY DEF Seen
  <2>3. bus' = Append(bus, u)
    BY <1>3 DEF SendContainer
  <2> HIDE DEF u
  <2>4. SeenSeq(Append(bus, u)) = Append(SeenSeq(bus), Seen(u))
    BY <1>1, <2>1, SeenAppend
  <2> QED BY <2>2, <2>3, <2>4
<1> QED BY <1>2, <1>3

LEMMA SeenLength == ASSUME TypeOK PROVE Len(SeenSeq(bus)) = Len(bus)
BY DEF TypeOK, SeenSeq

LEMMA InitRefines == Init => Source!Init
<1> SUFFICES ASSUME Init PROVE Source!Init
  OBVIOUS
<1>1. bus = <<>> /\ mc = <<>> /\ pc = "accept"
  BY DEF Init
<1>2. [i \in 1 .. Len(bus) |-> Seen(bus[i])] = <<>>
  BY <1>1
<1>3. Durations(mc) = <<>>
  BY <1>1 DEF Durations
<1> QED BY <1>1, <1>2, <1>3 DEF Source!Init

LEMMA StepRefines == IInv /\ [Next]_vars => [Source!Next]_(Source!vars)
<1> SUFFICES ASSUME IInv, [Next]_vars PROVE [Source!Next]_(Source!vars)
  OBVIOUS
<1> USE IngestAssumption
<1>1. /\ bus \in Seq(Update) /\ mc \in Seq(Block) /\ Len(mc) \in Nat /\ Len(bus) \in Nat
      /\ Len(mc) <= MaxBlocks /\ Len(SeenSeq(bus)) = Len(bus)
  BY SeenLength DEF IInv, TypeOK
<1>2. CASE \/ OpenSegment \/ LeaveLoop \/ AcceptFails
           \/ \E is_pat \in BOOLEAN, pcr \in Clocks \cup {None} : KeepPacket(is_pat, pcr)
           \/ UNCHANGED vars
  <2>1. bus' = bus /\ mc' = mc
    BY <1>2 DEF OpenSegment, LeaveLoop, AcceptFails, KeepPacket, vars
  <2>2. \/ pc' = pc
        \/ pc = "accept" /\ pc' \in {"read", "exit"}
    BY <1>2 DEF OpenSegment, LeaveLoop, AcceptFails, KeepPacket, vars
  <2>3. UNCHANGED Source!vars
    BY <2>1, <2>2 DEF Source!vars
  <2> QED BY <2>3
<1>3. CASE ReadFails \/ WriteFails \/ ChildFailed
           \/ \E is_pat \in BOOLEAN, pcr \in Clocks \cup {None} : ClockPanic(is_pat, pcr)
  <2>1. /\ bus' = bus /\ mc' = mc /\ pc \in {"accept", "exit", "read"} /\ pc' = "panicked"
    BY <1>3 DEF ReadFails, WriteFails, ChildFailed, ClockPanic, InspectPacket
  <2>2. Source!Fail
    BY <2>1 DEF Source!Fail
  <2> QED BY <2>2 DEF Source!Next, Source!Produce
<1>4. CASE EndSegment
           \/ \E is_pat \in BOOLEAN, pcr \in Clocks \cup {None} : SplitBlock(is_pat, pcr)
  <2>1. /\ bus' = bus /\ pc = "read" /\ pc' \in {"send_split", "send_last"}
        /\ mc' = Append(mc, [packets |-> write_buffer, duration |-> Duration])
    BY <1>4 DEF EndSegment, SplitBlock, InspectPacket, PushBlock
  <2>2. Front(mc') = mc
    BY <1>1, <2>1, FrontAppend
  <2>3. UNCHANGED Source!vars
    BY <2>1, <2>2 DEF Source!vars
  <2> QED BY <2>3
<1>5. CASE SendSplit \/ SendLast
  <2> DEFINE d == Last(mc).duration
  <2>1. /\ pc \in {"send_split", "send_last"} /\ mc' = mc /\ SendBlock /\ mc # <<>>
        /\ pc' \in {"read", "periodic"}
    BY <1>5 DEF SendSplit, SendLast, IInv, SplitInv
  <2>2. SeenSeq(bus') = Append(SeenSeq(bus),
           [type |-> "Block", block |-> d, sequence |-> Len(mc) - 1])
    BY <2>1, SentIsSeen
  <2>3. d \in 0 .. SegmentMax - 1
    <3>1. Len(mc) \in 1 .. Len(mc)
      BY <1>1, <2>1
    <3>2. mc[Len(mc)] \in Block /\ mc[Len(mc)].duration < SegmentMax
      BY <1>1, <3>1 DEF IInv, DurationsBelowTarget
    <3> QED BY <3>2 DEF Last, Block
  <2>4. /\ Len(Durations(Front(mc))) = Len(mc) - 1
        /\ Append(Durations(Front(mc)), d) = Durations(mc)
    BY <1>1, <2>1, DurationsFront
  <2>5. Len(SeenSeq(bus)) < BusCapacity
    BY <1>1, <2>1 DEF SendBlock, HasRoom
  <2>6. Source!SendBlock(d)
    <3> HIDE DEF d
    <3>1. Durations(mc)' = Durations(mc)
      BY <2>1 DEF Durations
    <3> DEFINE live == CASE pc = "done" -> "done" [] pc = "panicked" -> "failed"
                         [] OTHER -> "live"
               sent == Durations(IF pc \in {"send_split", "send_last"} THEN Front(mc) ELSE mc)
    <3>2. live = "live" /\ live' = live /\ pc # "periodic"
      BY <2>1
    <3>3. sent = Durations(Front(mc)) /\ sent' = Durations(mc)
      BY <2>1, <3>1
    <3>4. Len(sent) = Len(mc) - 1 /\ Len(sent) < MaxBlocks /\ sent' = Append(sent, d)
      BY <1>1, <2>4, <3>3
    <3>5. SeenSeq(bus)' = Append(SeenSeq(bus),
             [type |-> "Block", block |-> d, sequence |-> Len(sent)])
      BY <2>2, <3>4 DEF SeenSeq
    <3>6. (pc = "periodic")' \in BOOLEAN
      OBVIOUS
    <3> QED BY <2>5, <3>2, <3>4, <3>5, <3>6
            DEF Source!SendBlock, Source!BlockUpdate, Source!BusHasRoom, SeenSeq
  <2> QED BY <2>3, <2>6 DEF Source!Next, Source!Produce
<1>6. CASE SendPeriodic \/ ChildSucceeded
  <2>1. /\ mc' = mc /\ SendContainer
        /\ \/ pc = "periodic" /\ pc' = "accept"
           \/ pc = "exit" /\ pc' = "done"
    BY <1>6 DEF SendPeriodic, ChildSucceeded
  <2>2. SeenSeq(bus') = Append(SeenSeq(bus), [type |-> "Container", blocks |-> Durations(mc)])
    BY <2>1, SentIsSeen
  <2>3. Len(SeenSeq(bus)) < BusCapacity
    BY <1>1, <2>1 DEF SendContainer, HasRoom
  <2>4. Durations(mc)' = Durations(mc)
    BY <2>1 DEF Durations
  <2>5. Source!SendContainer \/ Source!Finish
    BY <2>1, <2>2, <2>3, <2>4
       DEF Source!SendContainer, Source!Finish, Source!ContainerUpdate, Source!BusHasRoom, SeenSeq
  <2> QED BY <2>5 DEF Source!Next, Source!Produce
<1>7. CASE NotDue
  <2>1. bus' = bus /\ mc' = mc /\ pc = "periodic" /\ pc' = "accept"
    BY <1>7 DEF NotDue
  <2>2. Source!NotDue
    BY <2>1 DEF Source!NotDue
  <2> QED BY <2>2 DEF Source!Next, Source!Produce
<1>8. CASE Receive
  <2>1. bus # <<>> /\ bus' = Tail(bus) /\ pc' = pc /\ mc' = mc
    BY <1>8 DEF Receive
  <2>2. SeenSeq(bus) # <<>> /\ SeenSeq(bus') = Tail(SeenSeq(bus))
    BY <1>1, <2>1, SeenTail
  <2>3. Source!Receive
    BY <2>1, <2>2 DEF Source!Receive, SeenSeq
  <2> QED BY <2>3 DEF Source!Next
<1> QED BY <1>2, <1>3, <1>4, <1>5, <1>6, <1>7, <1>8 DEF Next

(***************************************************************************)
(* Whatever ffmpeg sends and however the thread splits it, the node sees a *)
(* MediaSource: this is what Pipeline composes the node with.              *)
(***************************************************************************)
THEOREM Refinement == Spec => ImplementsMediaSource
BY Invariance, InitRefines, StepRefines, PTL DEF Spec, ImplementsMediaSource, Source!Spec
=============================================================================
