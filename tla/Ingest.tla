------------------------------- MODULE Ingest -------------------------------
(***************************************************************************)
(* The ingest thread, VideoIngest::task in media/src/ingest.rs.  ffmpeg    *)
(* connects once per segment; each segment is read whole, parsed into      *)
(* MPEG-TS packets and copied into blocks, which are split where the next  *)
(* packet would not fit or would make the block too long.  A zero-length   *)
(* connection, made when the child exits, ends the loop.                   *)
(*                                                                         *)
(* Sizes are counted in packets and durations in clock ticks.  A packet is *)
(* its number; the copy of packet n that a split reinserts is written -n.  *)
(***************************************************************************)
EXTENDS Integers, Sequences, SequencesExt

CONSTANTS
    BusCapacity,    \* capacity of the media update bus, 32 in the code
    BlockMax,       \* packets in BLOCK_MAX_BYTES, 5577 in the code
    SegmentMax,     \* SEGMENT_MAX_SEC in ticks
    Clocks,         \* the program clock references a packet may carry
    Modulus,        \* clock arithmetic is in u64, so 2^64 in the code
    MaxPackets,     \* bound: packets parsed
    MaxBlocks       \* bound: blocks pushed

None == -1          \* Option::None for a clock; 0 for the saved PAT

ASSUME IngestAssumption ==
    /\ BusCapacity \in Nat \ {0}
    /\ BlockMax \in Nat /\ BlockMax >= 2
    /\ SegmentMax \in Nat \ {0}
    /\ Modulus \in Nat \ {0}
    /\ Clocks \subseteq 0 .. Modulus - 1
    /\ \A c, d \in Clocks : c < d => Modulus - (d - c) >= SegmentMax
    /\ MaxPackets \in Nat /\ MaxBlocks \in Nat

VARIABLES
    bus,            \* the media update bus
    pc,             \* where the thread is
    mc,             \* the container: the blocks pushed so far
    write_buffer,   \* the block being written: a sequence of packets
    clock_latest, clock_first, segment_clock,
    pat,            \* the last program association table packet, or 0
    input           \* the packets parsed so far: is each a PAT, did it split,
                    \* was its clock behind the one before

clocks == <<clock_latest, clock_first, segment_clock>>
vars == <<bus, pc, mc, write_buffer, clocks, pat, input>>

packets_read == Len(input)

-----------------------------------------------------------------------------
\* clock_latest_as_u64 and segment_clock_as_u64.
AsTicks(clock) ==
    IF clock # None THEN clock ELSE IF clock_first # None THEN clock_first ELSE 0

\* latest_segment_duration subtracts two u64: an underflow wraps in a release
\* build and panics in a debug build, and the model may do either.
Underflow == AsTicks(clock_latest) < AsTicks(segment_clock)
Duration == (AsTicks(clock_latest) - AsTicks(segment_clock)) % Modulus

FullLate == Len(write_buffer) > BlockMax        \* mutant
Full == Len(write_buffer) = BlockMax
TooLongLate == Duration > SegmentMax            \* mutant
TooLong == Duration >= SegmentMax

HasRoomOffByOne == Len(bus) <= BusCapacity      \* mutant
HasRoom == Len(bus) < BusCapacity

\* The first half of push_video_block: the block enters the container ...
PushBlock(duration) ==
    /\ Len(mc) < MaxBlocks
    /\ mc' = Append(mc, [packets |-> write_buffer, duration |-> duration])

\* ... and the second half: it is sent, when the bus has room.
SendBlock ==
    /\ HasRoom
    /\ bus' = Append(bus, [type |-> "Block", block |-> Last(mc),
                           sequence |-> Len(mc) - 1])

\* Mutant: the container is cloned before the last block enters it.
SendContainerStale ==
    /\ HasRoom
    /\ bus' = Append(bus, [type |-> "Container",
                           blocks |-> IF mc = <<>> THEN mc ELSE Front(mc)])

SendContainer ==
    /\ HasRoom
    /\ bus' = Append(bus, [type |-> "Container", blocks |-> mc])

Init ==
    /\ bus = <<>> /\ mc = <<>> /\ write_buffer = <<>>
    /\ pc = "accept"
    /\ clock_latest = None /\ clock_first = None /\ segment_clock = None
    /\ pat = 0 /\ input = <<>>

\* ffmpeg connects with a segment, which is read to its end.
OpenSegment ==
    /\ pc = "accept"
    /\ write_buffer' = <<>>
    /\ segment_clock' = clock_latest
    /\ pc' = "read"
    /\ UNCHANGED <<bus, mc, clock_latest, clock_first, pat, input>>

\* The segment is empty: leave the loop.
LeaveLoop ==
    /\ pc = "accept"
    /\ write_buffer' = <<>>
    /\ segment_clock' = clock_latest
    /\ pc' = "exit"
    /\ UNCHANGED <<bus, mc, clock_latest, clock_first, pat, input>>

\* Accepting a connection fails: leave the loop too.
AcceptFails ==
    /\ pc = "accept"
    /\ pc' = "exit"
    /\ UNCHANGED <<bus, mc, write_buffer, clocks, pat, input>>

\* Reading the segment fails: the task returns the error, which is unwrapped.
ReadFails ==
    /\ pc = "accept"
    /\ write_buffer' = <<>>
    /\ segment_clock' = clock_latest
    /\ pc' = "panicked"
    /\ UNCHANGED <<bus, mc, clock_latest, clock_first, pat, input>>

\* The next packet parses; inspect_packet saves its PAT and its clock.
InspectPacket(is_pat, pcr, splits) ==
    /\ pc = "read"
    /\ packets_read < MaxPackets
    /\ input' = Append(input, [is_pat |-> is_pat, splits |-> splits,
                               back |-> pcr # None /\ pcr < clock_latest])
    /\ pat' = IF is_pat THEN packets_read + 1 ELSE pat
    /\ clock_latest' = IF pcr # None THEN pcr ELSE clock_latest
    /\ clock_first' = IF clock_first = None THEN pcr ELSE clock_first

\* The packet fits.
KeepPacket(is_pat, pcr) ==
    /\ InspectPacket(is_pat, pcr, FALSE)
    /\ UNCHANGED segment_clock
    /\ ~ Full /\ ~ TooLong'
    /\ write_buffer' = Append(write_buffer, packets_read')
    /\ UNCHANGED <<bus, pc, mc>>

\* The packet does not fit: push the block that ends just before it.
SplitBlock(is_pat, pcr) ==
    /\ InspectPacket(is_pat, pcr, TRUE)
    /\ UNCHANGED segment_clock
    /\ Full \/ TooLong'
    /\ PushBlock(Duration)
    /\ pc' = "send_split"
    /\ UNCHANGED <<bus, write_buffer>>

\* The clock went back and a debug build checks the subtraction; the size
\* test comes first and hides it when the block is full.
ClockPanic(is_pat, pcr) ==
    /\ InspectPacket(is_pat, pcr, FALSE)
    /\ UNCHANGED segment_clock
    /\ ~ Full /\ Underflow'
    /\ pc' = "panicked"
    /\ UNCHANGED <<bus, mc, write_buffer>>

\* write_ts_packet fails, on the packet or the PAT: the task returns the error.
WriteFails ==
    /\ pc = "read"
    /\ pc' = "panicked"
    /\ UNCHANGED <<bus, mc, write_buffer, clocks, pat, input>>

ReinsertedNoPat == <<>>                         \* mutant
\* What a block that starts at a split starts with: the saved PAT, if any.
Reinserted == IF pat # 0 THEN <<-pat>> ELSE <<>>

\* Mutant: the packet that caused the split is lost when a PAT is reinserted.
SendSplitLoses ==
    /\ pc = "send_split"
    /\ SendBlock
    /\ write_buffer' = IF pat # 0 THEN Reinserted ELSE <<packets_read>>
    /\ segment_clock' = clock_latest
    /\ pc' = "read"
    /\ UNCHANGED <<mc, clock_latest, clock_first, pat, input>>

\* Mutant: the next block's time still counts from the last segment.
SendSplitKeepsClock ==
    /\ pc = "send_split"
    /\ SendBlock
    /\ write_buffer' = Reinserted \o <<packets_read>>
    /\ segment_clock' = IF segment_clock = None THEN clock_latest ELSE segment_clock
    /\ pc' = "read"
    /\ UNCHANGED <<mc, clock_latest, clock_first, pat, input>>

\* The block is sent; the next one starts with the packet in hand.
SendSplit ==
    /\ pc = "send_split"
    /\ SendBlock
    /\ write_buffer' = Reinserted \o <<packets_read>>
    /\ segment_clock' = clock_latest
    /\ pc' = "read"
    /\ UNCHANGED <<mc, clock_latest, clock_first, pat, input>>

\* The segment ends, or stops parsing: push what is left of it.
EndSegment ==
    /\ pc = "read"
    /\ PushBlock(Duration)
    /\ pc' = "send_last"
    /\ UNCHANGED <<bus, write_buffer, clocks, pat, input>>

SendLast ==
    /\ pc = "send_last"
    /\ SendBlock
    /\ pc' = "periodic"
    /\ UNCHANGED <<mc, write_buffer, clocks, pat, input>>

\* send_container_periodically: the publish interval has passed, or not.
SendPeriodic ==
    /\ pc = "periodic"
    /\ SendContainer
    /\ pc' = "accept"
    /\ UNCHANGED <<mc, write_buffer, clocks, pat, input>>

NotDue ==
    /\ pc = "periodic"
    /\ pc' = "accept"
    /\ UNCHANGED <<bus, mc, write_buffer, clocks, pat, input>>

\* status_notifier reports how the child exited.
ChildSucceeded ==
    /\ pc = "exit"
    /\ SendContainer
    /\ pc' = "done"
    /\ UNCHANGED <<mc, write_buffer, clocks, pat, input>>

ChildFailed ==
    /\ pc = "exit"
    /\ pc' = "panicked"
    /\ UNCHANGED <<bus, mc, write_buffer, clocks, pat, input>>

\* The node takes an update.
Receive ==
    /\ bus # <<>>
    /\ bus' = Tail(bus)
    /\ UNCHANGED <<pc, mc, write_buffer, clocks, pat, input>>

Next ==
    \/ OpenSegment \/ LeaveLoop \/ AcceptFails \/ ReadFails \/ WriteFails
    \/ \E is_pat \in BOOLEAN, pcr \in Clocks \cup {None} : KeepPacket(is_pat, pcr)
    \/ \E is_pat \in BOOLEAN, pcr \in Clocks \cup {None} : SplitBlock(is_pat, pcr)
    \/ \E is_pat \in BOOLEAN, pcr \in Clocks \cup {None} : ClockPanic(is_pat, pcr)
    \/ SendSplit \/ EndSegment \/ SendLast \/ SendPeriodic \/ NotDue
    \/ ChildSucceeded \/ ChildFailed
    \/ Receive

Spec == Init /\ [][Next]_vars
-----------------------------------------------------------------------------
Packet == 1 .. MaxPackets
Entry == Packet \cup {-n : n \in Packet}
Block == [packets : Seq(Entry), duration : 0 .. Modulus - 1]
Update == [type : {"Block"}, block : Block, sequence : 0 .. MaxBlocks]
          \cup [type : {"Container"}, blocks : Seq(Block)]

TypeOK ==
    /\ bus \in Seq(Update) /\ Len(bus) <= BusCapacity
    /\ pc \in {"accept", "read", "send_split", "send_last", "periodic", "exit",
               "done", "panicked"}
    /\ mc \in Seq(Block) /\ Len(mc) <= MaxBlocks
    /\ write_buffer \in Seq(Entry)
    /\ {clock_latest, clock_first, segment_clock} \subseteq Clocks \cup {None}
    /\ pat \in 0 .. packets_read
    /\ input \in Seq([is_pat : BOOLEAN, splits : BOOLEAN, back : BOOLEAN])
    /\ packets_read <= MaxPackets

(***************************************************************************)
(* No block is larger than BLOCK_MAX_BYTES, which RawBlockFile::new        *)
(* asserts (raw.rs:24): the size test comes before the packet is written,  *)
(* and a reinserted PAT leaves room for the packet that follows it.        *)
(***************************************************************************)
BlocksFit ==
    /\ \A i \in 1 .. Len(mc) : Len(mc[i].packets) <= BlockMax
    /\ Len(write_buffer) <= BlockMax

(***************************************************************************)
(* Every block is shorter than SEGMENT_MAX_SEC, the playlist's target      *)
(* duration (hls.rs:44), even when the clock jumps back or wraps.          *)
(***************************************************************************)
DurationsBelowTarget == \A i \in 1 .. Len(mc) : mc[i].duration < SegmentMax

(***************************************************************************)
(* Splitting loses, repeats and reorders nothing: the packets of all       *)
(* blocks, with those of the block being written, are the packets parsed,  *)
(* in order, once the reinserted PAT that a block may start with is set    *)
(* aside.                                                                  *)
(***************************************************************************)
Original(entries) ==
    IF entries # <<>> /\ Head(entries) < 0 THEN Tail(entries) ELSE entries
Originals(blocks) == [i \in 1 .. Len(blocks) |-> Original(blocks[i].packets)]
Unpushed ==
    CASE pc = "read" -> write_buffer
      [] pc = "send_split" -> <<packets_read>>
      [] OTHER -> <<>>
PacketsConserved ==
    pc # "panicked" =>
        FlattenSeq(Originals(mc)) \o Original(Unpushed) = [n \in 1 .. packets_read |-> n]

(***************************************************************************)
(* The block that a split starts begins with the last PAT parsed up to its *)
(* first packet, however many segments ago, and no block holds a           *)
(* reinserted PAT anywhere else.  The table says where the program maps    *)
(* are; the maps themselves are not reinserted.                            *)
(***************************************************************************)
Written == IF pc = "read" THEN Append(mc, [packets |-> write_buffer]) ELSE mc
PatsUpTo(n) == {k \in 1 .. n : input[k].is_pat}
StartsWithPat ==
    \A i \in 1 .. Len(Written) :
        LET p == Original(Written[i].packets)
        IN  p # <<>> =>
              Written[i].packets =
                IF ~ input[p[1]].splits \/ PatsUpTo(p[1]) = {} THEN p
                ELSE <<-Max(PatsUpTo(p[1]))>> \o p

(***************************************************************************)
(* The two subtractions that no test guards, the duration before a packet  *)
(* and the duration of a segment's last block, never underflow: a clock    *)
(* that goes back is met by the test on the very packet that carries it.   *)
(***************************************************************************)
SubtractionsSafe == pc = "read" => ~ Underflow

(***************************************************************************)
(* The published timeline never runs ahead of the input's clock: while no  *)
(* packet's clock has gone back, the blocks' durations add up to at most   *)
(* the time since the first clock reference.                               *)
(***************************************************************************)
Durations(blocks) == [i \in 1 .. Len(blocks) |-> blocks[i].duration]
TimelineNotAhead ==
    (\A i \in 1 .. Len(input) : ~ input[i].back) =>
        FoldSeq(+, 0, Durations(mc)) <= AsTicks(clock_latest) - AsTicks(clock_first)

(***************************************************************************)
(* The thread implements MediaSource: a block enters the container before  *)
(* it is sent, yet every container the node receives lists exactly the     *)
(* blocks it was sent before, in their order, and the thread that panics   *)
(* sends nothing more.  A block is seen through its duration.              *)
(***************************************************************************)
Seen(update) ==
    IF update.type = "Block"
    THEN [type |-> "Block", block |-> update.block.duration, sequence |-> update.sequence]
    ELSE [type |-> "Container", blocks |-> Durations(update.blocks)]

Source == INSTANCE MediaSource WITH
    Blocks <- 0 .. SegmentMax - 1,
    bus <- [i \in 1 .. Len(bus) |-> Seen(bus[i])],
    sent <- Durations(IF pc \in {"send_split", "send_last"} THEN Front(mc) ELSE mc),
    publishing <- pc = "periodic",
    source <- CASE pc = "done" -> "done" [] pc = "panicked" -> "failed" [] OTHER -> "live"

ImplementsMediaSource == Source!Spec
=============================================================================
