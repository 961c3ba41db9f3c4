--------------------------- MODULE LidarDataQueue ---------------------------
(***************************************************************************)
(* The ring of StoragePackets between the driver's point thread, which     *)
(* pushes, and its poll thread, which pops, without a lock (comm/ldq.cpp). *)
(* rd_idx and wr_idx are uint32_t and run freely.  A packet is its number; *)
(* its header (base_time, points_num) and its points are stored and loaded *)
(* separately.  Stores become visible in program order, as on the x86_64   *)
(* host the repository's guide names.                                      *)
(***************************************************************************)
EXTENDS Integers, Sequences, FiniteSetsExt

CONSTANTS Bits,       \* width of the indices: 32
          Requested,  \* CalculatePacketQueueSize(publish_freq_)
          MaxPackets  \* bound: packets pushed

W == 2^Bits

(* Mutant: the requested size is taken as it is.                           *)
RoundupPowerOf2Exact(n) == n

RoundupPowerOf2(n) == Min({p \in {2^i : i \in 0..(Bits - 1)} : n <= p})

RingSize == RoundupPowerOf2(Requested)

ASSUME QueueAssumption ==
    /\ Bits \in Nat \ {0}
    /\ Requested \in 1..2^(Bits - 1)
    /\ MaxPackets \in Nat

VARIABLES
    storage,   \* storage_packet is not nullptr
    slots,     \* storage_packet[0 .. mask]
    rd_idx, wr_idx, mask,
    pushPc,    \* producer: "idle", "init", "check", "header", "points", "advance"
    packet,    \* the packet the producer is pushing, or the next one
    popPc,     \* consumer: "idle", "header", "points", "advance"
    pkg,       \* the consumer's StoragePacket
    popped     \* the packet QueuePop returned last

producer == <<pushPc, packet>>
consumer == <<popPc, pkg, popped>>
ringVars == <<storage, slots, rd_idx, wr_idx, mask, producer, consumer>>

Slot == [header : 0..MaxPackets, points : 0..MaxPackets]
NoPacket == [header |-> 0, points |-> 0]

Used == (wr_idx - rd_idx) % W
(* Mutant: full one packet too late.                                       *)
QueueIsFullLate == Used > mask + 1
QueueIsFull == Used > mask
QueueIsEmpty == rd_idx = wr_idx

(* i & mask, for a mask one below a power of two                           *)
Masked(i) == i % (mask + 1)

RingInit == /\ storage = FALSE
        /\ slots = [i \in 0..(RingSize - 1) |-> NoPacket]
        /\ rd_idx = 0 /\ wr_idx = 0 /\ mask = 0
        /\ pushPc = "idle" /\ packet = 1
        /\ popPc = "idle" /\ pkg = NoPacket /\ popped = NoPacket

-----------------------------------------------------------------------------
(* PushLidarData: the first call creates the queue while the consumer may  *)
(* already be polling it.  InitQueue sets the pointer before the indices.  *)
PushLidarData ==
    /\ pushPc = "idle" /\ packet <= MaxPackets
    /\ IF storage
       THEN pushPc' = "check" /\ UNCHANGED storage
       ELSE pushPc' = "init" /\ storage' = TRUE
    /\ UNCHANGED <<slots, rd_idx, wr_idx, mask, packet, consumer>>

InitQueue ==
    /\ pushPc = "init"
    /\ rd_idx' = 0 /\ wr_idx' = 0
    /\ mask' = RingSize - 1
    /\ pushPc' = "check"
    /\ UNCHANGED <<storage, slots, packet, consumer>>

(* A full queue refuses the packet.                                        *)
CheckFull ==
    /\ pushPc = "check"
    /\ IF QueueIsFull
       THEN pushPc' = "idle" /\ packet' = packet + 1
       ELSE pushPc' = "header" /\ UNCHANGED packet
    /\ UNCHANGED <<storage, slots, rd_idx, wr_idx, mask, consumer>>

(* QueuePushAny                                                            *)
PushHeader ==
    /\ pushPc = "header"
    /\ slots' = [slots EXCEPT ![Masked(wr_idx)].header = packet]
    /\ pushPc' = "points"
    /\ UNCHANGED <<storage, rd_idx, wr_idx, mask, packet, consumer>>

PushPoints ==
    /\ pushPc = "points"
    /\ slots' = [slots EXCEPT ![Masked(wr_idx)].points = packet]
    /\ pushPc' = "advance"
    /\ UNCHANGED <<storage, rd_idx, wr_idx, mask, packet, consumer>>

PushAdvance ==
    /\ pushPc = "advance"
    /\ wr_idx' = (wr_idx + 1) % W
    /\ packet' = packet + 1
    /\ pushPc' = "idle"
    /\ UNCHANGED <<storage, slots, rd_idx, mask, consumer>>

-----------------------------------------------------------------------------
(* PollingLidarPointCloudData and the emptiness test of QueuePrePop.       *)
Poll ==
    /\ popPc = "idle"
    /\ storage /\ ~QueueIsEmpty
    /\ popPc' = "header"
    /\ UNCHANGED <<storage, slots, rd_idx, wr_idx, mask, producer, pkg, popped>>

PopHeader ==
    /\ popPc = "header"
    /\ pkg' = [pkg EXCEPT !.header = slots[Masked(rd_idx)].header]
    /\ popPc' = "points"
    /\ UNCHANGED <<storage, slots, rd_idx, wr_idx, mask, producer, popped>>

PopPoints ==
    /\ popPc = "points"
    /\ pkg' = [pkg EXCEPT !.points = slots[Masked(rd_idx)].points]
    /\ popPc' = "advance"
    /\ UNCHANGED <<storage, slots, rd_idx, wr_idx, mask, producer, popped>>

(* QueuePopUpdate                                                          *)
PopAdvance ==
    /\ popPc = "advance"
    /\ rd_idx' = (rd_idx + 1) % W
    /\ popped' = pkg
    /\ popPc' = "idle"
    /\ UNCHANGED <<storage, slots, wr_idx, mask, producer, pkg>>

-----------------------------------------------------------------------------
Push == PushLidarData \/ InitQueue \/ CheckFull \/ PushHeader \/ PushPoints \/ PushAdvance
Pop == Poll \/ PopHeader \/ PopPoints \/ PopAdvance

RingNext == Push \/ Pop

(* The poll thread keeps running; the lidar may fall silent at any time.   *)
RingSpec == RingInit /\ [][RingNext]_ringVars
FairRingSpec == RingSpec /\ WF_ringVars(Pop)

-----------------------------------------------------------------------------
(* The producer never writes the slot the consumer is reading, although    *)
(* neither takes a lock and the indices wrap around.                       *)
NoDataRace ==
    pushPc \in {"header", "points"} /\ popPc \in {"header", "points"}
        => Masked(wr_idx) # Masked(rd_idx)

(* What the ring stands for: the packets between the two indices, a slot   *)
(* with the header of one packet and the points of another standing for no *)
(* packet at all.                                                          *)
Whole(s) == IF s.header = s.points THEN s.header ELSE MaxPackets + 1
Waiting == [i \in 1..Used |-> Whole(slots[Masked(rd_idx + i - 1)])]

Fifo == INSTANCE BoundedFifo
            WITH Capacity <- RingSize, q <- Waiting, next <- packet,
                 taken <- Whole(popped)

(* The lock-free ring behaves as the bounded FIFO: order kept, no packet   *)
(* torn or delivered twice, only a full queue refuses one, and whatever    *)
(* waits is taken in the end.                                              *)
ImplementsFifo == Fifo!FairSpec
=============================================================================
