------------------------------ MODULE VirtioNet ------------------------------
(***************************************************************************)
(* The VirtIO network transport (virtio_net.rs): initialization with its   *)
(* DMA reservation, the receive queue whose buffers circulate between the  *)
(* driver and the device, and the transmit queue with its single buffer.   *)
(* The driver's calls run under TRANSPORT's lock and are one action each;  *)
(* the device (external) takes a buffer, fills or sends it, and returns it *)
(* in steps of its own, between any two calls.                             *)
(*                                                                         *)
(* A frame is its number on the wire.  Ring indices are kept modulo        *)
(* IndexModulus, the 2^16 of the code, and a slot is an index modulo the   *)
(* size that the device reported for the queue.                            *)
(*                                                                         *)
(* The driver accepts a receive queue smaller than the number of its       *)
(* buffers and posts them all: the descriptors that lie past the table     *)
(* overwrite the available ring behind it.  What the ring then holds       *)
(* depends on physical addresses, and is any value here.                   *)
(***************************************************************************)
EXTENDS Naturals, FiniteSets, Sequences, SequencesExt

CONSTANTS ACTIVE_RX_DESCRIPTORS,   \* receive buffers in circulation
          MAX_QUEUE_SIZE,          \* entries that the memory of a queue has room for
          IndexModulus,            \* 2^16: ring indices wrap
          MaxFrames,               \* bound: frames in either direction
          MaxBogus,                \* bound: used entries with an id the driver never posted
          Sizes,                   \* queue sizes the device may report
          None

VARIABLES t,        \* the Transport record
          rx, tx,   \* the queues in shared memory
          packet,   \* receive buffers
          outgoing, \* the transmit buffer
          device,   \* external: what the device holds and has seen of the rings
          wire      \* history: frames arrived, delivered, dropped, accepted, sent

virtioVars == <<t, rx, tx, packet, outgoing, device, wire>>

Ids == 0 .. ACTIVE_RX_DESCRIPTORS - 1
Slots == 0 .. MAX_QUEUE_SIZE - 1
Next16(i) == (i + 1) % IndexModulus
Slot(i, size) == i % size

EmptyQueue == [avail |-> [s \in Slots |-> 0], avail_idx |-> 0,
               used |-> [s \in Slots |-> [id |-> 0, len |-> "short"]], used_idx |-> 0]
Transport_empty == [initialized |-> FALSE, rx_queue_size |-> 0, tx_queue_size |-> 0,
                    rx_last_used |-> 0, tx_last_used |-> 0, tx_outstanding |-> FALSE]

VirtioInit ==
    /\ t = Transport_empty
    /\ rx = EmptyQueue /\ tx = EmptyQueue
    /\ packet = [id \in Ids |-> None]
    /\ outgoing = None
    /\ device = [running |-> FALSE, rx_seen |-> 0, tx_seen |-> 0, filling |-> {}, sending |-> None, bogus |-> 0]
    /\ wire = [arrived |-> 0, delivered |-> <<>>, dropped |-> {}, accepted |-> 0, sent |-> <<>>]

-----------------------------------------------------------------------------
(* The driver.                                                             *)

\* Mutant: the index is published without the entry.
NoEntryMutant(q, size, id) == [q EXCEPT !.avail_idx = Next16(@)]

push_avail(q, size, id) ==
    [q EXCEPT !.avail[Slot(q.avail_idx, size)] = id, !.avail_idx = Next16(@)]

\* The descriptor of a buffer is eight halfwords; past the table they are the flags, the
\* index and the entries of the available ring, which starts where the table ends.
Described(q, size, id, junk) ==
    [q EXCEPT !.avail_idx = IF id = size THEN junk.index ELSE @,
              !.avail = [s \in Slots |-> IF id >= size /\ (s + 2) \div 8 = id - size
                                         THEN junk.entry ELSE @[s]]]

RECURSIVE Posted(_, _, _)
Posted(size, n, junk) ==
    IF n = 0 THEN EmptyQueue
    ELSE push_avail(Described(Posted(size, n - 1, junk), size, n - 1, junk), size, n - 1)
post_initial_rx(size, junk) == Posted(size, ACTIVE_RX_DESCRIPTORS, junk)

Junk == [index : 0 .. IndexModulus - 1, entry : 0 .. MAX_QUEUE_SIZE]

\* A queue that is missing or larger than its memory is refused.
setup_queue(size) == size \in 1 .. MAX_QUEUE_SIZE

\* Probe, reset, reserve the DMA run and set up both queues.  When either is refused the
\* device is failed, the reservation's drop gives the frames back and nothing is published.
\* The network stack calls this only until it has been initialized.
init(rxSize, txSize, junk) ==
    /\ ~t.initialized
    /\ IF setup_queue(rxSize) /\ setup_queue(txSize)
       THEN /\ t' = [Transport_empty EXCEPT !.initialized = TRUE, !.rx_queue_size = rxSize,
                                            !.tx_queue_size = txSize]
            /\ rx' = post_initial_rx(rxSize, junk) /\ tx' = EmptyQueue
            /\ device' = [device EXCEPT !.running = TRUE]
       ELSE UNCHANGED <<t, rx, tx, device>>
    /\ UNCHANGED <<packet, outgoing, wire>>

\* Mutant: the descriptor is taken back without looking at the used ring.
EagerReapMutant(r) == [r EXCEPT !.tx_last_used = tx.used_idx, !.tx_outstanding = FALSE]

reap_tx(r) ==
    IF r.tx_outstanding /\ tx.used_idx # r.tx_last_used
    THEN [r EXCEPT !.tx_last_used = tx.used_idx, !.tx_outstanding = FALSE] ELSE r

\* poll and tx_available.
Poll ==
    /\ t.initialized
    /\ t' = reap_tx(t)
    /\ UNCHANGED <<rx, tx, packet, outgoing, device, wire>>

\* The next used entry: a frame for the caller, or one that is dropped because it is
\* only a header or the caller's buffer is too small; the buffer is posted again.
receive_into(large) ==
    LET used == rx.used[Slot(t.rx_last_used, t.rx_queue_size)]
        whole == used.len = "frame" /\ large
    IN  /\ t.initialized
        /\ rx.used_idx # t.rx_last_used
        /\ t' = [t EXCEPT !.rx_last_used = Next16(@)]
        /\ IF used.id \notin Ids
           THEN UNCHANGED <<rx, wire>>
           ELSE /\ rx' = push_avail(rx, t.rx_queue_size, used.id)
                /\ wire' = IF whole THEN [wire EXCEPT !.delivered = Append(@, packet[used.id])]
                           ELSE [wire EXCEPT !.dropped = @ \cup {packet[used.id]}]
        /\ UNCHANGED <<tx, packet, outgoing, device>>

Idle(r) == ~r.tx_outstanding

transmit ==
    LET r == reap_tx(t)
    IN  /\ t.initialized
        /\ wire.accepted < MaxFrames
        /\ IF ~Idle(r) THEN t' = r /\ UNCHANGED <<tx, outgoing, wire>>
           ELSE /\ outgoing' = wire.accepted + 1
                /\ tx' = push_avail(tx, t.tx_queue_size, 0)
                /\ t' = [r EXCEPT !.tx_outstanding = TRUE]
                /\ wire' = [wire EXCEPT !.accepted = @ + 1]
        /\ UNCHANGED <<rx, packet, device>>

-----------------------------------------------------------------------------
(* The device.  It may hold several receive buffers, and returns them in   *)
(* the order of the frames it put into them.  An entry that names a        *)
(* descriptor beyond its table gives it no buffer.                         *)

DeviceTakes ==
    /\ device.running /\ device.rx_seen # rx.avail_idx
    /\ wire.arrived < MaxFrames
    /\ LET id == rx.avail[Slot(device.rx_seen, t.rx_queue_size)]
       IN  /\ id < t.rx_queue_size
           /\ packet' = [packet EXCEPT ![id] = wire.arrived + 1]
           /\ device' = [device EXCEPT !.rx_seen = Next16(@), !.filling = @ \cup {id}]
    /\ wire' = [wire EXCEPT !.arrived = @ + 1]
    /\ UNCHANGED <<t, rx, tx, outgoing>>

Used(q, size, id, len) ==
    [q EXCEPT !.used[Slot(q.used_idx, size)] = [id |-> id, len |-> len], !.used_idx = Next16(@)]

DeviceReturns(id, len) ==
    /\ id \in device.filling
    /\ \A other \in device.filling : packet[id] <= packet[other]
    /\ device' = [device EXCEPT !.filling = @ \ {id}]
    /\ rx' = Used(rx, t.rx_queue_size, id, len)
    /\ UNCHANGED <<t, tx, packet, outgoing, wire>>

\* An id that names no posted buffer: the buffer it stood for never comes back.
DeviceMistakes(id) ==
    /\ id \in device.filling /\ device.bogus < MaxBogus
    /\ device' = [device EXCEPT !.filling = @ \ {id}, !.bogus = @ + 1]
    /\ rx' = Used(rx, t.rx_queue_size, MAX_QUEUE_SIZE, "frame")
    /\ UNCHANGED <<t, tx, packet, outgoing, wire>>

DeviceSends ==
    /\ device.running /\ device.tx_seen # tx.avail_idx /\ device.sending = None
    /\ device' = [device EXCEPT !.tx_seen = Next16(@), !.sending = tx.avail[Slot(device.tx_seen, t.tx_queue_size)]]
    /\ UNCHANGED <<t, rx, tx, packet, outgoing, wire>>

\* The bytes leave after the descriptor was fetched.
DeviceSent ==
    /\ device.sending # None
    /\ device' = [device EXCEPT !.sending = None]
    /\ wire' = [wire EXCEPT !.sent = Append(@, outgoing)]
    /\ tx' = Used(tx, t.tx_queue_size, device.sending, "frame")
    /\ UNCHANGED <<t, rx, packet, outgoing>>

VirtioNext ==
    \/ \E rxSize, txSize \in Sizes, junk \in Junk : init(rxSize, txSize, junk)
    \/ Poll \/ transmit
    \/ \E large \in BOOLEAN : receive_into(large)
    \/ DeviceTakes \/ DeviceSends \/ DeviceSent
    \/ \E id \in Ids : DeviceMistakes(id) \/ \E len \in {"frame", "short"} : DeviceReturns(id, len)

VirtioSpec == VirtioInit /\ [][VirtioNext]_virtioVars

-----------------------------------------------------------------------------
(* Properties.                                                             *)

\* Positions of a ring from one index up to another.
Between(from, to) == {i \in 0 .. IndexModulus - 1 : (i + IndexModulus - from) % IndexModulus < (to + IndexModulus - from) % IndexModulus}

\* The receive queue has a descriptor for every buffer.
Roomy == t.rx_queue_size >= ACTIVE_RX_DESCRIPTORS

\* In a receive queue with a descriptor for each, every receive buffer has one owner: it is
\* posted and not yet taken, with the device, or in a used entry the driver has not read;
\* only the device can lose one (push_avail, receive_into and repost_rx, over the wrap of
\* the indices).
BuffersCirculate ==
    t.initialized /\ Roomy =>
        LET At(i) == Slot(i, t.rx_queue_size)
            posted == {<<"posted", i>> : i \in Between(device.rx_seen, rx.avail_idx)}
            used == {<<"used", i>> : i \in {j \in Between(t.rx_last_used, rx.used_idx) : rx.used[At(j)].id \in Ids}}
            held == {<<"held", id>> : id \in device.filling}
            owner(p) == CASE p[1] = "posted" -> rx.avail[At(p[2])]
                          [] p[1] = "used" -> rx.used[At(p[2])].id
                          [] OTHER -> p[2]
            all == posted \cup used \cup held
        IN  /\ \A p, q \in all : owner(p) = owner(q) => p = q
            /\ Cardinality(all) + device.bogus = ACTIVE_RX_DESCRIPTORS

\* Frames reach the caller once, in the order of their arrival and with the content the
\* device gave them, when the receive queue has a descriptor for every buffer.  On any
\* transmit queue, what transmit accepted leaves once, in order and unchanged: the single
\* buffer is not written while the device owns it (receive_into, transmit, reap_tx).
FramesIntact ==
    /\ Roomy => /\ \A i, j \in DOMAIN wire.delivered : i < j => wire.delivered[i] < wire.delivered[j]
                /\ ToSet(wire.delivered) \cap wire.dropped = {}
    /\ Len(wire.sent) <= wire.accepted /\ wire.accepted <= Len(wire.sent) + 1
    /\ \A i \in DOMAIN wire.sent : wire.sent[i] = i
    /\ t.tx_outstanding \/ Len(wire.sent) = wire.accepted
=============================================================================
