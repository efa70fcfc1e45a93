--------------------------------- MODULE Net ---------------------------------
(***************************************************************************)
(* The network card and the stack on top of it (drivers/net): the rings of *)
(* e1000.c, which the card works through on its own, and the way of a      *)
(* packet into net_info, both from the handler of the card's interrupt and *)
(* from kernel_main, which polls for an address with interrupts on.  The   *)
(* handler has interrupts off and is one step; the poll takes three in     *)
(* e1000_receive and one in the rest of process_received_packet.           *)
(*                                                                         *)
(* Packets are numbered as they arrive; Kind says what they are.           *)
(***************************************************************************)
EXTENDS Integers, Sequences

CONSTANTS
    RX_SIZE, TX_SIZE,  \* descriptors of the rings
    Kind,              \* the packets that arrive: "other" "oversized" "offer" "ack" "dhcp"
    MaxSend            \* frames handed to the driver

Slot == 0 .. RX_SIZE - 1
TxSlot == 0 .. TX_SIZE - 1
None == 0

VARIABLES
    rx,       \* descriptors done and buffers, RDH, RDT, and next of the driver
    tx,       \* descriptors done and buffers, TDH, TDT
    arrived,  \* packets that have reached the card
    irq,      \* the card's interrupt is raised
    poll,     \* the poll: at, tail, and the packet in its buffer
    info,     \* packet_received, the ACK that net_info is from, and the one the interface has
    log       \* auxiliary: packets read, frames accepted and on the wire; whether the card lapped
              \* the driver, or the handler cut into e1000_receive
vars == <<rx, tx, arrived, irq, poll, info, log>>

\* RDT starts at 127, beyond the 16 descriptors there are.
_e1000_rx_init ==
    [dd |-> [s \in Slot |-> FALSE], buf |-> [s \in Slot |-> None], rdh |-> 0, rdt |-> 8 * RX_SIZE - 1, next |-> 0]
_e1000_tx_init == [dd |-> [s \in TxSlot |-> TRUE], buf |-> [s \in TxSlot |-> None], tdh |-> 0, tdt |-> 0]

\* After init_e1000.
InitNet ==
    /\ rx = _e1000_rx_init
    /\ tx = _e1000_tx_init
    /\ arrived = 0 /\ irq = FALSE
    /\ poll = [at |-> "start", tail |-> 0, packet |-> None]
    /\ info = [packet_received |-> 0, net |-> None, iface |-> None]
    /\ log = [read |-> <<>>, accepted |-> <<>>, sent |-> <<>>, lapped |-> FALSE, raced |-> FALSE]

\* The card takes a packet if there is a descriptor for it, and loses it otherwise; numbers
\* count the ones it takes.  It does not look at whether the driver is done with a buffer.
CardReceives ==
    /\ arrived < Len(Kind) /\ rx.rdh # rx.rdt
    /\ arrived' = arrived + 1
    /\ rx' = [rx EXCEPT !.dd[rx.rdh] = TRUE, !.buf[rx.rdh] = arrived', !.rdh = (@ + 1) % RX_SIZE]
    /\ irq' = TRUE
    /\ log' = [log EXCEPT !.lapped = @ \/ rx.dd[rx.rdh]]
    /\ UNCHANGED <<tx, poll, info>>
CardSends ==
    /\ tx.tdh # tx.tdt
    /\ tx' = [tx EXCEPT !.dd[tx.tdh] = TRUE, !.tdh = (@ + 1) % TX_SIZE]
    /\ log' = [log EXCEPT !.sent = Append(@, tx.buf[tx.tdh])]
    /\ UNCHANGED <<rx, arrived, irq, poll, info>>

\* e1000_transmit; -1 while the descriptor is not done.
e1000_transmit(frame) ==
    /\ tx.dd[tx.tdt]
    /\ tx' = [tx EXCEPT !.dd[tx.tdt] = FALSE, !.buf[tx.tdt] = frame, !.tdt = (@ + 1) % TX_SIZE]
    /\ log' = [log EXCEPT !.accepted = Append(@, frame)]
    /\ UNCHANGED <<rx, arrived, irq, info>>


\* The end of e1000_receive.
Advanced(r, tail) == [r EXCEPT !.dd[r.next] = FALSE, !.next = (@ + 1) % RX_SIZE, !.rdt = (tail + 1) % RX_SIZE]

\* process_received_packet behind e1000_receive; an offer is never answered.
Processed(i, p) ==
    IF p = None \/ i.packet_received <= 0 THEN i
    ELSE CASE Kind[p] = "ack" -> [i EXCEPT !.net = p]
           [] Kind[p] = "dhcp" -> [i EXCEPT !.packet_received = @ - 1]
           [] OTHER -> i

Fits(p) == Kind[p] # "oversized"

\* e1000_callback: one packet for one interrupt.
e1000_callback ==
    /\ irq
    /\ irq' = FALSE
    /\ LET i == [info EXCEPT !.packet_received = @ + 1]
           p == rx.buf[rx.next]
       IN  IF rx.dd[rx.next]
           THEN /\ rx' = Advanced(rx, rx.rdt)
                /\ info' = Processed(i, IF Fits(p) THEN p ELSE None)
                /\ log' = [log EXCEPT !.read = Append(@, p), !.raced = @ \/ poll.at \in {"copy", "advance"}]
           ELSE info' = i /\ UNCHANGED <<rx, log>>
    /\ UNCHANGED <<tx, arrived, poll>>

\* Frames are numbered as they are handed over; the first is the DHCP discover.
create_dhcp_discover == 1
send_dhcp_request == e1000_transmit(create_dhcp_discover)

\* setup_net_e1000, register_iface and request_ip_and_wait up to wait_for_receive.
Start ==
    /\ poll.at = "start"
    /\ send_dhcp_request
    /\ poll' = [poll EXCEPT !.at = "receive"]

\* A turn of wait_for_receive: e1000_receive up to its test, the copy, the end, and the rest
\* of process_received_packet with the test for an address.
Receive ==
    /\ poll.at = "receive"
    /\ poll' = [poll EXCEPT !.at = IF rx.dd[rx.next] THEN "copy" ELSE "test", !.tail = rx.rdt, !.packet = None]
    /\ UNCHANGED <<rx, tx, arrived, irq, info, log>>
Copy ==
    /\ poll.at = "copy"
    /\ poll' = [poll EXCEPT !.at = "advance", !.packet = rx.buf[rx.next]]
    /\ UNCHANGED <<rx, tx, arrived, irq, info, log>>
Advance ==
    /\ poll.at = "advance"
    /\ rx' = Advanced(rx, poll.tail)
    /\ poll' = [poll EXCEPT !.at = "process"]
    /\ log' = [log EXCEPT !.read = Append(@, poll.packet)]
    /\ UNCHANGED <<tx, arrived, irq, info>>
Process ==
    /\ poll.at = "process"
    /\ info' = Processed(info, IF poll.packet # None /\ Fits(poll.packet) THEN poll.packet ELSE None)
    /\ poll' = [poll EXCEPT !.at = "test"]
    /\ UNCHANGED <<rx, tx, arrived, irq, log>>
Test ==
    /\ poll.at = "test"
    /\ IF info.net = None
       THEN poll' = [poll EXCEPT !.at = "receive"] /\ UNCHANGED info
       ELSE poll' = [poll EXCEPT !.at = "up"] /\ info' = [info EXCEPT !.iface = info.net]
    /\ UNCHANGED <<rx, tx, arrived, irq, log>>

\* Once the interface is up its transmit is there for others.
Send ==
    /\ poll.at = "up" /\ Len(log.accepted) < MaxSend
    /\ e1000_transmit(Len(log.accepted) + 1)
    /\ UNCHANGED poll

Next == CardReceives \/ CardSends \/ e1000_callback \/ Start \/ Receive \/ Copy \/ Advance \/ Process \/ Test \/ Send

SpecNet == InitNet /\ [][Next]_vars
-----------------------------------------------------------------------------
IsInitialPart(s, t) == Len(s) <= Len(t) /\ s = SubSeq(t, 1, Len(s))

\* The card sends what e1000_transmit has accepted, every frame once and in order.  The
\* driver reads every packet once, in the order of arrival, as long as the card has not lapped
\* it before its first read and the handler has not cut into a read of the poll.  The address
\* of the interface comes from an ACK.
PacketsInOrder ==
    /\ IsInitialPart(log.sent, log.accepted)
    /\ ~log.lapped /\ ~log.raced => log.read = [k \in 1 .. Len(log.read) |-> k] /\ Len(log.read) <= arrived
    /\ \A p \in {info.net, info.iface} : p = None \/ Kind[p] = "ack"
=============================================================================
