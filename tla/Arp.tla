-------------------------------- MODULE Arp ---------------------------------
(***************************************************************************)
(* Address resolution: arp.c, and the part of ip_out.c that asks for it.   *)
(*                                                                         *)
(* Operators on a record m with the fields                                 *)
(*   arp_table  the addresses with an entry (learned or configured)        *)
(*   arp_list   the addresses a request is in progress for (g_arpm.list)   *)
(*   arp_wire   the requests on their way to the host                      *)
(* The table of the code is filled by one thread: a NIC with receive-side  *)
(* scaling delivers what is not IP to its first queue.  A prefix entry     *)
(* counts as entries for the addresses it covers.                          *)
(***************************************************************************)
EXTENDS Naturals

\* GetDestinationHWaddr returns an address.
Resolved(m, a) == a \in m.arp_table

\* ARPOutput of a request, a broadcast.  When the device has no buffer nothing
\* is sent and nobody is told: a request that is lost.
ARPOutput(m, a) == [m EXCEPT !.arp_wire = @ \cup {a}]

\* RequestARP: one request at a time for an address.
RequestARP(m, a) ==
    IF a \in m.arp_list THEN m
    ELSE ARPOutput([m EXCEPT !.arp_list = @ \cup {a}], a)

RegisterARPEntry(m, a) == [m EXCEPT !.arp_table = @ \cup {a}]

\* ProcessARPRequest: the host that asks is learned and answered; a request to
\* it stays in the list.
ProcessARPRequest(m, a) == RegisterARPEntry(m, a)

\* Mutant of ProcessARPReply: the answer is not entered.
ProcessARPReplyForgets(m, a) == [m EXCEPT !.arp_list = @ \ {a}]

ProcessARPReply(m, a) ==
    [RegisterARPEntry(m, a) EXCEPT !.arp_list = @ \ {a}]

\* ARPTimer: requests older than ARP_TIMEOUT_SEC are forgotten.  It sends
\* nothing; the next packet for the address will ask again.
ARPTimer(m, old) == [m EXCEPT !.arp_list = @ \ old]
=============================================================================
