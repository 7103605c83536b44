-------------------------------- MODULE Etharp --------------------------------
(***************************************************************************)
(* The ARP table of lwIP (core/ipv4/etharp.c), without static entries and  *)
(* with at most one packet waiting for a resolution, as configured.        *)
(*                                                                         *)
(* A packet is known by the address of its next hop. Any host may announce *)
(* itself, to us or to others, at any time and with a new hardware address *)
(* each time; answers to our requests may be lost.                         *)
(***************************************************************************)
EXTENDS Integers, FiniteSets

CONSTANTS Netifs, Ips, Macs, NoMac,
          NoPacket,
          ARP_TABLE_SIZE, ARP_MAXAGE, ARP_MAXPENDING,
          REREQUEST_UNICAST, REREQUEST_BROADCAST   \* ARP_AGE_REREQUEST_USED_...

ASSUME EtharpConstants ==
  /\ ARP_MAXPENDING <= ARP_MAXAGE
  /\ REREQUEST_UNICAST < REREQUEST_BROADCAST /\ REREQUEST_BROADCAST < ARP_MAXAGE
  /\ NoMac \notin Macs /\ NoPacket \notin Ips
  /\ Netifs # {} /\ Ips # {} /\ ARP_TABLE_SIZE \in Nat \ {0}

VARIABLES arp_table,
          etharp_cached_entry,
          announced,      \* what each host has last told us
          frame           \* the IP frame the last step has put on the wire

arpvars == <<arp_table, etharp_cached_entry, announced, frame>>

Slots == 1 .. ARP_TABLE_SIZE
NoFrame == [netif |-> CHOOSE n \in Netifs : TRUE, ip |-> NoPacket, mac |-> NoMac]
EmptyEntry == [state |-> "EMPTY", netif |-> CHOOSE n \in Netifs : TRUE,
               ip |-> CHOOSE a \in Ips : TRUE, mac |-> NoMac, ctime |-> 0, q |-> NoPacket]

IsStable(e) == e.state \in {"STABLE", "REREQUESTING_1", "REREQUESTING_2"}

\* The build leaves the other fields as they were; nothing reads them before
\* they are set, and the model clears them, as the code does when it is built
\* for debugging.
etharp_free_entry(e) == EmptyEntry

Matching(netif, ip) ==
  {i \in Slots : /\ arp_table[i].state # "EMPTY"
                 /\ arp_table[i].ip = ip /\ arp_table[i].netif = netif}

First(S) == CHOOSE i \in S : \A j \in S : i <= j

\* The last of the oldest.
Oldest(S) ==
  CHOOSE i \in S : \A j \in S :
    arp_table[j].ctime < arp_table[i].ctime
      \/ (arp_table[j].ctime = arp_table[i].ctime /\ j <= i)

Recyclable ==
  LET empty == {i \in Slots : arp_table[i].state = "EMPTY"}
      stable == {i \in Slots : IsStable(arp_table[i])}
      unqueued == {i \in Slots : arp_table[i].state = "PENDING" /\ arp_table[i].q = NoPacket}
  IN CASE empty # {} -> First(empty)
       [] empty = {} /\ stable # {} -> Oldest(stable)
       [] empty = {} /\ stable = {} /\ unqueued # {} -> Oldest(unqueued)
       [] OTHER -> Oldest(Slots)

\* The slot and the entry that etharp_find_entry leaves there with
\* ETHARP_FLAG_TRY_HARD: one that matches, or one made empty for the address.
etharp_find_entry(netif, ip) ==
  IF Matching(netif, ip) # {}
  THEN [i |-> First(Matching(netif, ip)), e |-> arp_table[First(Matching(netif, ip))]]
  ELSE [i |-> Recyclable,
        e |-> [etharp_free_entry(arp_table[Recyclable]) EXCEPT !.ip = ip, !.netif = netif,
                                                               !.ctime = 0]]

Sent(f) == frame' = f

etharp_update_arp_entry_KeepsQueue(netif, ip, mac, tryhard) ==
  LET f == etharp_find_entry(netif, ip)
  IN IF ~tryhard /\ Matching(netif, ip) = {}
     THEN UNCHANGED arp_table /\ Sent(NoFrame)
     ELSE /\ arp_table' = [arp_table EXCEPT ![f.i] =
                [f.e EXCEPT !.state = "STABLE", !.netif = netif, !.mac = mac, !.ctime = 0]]
          /\ Sent(IF f.e.q = NoPacket THEN NoFrame ELSE [netif |-> netif, ip |-> f.e.q, mac |-> mac])

\* Without ETHARP_FLAG_TRY_HARD only an entry of that address is updated. The
\* packet that waits for it is sent.
etharp_update_arp_entry(netif, ip, mac, tryhard) ==
  LET f == etharp_find_entry(netif, ip)
  IN IF ~tryhard /\ Matching(netif, ip) = {}
     THEN UNCHANGED arp_table /\ Sent(NoFrame)
     ELSE /\ arp_table' = [arp_table EXCEPT ![f.i] =
                [f.e EXCEPT !.state = "STABLE", !.netif = netif, !.mac = mac, !.ctime = 0,
                            !.q = NoPacket]]
          /\ Sent(IF f.e.q = NoPacket THEN NoFrame ELSE [netif |-> netif, ip |-> f.e.q, mac |-> mac])

\* An ARP request or reply; requests for us are answered, which changes nothing here.
etharp_input ==
  \E netif \in Netifs, sip \in Ips, shw \in Macs, for_us \in BOOLEAN :
    /\ announced' = [announced EXCEPT ![<<netif, sip>>] = shw]
    /\ etharp_update_arp_entry(netif, sip, shw, for_us)
    /\ UNCHANGED etharp_cached_entry

\* An entry in use is asked for again before it expires; sending the request
\* may fail for want of memory.
etharp_output_to_arp_index(i, netif, ip) ==
  /\ \E ok \in BOOLEAN :
       arp_table' = IF arp_table[i].state = "STABLE" /\ arp_table[i].ctime >= REREQUEST_UNICAST /\ ok
                    THEN [arp_table EXCEPT ![i].state = "REREQUESTING_1"]
                    ELSE arp_table
  /\ Sent([netif |-> netif, ip |-> ip, mac |-> arp_table[i].mac])

\* A waiting packet replaces the one that waits already. The copy of the packet
\* may fail for want of memory. With no packet only a request is sent.
etharp_query(netif, ip, packet) ==
  LET f == etharp_find_entry(netif, ip)
      e == IF f.e.state = "EMPTY" THEN [f.e EXCEPT !.state = "PENDING", !.netif = netif] ELSE f.e
  IN IF IsStable(e) /\ packet # NoPacket
     THEN /\ etharp_cached_entry' = f.i
          /\ Sent([netif |-> netif, ip |-> packet, mac |-> e.mac])
          /\ UNCHANGED arp_table
     ELSE /\ \E copied \in BOOLEAN :
               arp_table' = [arp_table EXCEPT ![f.i] =
                               IF copied /\ packet # NoPacket THEN [e EXCEPT !.q = packet] ELSE e]
          /\ Sent(NoFrame)
          /\ UNCHANGED etharp_cached_entry

CachedMatches_StateOnly(netif, ip) == IsStable(arp_table[etharp_cached_entry])

CachedMatches(netif, ip) ==
  /\ IsStable(arp_table[etharp_cached_entry])
  /\ arp_table[etharp_cached_entry].netif = netif
  /\ arp_table[etharp_cached_entry].ip = ip

\* The cached entry, the table, or a query; ip is the address of the packet or
\* of the gateway. Broadcast and multicast packets do not use the table.
etharp_output ==
  \E netif \in Netifs, ip \in Ips :
    LET stable == {i \in Matching(netif, ip) : IsStable(arp_table[i])}
    IN /\ CASE CachedMatches(netif, ip) ->
                 /\ etharp_output_to_arp_index(etharp_cached_entry, netif, ip)
                 /\ UNCHANGED etharp_cached_entry
            [] ~CachedMatches(netif, ip) /\ stable # {} ->
                 /\ etharp_cached_entry' = First(stable)
                 /\ etharp_output_to_arp_index(First(stable), netif, ip)
            [] OTHER -> etharp_query(netif, ip, ip)
       /\ UNCHANGED announced

\* Other parts of the stack ask for an address without a packet.
etharp_probe ==
  \E netif \in Netifs, ip \in Ips : etharp_query(netif, ip, NoPacket) /\ UNCHANGED announced

etharp_tmr ==
  /\ arp_table' = [i \in Slots |->
       LET e == [arp_table[i] EXCEPT !.ctime = @ + 1]
           old == \/ e.ctime >= ARP_MAXAGE
                  \/ e.state = "PENDING" /\ e.ctime >= ARP_MAXPENDING
       IN CASE e.state = "EMPTY" -> arp_table[i]
            [] e.state # "EMPTY" /\ old -> etharp_free_entry(e)
            [] e.state = "REREQUESTING_1" /\ ~old -> [e EXCEPT !.state = "REREQUESTING_2"]
            [] e.state = "REREQUESTING_2" /\ ~old -> [e EXCEPT !.state = "STABLE"]
            [] OTHER -> e]
  /\ Sent(NoFrame)
  /\ UNCHANGED <<etharp_cached_entry, announced>>

etharp_cleanup_netif ==
  \E netif \in Netifs :
    /\ arp_table' = [i \in Slots |->
         IF arp_table[i].state # "EMPTY" /\ arp_table[i].netif = netif
         THEN etharp_free_entry(arp_table[i]) ELSE arp_table[i]]
    /\ Sent(NoFrame)
    /\ UNCHANGED <<etharp_cached_entry, announced>>

InitArp ==
  /\ arp_table = [i \in Slots |-> EmptyEntry]
  /\ etharp_cached_entry = 1
  /\ announced = [h \in Netifs \X Ips |-> NoMac]
  /\ frame = NoFrame

NextArp ==
  \/ etharp_input
  \/ etharp_output
  \/ etharp_probe
  \/ etharp_tmr
  \/ etharp_cleanup_netif

SpecArp == InitArp /\ [][NextArp]_arpvars

-----------------------------------------------------------------------------
\* A packet leaves with the hardware address that its next hop has announced
\* last, whatever entries were recycled, expired or cached since.
SentWhereAnnounced == frame # NoFrame => frame.mac = announced[<<frame.netif, frame.ip>>]

\* Of each host there is one entry. Only an unresolved one has a packet waiting,
\* and it is a packet for that host.
OneEntryEach ==
  /\ \A n \in Netifs, a \in Ips : Cardinality(Matching(n, a)) <= 1
  /\ \A i \in Slots : arp_table[i].q # NoPacket =>
       arp_table[i].state = "PENDING" /\ arp_table[i].q = arp_table[i].ip

\* The table, the cached index and the queues lead every packet to its host.
ArpSound == SentWhereAnnounced /\ OneEntryEach
===============================================================================
