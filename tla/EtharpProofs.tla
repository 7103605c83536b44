------------------------------ MODULE EtharpProofs ------------------------------
(***************************************************************************)
(* Every packet leaves for the hardware address its next hop has announced *)
(* last, whatever the size of the table and the number of hosts.           *)
(***************************************************************************)
EXTENDS Etharp, FiniteSetTheorems, TLAPS

States == {"EMPTY", "PENDING", "STABLE", "REREQUESTING_1", "REREQUESTING_2"}
EntryType == [state : States, netif : Netifs, ip : Ips, mac : Macs \cup {NoMac}, ctime : Int,
              q : Ips \cup {NoPacket}]
TypeArp ==
  /\ arp_table \in [Slots -> EntryType] /\ etharp_cached_entry \in Slots
  /\ announced \in [Netifs \X Ips -> Macs \cup {NoMac}]

IsFor(e, netif, ip) == e.state # "EMPTY" /\ e.netif = netif /\ e.ip = ip
Unique == \A i, j \in Slots :
  arp_table[i].state # "EMPTY" /\ IsFor(arp_table[j], arp_table[i].netif, arp_table[i].ip) => i = j
Resolved(e) == IsStable(e) => e.mac = announced[<<e.netif, e.ip>>]
Queued(e) == e.q # NoPacket => e.state = "PENDING" /\ e.q = e.ip

\* Entries are distinct, a resolved one holds what its host has announced last, and
\* a packet waits only at an entry of its next hop that is not resolved.
TableInv == TypeArp /\ Unique /\ \A i \in Slots : Resolved(arp_table[i]) /\ Queued(arp_table[i])
ArpInv == TableInv /\ SentWhereAnnounced

\* The table has slots, and no packet or address is mistaken for none.
LEMMA ArpConstants ==
  /\ NoMac \notin Macs /\ NoPacket \notin Ips /\ Netifs # {} /\ Ips # {} /\ 1 \in Slots
  /\ EmptyEntry \in EntryType /\ EmptyEntry.state = "EMPTY" /\ EmptyEntry.q = NoPacket
  BY EtharpConstants DEF EtharpConstants, Slots, EmptyEntry, EntryType, States

\* The empty table is sound.
LEMMA InitArpInv == InitArp => ArpInv
<1> SUFFICES ASSUME InitArp PROVE ArpInv
  OBVIOUS
<1>1. TypeArp
  BY ArpConstants DEF InitArp, TypeArp
<1>2. Unique /\ \A i \in Slots : Resolved(arp_table[i]) /\ Queued(arp_table[i])
  BY ArpConstants DEF InitArp, Unique, Resolved, Queued, IsStable
<1> QED
  BY <1>1, <1>2 DEF ArpInv, TableInv, InitArp, SentWhereAnnounced

\* Only the host (netif, ip) may have announced itself.
OnlyFrom(netif, ip) ==
  /\ announced' \in [Netifs \X Ips -> Macs \cup {NoMac}]
  /\ \A n \in Netifs, a \in Ips :
       ~(n = netif /\ a = ip) => announced'[<<n, a>>] = announced[<<n, a>>]
ResolvedNow(e) == IsStable(e) => e.mac = announced'[<<e.netif, e.ip>>]

\* An entry put into a slot, where no other slot has one of the same host.
LEMMA PutEntry ==
  ASSUME TableInv, NEW k, NEW e \in EntryType, e.state # "EMPTY",
         arp_table' = [arp_table EXCEPT ![k] = e], etharp_cached_entry' \in Slots,
         \A i \in Slots : i # k => ~IsFor(arp_table[i], e.netif, e.ip),
         OnlyFrom(e.netif, e.ip), Queued(e), ResolvedNow(e)
  PROVE  TableInv'
<1> USE DEF OnlyFrom, ResolvedNow
<1>1. \A i \in Slots : arp_table'[i] = IF i = k THEN e ELSE arp_table[i]
  BY DEF TableInv, TypeArp
<1>2. TypeArp'
  BY DEF TableInv, TypeArp
<1>3. Unique'
  BY <1>1 DEF TableInv, Unique, IsFor
<1>4. ASSUME NEW i \in Slots PROVE (Resolved(arp_table[i]) /\ Queued(arp_table[i]))'
  <2>1. CASE i = k
    BY <2>1, <1>1 DEF Resolved, Queued
  <2>2. CASE i # k
    <3>1. /\ arp_table'[i] = arp_table[i] /\ arp_table[i] \in EntryType
          /\ Resolved(arp_table[i]) /\ Queued(arp_table[i]) /\ ~IsFor(arp_table[i], e.netif, e.ip)
      BY <2>2, <1>1 DEF TableInv, TypeArp
    <3>2. IsStable(arp_table[i]) => announced'[<<arp_table[i].netif, arp_table[i].ip>>]
                                      = announced[<<arp_table[i].netif, arp_table[i].ip>>]
      BY <3>1 DEF IsFor, IsStable, EntryType
    <3> QED
      BY <3>1, <3>2 DEF Resolved, Queued
  <2> QED
    BY <2>1, <2>2
<1> QED
  BY <1>2, <1>3, <1>4 DEF TableInv

\* What etharp_find_entry returns.
LEMMA FindEntry ==
  ASSUME TableInv, NEW netif \in Netifs, NEW ip \in Ips
  PROVE  LET f == etharp_find_entry(netif, ip)
         IN /\ f.e \in EntryType /\ f.e.netif = netif /\ f.e.ip = ip
            /\ \A i \in Slots : i # f.i => ~IsFor(arp_table[i], netif, ip)
            /\ f.e.state # "EMPTY" => f.i \in Slots /\ arp_table[f.i] = f.e
            /\ f.e.state = "EMPTY" => f.e.q = NoPacket
            /\ f.e.state = "EMPTY" <=> Matching(netif, ip) = {}
<1> DEFINE M == Matching(netif, ip)
           f == etharp_find_entry(netif, ip)
<1>0. M = {i \in Slots : IsFor(arp_table[i], netif, ip)}
  BY DEF Matching, IsFor
<1>1. CASE M = {}
  <2> DEFINE e == [EmptyEntry EXCEPT !.ip = ip, !.netif = netif, !.ctime = 0]
  <2>1. f.e = e
    BY <1>1 DEF etharp_find_entry, etharp_free_entry
  <2>2. e \in EntryType /\ e.netif = netif /\ e.ip = ip /\ e.state = "EMPTY" /\ e.q = NoPacket
    <3>1. /\ EmptyEntry \in EntryType /\ EmptyEntry.state = "EMPTY" /\ EmptyEntry.q = NoPacket
          /\ 0 \in Int
      BY ArpConstants
    <3>2. e \in EntryType
      BY <3>1 DEF EntryType
    <3> QED
      BY <3>1, <3>2 DEF EntryType
  <2> QED
    BY <2>1, <2>2, <1>0, <1>1
<1>2. CASE M # {}
  <2>1. PICK m \in M : TRUE
    BY <1>2
  <2>2. M = {m}
    BY <2>1, <1>0 DEF TableInv, Unique, IsFor
  <2>3. m \in Slots /\ IsFor(arp_table[m], netif, ip) /\ arp_table[m] \in EntryType
    BY <2>1, <1>0 DEF TableInv, TypeArp
  <2>4. First(M) = m
    BY <2>2, <2>3 DEF First, Slots
  <2>5. f.i = m /\ f.e = arp_table[m]
    BY <2>4, <1>2 DEF etharp_find_entry
  <2> HIDE DEF f, M
  <2>6. \A i \in Slots : i # m => ~IsFor(arp_table[i], netif, ip)
    BY <2>2, <1>0
  <2> QED
    BY <2>3, <2>5, <2>6, <1>2 DEF IsFor, f, M
<1> QED
  BY <1>1, <1>2

\* The state after an announcement of ip, on netif, is with mac.
LEMMA UpdateStep ==
  ASSUME ArpInv, NEW netif \in Netifs, NEW ip \in Ips, NEW mac \in Macs, NEW tryhard \in BOOLEAN,
         announced' = [announced EXCEPT ![<<netif, ip>>] = mac],
         etharp_update_arp_entry(netif, ip, mac, tryhard), UNCHANGED etharp_cached_entry
  PROVE  ArpInv'
<1> DEFINE f == etharp_find_entry(netif, ip)
           e == [f.e EXCEPT !.state = "STABLE", !.netif = netif, !.mac = mac, !.ctime = 0,
                            !.q = NoPacket]
<1>0. TableInv /\ TypeArp
  BY DEF ArpInv, TableInv
<1>1. /\ f.e \in EntryType /\ f.e.netif = netif /\ f.e.ip = ip
      /\ \A i \in Slots : i # f.i => ~IsFor(arp_table[i], netif, ip)
      /\ f.e.state # "EMPTY" => f.i \in Slots /\ arp_table[f.i] = f.e
      /\ f.e.state = "EMPTY" => f.e.q = NoPacket
      /\ f.e.state = "EMPTY" <=> Matching(netif, ip) = {}
  BY <1>0, FindEntry
<1>2. /\ announced' \in [Netifs \X Ips -> Macs \cup {NoMac}] /\ announced'[<<netif, ip>>] = mac
      /\ \A n \in Netifs, a \in Ips :
           ~(n = netif /\ a = ip) => announced'[<<n, a>>] = announced[<<n, a>>]
  BY <1>0 DEF TypeArp
<1>3. CASE ~tryhard /\ Matching(netif, ip) = {}
  <2>1. UNCHANGED arp_table /\ frame' = NoFrame
    BY <1>3 DEF etharp_update_arp_entry, Sent
  <2>2. ASSUME NEW i \in Slots PROVE (Resolved(arp_table[i]) /\ Queued(arp_table[i]))'
    <3>1. ~IsFor(arp_table[i], netif, ip) /\ arp_table[i] \in EntryType
      BY <1>0, <1>3 DEF Matching, IsFor, TypeArp
    <3>2. IsStable(arp_table[i]) => announced'[<<arp_table[i].netif, arp_table[i].ip>>]
                                      = announced[<<arp_table[i].netif, arp_table[i].ip>>]
      BY <3>1, <1>2 DEF IsFor, IsStable, EntryType
    <3> QED
      BY <3>2, <2>1, <1>0 DEF TableInv, Resolved, Queued
  <2>3. TypeArp' /\ Unique'
    BY <2>1, <1>0, <1>2 DEF TableInv, TypeArp, Unique
  <2> QED
    BY <2>1, <2>2, <2>3 DEF ArpInv, TableInv, SentWhereAnnounced, NoFrame
<1>4. CASE ~(~tryhard /\ Matching(netif, ip) = {})
  <2>1. /\ arp_table' = [arp_table EXCEPT ![f.i] = e]
        /\ frame' = IF f.e.q = NoPacket THEN NoFrame ELSE [netif |-> netif, ip |-> f.e.q, mac |-> mac]
    BY <1>4 DEF etharp_update_arp_entry, Sent
  <2>2. e \in EntryType
    <3>1. "STABLE" \in States /\ mac \in Macs \cup {NoMac} /\ 0 \in Int /\ NoPacket \in Ips \cup {NoPacket}
      BY DEF States
    <3> QED
      BY <1>1, <3>1 DEF EntryType
  <2>3. e.state = "STABLE" /\ e.netif = netif /\ e.ip = ip /\ e.mac = mac /\ e.q = NoPacket
    BY <1>1 DEF EntryType
  <2>4. f.e.q # NoPacket => f.e.q = ip
    BY <1>0, <1>1 DEF TableInv, Queued
  <2>5. PICK g, k : g = e /\ k = f.i
    OBVIOUS
  <2> HIDE DEF e, f
  <2>t. TableInv'
    <3>1. Queued(g) /\ ResolvedNow(g) /\ g.state # "EMPTY"
      BY <2>3, <2>5, <1>2 DEF Queued, ResolvedNow
    <3>2. \A i \in Slots : i # k => ~IsFor(arp_table[i], g.netif, g.ip)
      BY <2>3, <2>5, <1>1
    <3>3. etharp_cached_entry' \in Slots
      BY <1>0 DEF TypeArp
    <3>4. OnlyFrom(g.netif, g.ip)
      BY <2>3, <2>5, <1>2 DEF OnlyFrom
    <3>6. arp_table' = [arp_table EXCEPT ![k] = g] /\ g \in EntryType
      BY <2>1, <2>2, <2>5
    <3> QED
      BY <3>1, <3>2, <3>3, <3>4, <3>6, <1>0, PutEntry
  <2>6. SentWhereAnnounced'
    BY <2>1, <2>4, <1>2 DEF SentWhereAnnounced, NoFrame
  <2> QED
    BY <2>t, <2>6 DEF ArpInv
<1> QED
  BY <1>3, <1>4

\* etharp_query keeps the table sound, whichever slot it takes.
LEMMA QueryStep ==
  ASSUME ArpInv, NEW netif \in Netifs, NEW ip \in Ips, NEW packet \in {ip, NoPacket},
         etharp_query(netif, ip, packet), UNCHANGED announced
  PROVE  ArpInv'
<1> DEFINE f == etharp_find_entry(netif, ip)
           e == IF f.e.state = "EMPTY" THEN [f.e EXCEPT !.state = "PENDING", !.netif = netif] ELSE f.e
<1>0. TableInv /\ TypeArp
  BY DEF ArpInv, TableInv
<1>1. /\ f.e \in EntryType /\ f.e.netif = netif /\ f.e.ip = ip
      /\ \A i \in Slots : i # f.i => ~IsFor(arp_table[i], netif, ip)
      /\ f.e.state # "EMPTY" => f.i \in Slots /\ arp_table[f.i] = f.e
      /\ f.e.state = "EMPTY" => f.e.q = NoPacket
  BY <1>0, FindEntry
<1>2. /\ e \in EntryType /\ e.netif = netif /\ e.ip = ip /\ e.state # "EMPTY"
      /\ IsStable(e) => f.i \in Slots /\ arp_table[f.i] = e
      /\ Queued(e) /\ Resolved(e)
  <2>1. CASE f.e.state = "EMPTY"
    <3>1. e = [f.e EXCEPT !.state = "PENDING", !.netif = netif] /\ "PENDING" \in States
      BY <2>1 DEF States
    <3>2. e \in EntryType
      BY <3>1, <1>1 DEF EntryType
    <3>3. e.netif = netif /\ e.ip = ip /\ e.state = "PENDING" /\ e.q = NoPacket
      BY <3>1, <2>1, <1>1 DEF EntryType
    <3> QED
      BY <3>2, <3>3 DEF IsStable, Queued, Resolved
  <2>2. CASE f.e.state # "EMPTY"
    BY <2>2, <1>0, <1>1 DEF TableInv
  <2> QED
    BY <2>1, <2>2
<1>3. CASE IsStable(e) /\ packet # NoPacket
  <2>1. /\ etharp_cached_entry' = f.i /\ UNCHANGED arp_table
        /\ frame' = [netif |-> netif, ip |-> packet, mac |-> e.mac]
    BY <1>3 DEF etharp_query, Sent
  <2>2. TableInv'
    BY <2>1, <1>0, <1>2, <1>3 DEF TableInv, TypeArp, Unique, Resolved, Queued
  <2>3. SentWhereAnnounced'
    BY <2>1, <1>2, <1>3 DEF SentWhereAnnounced, Resolved
  <2> QED
    BY <2>2, <2>3 DEF ArpInv
<1>4. CASE ~(IsStable(e) /\ packet # NoPacket)
  <2>1. PICK g : /\ g = e \/ (g = [e EXCEPT !.q = packet] /\ packet # NoPacket)
                 /\ arp_table' = [arp_table EXCEPT ![f.i] = g] /\ frame' = NoFrame
                 /\ UNCHANGED etharp_cached_entry
    BY <1>4 DEF etharp_query, Sent
  <2> HIDE DEF e, f
  <2>2. g \in EntryType /\ g.netif = netif /\ g.ip = ip /\ g.state # "EMPTY" /\ Queued(g) /\ Resolved(g)
    <3>1. CASE g = e
      BY <3>1, <1>2
    <3>2. CASE g = [e EXCEPT !.q = packet] /\ packet # NoPacket
      <4>1. packet = ip /\ e.state = "PENDING"
        BY <3>2, <1>2, <1>4 DEF IsStable, EntryType, States
      <4>2. g \in EntryType
        BY <3>2, <4>1, <1>2 DEF EntryType
      <4>3. g.netif = netif /\ g.ip = ip /\ g.state = "PENDING" /\ g.q = ip
        BY <3>2, <4>1, <1>2 DEF EntryType
      <4> QED
        BY <4>2, <4>3 DEF Queued, Resolved, IsStable
    <3> QED
      BY <2>1, <3>1, <3>2
  <2>3. TableInv'
    <3>1. ResolvedNow(g)
      BY <2>2 DEF Resolved, ResolvedNow
    <3>2. \A i \in Slots : i # f.i => ~IsFor(arp_table[i], g.netif, g.ip)
      BY <2>2, <1>1
    <3>3. etharp_cached_entry' \in Slots /\ OnlyFrom(g.netif, g.ip)
      BY <2>1, <1>0 DEF TypeArp, OnlyFrom
    <3> QED
      BY <2>1, <2>2, <3>1, <3>2, <3>3, <1>0, PutEntry
  <2> QED
    BY <2>1, <2>3 DEF ArpInv, SentWhereAnnounced, NoFrame
<1> QED
  BY <1>3, <1>4

\* A resolved entry is used: it may be asked for again.
LEMMA OutputStep ==
  ASSUME ArpInv, NEW netif \in Netifs, NEW ip \in Ips, NEW k \in Slots,
         IsStable(arp_table[k]), IsFor(arp_table[k], netif, ip),
         etharp_output_to_arp_index(k, netif, ip), etharp_cached_entry' \in Slots, UNCHANGED announced
  PROVE  ArpInv'
<1>0. TableInv /\ TypeArp /\ arp_table[k] \in EntryType
  BY DEF ArpInv, TableInv, TypeArp
<1>1. SentWhereAnnounced'
  BY <1>0 DEF etharp_output_to_arp_index, Sent, SentWhereAnnounced, TableInv, Resolved, IsFor
<1>2. CASE arp_table' = arp_table
  <2>1. TableInv'
    BY <1>0, <1>2 DEF TableInv, TypeArp, Unique, Resolved, Queued
  <2> QED
    BY <2>1, <1>1 DEF ArpInv
<1>3. CASE arp_table' # arp_table
  <2> DEFINE e == [arp_table[k] EXCEPT !.state = "REREQUESTING_1"]
  <2>1. arp_table' = [arp_table EXCEPT ![k] = e]
    BY <1>3 DEF etharp_output_to_arp_index
  <2>2. e \in EntryType /\ "REREQUESTING_1" # "EMPTY"
    BY <1>0 DEF EntryType, States
  <2>3. /\ e.state = "REREQUESTING_1" /\ e.netif = netif /\ e.ip = ip /\ e.mac = arp_table[k].mac
        /\ e.q = arp_table[k].q
    BY <1>0 DEF EntryType, IsFor
  <2>4. arp_table[k].q = NoPacket /\ arp_table[k].mac = announced[<<netif, ip>>]
    BY <1>0 DEF TableInv, Queued, Resolved, IsStable, IsFor
  <2> HIDE DEF e
  <2>5. Queued(e) /\ ResolvedNow(e) /\ e.state # "EMPTY"
    BY <2>2, <2>3, <2>4 DEF Queued, ResolvedNow
  <2>6. \A i \in Slots : i # k => ~IsFor(arp_table[i], e.netif, e.ip)
    BY <2>3, <1>0 DEF TableInv, Unique, IsFor
  <2>7. OnlyFrom(e.netif, e.ip)
    BY <1>0 DEF TypeArp, OnlyFrom
  <2>8. TableInv'
    BY <2>1, <2>2, <2>5, <2>6, <2>7, <1>0, PutEntry
  <2> QED
    BY <2>8, <1>1 DEF ArpInv
<1> QED
  BY <1>2, <1>3

\* A packet leaves by the cached slot, a stable entry of its address, or is queued.
LEMMA EtharpOutput == ASSUME ArpInv, etharp_output PROVE ArpInv'
<1>0. TableInv /\ TypeArp
  BY DEF ArpInv, TableInv
<1>1. PICK netif \in Netifs, ip \in Ips :
        LET stable == {i \in Matching(netif, ip) : IsStable(arp_table[i])}
        IN /\ CASE CachedMatches(netif, ip) ->
                     /\ etharp_output_to_arp_index(etharp_cached_entry, netif, ip)
                     /\ UNCHANGED etharp_cached_entry
                [] ~CachedMatches(netif, ip) /\ stable # {} ->
                     /\ etharp_cached_entry' = First(stable)
                     /\ etharp_output_to_arp_index(First(stable), netif, ip)
                [] OTHER -> etharp_query(netif, ip, ip)
           /\ UNCHANGED announced
  BY DEF etharp_output
<1> DEFINE stable == {i \in Matching(netif, ip) : IsStable(arp_table[i])}
<1>2. CASE CachedMatches(netif, ip)
  <2>1. /\ etharp_output_to_arp_index(etharp_cached_entry, netif, ip)
        /\ UNCHANGED <<etharp_cached_entry, announced>>
    BY <1>1, <1>2
  <2>2. /\ IsStable(arp_table[etharp_cached_entry]) /\ etharp_cached_entry \in Slots
        /\ IsFor(arp_table[etharp_cached_entry], netif, ip)
    BY <1>0, <1>2 DEF CachedMatches, IsFor, IsStable, TypeArp
  <2> QED
    BY <2>1, <2>2, OutputStep
<1>3. CASE ~CachedMatches(netif, ip) /\ stable # {}
  <2>1. /\ etharp_cached_entry' = First(stable) /\ UNCHANGED announced
        /\ etharp_output_to_arp_index(First(stable), netif, ip)
    BY <1>1, <1>3
  <2>2. PICK m \in stable : TRUE
    BY <1>3
  <2>3. m \in Slots /\ IsFor(arp_table[m], netif, ip) /\ IsStable(arp_table[m])
    BY <2>2 DEF Matching, IsFor
  <2>4. stable = {m}
    BY <2>2, <2>3, <1>0 DEF TableInv, Unique, Matching, IsFor
  <2>5. First(stable) = m
    BY <2>3, <2>4 DEF First, Slots
  <2> QED
    BY <2>1, <2>3, <2>5, OutputStep
<1>4. CASE ~CachedMatches(netif, ip) /\ stable = {}
  <2>1. etharp_query(netif, ip, ip) /\ UNCHANGED announced
    BY <1>1, <1>4
  <2> QED
    BY <2>1, QueryStep
<1> QED
  BY <1>2, <1>3, <1>4

\* A step that frees entries or ages them.
LEMMA AgingStep ==
  ASSUME ArpInv, frame' = NoFrame, UNCHANGED <<etharp_cached_entry, announced>>,
         arp_table' \in [Slots -> EntryType],
         \A i \in Slots :
           \/ arp_table'[i] = EmptyEntry
           \/ /\ arp_table[i].state # "EMPTY" => arp_table'[i].state # "EMPTY"
              /\ arp_table'[i].state # "EMPTY" => arp_table[i].state # "EMPTY"
              /\ IsStable(arp_table'[i]) => IsStable(arp_table[i])
              /\ arp_table[i].state = "PENDING" => arp_table'[i].state = "PENDING"
              /\ arp_table'[i].netif = arp_table[i].netif /\ arp_table'[i].ip = arp_table[i].ip
              /\ arp_table'[i].mac = arp_table[i].mac /\ arp_table'[i].q = arp_table[i].q
  PROVE  ArpInv'
<1>1. TypeArp' /\ SentWhereAnnounced'
  BY DEF ArpInv, TableInv, TypeArp, SentWhereAnnounced, NoFrame
<1>2. Unique'
  BY ArpConstants DEF ArpInv, TableInv, Unique, IsFor
<1>3. ASSUME NEW i \in Slots PROVE (Resolved(arp_table[i]) /\ Queued(arp_table[i]))'
  <2>1. CASE arp_table'[i] = EmptyEntry
    BY <2>1, ArpConstants DEF Resolved, Queued, IsStable
  <2>2. CASE arp_table'[i] # EmptyEntry
    BY <2>2 DEF ArpInv, TableInv, Resolved, Queued
  <2> QED
    BY <2>1, <2>2
<1> QED
  BY <1>1, <1>2, <1>3 DEF ArpInv, TableInv

\* The timer ages, frees and asks again.
LEMMA TmrStep == ASSUME ArpInv, etharp_tmr PROVE ArpInv'
<1>0. TypeArp /\ frame' = NoFrame /\ UNCHANGED <<etharp_cached_entry, announced>>
  BY DEF ArpInv, TableInv, etharp_tmr, Sent
<1>1. ASSUME NEW i \in Slots
      PROVE  /\ arp_table'[i] \in EntryType
             /\ \/ arp_table'[i] = EmptyEntry
                \/ /\ arp_table[i].state # "EMPTY" => arp_table'[i].state # "EMPTY"
                   /\ arp_table'[i].state # "EMPTY" => arp_table[i].state # "EMPTY"
                   /\ IsStable(arp_table'[i]) => IsStable(arp_table[i])
                   /\ arp_table[i].state = "PENDING" => arp_table'[i].state = "PENDING"
                   /\ arp_table'[i].netif = arp_table[i].netif /\ arp_table'[i].ip = arp_table[i].ip
                   /\ arp_table'[i].mac = arp_table[i].mac /\ arp_table'[i].q = arp_table[i].q
  <2> DEFINE e == [arp_table[i] EXCEPT !.ctime = @ + 1]
  <2>1. arp_table[i] \in EntryType
    BY <1>0 DEF TypeArp
  <2>2. e \in EntryType
    BY <2>1 DEF EntryType
  <2>3. /\ e.state = arp_table[i].state /\ e.netif = arp_table[i].netif /\ e.ip = arp_table[i].ip
        /\ e.mac = arp_table[i].mac /\ e.q = arp_table[i].q
    BY <2>1 DEF EntryType
  <2>4. \/ arp_table'[i] = EmptyEntry \/ arp_table'[i] = arp_table[i] \/ arp_table'[i] = e
        \/ e.state = "REREQUESTING_1" /\ arp_table'[i] = [e EXCEPT !.state = "REREQUESTING_2"]
        \/ e.state = "REREQUESTING_2" /\ arp_table'[i] = [e EXCEPT !.state = "STABLE"]
    BY DEF etharp_tmr, etharp_free_entry
  <2> HIDE DEF e
  <2>5. CASE arp_table'[i] = EmptyEntry
    BY <2>5, ArpConstants
  <2>6. CASE arp_table'[i] = arp_table[i] \/ arp_table'[i] = e
    BY <2>1, <2>2, <2>3, <2>6 DEF IsStable
  <2>7. ASSUME NEW st \in {"REREQUESTING_2", "STABLE"}, arp_table'[i] = [e EXCEPT !.state = st],
               e.state \in {"REREQUESTING_1", "REREQUESTING_2"}
        PROVE  /\ arp_table'[i] \in EntryType
               /\ arp_table[i].state # "EMPTY" /\ arp_table'[i].state # "EMPTY"
               /\ IsStable(arp_table[i]) /\ arp_table[i].state # "PENDING"
               /\ arp_table'[i].netif = arp_table[i].netif /\ arp_table'[i].ip = arp_table[i].ip
               /\ arp_table'[i].mac = arp_table[i].mac /\ arp_table'[i].q = arp_table[i].q
    <3>1. st \in States
      BY DEF States
    <3>2. arp_table'[i] \in EntryType
      BY <2>2, <2>7, <3>1 DEF EntryType
    <3>3. /\ arp_table'[i].state = st /\ arp_table'[i].netif = e.netif /\ arp_table'[i].ip = e.ip
          /\ arp_table'[i].mac = e.mac /\ arp_table'[i].q = e.q
      BY <2>2, <2>7 DEF EntryType
    <3> QED
      BY <2>3, <2>7, <3>2, <3>3 DEF IsStable
  <2> QED
    BY <2>4, <2>5, <2>6, <2>7
<1>2. arp_table' \in [Slots -> EntryType]
  BY <1>1 DEF etharp_tmr
<1> QED
  BY <1>0, <1>1, <1>2, AgingStep

\* The entries of an interface that goes down are freed.
LEMMA CleanupStep == ASSUME ArpInv, etharp_cleanup_netif PROVE ArpInv'
<1>0. TypeArp /\ frame' = NoFrame /\ UNCHANGED <<etharp_cached_entry, announced>>
  BY DEF ArpInv, TableInv, etharp_cleanup_netif, Sent
<1>1. \A i \in Slots : arp_table'[i] = EmptyEntry \/ arp_table'[i] = arp_table[i]
  BY DEF etharp_cleanup_netif, etharp_free_entry
<1>2. arp_table' \in [Slots -> EntryType]
  BY <1>0, <1>1, ArpConstants DEF etharp_cleanup_netif, TypeArp
<1> QED
  BY <1>0, <1>1, <1>2, AgingStep

\* Every step keeps the table sound.
LEMMA NextArpInv == ArpInv /\ [NextArp]_arpvars => ArpInv'
<1> SUFFICES ASSUME ArpInv, [NextArp]_arpvars PROVE ArpInv'
  OBVIOUS
<1>1. CASE etharp_input
  BY <1>1, UpdateStep DEF etharp_input
<1>2. CASE etharp_output
  BY <1>2, EtharpOutput
<1>3. CASE etharp_probe
  BY <1>3, QueryStep DEF etharp_probe
<1>4. CASE etharp_tmr
  BY <1>4, TmrStep
<1>5. CASE etharp_cleanup_netif
  BY <1>5, CleanupStep
<1>6. CASE UNCHANGED arpvars
  BY <1>6 DEF arpvars, ArpInv, TableInv, TypeArp, Unique, Resolved, Queued, SentWhereAnnounced
<1> QED
  BY <1>1, <1>2, <1>3, <1>4, <1>5, <1>6 DEF NextArp

\* Whatever the size of the table, and however hosts change their addresses and
\* entries expire and are recycled: a packet leaves for the hardware address its next
\* hop has announced last, a host has one entry, and packets wait at the right one.
THEOREM ArpAlwaysSound == SpecArp => []ArpSound
<1>1. ArpInv => ArpSound
  <2> SUFFICES ASSUME ArpInv PROVE OneEntryEach
    BY DEF ArpInv, ArpSound
  <2>1. ASSUME NEW n \in Netifs, NEW a \in Ips PROVE Cardinality(Matching(n, a)) <= 1
    <3>1. CASE Matching(n, a) = {}
      BY <3>1, FS_EmptySet
    <3>2. CASE Matching(n, a) # {}
      <4>1. PICK m \in Matching(n, a) : TRUE
        BY <3>2
      <4>2. Matching(n, a) = {m}
        BY <4>1 DEF ArpInv, TableInv, Unique, Matching, IsFor
      <4>3. Cardinality({m}) = 1
        BY FS_Singleton
      <4> QED
        BY <4>2, <4>3
    <3> QED
      BY <3>1, <3>2
  <2> QED
    BY <2>1 DEF OneEntryEach, ArpInv, TableInv, Queued
<1> QED
  BY <1>1, InitArpInv, NextArpInv, PTL DEF SpecArp
===============================================================================
