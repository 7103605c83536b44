-------------------------------- MODULE Ip4Frag --------------------------------
(***************************************************************************)
(* Fragmentation and reassembly of IPv4 datagrams (core/ipv4/ip4_frag.c).  *)
(*                                                                         *)
(* Datagrams are cut by lwIP senders and may be cut again on their way, so *)
(* that fragments of different cuts of one datagram can arrive. Fragments  *)
(* are lost, duplicated and reordered: any of them may arrive at any time. *)
(* A datagram stands for source, destination and identification.           *)
(***************************************************************************)
EXTENDS Integers, Sequences, FiniteSets, SequencesExt

CONSTANTS Datagrams,
          Length,         \* their payload, in bytes
          Mtus,           \* of the networks they may cross
          Clens,          \* pbufs that a received fragment may consist of
          IP_REASS_MAX_PBUFS, IP_REASS_MAXAGE, MEMP_NUM_REASSDATA

VARIABLES reassdatagrams,
          ip_reass_pbufcount,
          datagram        \* what the last call of ip4_reass has returned

reassvars == <<reassdatagrams, ip_reass_pbufcount, datagram>>

IP_HLEN == 20
Nothing == [d |-> "NULL", hdr |-> 0, len |-> 0, frags |-> {}]

\* The fragments of a packet of n payload bytes at offset ofo of its datagram;
\* mf_set if it is a fragment itself and not the last one.
ip4_frag(ofo, mf_set, n, mtu) ==
  LET nfb == (mtu - IP_HLEN) \div 8
      left(k) == n - k * nfb * 8
  IN {[start |-> ofo + k * nfb * 8,
       end |-> ofo + k * nfb * 8 + Min({left(k), nfb * 8}),
       mf |-> left(k) > mtu - IP_HLEN \/ mf_set] : k \in {i \in 0 .. n : left(i) > 0}}

Arriving(d) ==
  LET first == UNION {ip4_frag(0, FALSE, Length[d], m) : m \in Mtus}
  IN first \cup UNION {ip4_frag(f.start, f.mf, f.end - f.start, m) : f \in first, m \in Mtus}

\* What can arrive of a datagram that has been fragmented at all.
Fragments == [d \in Datagrams |-> {f \in Arriving(d) : f.mf \/ f.start # 0}]

-----------------------------------------------------------------------------
Pbufs(r) == Cardinality(UNION {{f} \X (1 .. f.clen) : f \in r.frags})

AllPbufs(is) == Cardinality(UNION {{i} \X (1 .. Pbufs(reassdatagrams[i])) : i \in is})

\* The reassembly of datagram list[i] is given up; it returns the rest.
ip_reass_free_complete_datagram_NotCounted(s, i) ==
  [s EXCEPT !.list = RemoveAt(@, i), !.freed = @ + Pbufs(s.list[i])]

ip_reass_free_complete_datagram(s, i) ==
  [s EXCEPT !.list = RemoveAt(@, i), !.count = @ - Pbufs(s.list[i]),
            !.freed = @ + Pbufs(s.list[i])]

\* Datagrams other than d are given up, the oldest first and of these the last
\* in the list, until enough pbufs are free.
RECURSIVE ip_reass_remove_oldest_datagram(_, _, _)
ip_reass_remove_oldest_datagram(s, d, needed) ==
  LET others == {i \in DOMAIN s.list : s.list[i].d # d}
      oldest == CHOOSE i \in others : \A j \in others :
                  s.list[i].timer < s.list[j].timer
                    \/ (s.list[i].timer = s.list[j].timer /\ j <= i)
      t == ip_reass_free_complete_datagram(s, oldest)
  IN IF others = {} THEN s
     ELSE IF t.freed < needed /\ Cardinality(others) > 1
          THEN ip_reass_remove_oldest_datagram(t, d, needed)
          ELSE t

NewDatagram(d) ==
  [d |-> d, timer |-> IP_REASS_MAXAGE, hdr |-> -1, lastfrag |-> FALSE, len |-> 0, frags |-> {}]

\* The state with a new, empty datagram at the head of the list, or without one
\* if there is no room; hdr is set by the caller.
ip_reass_enqueue_new_datagram(s, d, clen) ==
  LET t == IF Len(s.list) < MEMP_NUM_REASSDATA THEN s
           ELSE ip_reass_remove_oldest_datagram([s EXCEPT !.freed = 0], d, clen)
      room == Len(s.list) < MEMP_NUM_REASSDATA
                \/ (t.freed >= clen /\ Len(t.list) < MEMP_NUM_REASSDATA)
  IN [t EXCEPT !.list = IF room THEN <<NewDatagram(d)>> \o @ ELSE @]

Overlaps(f, frags) == \E g \in frags : f.start < g.end /\ g.start < f.end

Contiguous_AnyStart(frags) == \A f \in frags : f.mf => \E g \in frags : g.start = f.end

Contiguous(frags) ==
  /\ \E f \in frags : f.start = 0
  /\ \A f \in frags : f.start # 0 => \E g \in frags : g.end = f.start

\* What ip_reass_chain_frag_into_datagram_and_validate makes of fragment f.
Verdict(r, f) ==
  CASE Overlaps(f, r.frags) -> "DROPPED"
    [] ~Overlaps(f, r.frags) /\ (~f.mf \/ r.lastfrag) /\ Contiguous(r.frags \cup {f}) -> "FINISHED"
    [] OTHER -> "QUEUED"

\* ip_reass_chain_frag_into_datagram_and_validate and what follows it, for the
\* fragment f of datagram s.list[i], whose record is r.
Chain(s, i, r, f) ==
  LET all == [r EXCEPT !.frags = @ \cup {f},
                       !.lastfrag = @ \/ ~f.mf, !.len = IF f.mf THEN @ ELSE f.end]
  IN CASE Verdict(r, f) = "DROPPED" ->
            [s EXCEPT !.list = IF r.frags = {} THEN RemoveAt(@, i) ELSE [@ EXCEPT ![i] = r]]
       [] Verdict(r, f) = "QUEUED" ->
            [s EXCEPT !.list[i] = all, !.count = @ + f.clen]
       [] OTHER ->
            [s EXCEPT !.list = RemoveAt(@, i), !.count = @ + f.clen - Pbufs(all),
                      !.out = [d |-> r.d, hdr |-> r.hdr, len |-> all.len,
                               frags |-> {<<g.start, g.end>> : g \in all.frags}]]

\* The header kept is that of the first fragment, once it has arrived.
KeepHeader(r, f) ==
  IF r.hdr = -1 \/ (f.start = 0 /\ r.hdr # 0) THEN [r EXCEPT !.hdr = f.start] ELSE r

Known(s, d) == {i \in DOMAIN s.list : s.list[i].d = d}

ChainIfKnown(s, is, f) ==
  IF is = {} THEN s ELSE LET i == CHOOSE i \in is : TRUE IN Chain(s, i, KeepHeader(s.list[i], f), f)

FindDatagram(s, d, f) ==
  IF Known(s, d) # {} THEN ChainIfKnown(s, Known(s, d), f)
  ELSE LET t == ip_reass_enqueue_new_datagram(s, d, f.clen) IN ChainIfKnown(t, Known(t, d), f)

MakeRoom(s, d, clen) ==
  IF s.count + clen > IP_REASS_MAX_PBUFS THEN ip_reass_remove_oldest_datagram(s, d, clen) ELSE s

\* The outcome for a fragment of d, where s was the state before room was made.
Reassembled(s, d, f) ==
  IF s.count + f.clen > IP_REASS_MAX_PBUFS THEN s ELSE FindDatagram(s, d, f)

ip4_reass(d, f) ==
  \E s \in {Reassembled(MakeRoom([list |-> reassdatagrams, count |-> ip_reass_pbufcount,
                                  freed |-> 0, out |-> Nothing], d, f.clen), d, f)} :
    reassdatagrams' = s.list /\ ip_reass_pbufcount' = s.count /\ datagram' = s.out

Receive ==
  \E d \in Datagrams, clen \in Clens : \E f \in Fragments[d] :
    ip4_reass(d, [start |-> f.start, end |-> f.end, mf |-> f.mf, clen |-> clen])

ip_reass_tmr ==
  LET old == {i \in DOMAIN reassdatagrams : reassdatagrams[i].timer = 0}
      rest == SelectSeq(reassdatagrams, LAMBDA r : r.timer > 0)
  IN /\ reassdatagrams' = [i \in DOMAIN rest |-> [rest[i] EXCEPT !.timer = @ - 1]]
     /\ ip_reass_pbufcount' =
          ip_reass_pbufcount - AllPbufs(old)
     /\ datagram' = Nothing

InitReass == reassdatagrams = <<>> /\ ip_reass_pbufcount = 0 /\ datagram = Nothing

NextReass == Receive \/ ip_reass_tmr

SpecReass == InitReass /\ [][NextReass]_reassvars

-----------------------------------------------------------------------------
\* What ip4_reass returns is a datagram that was sent, with the header of its
\* first fragment and every byte once, whatever the order of the fragments and
\* however they were cut.
DeliveredWhole ==
  datagram # Nothing =>
    /\ datagram.hdr = 0 /\ datagram.len = Length[datagram.d]
    /\ \A b \in 0 .. Length[datagram.d] - 1 :
         Cardinality({g \in datagram.frags : g[1] <= b /\ b < g[2]}) = 1
    /\ \A g \in datagram.frags : g[2] <= Length[datagram.d]

\* The counter that limits the memory held by reassembly is that memory, on
\* every path that queues, drops, delivers or gives up; no datagram is listed
\* twice or without fragments.
PbufsCounted ==
  LET all == DOMAIN reassdatagrams
  IN /\ ip_reass_pbufcount = AllPbufs(all)
     /\ ip_reass_pbufcount <= IP_REASS_MAX_PBUFS
     /\ Len(reassdatagrams) <= MEMP_NUM_REASSDATA
     /\ \A i \in all : reassdatagrams[i].frags # {}
     /\ \A i, j \in all : reassdatagrams[i].d = reassdatagrams[j].d => i = j

\* ip4_reass returns whole datagrams and accounts for the memory of the others.
ReassemblySound == DeliveredWhole /\ PbufsCounted
===============================================================================
