---------------------------------- MODULE Dns ----------------------------------
(***************************************************************************)
(* The DNS client of lwIP (core/dns.c), with several requests for one name *)
(* sharing a query, a random source port for each query and random         *)
(* transaction numbers, as configured.                                     *)
(*                                                                         *)
(* An answer to any query that could have been sent may arrive at any time,*)
(* late, twice or never. Servers tell the truth: the address of a name is  *)
(* represented by the name, so that a wrong address is visible.            *)
(***************************************************************************)
EXTENDS Integers, FiniteSets

CONSTANTS Clients,        \* callers, each with its callback
          Names,
          Retrying,       \* clients whose callback asks again after a failure
          NoName, NoClient,
          DNS_TABLE_SIZE, \* also of dns_requests and dns_pcbs
          DNS_MAX_SERVERS, DNS_MAX_RETRIES,
          Txids, Ttls, SeqnoMod

ASSUME DnsConstants ==
  /\ NoName \notin Names /\ NoClient \notin Clients /\ Retrying \subseteq Clients
  /\ Cardinality(Txids) > DNS_TABLE_SIZE /\ DNS_MAX_RETRIES > 0

VARIABLES dns,            \* dns_table, dns_requests, dns_pcbs, dns_last_pcb_idx,
                          \* dns_seqno; within a step also the callbacks it makes
          dns_servers,    \* which servers are configured
          asking,         \* the name for which a client waits, or NoName
          misled,         \* clients just given the address of another name
          second          \* the parity of the seconds passed

dnsvars == <<dns, dns_servers, asking, misled, second>>

Idx == 1 .. DNS_TABLE_SIZE
NoPcb == DNS_TABLE_SIZE + 1
NoReq == [found |-> NoClient, idx |-> 1]
NewEntry == [state |-> "UNUSED", name |-> NoName, txid |-> CHOOSE x \in Txids : TRUE,
             server |-> 0, tmr |-> 0, retries |-> 0, ttl |-> 0, seqno |-> 0, pcb |-> NoPcb]

FirstOf(S) == CHOOSE i \in S : \A j \in S : i <= j

-----------------------------------------------------------------------------
\* A callback that asks for its name again: a query for the name is being
\* answered just now, so that the request is added to it if there is room.
Retry(s, c, name) ==
  LET same == {i \in Idx : s.table[i].state = "ASKING" /\ s.table[i].name = name}
      free == {r \in Idx : s.reqs[r].found = NoClient}
  IN IF c \in Retrying /\ dns_servers[0] /\ same # {} /\ free # {}
     THEN [s EXCEPT !.reqs[FirstOf(free)] = [found |-> c, idx |-> FirstOf(same)],
                    !.again = @ \cup {c}]
     ELSE s

\* The callbacks of the requests for entry idx; a request is taken out of the
\* array after its callback has returned.
CallBacks(s, idx, addr) ==
  LET One(t, r) ==
        LET c == t.reqs[r].found
            u == [t EXCEPT !.called = @ \cup {[client |-> c, addr |-> addr]}]
            v == IF addr = NoName THEN Retry(u, c, u.table[idx].name) ELSE u
        IN IF c # NoClient /\ t.reqs[r].idx = idx THEN [v EXCEPT !.reqs[r] = NoReq] ELSE t
      upto[r \in 0 .. DNS_TABLE_SIZE] == IF r = 0 THEN s ELSE One(upto[r - 1], r)
  IN upto[DNS_TABLE_SIZE]

\* The source port is closed unless another query uses it.
ReleasePcb_Always(s, idx) ==
  IF s.table[idx].pcb = NoPcb THEN s
  ELSE [s EXCEPT !.table[idx].pcb = NoPcb, !.pcbs[s.table[idx].pcb] = FALSE]

ReleasePcb(s, idx) ==
  LET shared == \E i \in Idx \ {idx} :
                  s.table[i].state = "ASKING" /\ s.table[i].pcb = s.table[idx].pcb
  IN IF s.table[idx].pcb = NoPcb \/ shared
     THEN [s EXCEPT !.table[idx].pcb = NoPcb]
     ELSE [s EXCEPT !.table[idx].pcb = NoPcb, !.pcbs[s.table[idx].pcb] = FALSE]

dns_call_found_FirstOnly(s, idx, addr) ==
  LET mine == {r \in Idx : s.reqs[r].found # NoClient /\ s.reqs[r].idx = idx}
      r == FirstOf(mine)
  IN IF mine = {} THEN ReleasePcb(s, idx)
     ELSE ReleasePcb([s EXCEPT !.called = @ \cup {[client |-> s.reqs[r].found, addr |-> addr]},
                               !.reqs[r] = NoReq], idx)

dns_call_found(s, idx, addr) == ReleasePcb(CallBacks(s, idx, addr), idx)

\* An entry back to unused: the rest of it, never read again, is forgotten here.
Unused(s, i) == [s EXCEPT !.table[i] = NewEntry]

Fails(s, i) == Unused(dns_call_found(s, i, NoName), i)

\* Sending may fail for want of memory, which only costs a retry.
dns_send(s, i) == IF dns_servers[s.table[i].server] THEN s ELSE Fails(s, i)

dns_backupserver_available(e) ==
  e.server + 1 < DNS_MAX_SERVERS /\ dns_servers[e.server + 1]

CheckAsking_NoLimit(s, i) ==
  LET e == [s.table[i] EXCEPT !.tmr = @ - 1]
  IN IF e.tmr > 0 THEN [s EXCEPT !.table[i] = e]
     ELSE dns_send([s EXCEPT !.table[i] = [e EXCEPT !.tmr = 1]], i)

CheckAsking(s, i) ==
  LET e == [s.table[i] EXCEPT !.tmr = @ - 1]
      f == [e EXCEPT !.retries = @ + 1]
  IN CASE e.tmr > 0 -> [s EXCEPT !.table[i] = e]
       [] e.tmr = 0 /\ f.retries # DNS_MAX_RETRIES ->
            dns_send([s EXCEPT !.table[i] = [f EXCEPT !.tmr = f.retries]], i)
       [] e.tmr = 0 /\ f.retries = DNS_MAX_RETRIES /\ dns_backupserver_available(f) ->
            dns_send([s EXCEPT !.table[i] = [f EXCEPT !.server = @ + 1, !.tmr = 1,
                                                      !.retries = 0]], i)
       [] OTHER -> Fails([s EXCEPT !.table[i] = f], i)

dns_check_entry(s, i) ==
  LET e == s.table[i]
  IN CASE e.state = "NEW" ->
            dns_send([s EXCEPT !.table[i] =
                        [e EXCEPT !.state = "ASKING", !.server = 0, !.tmr = 1, !.retries = 0]], i)
       [] e.state = "ASKING" -> CheckAsking(s, i)
       [] e.state = "DONE" ->
            IF e.ttl <= 1 THEN Unused(s, i) ELSE [s EXCEPT !.table[i].ttl = @ - 1]
       [] OTHER -> s

\* The index and the new state, if a source port can be had; a port is opened if
\* open (a udp_pcb is free) and shared otherwise.
dns_alloc_pcb(s, open) ==
  LET free == {i \in Idx : ~s.pcbs[i]}
      used == Idx \ free
      \* the next one in use after dns_last_pcb_idx
      next == CHOOSE i \in used : \A j \in used :
                (i - s.last - 1) % DNS_TABLE_SIZE <= (j - s.last - 1) % DNS_TABLE_SIZE
  IN IF free # {} /\ open
     THEN [idx |-> FirstOf(free), s |-> [s EXCEPT !.pcbs[FirstOf(free)] = TRUE,
                                                  !.last = FirstOf(free)]]
     ELSE IF used # {} THEN [idx |-> next, s |-> [s EXCEPT !.last = next]]
     ELSE [idx |-> NoPcb, s |-> s]

Age(s, i) == (s.seqno - s.table[i].seqno) % SeqnoMod

\* The first unused entry, or the oldest resolved one, or none (0).
Victim(s) ==
  LET unused == {i \in Idx : s.table[i].state = "UNUSED"}
      done == {i \in Idx : s.table[i].state = "DONE" /\ Age(s, i) > 0}
      oldest == {i \in done : \A j \in done : Age(s, i) >= Age(s, j)}
  IN IF unused # {} THEN FirstOf(unused) ELSE IF done # {} THEN FirstOf(oldest) ELSE 0

\* A number that no other query uses. It is drawn at random; numbers are only
\* compared for equality and any may come in an answer, so that the lowest will do.
dns_create_txid(s) ==
  FirstOf(Txids \ {s.table[i].txid : i \in {j \in Idx : s.table[j].state = "ASKING"}})

\* The new state: unchanged if the request is refused with ERR_MEM.
dns_enqueue(s, c, name, open) ==
  LET same == {i \in Idx : s.table[i].state = "ASKING" /\ s.table[i].name = name}
      free == {r \in Idx : s.reqs[r].found = NoClient}
      i == Victim(s)
      alloc == dns_alloc_pcb(s, open)
      entry == [s.table[i] EXCEPT !.state = "NEW", !.seqno = s.seqno, !.name = name,
                                  !.txid = dns_create_txid(s), !.pcb = alloc.idx]
  IN CASE same # {} /\ free # {} ->
            [s EXCEPT !.reqs[FirstOf(free)] = [found |-> c, idx |-> FirstOf(same)]]
       [] same = {} /\ free # {} /\ i # 0 /\ alloc.idx # NoPcb ->
            dns_check_entry([alloc.s EXCEPT !.table[i] = entry,
                                            !.reqs[FirstOf(free)] = [found |-> c, idx |-> i],
                                            !.seqno = (@ + 1) % SeqnoMod], i)
       [] same = {} /\ free # {} /\ i # 0 /\ alloc.idx = NoPcb ->
            Unused(s, i)
       [] OTHER -> s

-----------------------------------------------------------------------------
\* The end of a step that leads to s: the clients called no longer wait, unless
\* their callbacks have asked again.
Ends(s, more) ==
  LET Told(c) == {x.addr : x \in {y \in s.called : y.client = c}}
  IN /\ dns' = [s EXCEPT !.called = {}, !.again = {}]
     /\ asking' = [c \in Clients |-> IF Told(c) # {} /\ c \notin s.again THEN NoName ELSE more[c]]
     /\ misled' = {c \in Clients : ~ Told(c) \subseteq {more[c], NoName}}

Waits(s, c) == \E r \in Idx : s.reqs[r].found = c

\* A name in the table, or dns_servers[0] missing, is answered at once.
dns_gethostbyname ==
  \E c \in Clients, name \in Names, open \in BOOLEAN :
    LET cached == \E i \in Idx : dns.table[i].state = "DONE" /\ dns.table[i].name = name
        s == IF cached \/ ~dns_servers[0] THEN dns ELSE dns_enqueue(dns, c, name, open)
    IN /\ asking[c] = NoName
       /\ Ends(s, [asking EXCEPT ![c] = IF Waits(s, c) THEN name ELSE @])
       /\ UNCHANGED <<dns_servers, second>>

dns_tmr ==
  LET upto[i \in 0 .. DNS_TABLE_SIZE] ==
        IF i = 0 THEN dns ELSE dns_check_entry(upto[i - 1], i)
  IN Ends(upto[DNS_TABLE_SIZE], asking) /\ second' = 1 - second /\ UNCHANGED dns_servers

dns_correct_response(s, i, name, ttl) ==
  LET e == s.table[i]
      done == [NewEntry EXCEPT !.state = "DONE", !.name = e.name, !.ttl = ttl,
                               !.seqno = e.seqno, !.pcb = e.pcb]
      t == dns_call_found([s EXCEPT !.table[i] = done], i, name)
  IN IF ttl = 0 /\ t.table[i].state = "DONE" THEN Unused(t, i) ELSE t

\* An answer from server srv about name: an address with its lifetime, an error,
\* or neither. Malformed ones, and those to other ports, are ignored.
Answers == [what : {"address"}, ttl : Ttls] \cup [what : {"error", "none"}]

IsAnswerTo_AnyName(e, srv, name) == e.server = srv

IsAnswerTo(e, srv, name) == e.server = srv /\ e.name = name

dns_recv(s, txid, srv, name, a) ==
  LET match == {i \in Idx : s.table[i].state = "ASKING" /\ s.table[i].txid = txid}
      i == FirstOf(match)
  IN CASE match = {} \/ ~ IsAnswerTo(s.table[i], srv, name) -> s
       [] a.what = "error" /\ dns_backupserver_available(s.table[i]) ->
            dns_check_entry([s EXCEPT !.table[i] = [@ EXCEPT !.retries = DNS_MAX_RETRIES - 1,
                                                             !.tmr = 1]], i)
       [] a.what = "address" -> dns_correct_response(s, i, name, a.ttl)
       [] OTHER -> Fails(s, i)

\* Only numbers in use are considered: any other answer is dropped.
Response ==
  \E i \in Idx, srv \in 0 .. DNS_MAX_SERVERS - 1, name \in Names, a \in Answers :
    /\ dns.table[i].state = "ASKING"
    /\ Ends(dns_recv(dns, dns.table[i].txid, srv, name, a), asking)
    /\ UNCHANGED <<dns_servers, second>>

\* From an application or from DHCP.
dns_setserver ==
  \E n \in 0 .. DNS_MAX_SERVERS - 1, on \in BOOLEAN :
    /\ dns_servers' = [dns_servers EXCEPT ![n] = on]
    /\ UNCHANGED <<dns, asking, misled, second>>

InitDns ==
  /\ dns = [table |-> [i \in Idx |-> NewEntry], reqs |-> [i \in Idx |-> NoReq],
            pcbs |-> [i \in Idx |-> FALSE], last |-> 1, seqno |-> 0,
            called |-> {}, again |-> {}]
  /\ dns_servers = [n \in 0 .. DNS_MAX_SERVERS - 1 |-> TRUE]
  /\ asking = [c \in Clients |-> NoName]
  /\ misled = {}
  /\ second = 0

NextDns == dns_gethostbyname \/ dns_tmr \/ Response \/ dns_setserver

\* sys_timeouts calls dns_tmr every second for ever.
SpecDns == InitDns /\ [][NextDns]_dnsvars /\ []<><<second' # second>>_second

-----------------------------------------------------------------------------
\* A callback gets the address of the name its client has asked for, or none:
\* no late or repeated answer, and no reuse of an entry, gives it another one.
AnswersRight ==
  /\ misled = {}
  /\ \A r \in Idx : LET c == dns.reqs[r].found
                    IN c # NoClient => dns.table[dns.reqs[r].idx].name = asking[c]

\* A client whose request was accepted gets its callback, whatever is lost.
RequestsAnswered == \A c \in Clients : asking[c] # NoName ~> asking[c] = NoName

\* A source port is open exactly as long as a query uses it, also when queries
\* share one.
PortsReleased ==
  {i \in Idx : dns.pcbs[i]} = {dns.table[i].pcb : i \in {j \in Idx : dns.table[j].state = "ASKING"}}

\* What dns_recv, dns_check_entry and dns_call_found keep: a callback gets the answer
\* to its own question, and a source port is released with its last query.
DnsSound == AnswersRight /\ PortsReleased

\* "flush this entry, there cannot be any related pending entries in this state"
\* (dns_check_entry): no request waits on an entry that is not being asked for.
NoRequestStranded ==
  \A r \in Idx : dns.reqs[r].found # NoClient => dns.table[dns.reqs[r].idx].state = "ASKING"
===============================================================================
