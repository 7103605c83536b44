----------------------------- MODULE SocketsProofs -----------------------------
(***************************************************************************)
(* select and poll miss no event, and event_callback walks the list of     *)
(* waiting threads safely, for any number of threads and sockets.          *)
(***************************************************************************)
EXTENDS Sockets, FiniteSetTheorems, TLAPS

Events == {"none", "RCVPLUS", "RCVMINUS", "SENDPLUS", "SENDMINUS", "ERROR"}
Kinds == {"r", "w", "e"}

WaitFields == [pc : {"idle", "scan", "inc", "rescan", "wait", "dec", "result"},
               i : 0 .. NumSockets, nready : Int, upto : 0 .. NumSockets,
               timeout : BOOLEAN, sem : Nat, signalled : BOOLEAN]
\* Only a thread on its way out has a negative nready, or counts fewer descriptors
\* than there are.
WaitType == {w \in WaitFields : w.pc # "dec" => w.nready >= 0 /\ w.upto = NumSockets}
CallType == [pc : {"idle", "event", "check", "next"}, conn : Conns \cup {NoOne}, evt : Events,
             s : Fds, has : SUBSET Kinds, scb : Waiters \cup {NoOne}, changed : BOOLEAN]
SocketType == [conn : Conns \cup {NoOne}, rcvevent : Int, sendevent : BOOLEAN,
               errevent : BOOLEAN, select_waiting : Nat]
TypeOKSock ==
  /\ sockets \in [Fds -> SocketType]
  /\ socket \in [Conns -> {n \in Int : n < NumSockets}]
  /\ select_cb_list \in Seq(Waiters)
  /\ wait \in [Waiters -> WaitType]
  /\ caller \in [Callers -> CallType]
  /\ acceptor \in [pc : {"idle", "socket", "events", "done"}, s : Fds, recvevent : Int]
  /\ closer \in Nat
  /\ selsetup \in SelSetups
  /\ \A x \in Callers : caller[x].pc = "event" => caller[x].conn \in Conns /\ caller[x].evt # "none"

\* A thread is in the list exactly while it is on its way into or out of its wait.
IsLinked(t) == \E i \in DOMAIN select_cb_list : select_cb_list[i] = t
ListOfWaiters ==
  /\ \A i, j \in DOMAIN select_cb_list : select_cb_list[i] = select_cb_list[j] => i = j
  /\ \A t \in Waiters : IsLinked(t) <=> wait[t].pc \in {"inc", "rescan", "wait", "dec"}

\* A thread is signalled only while it is in the list, and the signal stays until
\* it waits.
SignalsKept == \A t \in Waiters :
  /\ wait[t].pc \in {"scan", "inc", "rescan", "wait"} /\ wait[t].signalled => wait[t].sem > 0
  /\ wait[t].pc = "scan" => ~wait[t].signalled

\* A descriptor that somebody waits for is not closed.
WaitedOpen ==
  /\ \A t \in Waiters, s \in Fds : wait[t].pc # "idle" /\ Listens(t, s) => Open(s)
  /\ \A s \in Fds : acceptor.pc = "idle" => sockets[s].conn # "b"

\* The threads that select_waiting counts.
CountedAt(s) == {t \in Waiters : /\ Listens(t, s)
                                 /\ \/ wait[t].pc = "inc" /\ s < wait[t].i
                                    \/ wait[t].pc \in {"rescan", "wait"}
                                    \/ wait[t].pc = "dec" /\ wait[t].i <= s /\ s < wait[t].upto}
CountsWaiters == \A s \in Fds : sockets[s].select_waiting = Cardinality(CountedAt(s))

\* A thread that has looked at a descriptor for the last time and found nothing.
Watches(t, s) ==
  /\ Listens(t, s) /\ ~wait[t].signalled
  /\ \/ wait[t].pc = "wait"
     \/ wait[t].pc = "rescan" /\ s < wait[t].i /\ wait[t].nready = 0
     \/ wait[t].pc = "inc" /\ selsetup.kind[t] = "poll" /\ s < wait[t].i /\ wait[t].nready = 0
\* x will come to t with the event e of s.
Follows(t, scb) == \E i, j \in DOMAIN select_cb_list :
  i < j /\ select_cb_list[i] = scb /\ select_cb_list[j] = t
Comes(x, t, s, e) ==
  /\ caller[x].pc \in {"check", "next"} /\ caller[x].s = s /\ e \in caller[x].has
  /\ caller[x].pc = "check" \/ caller[x].changed \/ Follows(t, caller[x].scb)
EventsOnTheWay == \A t \in Waiters, s \in Fds : \A e \in Asks(t, s) \cap Has(sockets[s]) :
  Watches(t, s) => \E x \in Callers : Comes(x, t, s, e)

IInv ==
  /\ TypeOKSock /\ ListOfWaiters /\ SignalsKept /\ WaitedOpen /\ CountsWaiters
  /\ WalksLinked /\ EventsOnTheWay

-----------------------------------------------------------------------------
\* The initial state.
LEMMA InitIInv == InitSock => IInv
<1> SUFFICES ASSUME InitSock PROVE IInv
  OBVIOUS
<1> USE SocketsConstants DEF SocketsConstants
<1>1. TypeOKSock
  BY DEF InitSock, TypeOKSock, Fds, Conns, Callers, Events, Kinds, NoCall, NotWaiting, WaitType, WaitFields,
         CallType, SocketType
<1>2. ListOfWaiters /\ SignalsKept /\ WalksLinked
  BY DEF InitSock, ListOfWaiters, IsLinked, SignalsKept, WalksLinked, NotWaiting, NoCall
<1>3. WaitedOpen
  BY DEF InitSock, WaitedOpen, NotWaiting, Fds
<1>4. CountsWaiters
  <2>1. \A s \in Fds : CountedAt(s) = {}
    BY DEF InitSock, CountedAt, NotWaiting
  <2> QED
    BY <2>1, FS_EmptySet DEF InitSock, CountsWaiters
<1>5. EventsOnTheWay
  BY DEF InitSock, EventsOnTheWay, Watches, NotWaiting
<1> QED
  BY <1>1, <1>2, <1>3, <1>4, <1>5 DEF IInv

SameEvents == \A s \in Fds :
  /\ sockets'[s].conn = sockets[s].conn
  /\ Has(sockets'[s]) = Has(sockets[s])

\* A step of a waiting thread t that does not change the list.
LEMMA WaiterStep ==
  ASSUME IInv, NEW t \in Waiters, NEW w \in WaitType,
         wait' = [wait EXCEPT ![t] = w],
         UNCHANGED <<select_cb_list, caller, socket, acceptor, closer, selsetup>>,
         sockets' \in [Fds -> SocketType],
         SameEvents, CountsWaiters',
         w.pc \in {"inc", "rescan", "wait", "dec"} <=> wait[t].pc \in {"inc", "rescan", "wait", "dec"},
         w.pc \in {"scan", "inc", "rescan", "wait"} /\ w.signalled => w.sem > 0,
         w.pc = "scan" => ~w.signalled,
         w.pc # "idle" => wait[t].pc # "idle" \/ \A s \in Fds : Listens(t, s) => Open(s),
         \A s \in Fds : \A e \in Asks(t, s) \cap Has(sockets[s]) : Watches(t, s)' => Watches(t, s)
  PROVE  IInv'
<1>1. TypeOKSock'
  BY DEF IInv, TypeOKSock
<1>2. ListOfWaiters'
  <2>1. ASSUME NEW u \in Waiters
        PROVE  IsLinked(u)' <=> wait'[u].pc \in {"inc", "rescan", "wait", "dec"}
    <3>1. IsLinked(u)' <=> IsLinked(u)
      BY DEF IsLinked
    <3>2. IsLinked(u) <=> wait[u].pc \in {"inc", "rescan", "wait", "dec"}
      BY DEF IInv, ListOfWaiters
    <3>3. wait'[u] = IF u = t THEN w ELSE wait[u]
      BY DEF IInv, TypeOKSock
    <3> QED
      BY <3>1, <3>2, <3>3
  <2> QED
    BY <2>1 DEF IInv, ListOfWaiters
<1>3. SignalsKept'
  BY DEF IInv, TypeOKSock, SignalsKept, WaitType, WaitFields
<1>4. WaitedOpen'
  <2>1. \A s \in Fds, u \in Waiters : (Open(s)' <=> Open(s)) /\ (Listens(u, s)' <=> Listens(u, s))
    BY DEF Open, Listens, SameEvents
  <2>2. \A u \in Waiters : wait'[u] = IF u = t THEN w ELSE wait[u]
    BY DEF IInv, TypeOKSock
  <2>3. \A u \in Waiters, s \in Fds : wait'[u].pc # "idle" /\ Listens(u, s)' => Open(s)'
    BY <2>1, <2>2 DEF IInv, WaitedOpen
  <2> QED
    BY <2>3 DEF IInv, WaitedOpen, SameEvents
<1>5. WalksLinked'
  BY DEF IInv, WalksLinked
<1>6. EventsOnTheWay'
  <2> SUFFICES ASSUME NEW u \in Waiters, NEW s \in Fds, NEW e \in (Asks(u, s) \cap Has(sockets[s]))',
                      Watches(u, s)'
               PROVE  \E x \in Callers : Comes(x, u, s, e)'
    BY DEF EventsOnTheWay
  <2>1. e \in Asks(u, s) \cap Has(sockets[s])
    BY DEF SameEvents, Asks, Listens
  <2>2. Watches(u, s)
    <3>1. CASE u = t
      BY <3>1, <2>1
    <3>2. CASE u # t
      BY <3>2 DEF IInv, TypeOKSock, Watches, Listens
    <3> QED
      BY <3>1, <3>2
  <2>3. PICK x \in Callers : Comes(x, u, s, e)
    BY <2>1, <2>2 DEF IInv, EventsOnTheWay
  <2>4. Comes(x, u, s, e)'
    BY <2>3 DEF Comes, Follows
  <2> QED
    BY <2>4
<1> QED
  BY <1>1, <1>2, <1>3, <1>4, <1>5, <1>6 DEF IInv

\* The counters of the descriptors stay as long as the threads they count do.
LEMMA SameCounts ==
  ASSUME IInv, sockets' = sockets, \A s \in Fds : CountedAt(s)' = CountedAt(s)
  PROVE  /\ CountsWaiters' /\ SameEvents
         /\ sockets' \in [Fds -> SocketType]
  BY DEF IInv, CountsWaiters, SameEvents, TypeOKSock

\* A thread that enters or leaves its wait.
LEMMA FreshWait ==
  /\ NotWaiting \in WaitType
  /\ \A pc \in {"scan", "result"} : [NotWaiting EXCEPT !.pc = pc] \in WaitType
<1> USE SocketsConstants DEF SocketsConstants
<1>1. NotWaiting \in WaitFields
  BY DEF NotWaiting, WaitFields
<1>2. NotWaiting \in WaitType
  BY <1>1 DEF NotWaiting, WaitType
<1>3. ASSUME NEW pc \in {"scan", "result"} PROVE [NotWaiting EXCEPT !.pc = pc] \in WaitType
  <2>1. [NotWaiting EXCEPT !.pc = pc] \in WaitFields
    BY <1>1 DEF WaitFields
  <2> QED
    BY <2>1 DEF NotWaiting, WaitType
<1> QED
  BY <1>2, <1>3

\* There is a socket, so every index the steps use is a natural number.
LEMMA Sizes == NumSockets \in Nat \ {0}
  BY SocketsConstants DEF SocketsConstants

\* The updates that the steps of a waiting thread make keep the type of its record.
LEMMA WaitUpdate ==
  ASSUME NEW w \in WaitFields, NEW i \in 0 .. NumSockets, NEW n \in Int,
         NEW pc \in {"idle", "scan", "inc", "rescan", "wait", "dec", "result"}
  PROVE  /\ [w EXCEPT !.pc = pc] \in WaitFields
         /\ [w EXCEPT !.i = i] \in WaitFields
         /\ [w EXCEPT !.pc = pc, !.i = i] \in WaitFields
         /\ [w EXCEPT !.pc = pc, !.i = i, !.nready = n] \in WaitFields
<1>1. [w EXCEPT !.pc = pc] \in WaitFields
  BY DEF WaitFields
<1>2. [w EXCEPT !.i = i] \in WaitFields
  BY DEF WaitFields
<1>3. [w EXCEPT !.pc = pc, !.i = i] \in WaitFields
  BY DEF WaitFields
<1>4. [w EXCEPT !.pc = pc, !.i = i, !.nready = n] \in WaitFields
  BY DEF WaitFields
<1> QED
  BY <1>1, <1>2, <1>3, <1>4

\* A thread calls select or poll: it is on no list yet.
LEMMA BeginWaitStep == ASSUME IInv, NEW t \in Waiters, BeginWait(t) PROVE IInv'
<1> DEFINE w == [NotWaiting EXCEPT !.pc = "scan"]
<1> USE SocketsConstants DEF SocketsConstants, BeginWait, SetWait, OtherUnchanged, NotWaiting
<1>1. w \in WaitType
  BY FreshWait
<1>2. wait'[t] = w /\ \A u \in Waiters : u # t => wait'[u] = wait[u]
  BY DEF IInv, TypeOKSock
<1>3. ASSUME NEW s \in Fds PROVE CountedAt(s)' = CountedAt(s)
  BY <1>2 DEF CountedAt, Listens
<1>4. CountsWaiters' /\ SameEvents
  BY <1>3, SameCounts
<1>5. \A s \in Fds : ~Watches(t, s)'
  BY <1>2 DEF Watches
<1> QED
  BY <1>1, <1>3, <1>4, <1>5, SameCounts, WaiterStep

\* A call returns after it has left the list and all its sockets.
LEMMA ReturnStep == ASSUME IInv, NEW t \in Waiters, Return(t) PROVE IInv'
<1> USE SocketsConstants DEF SocketsConstants, Return, SetWait, OtherUnchanged, NotWaiting
<1>1. NotWaiting \in WaitType
  BY FreshWait
<1>2. wait'[t] = NotWaiting /\ \A u \in Waiters : u # t => wait'[u] = wait[u]
  BY DEF IInv, TypeOKSock
<1>3. ASSUME NEW s \in Fds PROVE CountedAt(s)' = CountedAt(s)
  BY <1>2 DEF CountedAt, Listens
<1>5. \A s \in Fds : ~Watches(t, s)'
  BY <1>2 DEF Watches
<1> QED
  BY <1>1, <1>3, <1>5, SameCounts, WaiterStep

\* A scan sees the events of one descriptor as they are, and those of the ones before
\* it have come since with a walk on its way.
LEMMA ScanStep == ASSUME IInv, NEW t \in Waiters, lwip_selscan(t) PROVE IInv'
<1> DEFINE w == Scanned(t)
<1> USE DEF lwip_selscan, SetWait, OtherUnchanged
<1>0. wait[t] \in WaitType
  BY DEF IInv, TypeOKSock
<1>1. /\ w.pc = wait[t].pc /\ w.sem = wait[t].sem /\ w.signalled = wait[t].signalled
      /\ w.i = wait[t].i + 1 /\ w.nready >= wait[t].nready /\ w \in WaitType
      /\ Asks(t, wait[t].i) \cap Has(sockets[wait[t].i]) # {} => w.nready = wait[t].nready + 1
  <2> DEFINE found == IF Asks(t, wait[t].i) \cap Has(sockets[wait[t].i]) # {} THEN 1 ELSE 0
  <2>1. wait[t] \in WaitFields
    BY <1>0 DEF WaitType
  <2>2. found \in {0, 1} /\ (Asks(t, wait[t].i) \cap Has(sockets[wait[t].i]) # {} => found = 1)
    OBVIOUS
  <2>3. w = [wait[t] EXCEPT !.i = @ + 1, !.nready = @ + found]
    BY DEF Scanned
  <2> HIDE DEF found, w
  <2>4. w \in WaitFields
    <3>1. wait[t].i + 1 \in 0 .. NumSockets /\ wait[t].nready + found \in Int
      BY <2>1, <2>2, Sizes DEF WaitFields, Fds
    <3> QED
      BY <2>1, <2>3, <3>1 DEF WaitFields
  <2>5. /\ w.pc = wait[t].pc /\ w.sem = wait[t].sem /\ w.signalled = wait[t].signalled
        /\ w.i = wait[t].i + 1 /\ w.nready = wait[t].nready + found /\ w.upto = wait[t].upto
    BY <2>1, <2>3 DEF WaitFields
  <2> QED
    BY <1>0, <2>1, <2>2, <2>4, <2>5 DEF WaitType, WaitFields
<1>2. wait'[t] = w /\ \A u \in Waiters : u # t => wait'[u] = wait[u]
  BY DEF IInv, TypeOKSock
<1>3. ASSUME NEW s \in Fds PROVE CountedAt(s)' = CountedAt(s)
  BY <1>1, <1>2 DEF CountedAt, Listens
<1>4. ASSUME NEW s \in Fds, NEW e \in Asks(t, s) \cap Has(sockets[s]), Watches(t, s)'
      PROVE  Watches(t, s)
  <2>1. /\ Listens(t, s) /\ ~wait[t].signalled /\ wait[t].pc = "rescan"
        /\ s < wait[t].i + 1 /\ w.nready = 0
    BY <1>1, <1>2, <1>4 DEF Watches, Listens
  <2>2. s # wait[t].i /\ wait[t].nready = 0
    BY <2>1, <1>0, <1>1 DEF WaitType, WaitFields
  <2> QED
    BY <2>1, <2>2, <1>0 DEF Watches, WaitType, WaitFields, Fds
<1>5. /\ w.pc \in {"scan", "inc", "rescan", "wait"} /\ w.signalled => w.sem > 0
      /\ w.pc = "scan" => ~w.signalled
  BY <1>1 DEF IInv, SignalsKept
<1>6. CountsWaiters' /\ SameEvents
  BY <1>3, SameCounts
<1> HIDE DEF w
<1> QED
  BY <1>1, <1>2, <1>3, <1>4, <1>5, SameCounts, WaiterStep DEF w

\* The thread sleeps only if the scan after linking found nothing.
LEMMA SleepStep == ASSUME IInv, NEW t \in Waiters, GoesToSleep(t) PROVE IInv'
<1> USE DEF GoesToSleep, SetWait, OtherUnchanged
<1>0. wait[t] \in WaitType
  BY DEF IInv, TypeOKSock
<1>1. PICK w : /\ wait' = [wait EXCEPT ![t] = w]
               /\ w = IF wait[t].pc = "inc" /\ selsetup.kind[t] = "select"
                      THEN [wait[t] EXCEPT !.pc = "rescan", !.i = 0]
                      ELSE IF wait[t].nready = 0 THEN [wait[t] EXCEPT !.pc = "wait"]
                      ELSE [wait[t] EXCEPT !.pc = "dec", !.i = 0, !.nready = 0]
  OBVIOUS
<1>2. wait'[t] = w /\ \A u \in Waiters : u # t => wait'[u] = wait[u]
  BY <1>1 DEF IInv, TypeOKSock
<1>c. wait[t].pc \in {"inc", "rescan"} /\ wait[t].i = NumSockets
  OBVIOUS
<1>u. UNCHANGED <<sockets, select_cb_list, caller, socket, acceptor, closer, selsetup>>
  OBVIOUS
<1> HIDE DEF GoesToSleep
<1>3. /\ w \in WaitType /\ w.pc \in {"rescan", "wait", "dec"} /\ w.upto = NumSockets
      /\ w.sem = wait[t].sem /\ w.signalled = wait[t].signalled
      /\ w.pc = "dec" => w.i = 0
      /\ w.pc = "rescan" => w.i = 0
      /\ w.pc = "wait" => /\ wait[t].nready = 0
                          /\ wait[t].pc = "rescan" \/ selsetup.kind[t] # "select"
  <2>1. wait[t] \in WaitFields /\ wait[t].upto = NumSockets
    BY <1>0, <1>c DEF WaitType
  <2>2. w \in WaitFields
    <3>1. 0 \in 0 .. NumSockets /\ 0 \in Int
      BY Sizes
    <3>2. [wait[t] EXCEPT !.pc = "rescan", !.i = 0] \in WaitFields
      BY <2>1, <3>1, WaitUpdate, Zenon
    <3>3. [wait[t] EXCEPT !.pc = "wait"] \in WaitFields
      BY <2>1, <3>1, WaitUpdate, Zenon
    <3>4. [wait[t] EXCEPT !.pc = "dec", !.i = 0, !.nready = 0] \in WaitFields
      BY <2>1, <3>1, WaitUpdate, Zenon
    <3> QED
      BY <1>1, <3>2, <3>3, <3>4
  <2>3. /\ w.upto = wait[t].upto /\ w.sem = wait[t].sem /\ w.signalled = wait[t].signalled
        /\ \/ w.pc = "rescan" /\ w.i = 0 /\ w.nready = wait[t].nready
           \/ /\ w.pc = "wait" /\ w.nready = wait[t].nready /\ w.nready = 0
              /\ wait[t].pc = "rescan" \/ selsetup.kind[t] # "select"
           \/ w.pc = "dec" /\ w.i = 0
    BY <1>1, <1>c, <2>1 DEF WaitFields
  <2> QED
    BY <1>0, <1>c, <2>1, <2>2, <2>3 DEF WaitType
<1>4. ASSUME NEW s \in Fds PROVE CountedAt(s)' = CountedAt(s)
  <2>1. ASSUME NEW u \in Waiters PROVE u \in CountedAt(s)' <=> u \in CountedAt(s)
    <3>1. CASE u = t
      BY <3>1, <1>2, <1>3, <1>c, <1>u, Sizes DEF CountedAt, Listens, Fds
    <3>2. CASE u # t
      BY <3>2, <1>2, <1>u DEF CountedAt, Listens
    <3> QED
      BY <3>1, <3>2
  <2> QED
    BY <2>1 DEF CountedAt
<1>5. ASSUME NEW s \in Fds, Watches(t, s)' PROVE Watches(t, s)
  <2>1. selsetup.kind[t] \in {"select", "poll"}
    BY SocketsConstants DEF SocketsConstants, IInv, TypeOKSock
  <2>2. Listens(t, s) /\ ~wait[t].signalled /\ w.pc = "wait"
    BY <1>2, <1>3, <1>5, <1>u, Sizes DEF Watches, Listens, Fds
  <2> QED
    BY <2>1, <2>2, <1>3, <1>c, Sizes DEF Watches, Fds
<1>6. w.pc \in {"scan", "inc", "rescan", "wait"} /\ w.signalled => w.sem > 0
  BY <1>3, <1>c DEF IInv, SignalsKept
<1> QED
  BY <1>1, <1>3, <1>4, <1>5, <1>6, <1>c, <1>u, SameCounts, WaiterStep

\* A thread goes on only after a token or its timeout.
LEMMA SemWaitStep == ASSUME IInv, NEW t \in Waiters, sys_arch_sem_wait(t) PROVE IInv'
<1> USE DEF sys_arch_sem_wait, SetWait, OtherUnchanged
<1>0. wait[t] \in WaitFields /\ wait[t].pc = "wait" /\ wait[t].upto = NumSockets
  BY DEF IInv, TypeOKSock, WaitType
<1>1. PICK w : /\ wait' = [wait EXCEPT ![t] = w]
               /\ \/ w = [wait[t] EXCEPT !.sem = @ - 1, !.pc = "dec", !.i = 0] /\ wait[t].sem > 0
                  \/ w = [wait[t] EXCEPT !.timeout = TRUE, !.pc = "dec", !.i = 0]
  OBVIOUS
<1>u. UNCHANGED <<sockets, select_cb_list, caller, socket, acceptor, closer, selsetup>>
  OBVIOUS
<1> HIDE DEF sys_arch_sem_wait
<1>2. wait'[t] = w /\ \A u \in Waiters : u # t => wait'[u] = wait[u]
  BY <1>1 DEF IInv, TypeOKSock
<1>3. w.pc = "dec" /\ w.i = 0 /\ w.upto = NumSockets
  BY <1>0, <1>1 DEF WaitFields
<1>4. w \in WaitType
  <2>1. 0 \in 0 .. NumSockets
    BY Sizes
  <2>2. CASE w = [wait[t] EXCEPT !.sem = @ - 1, !.pc = "dec", !.i = 0] /\ wait[t].sem > 0
    <3>1. wait[t].sem - 1 \in Nat
      BY <1>0, <2>2 DEF WaitFields
    <3> QED
      BY <1>0, <1>3, <2>1, <2>2, <3>1 DEF WaitFields, WaitType
  <2>3. CASE w = [wait[t] EXCEPT !.timeout = TRUE, !.pc = "dec", !.i = 0]
    BY <1>0, <1>3, <2>1, <2>3 DEF WaitFields, WaitType
  <2> QED
    BY <1>1, <2>2, <2>3
<1>5. ASSUME NEW s \in Fds PROVE CountedAt(s)' = CountedAt(s)
  <2>1. ASSUME NEW u \in Waiters PROVE u \in CountedAt(s)' <=> u \in CountedAt(s)
    <3>1. CASE u = t
      BY <3>1, <1>0, <1>2, <1>3, <1>u, Sizes DEF CountedAt, Listens, Fds
    <3>2. CASE u # t
      BY <3>2, <1>2, <1>u DEF CountedAt, Listens
    <3> QED
      BY <3>1, <3>2
  <2> QED
    BY <2>1 DEF CountedAt
<1>6. \A s \in Fds : ~Watches(t, s)'
  BY <1>2, <1>3 DEF Watches
<1> QED
  BY <1>0, <1>1, <1>3, <1>4, <1>5, <1>6, <1>u, SameCounts, WaiterStep

\* A change of select_waiting is not an event.
LEMMA CounterMoves ==
  ASSUME IInv, NEW s \in Fds,
         \/ sockets' = sockets
         \/ sockets' = [sockets EXCEPT ![s].select_waiting = @ + 1]
         \/ sockets[s].select_waiting > 0 /\ sockets' = [sockets EXCEPT ![s].select_waiting = @ - 1]
  PROVE  /\ SameEvents
         /\ sockets' \in [Fds -> SocketType]
<1> USE DEF SocketType
<1>1. sockets \in [Fds -> SocketType]
  BY DEF IInv, TypeOKSock
<1>2. PICK n \in Nat : sockets' = [sockets EXCEPT ![s].select_waiting = n]
  <2>1. CASE sockets' = sockets
    <3>1. sockets = [sockets EXCEPT ![s].select_waiting = sockets[s].select_waiting]
      BY <1>1
    <3> QED
      BY <1>1, <2>1, <3>1
  <2>2. CASE sockets' = [sockets EXCEPT ![s].select_waiting = @ + 1]
    <3>1. sockets[s].select_waiting + 1 \in Nat
      BY <1>1
    <3> QED
      BY <3>1, <2>2, Zenon
  <2>3. CASE /\ sockets[s].select_waiting > 0
             /\ sockets' = [sockets EXCEPT ![s].select_waiting = @ - 1]
    <3>1. sockets[s].select_waiting - 1 \in Nat
      BY <1>1, <2>3
    <3> QED
      BY <3>1, <2>3, Zenon
  <2> QED
    BY <2>1, <2>2, <2>3
<1>3. ASSUME NEW r \in Fds
      PROVE  /\ sockets'[r] \in SocketType /\ sockets'[r].conn = sockets[r].conn
             /\ sockets'[r].rcvevent = sockets[r].rcvevent
             /\ sockets'[r].sendevent = sockets[r].sendevent
             /\ sockets'[r].errevent = sockets[r].errevent
  BY <1>1, <1>2
<1>4. sockets' \in [Fds -> SocketType]
  BY <1>1, <1>2, <1>3
<1> QED
  BY <1>3, <1>4 DEF SameEvents, Has

\* select_waiting of one more socket is counted up.
LEMMA AddWaiterStep == ASSUME IInv, NEW t \in Waiters, AddWaiter(t) PROVE IInv'
<1> DEFINE s == wait[t].i
           poll == selsetup.kind[t] = "poll"
           full == Listens(t, s) /\ sockets[s].select_waiting = selsetup.selwait_max
           added == Listens(t, s) /\ sockets[s].select_waiting # selsetup.selwait_max
<1>0. /\ wait[t] \in WaitFields /\ wait[t].pc = "inc" /\ wait[t].upto = NumSockets
      /\ wait[t].nready >= 0 /\ s \in Fds
  BY DEF AddWaiter, IInv, TypeOKSock, WaitType
<1>t. selsetup.kind[t] \in {"select", "poll"} /\ selsetup.selwait_max \in Nat
  BY SocketsConstants DEF SocketsConstants, IInv, TypeOKSock
<1>1. PICK w : /\ wait' = [wait EXCEPT ![t] = w]
               /\ w = IF full THEN [wait[t] EXCEPT !.pc = "dec", !.i = 0, !.nready = -1,
                                                   !.upto = IF poll THEN NumSockets ELSE s]
                      ELSE IF added /\ poll THEN Scanned(t) ELSE [wait[t] EXCEPT !.i = @ + 1]
  BY DEF AddWaiter, SetWait
<1>2. sockets' = IF added THEN [sockets EXCEPT ![s].select_waiting = @ + 1] ELSE sockets
  BY DEF AddWaiter
<1>u. UNCHANGED <<select_cb_list, caller, socket, acceptor, closer, selsetup>>
  BY DEF AddWaiter, OtherUnchanged
<1> HIDE DEF full, added, poll, s
<1>3. wait'[t] = w /\ \A u \in Waiters : u # t => wait'[u] = wait[u]
  BY <1>1 DEF IInv, TypeOKSock
<1>4. IsFiniteSet(Waiters) /\ IsFiniteSet(CountedAt(s)) /\ t \notin CountedAt(s)
  <2>1. IsFiniteSet(Waiters)
    BY SocketsConstants DEF SocketsConstants
  <2>2. CountedAt(s) \in SUBSET Waiters
    BY DEF CountedAt
  <2> QED
    BY <2>1, <2>2, <1>0, FS_Subset DEF CountedAt, s, Fds
<1>5. full => ~poll
  <2>1. CountedAt(s) \in SUBSET (Waiters \ {t})
    BY <1>4 DEF CountedAt
  <2>2. Cardinality(CountedAt(s)) <= Cardinality(Waiters) - 1
    <3>1. IsFiniteSet(Waiters \ {t}) /\ Cardinality(Waiters \ {t}) = Cardinality(Waiters) - 1
      BY <1>4, FS_RemoveElement
    <3>2. Cardinality(CountedAt(s)) <= Cardinality(Waiters \ {t})
      BY <2>1, <3>1, FS_Subset
    <3> QED
      BY <3>1, <3>2
  <2>3. Cardinality(Waiters) \in Nat
    BY <1>4, FS_CardinalityType
  <2>4. Cardinality(CountedAt(s)) \in Nat
    BY <1>4, FS_CardinalityType
  <2>5. sockets[s].select_waiting = Cardinality(CountedAt(s))
    BY <1>0 DEF IInv, CountsWaiters
  <2>6. poll => Cardinality(Waiters) <= selsetup.selwait_max
    BY SocketsConstants DEF SocketsConstants, IInv, TypeOKSock, poll
  <2> QED
    BY <2>2, <2>3, <2>4, <2>5, <2>6, <1>t DEF full
<1>6. /\ w \in WaitFields /\ w.sem = wait[t].sem /\ w.signalled = wait[t].signalled
      /\ full => w.pc = "dec" /\ w.i = 0 /\ w.upto = s
      /\ ~full => w.pc = "inc" /\ w.i = s + 1 /\ w.upto = NumSockets /\ w.nready >= wait[t].nready
      /\ ~full /\ poll /\ Listens(t, s) /\ Asks(t, s) \cap Has(sockets[s]) # {} => w.nready > 0
  <2>1. CASE full
    <3>1. w = [wait[t] EXCEPT !.pc = "dec", !.i = 0, !.nready = -1, !.upto = s]
      BY <2>1, <1>1, <1>5
    <3>2. 0 \in 0 .. NumSockets /\ -1 \in Int /\ s \in 0 .. NumSockets
      BY <1>0, Sizes DEF Fds
    <3>3. w \in WaitFields
      BY <3>1, <3>2, <1>0 DEF WaitFields
    <3> QED
      BY <3>1, <3>3, <1>0, <2>1 DEF WaitFields
  <2>2. CASE ~full
    <3> DEFINE found == IF Asks(t, s) \cap Has(sockets[s]) # {} THEN 1 ELSE 0
               n == IF added /\ poll THEN found ELSE 0
    <3>1. w = [wait[t] EXCEPT !.i = s + 1, !.nready = wait[t].nready + n]
      <4>1. CASE added /\ poll
        BY <4>1, <2>2, <1>1 DEF Scanned, s
      <4>2. CASE ~(added /\ poll)
        <5>1. wait[t].nready + n = wait[t].nready
          BY <4>2, <1>0 DEF WaitFields
        <5>2. w = [wait[t] EXCEPT !.i = s + 1]
          BY <4>2, <2>2, <1>1 DEF s
        <5> QED
          BY <5>1, <5>2, <1>0 DEF WaitFields
      <4> QED
        BY <4>1, <4>2
    <3>2. n \in {0, 1} /\ (poll /\ added /\ Asks(t, s) \cap Has(sockets[s]) # {} => n = 1)
      OBVIOUS
    <3> HIDE DEF n
    <3>3. s + 1 \in 0 .. NumSockets /\ wait[t].nready + n \in Int
      BY <1>0, <3>2, Sizes DEF Fds, WaitFields
    <3>4. w \in WaitFields
      BY <3>1, <3>3, <1>0 DEF WaitFields
    <3>5. /\ w.sem = wait[t].sem /\ w.signalled = wait[t].signalled /\ w.pc = "inc"
          /\ w.i = s + 1 /\ w.upto = NumSockets /\ w.nready = wait[t].nready + n
      BY <3>1, <1>0 DEF WaitFields
    <3> QED
      BY <3>2, <3>4, <3>5, <2>2, <1>0 DEF WaitFields, full, added
  <2> QED
    BY <2>1, <2>2
<1>7. w \in WaitType
  BY <1>0, <1>6 DEF WaitType, WaitFields
<1>8. CountsWaiters'
  <2> SUFFICES ASSUME NEW r \in Fds
               PROVE  sockets'[r].select_waiting = Cardinality(CountedAt(r)')
    BY DEF CountsWaiters
  <2>0. sockets[r].select_waiting = Cardinality(CountedAt(r))
    BY DEF IInv, CountsWaiters
  <2>1. ASSUME NEW u \in Waiters, u # t PROVE u \in CountedAt(r)' <=> u \in CountedAt(r)
    BY <2>1, <1>3, <1>u DEF CountedAt, Listens
  <2>2. CASE added /\ r = s
    <3>1. t \in CountedAt(r)'
      BY <2>2, <1>0, <1>3, <1>6, <1>u DEF CountedAt, Listens, added, full, Fds
    <3>2. CountedAt(r)' = CountedAt(s) \cup {t}
      BY <2>1, <2>2, <3>1 DEF CountedAt
    <3>3. Cardinality(CountedAt(r)') = Cardinality(CountedAt(s)) + 1
      BY <3>2, <1>4, FS_AddElement
    <3> QED
      BY <2>0, <2>2, <3>3, <1>2 DEF IInv, TypeOKSock
  <2>3. CASE ~(added /\ r = s)
    <3>1. t \in CountedAt(r)' <=> t \in CountedAt(r)
      <4>1. t \in CountedAt(r) <=> Listens(t, r) /\ r < s
        BY <1>0 DEF CountedAt, s
      <4>2. t \in CountedAt(r)' <=> Listens(t, r) /\ r < (IF full THEN s ELSE s + 1)
        BY <1>0, <1>3, <1>6, <1>u DEF CountedAt, Listens, Fds
      <4> QED
        BY <4>1, <4>2, <2>3, <1>0 DEF full, added, Fds
    <3>2. CountedAt(r)' = CountedAt(r)
      BY <2>1, <3>1 DEF CountedAt
    <3>3. sockets'[r].select_waiting = sockets[r].select_waiting
      BY <1>2, <2>3 DEF IInv, TypeOKSock
    <3> QED
      BY <2>0, <3>2, <3>3
  <2> QED
    BY <2>2, <2>3
<1>9. /\ SameEvents
      /\ sockets' \in [Fds -> SocketType]
  <2>1. sockets' = sockets \/ sockets' = [sockets EXCEPT ![s].select_waiting = @ + 1]
    BY <1>2
  <2> QED
    BY <2>1, <1>0, CounterMoves
<1>10. ASSUME NEW r \in Fds, NEW e \in Asks(t, r) \cap Has(sockets[r]), Watches(t, r)'
       PROVE  Watches(t, r)
  <2>1. /\ Listens(t, r) /\ ~wait[t].signalled /\ poll /\ ~full
        /\ r < s + 1 /\ w.nready = 0
    BY <1>3, <1>6, <1>10, <1>u DEF Watches, Listens, poll
  <2>2. r # s /\ wait[t].nready = 0
    BY <2>1, <1>0, <1>6 DEF WaitFields
  <2> QED
    BY <2>1, <2>2, <1>0 DEF Watches, Fds, s, poll
<1>11. /\ w.pc \in {"scan", "inc", "rescan", "wait"} /\ w.signalled => w.sem > 0
       /\ w.pc # "scan" /\ w.pc \in {"inc", "dec"}
  BY <1>0, <1>6 DEF IInv, SignalsKept
<1> QED
  BY <1>0, <1>1, <1>7, <1>8, <1>9, <1>10, <1>11, <1>u, WaiterStep

\* select_waiting of one more socket is counted down, and was not zero.
LEMMA RemoveWaiterStep == ASSUME IInv, NEW t \in Waiters, RemoveWaiter(t) PROVE IInv'
<1> DEFINE s == wait[t].i
           w == [wait[t] EXCEPT !.i = @ + 1]
<1>0. wait[t] \in WaitFields /\ wait[t].pc = "dec" /\ s < wait[t].upto /\ s \in Fds
  BY Sizes DEF RemoveWaiter, IInv, TypeOKSock, WaitType, WaitFields, Fds
<1>1. wait' = [wait EXCEPT ![t] = w]
  BY DEF RemoveWaiter, SetWait
<1>2. sockets' = IF Listens(t, s) /\ sockets[s].select_waiting > 0
                 THEN [sockets EXCEPT ![s].select_waiting = @ - 1] ELSE sockets
  BY DEF RemoveWaiter
<1>u. UNCHANGED <<select_cb_list, caller, socket, acceptor, closer, selsetup>>
  BY DEF RemoveWaiter, OtherUnchanged
<1>3. w \in WaitType /\ w.pc = "dec" /\ w.i = s + 1 /\ w.upto = wait[t].upto
  <2>1. s + 1 \in 0 .. NumSockets
    BY <1>0, Sizes DEF Fds
  <2>2. w \in WaitFields
    BY <1>0, <2>1 DEF WaitFields
  <2> QED
    BY <1>0, <2>2 DEF WaitType, WaitFields
<1>4. wait'[t] = w /\ \A u \in Waiters : u # t => wait'[u] = wait[u]
  BY <1>1 DEF IInv, TypeOKSock
<1> HIDE DEF s, w
<1>5. CountsWaiters'
  <2> SUFFICES ASSUME NEW r \in Fds
               PROVE  sockets'[r].select_waiting = Cardinality(CountedAt(r)')
    BY DEF CountsWaiters
  <2>0. sockets[r].select_waiting = Cardinality(CountedAt(r))
    BY DEF IInv, CountsWaiters
  <2>1. ASSUME NEW u \in Waiters, u # t PROVE u \in CountedAt(r)' <=> u \in CountedAt(r)
    BY <2>1, <1>4, <1>u DEF CountedAt, Listens
  <2>2. t \in CountedAt(r) <=> Listens(t, r) /\ s <= r /\ r < wait[t].upto
    BY <1>0 DEF CountedAt, s
  <2>3. t \in CountedAt(r)' <=> Listens(t, r) /\ s + 1 <= r /\ r < wait[t].upto
    BY <1>3, <1>4, <1>u DEF CountedAt, Listens
  <2>4. IsFiniteSet(CountedAt(r))
    <3>1. CountedAt(r) \in SUBSET Waiters
      BY DEF CountedAt
    <3> QED
      BY <3>1, SocketsConstants, FS_Subset DEF SocketsConstants
  <2>5. CASE Listens(t, s) /\ r = s
    <3>1. t \in CountedAt(r) /\ CountedAt(r)' = CountedAt(r) \ {t}
      BY <2>1, <2>2, <2>3, <2>5, <1>0 DEF CountedAt, Fds
    <3>2. Cardinality(CountedAt(r)') = Cardinality(CountedAt(r)) - 1
      BY <3>1, <2>4, <2>5, FS_RemoveElement
    <3>3. Cardinality(CountedAt(r)) # 0
      BY <3>1, <2>4, <2>5, FS_EmptySet
    <3>4. sockets[s].select_waiting > 0
      BY <2>0, <2>5, <3>3 DEF IInv, TypeOKSock, SocketType
    <3> QED
      BY <2>0, <2>5, <3>2, <3>4, <1>2 DEF IInv, TypeOKSock, SocketType
  <2>6. CASE ~(Listens(t, s) /\ r = s)
    <3>1. t \in CountedAt(r)' <=> t \in CountedAt(r)
      BY <2>2, <2>3, <2>6, <1>0 DEF Fds
    <3>2. CountedAt(r)' = CountedAt(r)
      BY <2>1, <3>1 DEF CountedAt
    <3>3. sockets'[r].select_waiting = sockets[r].select_waiting
      BY <1>2, <2>6 DEF IInv, TypeOKSock
    <3> QED
      BY <2>0, <3>2, <3>3
  <2> QED
    BY <2>5, <2>6
<1>6. /\ SameEvents
      /\ sockets' \in [Fds -> SocketType]
  BY <1>0, <1>2, CounterMoves
<1>7. \A r \in Fds : ~Watches(t, r)'
  BY <1>3, <1>4 DEF Watches
<1> QED
  BY <1>0, <1>1, <1>3, <1>5, <1>6, <1>7, <1>u, WaiterStep

-----------------------------------------------------------------------------
\* A step of a waiting thread t that changes the list: whoever walks the list starts
\* again.
LEMMA RelinkStep ==
  ASSUME IInv, NEW t \in Waiters, NEW w \in WaitType,
         wait' = [wait EXCEPT ![t] = w], wait[t].pc # "idle",
         Relink(select_cb_list'), select_cb_list' \in Seq(Waiters), ListOfWaiters',
         UNCHANGED <<sockets, socket, acceptor, closer, selsetup>>,
         \A s \in Fds : CountedAt(s)' = CountedAt(s),
         ~w.signalled \/ (wait[t].pc = "scan" /\ w.signalled = wait[t].signalled),
         \A s \in Fds : ~Watches(t, s)'
  PROVE  IInv'
<1>1. \A x \in Callers : /\ caller'[x].changed /\ caller'[x].pc = caller[x].pc
                         /\ caller'[x].s = caller[x].s /\ caller'[x].has = caller[x].has
                         /\ caller'[x].conn = caller[x].conn /\ caller'[x].evt = caller[x].evt
  BY DEF Relink, IInv, TypeOKSock, CallType
<1>2. \A u \in Waiters : wait'[u] = IF u = t THEN w ELSE wait[u]
  BY DEF IInv, TypeOKSock
<1>3. TypeOKSock'
  <2>1. wait' \in [Waiters -> WaitType]
    BY DEF IInv, TypeOKSock
  <2>2. caller' \in [Callers -> CallType]
    BY DEF Relink, IInv, TypeOKSock, CallType
  <2> QED
    BY <1>1, <2>1, <2>2 DEF IInv, TypeOKSock
<1>4. SignalsKept'
  BY <1>2 DEF IInv, SignalsKept
<1>5. WaitedOpen'
  <2>1. \A s \in Fds, u \in Waiters : (Open(s)' <=> Open(s)) /\ (Listens(u, s)' <=> Listens(u, s))
    BY DEF Open, Listens
  <2>2. \A u \in Waiters, s \in Fds : wait'[u].pc # "idle" /\ Listens(u, s)' => Open(s)'
    BY <1>2, <2>1 DEF IInv, WaitedOpen
  <2> QED
    BY <2>2 DEF IInv, WaitedOpen
<1>6. CountsWaiters'
  BY SameCounts
<1>7. WalksLinked'
  BY <1>1 DEF WalksLinked
<1>8. EventsOnTheWay'
  <2> SUFFICES ASSUME NEW u \in Waiters, NEW s \in Fds, NEW e \in (Asks(u, s) \cap Has(sockets[s]))',
                      Watches(u, s)'
               PROVE  \E x \in Callers : Comes(x, u, s, e)'
    BY DEF EventsOnTheWay
  <2>1. e \in Asks(u, s) \cap Has(sockets[s])
    BY DEF Asks, Listens
  <2>2. u # t
    OBVIOUS
  <2>3. Watches(u, s)
    BY <1>2, <2>2 DEF Watches, Listens
  <2>4. PICK x \in Callers : Comes(x, u, s, e)
    BY <2>1, <2>3 DEF IInv, EventsOnTheWay
  <2>5. Comes(x, u, s, e)'
    BY <2>4, <1>1 DEF Comes
  <2> QED
    BY <2>5
<1> QED
  BY <1>3, <1>4, <1>5, <1>6, <1>7, <1>8 DEF IInv

\* The thread enters select_cb_list at its head; walks under way start again.
LEMMA LinkStep == ASSUME IInv, NEW t \in Waiters, lwip_link_select_cb(t) PROVE IInv'
<1>0. /\ wait[t] \in WaitType /\ wait[t].pc = "scan" /\ select_cb_list \in Seq(Waiters)
      /\ wait[t] \in WaitFields /\ wait[t].upto = NumSockets /\ wait[t].nready >= 0
  BY DEF lwip_link_select_cb, IInv, TypeOKSock, WaitType
<1>u. UNCHANGED <<sockets, socket, acceptor, closer, selsetup>>
  BY DEF lwip_link_select_cb, OtherUnchanged
<1>1. CASE wait[t].nready > 0
  <2>1. /\ wait' = [wait EXCEPT ![t] = NotWaiting] /\ UNCHANGED <<select_cb_list, caller>>
    BY <1>1 DEF lwip_link_select_cb, SetWait
  <2>2. NotWaiting \in WaitType /\ NotWaiting.pc = "idle"
    BY FreshWait DEF NotWaiting
  <2>3. wait'[t] = NotWaiting /\ \A u \in Waiters : u # t => wait'[u] = wait[u]
    BY <2>1 DEF IInv, TypeOKSock
  <2>4. ASSUME NEW s \in Fds PROVE CountedAt(s)' = CountedAt(s)
    BY <2>2, <2>3, <1>0, <1>u DEF CountedAt, Listens
  <2>5. \A s \in Fds : ~Watches(t, s)'
    BY <2>2, <2>3 DEF Watches
  <2> QED
    BY <2>1, <2>2, <2>4, <2>5, <1>0, <1>u, SameCounts, WaiterStep
<1>2. CASE ~(wait[t].nready > 0)
  <2> DEFINE w == [wait[t] EXCEPT !.pc = "inc", !.i = 0]
             L == <<t>> \o select_cb_list
  <2>1. wait' = [wait EXCEPT ![t] = w] /\ Relink(L) /\ select_cb_list' = L
    BY <1>2 DEF lwip_link_select_cb, SetWait, Relink
  <2>2. w \in WaitType /\ w.pc = "inc" /\ w.i = 0 /\ w.signalled = wait[t].signalled
    <3>1. 0 \in 0 .. NumSockets /\ 0 \in Int
      BY Sizes
    <3>2. w \in WaitFields
      BY <3>1, <1>0, WaitUpdate
    <3> QED
      BY <1>0, <3>2 DEF WaitType, WaitFields
  <2>3. wait'[t] = w /\ \A u \in Waiters : u # t => wait'[u] = wait[u]
    BY <2>1 DEF IInv, TypeOKSock
  <2> HIDE DEF w
  <2>4. /\ L \in Seq(Waiters) /\ Len(L) = Len(select_cb_list) + 1 /\ L[1] = t
        /\ \A i \in 2 .. Len(L) : i - 1 \in DOMAIN select_cb_list /\ L[i] = select_cb_list[i - 1]
    BY <1>0
  <2>5. \A i \in DOMAIN select_cb_list : L[i + 1] = select_cb_list[i] /\ i + 1 \in DOMAIN L
    BY <1>0
  <2> HIDE DEF L
  <2>6. \A i \in DOMAIN select_cb_list : select_cb_list[i] # t
    BY <1>0 DEF IInv, ListOfWaiters, IsLinked
  <2>7. ListOfWaiters'
    <3>1. \A i, j \in DOMAIN L : L[i] = L[j] => i = j
      BY <2>4, <2>6 DEF IInv, ListOfWaiters
    <3>2. ASSUME NEW u \in Waiters, u # t PROVE IsLinked(u)' <=> IsLinked(u)
      BY <2>1, <2>4, <2>5, <3>2 DEF IsLinked
    <3>3. IsLinked(t)'
      BY <2>1, <2>4 DEF IsLinked
    <3> QED
      BY <2>1, <2>2, <2>3, <3>1, <3>2, <3>3 DEF IInv, ListOfWaiters
  <2>8. ASSUME NEW s \in Fds PROVE CountedAt(s)' = CountedAt(s)
    BY <2>2, <2>3, <1>0, <1>u, Sizes DEF CountedAt, Listens, Fds
  <2>9. \A s \in Fds : ~Watches(t, s)'
    BY <2>2, <2>3, Sizes DEF Watches, Fds
  <2> QED
    BY <2>1, <2>2, <2>4, <2>7, <2>8, <2>9, <1>0, <1>u, RelinkStep
<1> QED
  BY <1>1, <1>2

\* The thread leaves the list; walks that may stand at it start again.
LEMMA UnlinkStep == ASSUME IInv, NEW t \in Waiters, lwip_unlink_select_cb(t) PROVE IInv'
<1>0. /\ wait[t].pc = "dec" /\ wait[t].i = wait[t].upto /\ select_cb_list \in Seq(Waiters)
      /\ wait[t] \in WaitFields
  BY DEF lwip_unlink_select_cb, IInv, TypeOKSock, WaitType
<1>u. UNCHANGED <<sockets, socket, acceptor, closer, selsetup>>
  BY DEF lwip_unlink_select_cb, OtherUnchanged
<1>1. PICK w \in WaitType : /\ wait' = [wait EXCEPT ![t] = w] /\ w.pc \in {"idle", "result"}
                            /\ ~w.signalled
  <2>1. \/ wait' = [wait EXCEPT ![t] = NotWaiting]
        \/ wait' = [wait EXCEPT ![t] = [NotWaiting EXCEPT !.pc = "result"]]
    BY DEF lwip_unlink_select_cb, SetWait
  <2>2. NotWaiting.pc = "idle" /\ ~NotWaiting.signalled
    BY DEF NotWaiting
  <2>3. /\ [NotWaiting EXCEPT !.pc = "result"].pc = "result"
        /\ ~[NotWaiting EXCEPT !.pc = "result"].signalled
    BY DEF NotWaiting
  <2> QED
    BY <2>1, <2>2, <2>3, FreshWait
<1>2. wait'[t] = w /\ \A u \in Waiters : u # t => wait'[u] = wait[u]
  BY <1>1 DEF IInv, TypeOKSock
<1>3. PICK k \in DOMAIN select_cb_list :
        /\ select_cb_list[k] = t
        /\ Unlinked(t) = [i \in 1 .. Len(select_cb_list) - 1 |->
                            select_cb_list[IF i < k THEN i ELSE i + 1]]
  BY <1>0 DEF IInv, ListOfWaiters, IsLinked, Unlinked
<1> DEFINE L == Unlinked(t)
<1>4. Relink(L) /\ select_cb_list' = L
  BY DEF lwip_unlink_select_cb, Relink
<1>5. /\ L \in Seq(Waiters) /\ Len(L) = Len(select_cb_list) - 1
      /\ \A i \in 1 .. Len(L) : L[i] = IF i < k THEN select_cb_list[i] ELSE select_cb_list[i + 1]
  <2>1. /\ k \in 1 .. Len(select_cb_list) /\ Len(select_cb_list) \in Nat
        /\ \A i \in 1 .. Len(select_cb_list) : select_cb_list[i] \in Waiters
    BY <1>0
  <2>2. L = [i \in 1 .. Len(select_cb_list) - 1 |-> select_cb_list[IF i < k THEN i ELSE i + 1]]
    BY <1>3
  <2>3. \A i \in 1 .. Len(select_cb_list) - 1 : (IF i < k THEN i ELSE i + 1) \in 1 .. Len(select_cb_list)
    BY <2>1
  <2>4. L \in [1 .. Len(select_cb_list) - 1 -> Waiters] /\ Len(select_cb_list) - 1 \in Nat
    BY <2>1, <2>2, <2>3
  <2> HIDE DEF L
  <2>5. L \in Seq(Waiters) /\ Len(L) = Len(select_cb_list) - 1
    BY <2>4
  <2> QED
    BY <2>1, <2>2, <2>5
<1> HIDE DEF L
<1>6. ListOfWaiters'
  <2>0. /\ k \in 1 .. Len(select_cb_list) /\ Len(select_cb_list) \in Nat
        /\ DOMAIN L = 1 .. Len(L) /\ DOMAIN select_cb_list = 1 .. Len(select_cb_list)
    BY <1>0, <1>5
  <2>1. \A i, j \in DOMAIN select_cb_list : select_cb_list[i] = select_cb_list[j] => i = j
    BY DEF IInv, ListOfWaiters
  <2>2. ASSUME NEW i \in DOMAIN L
        PROVE  \E j \in DOMAIN select_cb_list : j # k /\ L[i] = select_cb_list[j]
    <3>1. CASE i < k
      BY <2>0, <3>1, <1>5
    <3>2. CASE ~(i < k)
      BY <2>0, <3>2, <1>5
    <3> QED
      BY <3>1, <3>2
  <2>3. ASSUME NEW i \in DOMAIN L, NEW j \in DOMAIN L, L[i] = L[j] PROVE i = j
    BY <2>0, <2>1, <2>3, <1>5
  <2>4. ASSUME NEW u \in Waiters, u # t, NEW j \in DOMAIN select_cb_list, select_cb_list[j] = u
        PROVE  \E i \in DOMAIN L : L[i] = u
    <3>1. j # k
      BY <1>3, <2>4
    <3>2. CASE j < k
      BY <2>0, <2>4, <3>2, <1>5
    <3>3. CASE j > k
      <4>1. j - 1 \in DOMAIN L /\ L[j - 1] = select_cb_list[j]
        BY <2>0, <3>3, <1>5
      <4> QED
        BY <2>4, <4>1
    <3> QED
      BY <2>0, <3>1, <3>2, <3>3
  <2>5. ASSUME NEW u \in Waiters, u # t PROVE IsLinked(u)' <=> IsLinked(u)
    BY <2>2, <2>4, <2>5, <1>4 DEF IsLinked
  <2>6. ~IsLinked(t)'
    BY <2>1, <2>2, <1>3, <1>4 DEF IsLinked
  <2>7. \A i, j \in DOMAIN select_cb_list' : select_cb_list'[i] = select_cb_list'[j] => i = j
    BY <2>3, <1>4
  <2>8. ASSUME NEW u \in Waiters
        PROVE  IsLinked(u)' <=> wait'[u].pc \in {"inc", "rescan", "wait", "dec"}
    <3>1. CASE u = t
      BY <3>1, <2>6, <1>1, <1>2
    <3>2. CASE u # t
      BY <3>2, <2>5, <1>2 DEF IInv, ListOfWaiters
    <3> QED
      BY <3>1, <3>2
  <2> QED
    BY <2>7, <2>8 DEF ListOfWaiters
<1>7. ASSUME NEW s \in Fds PROVE CountedAt(s)' = CountedAt(s)
  <2>1. t \notin CountedAt(s)
    BY <1>0 DEF CountedAt, WaitFields, Fds
  <2> QED
    BY <2>1, <1>1, <1>2, <1>u DEF CountedAt, Listens
<1>8. \A s \in Fds : ~Watches(t, s)'
  BY <1>1, <1>2 DEF Watches
<1>9. Relink(select_cb_list') /\ select_cb_list' \in Seq(Waiters) /\ wait[t].pc # "idle"
  BY <1>0, <1>4, <1>5
<1>10. w \in WaitType /\ wait' = [wait EXCEPT ![t] = w] 
  BY <1>1
<1>11. ~w.signalled \/ (wait[t].pc = "scan" /\ w.signalled = wait[t].signalled)
  BY <1>1
<1> QED
  BY <1>6, <1>7, <1>8, <1>9, <1>10, <1>11, <1>u, RelinkStep

-----------------------------------------------------------------------------
\* A step of another thread, in which no event appears that a thread watches for and
\* nobody leaves the walk through the list.
LEMMA QuietStep ==
  ASSUME IInv, TypeOKSock', WaitedOpen', UNCHANGED <<select_cb_list, wait, selsetup>>,
         \A s \in Fds : /\ sockets'[s].select_waiting = sockets[s].select_waiting
                        /\ \/ Has(sockets'[s]) \subseteq Has(sockets[s])
                           \/ \A t \in Waiters : ~Watches(t, s),
         \A x \in Callers : \/ caller'[x] = caller[x]
                            \/ caller[x].pc \in {"idle", "event"} /\ caller'[x].pc \in {"idle", "event"}
  PROVE  IInv'
<1>1. ListOfWaiters' /\ SignalsKept'
  BY DEF IInv, ListOfWaiters, IsLinked, SignalsKept
<1>2. CountsWaiters'
  <2>1. \A s \in Fds : CountedAt(s)' = CountedAt(s)
    BY DEF CountedAt, Listens
  <2> QED
    BY <2>1 DEF IInv, CountsWaiters
<1>3. WalksLinked'
  BY DEF IInv, WalksLinked
<1>4. EventsOnTheWay'
  <2> SUFFICES ASSUME NEW t \in Waiters, NEW s \in Fds, NEW e \in (Asks(t, s) \cap Has(sockets[s]))',
                      Watches(t, s)'
               PROVE  \E x \in Callers : Comes(x, t, s, e)'
    BY DEF EventsOnTheWay
  <2>1. Watches(t, s)
    BY DEF Watches, Listens
  <2>2. e \in Asks(t, s) \cap Has(sockets[s])
    BY <2>1 DEF Asks, Listens
  <2>3. PICK x \in Callers : Comes(x, t, s, e)
    BY <2>1, <2>2 DEF IInv, EventsOnTheWay
  <2>4. caller'[x] = caller[x]
    BY <2>3 DEF Comes
  <2>5. Comes(x, t, s, e)'
    BY <2>3, <2>4 DEF Comes, Follows
  <2> QED
    BY <2>5
<1> QED
  BY <1>1, <1>2, <1>3, <1>4 DEF IInv

\* A thread begins to report an event.
LEMMA StartsEvent ==
  ASSUME NEW c \in Conns, NEW evt \in Events
  PROVE  LET y == [NoCall EXCEPT !.pc = "event", !.conn = c, !.evt = evt]
         IN y \in CallType /\ y.pc = "event" /\ y.conn = c /\ y.evt = evt
<1> DEFINE y == [NoCall EXCEPT !.pc = "event", !.conn = c, !.evt = evt]
<1>1. NoCall \in CallType
  BY Sizes DEF NoCall, CallType, Events, Fds
<1>2. y \in CallType
  BY <1>1 DEF CallType
<1> QED
  BY <1>2 DEF NoCall

\* A message arrives or is read: its event is still to be counted.
LEMMA ReportStep == ASSUME IInv, Report \/ Read PROVE IInv'
<1>1. PICK x \in Callers, c \in Conns, evt \in Events \ {"none"} :
        /\ caller[x].pc = "idle"
        /\ caller' = [caller EXCEPT ![x] = [NoCall EXCEPT !.pc = "event", !.conn = c, !.evt = evt]]
        /\ UNCHANGED <<sockets, socket, select_cb_list, wait, acceptor, closer, selsetup>>
  <2>1. CASE Report
    BY <2>1 DEF Report, Callers, Events
  <2>2. CASE Read
    <3>1. "reader" \in Callers /\ "RCVMINUS" \in Events \ {"none"}
      BY DEF Callers, Events
    <3>2. PICK c \in Conns :
            /\ caller["reader"].pc = "idle"
            /\ caller' = [caller EXCEPT !["reader"] =
                            [NoCall EXCEPT !.pc = "event", !.conn = c, !.evt = "RCVMINUS"]]
      BY <2>2 DEF Read
    <3>3. UNCHANGED <<sockets, socket, select_cb_list, wait, acceptor, closer, selsetup>>
      BY <2>2 DEF Read
    <3> QED
      BY <3>1, <3>2, <3>3
  <2> QED
    BY <2>1, <2>2
<1> DEFINE y == [NoCall EXCEPT !.pc = "event", !.conn = c, !.evt = evt]
<1>2. y \in CallType /\ y.pc = "event" /\ y.conn = c /\ y.evt = evt
  BY StartsEvent
<1>3. caller' = [caller EXCEPT ![x] = y]
  BY <1>1
<1> HIDE DEF y
<1>4. \A z \in Callers : caller'[z] = IF z = x THEN y ELSE caller[z]
  BY <1>3 DEF IInv, TypeOKSock
<1>5. TypeOKSock'
  <2>1. caller' \in [Callers -> CallType]
    BY <1>2, <1>3 DEF IInv, TypeOKSock
  <2> QED
    BY <1>1, <1>2, <1>4, <2>1 DEF IInv, TypeOKSock
<1>6. WaitedOpen'
  BY <1>1 DEF IInv, WaitedOpen, Open, Listens
<1> QED
  BY <1>1, <1>2, <1>4, <1>5, <1>6, QuietStep

\* The events that came before the connection had a descriptor are reported one by one.
LEMMA AcceptStep == ASSUME IInv, lwip_accept PROVE IInv'
<1>1. UNCHANGED <<sockets, select_cb_list, wait, closer, selsetup>>
  BY DEF lwip_accept
<1>2. acceptor.pc # "idle" /\ acceptor'.pc # "idle" /\ (acceptor.pc = "done" => acceptor'.pc = "done")
  BY DEF lwip_accept, IInv, TypeOKSock
<1>3. WaitedOpen'
  BY <1>1, <1>2 DEF IInv, WaitedOpen, Open, Listens
<1>4. /\ caller' \in [Callers -> CallType]
      /\ \A x \in Callers : \/ caller'[x] = caller[x]
                            \/ /\ caller[x].pc = "idle" /\ caller'[x].pc = "event"
                               /\ caller'[x].conn \in Conns /\ caller'[x].evt # "none"
  <2> DEFINE y == [NoCall EXCEPT !.pc = "event", !.conn = "b", !.evt = "RCVPLUS"]
  <2>1. y \in CallType /\ y.pc = "event" /\ y.conn = "b" /\ y.evt = "RCVPLUS"
    BY StartsEvent DEF Conns, Events
  <2>2. \/ caller' = caller
        \/ caller["acceptor"].pc = "idle" /\ caller' = [caller EXCEPT !["acceptor"] = y]
    BY DEF lwip_accept
  <2> HIDE DEF y
  <2> QED
    BY <2>1, <2>2 DEF IInv, TypeOKSock, Conns, Callers
<1>5. /\ socket' \in [Conns -> {n \in Int : n < NumSockets}]
      /\ acceptor' \in [pc : {"idle", "socket", "events", "done"}, s : Fds, recvevent : Int]
  <2>1. /\ socket \in [Conns -> {n \in Int : n < NumSockets}] /\ "b" \in Conns
        /\ acceptor \in [pc : {"idle", "socket", "events", "done"}, s : Fds, recvevent : Int]
    BY DEF IInv, TypeOKSock, Conns
  <2>2. acceptor.s \in {n \in Int : n < NumSockets} /\ -1 - socket["b"] \in Int /\ acceptor.recvevent - 1 \in Int
    BY <2>1, Sizes DEF Fds
  <2> QED
    BY <2>1, <2>2 DEF lwip_accept
<1>6. TypeOKSock'
  BY <1>1, <1>4, <1>5 DEF IInv, TypeOKSock
<1> QED
  BY <1>1, <1>3, <1>4, <1>6, QuietStep

\* alloc_socket takes a descriptor that nobody waits for.
LEMMA AllocStep == ASSUME IInv, alloc_socket PROVE IInv'
<1>1. PICK s \in Fds :
        /\ acceptor.pc = "idle" /\ sockets[s].conn = NoOne
        /\ sockets' = [sockets EXCEPT ![s] = [@ EXCEPT !.conn = "b", !.rcvevent = 0, !.sendevent = TRUE,
                                                       !.errevent = FALSE]]
        /\ acceptor' = [pc |-> "socket", s |-> s, recvevent |-> 0]
        /\ UNCHANGED <<socket, select_cb_list, wait, caller, closer, selsetup>>
  BY DEF alloc_socket
<1>2. \A t \in Waiters : wait[t].pc # "idle" => ~Listens(t, s)
  BY <1>1 DEF IInv, WaitedOpen, Open
<1>3. sockets' \in [Fds -> SocketType]
  <2>1. sockets[s] \in SocketType /\ sockets \in [Fds -> SocketType]
    BY DEF IInv, TypeOKSock
  <2>2. [sockets[s] EXCEPT !.conn = "b", !.rcvevent = 0, !.sendevent = TRUE, !.errevent = FALSE]
          \in SocketType
    <3>1. "b" \in Conns \cup {NoOne} /\ 0 \in Int /\ TRUE \in BOOLEAN /\ FALSE \in BOOLEAN
      BY DEF Conns
    <3> QED
      BY <2>1, <3>1 DEF SocketType
  <2> QED
    BY <1>1, <2>1, <2>2
<1>4. \A r \in Fds : r # s => sockets'[r] = sockets[r]
  BY <1>1 DEF IInv, TypeOKSock
<1>5. sockets'[s].select_waiting = sockets[s].select_waiting
  BY <1>1 DEF IInv, TypeOKSock, SocketType
<1>6. TypeOKSock'
  BY <1>1, <1>3 DEF IInv, TypeOKSock
<1>7. WaitedOpen'
  <2>1. ASSUME NEW t \in Waiters, NEW r \in Fds, wait'[t].pc # "idle", Listens(t, r)' PROVE Open(r)'
    <3>1. r # s /\ Open(r)
      BY <2>1, <1>1, <1>2 DEF IInv, WaitedOpen, Listens
    <3>2. sockets[r].conn # "b"
      BY <1>1 DEF IInv, WaitedOpen
    <3> QED
      BY <3>1, <3>2, <1>4 DEF Open
  <2> QED
    BY <2>1, <1>1 DEF WaitedOpen
<1>8. \A t \in Waiters : ~Watches(t, s)
  BY <1>2 DEF Watches
<1>9. ASSUME NEW r \in Fds
      PROVE  /\ sockets'[r].select_waiting = sockets[r].select_waiting
             /\ \/ Has(sockets'[r]) \subseteq Has(sockets[r])
                \/ \A t \in Waiters : ~Watches(t, r)
  BY <1>4, <1>5, <1>8
<1> QED
  BY <1>1, <1>6, <1>7, <1>9, QuietStep

\* Nobody waits for the descriptor that lwip_close frees; its events are reported as others.
LEMMA CloseStep == ASSUME IInv, lwip_close PROVE IInv'
<1>0. UNCHANGED <<socket, select_cb_list, wait, acceptor, selsetup>> /\ closer' = closer + 1
  BY DEF lwip_close
<1>1. CASE CloseSteps[closer + 1] = "free"
  <2> DEFINE s == socket["a"]
  <2>1. /\ UNCHANGED caller /\ sockets' = [sockets EXCEPT ![s].conn = NoOne]
        /\ \A t \in Waiters : wait[t].pc # "idle" => ~Listens(t, s)
    BY <1>1 DEF lwip_close
  <2>2. /\ sockets' \in [Fds -> SocketType]
        /\ \A r \in Fds : /\ r # s => sockets'[r] = sockets[r]
                          /\ sockets'[r].select_waiting = sockets[r].select_waiting
                          /\ sockets'[r].rcvevent = sockets[r].rcvevent
                          /\ sockets'[r].sendevent = sockets[r].sendevent
                          /\ sockets'[r].errevent = sockets[r].errevent
                          /\ sockets'[r].conn \in {sockets[r].conn, NoOne}
    <3>1. sockets \in [Fds -> SocketType]
      BY DEF IInv, TypeOKSock
    <3>2. \A r \in Fds : sockets'[r] = IF r = s THEN [sockets[r] EXCEPT !.conn = NoOne] ELSE sockets[r]
      BY <2>1, <3>1
    <3>3. ASSUME NEW v \in SocketType
          PROVE  /\ [v EXCEPT !.conn = NoOne] \in SocketType
                 /\ [v EXCEPT !.conn = NoOne].select_waiting = v.select_waiting
                 /\ [v EXCEPT !.conn = NoOne].rcvevent = v.rcvevent
                 /\ [v EXCEPT !.conn = NoOne].sendevent = v.sendevent
                 /\ [v EXCEPT !.conn = NoOne].errevent = v.errevent
                 /\ [v EXCEPT !.conn = NoOne].conn = NoOne
      BY DEF SocketType
    <3>4. sockets' \in [Fds -> SocketType]
      BY <2>1, <3>1, <3>2, <3>3
    <3>5. ASSUME NEW r \in Fds
          PROVE  /\ r # s => sockets'[r] = sockets[r]
                 /\ sockets'[r].select_waiting = sockets[r].select_waiting
                 /\ sockets'[r].rcvevent = sockets[r].rcvevent
                 /\ sockets'[r].sendevent = sockets[r].sendevent
                 /\ sockets'[r].errevent = sockets[r].errevent
                 /\ sockets'[r].conn \in {sockets[r].conn, NoOne}
      <4>1. sockets[r] \in SocketType
        BY <3>1
      <4>2. CASE r = s
        BY <4>1, <4>2, <3>2, <3>3
      <4>3. CASE r # s
        BY <4>3, <3>2
      <4> QED
        BY <4>2, <4>3
    <3> QED
      BY <3>4, <3>5
  <2> HIDE DEF s
  <2>3. TypeOKSock'
    BY <2>1, <2>2, <1>0 DEF IInv, TypeOKSock
  <2>4. WaitedOpen'
    <3>1. ASSUME NEW t \in Waiters, NEW r \in Fds, wait'[t].pc # "idle", Listens(t, r)' PROVE Open(r)'
      <4>1. r # s /\ Open(r)
        BY <2>1, <3>1, <1>0 DEF IInv, WaitedOpen, Listens
      <4> QED
        BY <4>1, <2>2, <1>0 DEF Open
    <3>2. NoOne # "b"
      BY SocketsConstants DEF SocketsConstants
    <3> QED
      BY <3>1, <3>2, <2>2, <1>0 DEF IInv, WaitedOpen
  <2>5. \A r \in Fds : Has(sockets'[r]) = Has(sockets[r])
    BY <2>2 DEF Has
  <2> QED
    BY <2>1, <2>2, <2>3, <2>4, <2>5, <1>0, QuietStep
<1>2. CASE CloseSteps[closer + 1] # "free"
  <2>0. closer \in Nat /\ closer < 6
    BY DEF lwip_close, CloseSteps, IInv, TypeOKSock
  <2>1. CloseSteps[closer + 1] \in Events \ {"none"}
    BY <2>0, <1>2 DEF CloseSteps, Events
  <2> DEFINE y == [NoCall EXCEPT !.pc = "event", !.conn = "a", !.evt = CloseSteps[closer + 1]]
  <2>2. y \in CallType /\ y.pc = "event" /\ y.conn = "a" /\ y.evt = CloseSteps[closer + 1]
    BY <2>1, StartsEvent DEF Conns
  <2>3. caller["tcpip"].pc = "idle" /\ caller' = [caller EXCEPT !["tcpip"] = y] /\ UNCHANGED sockets
    BY <1>2 DEF lwip_close
  <2> HIDE DEF y
  <2>4. \A z \in Callers : caller'[z] = IF z = "tcpip" THEN y ELSE caller[z]
    BY <2>3 DEF IInv, TypeOKSock
  <2>5. TypeOKSock'
    <3>1. caller' \in [Callers -> CallType]
      BY <2>2, <2>3 DEF IInv, TypeOKSock
    <3>2. \A z \in Callers : caller'[z].pc = "event" => caller'[z].conn \in Conns /\ caller'[z].evt # "none"
      BY <2>1, <2>2, <2>4 DEF IInv, TypeOKSock, Conns
    <3> QED
      BY <2>0, <2>3, <3>1, <3>2, <1>0 DEF IInv, TypeOKSock
  <2>6. WaitedOpen'
    BY <2>3, <1>0 DEF IInv, WaitedOpen, Open, Listens
  <2> QED
    BY <2>2, <2>3, <2>4, <2>5, <2>6, <1>0, QuietStep
<1> QED
  BY <1>1, <1>2

-----------------------------------------------------------------------------
\* event_callback: a new event is taken to the waiting threads, or there are none.
LEMMA EventStep == ASSUME IInv, NEW x \in Callers, event_callback(x) PROVE IInv'
<1> DEFINE c == caller[x].conn
           s == socket[c]
           evt == caller[x].evt
           sock == Counted(sockets[s], evt)
           goes == sock.select_waiting > 0 /\ CheckWaiters(sockets[s], evt)
<1>0. /\ caller[x].pc = "event" /\ caller[x] \in CallType /\ c \in Conns /\ s \in Int /\ s < NumSockets
      /\ evt \in Events \ {"none"}
      /\ UNCHANGED <<select_cb_list, wait, acceptor, closer, selsetup>>
  BY DEF event_callback, IInv, TypeOKSock, CallType
<1>n. NoCall \in CallType /\ NoCall.pc = "idle"
  BY Sizes DEF NoCall, CallType, Events, Fds
<1>1. CASE s < 0
  <2>1. /\ UNCHANGED sockets /\ caller' = [caller EXCEPT ![x] = NoCall]
        /\ socket' = [socket EXCEPT ![c] = IF evt = "RCVPLUS" THEN @ - 1 ELSE @]
    BY <1>1 DEF event_callback
  <2>2. TypeOKSock'
    <3>1. socket' \in [Conns -> {n \in Int : n < NumSockets}]
      <4>1. s - 1 \in {n \in Int : n < NumSockets} /\ s \in {n \in Int : n < NumSockets}
        BY <1>0, Sizes
      <4> QED
        BY <2>1, <4>1, <1>0 DEF IInv, TypeOKSock
    <3>2. caller' \in [Callers -> CallType]
      BY <2>1, <1>n DEF IInv, TypeOKSock
    <3> QED
      BY <2>1, <3>1, <3>2, <1>0, <1>n DEF IInv, TypeOKSock
  <2>3. WaitedOpen'
    BY <2>1, <1>0 DEF IInv, WaitedOpen, Open, Listens
  <2>4. \A z \in Callers : caller'[z] = IF z = x THEN NoCall ELSE caller[z]
    BY <2>1 DEF IInv, TypeOKSock
  <2> QED
    BY <2>1, <2>2, <2>3, <2>4, <1>0, <1>n, QuietStep
<1>2. CASE ~(s < 0) /\ sockets[s].conn = NoOne
  <2>1. UNCHANGED <<sockets, socket>> /\ caller' = [caller EXCEPT ![x] = NoCall]
    BY <1>2 DEF event_callback
  <2>2. TypeOKSock'
    <3>1. caller' \in [Callers -> CallType]
      BY <2>1, <1>n DEF IInv, TypeOKSock
    <3> QED
      BY <2>1, <3>1, <1>0, <1>n DEF IInv, TypeOKSock
  <2>3. WaitedOpen'
    BY <2>1, <1>0 DEF IInv, WaitedOpen, Open, Listens
  <2>4. \A z \in Callers : caller'[z] = IF z = x THEN NoCall ELSE caller[z]
    BY <2>1 DEF IInv, TypeOKSock
  <2> QED
    BY <2>1, <2>2, <2>3, <2>4, <1>0, <1>n, QuietStep
<1>3. CASE ~(s < 0) /\ sockets[s].conn # NoOne
  <2> DEFINE y == IF goes THEN [caller[x] EXCEPT !.pc = "check", !.s = s, !.has = Has(sock)] ELSE NoCall
  <2>0. s \in Fds
    BY <1>0, <1>3, Sizes DEF Fds
  <2>1. UNCHANGED socket /\ sockets' = [sockets EXCEPT ![s] = sock] /\ caller' = [caller EXCEPT ![x] = y]
    BY <1>3 DEF event_callback
  <2>2. /\ sock \in SocketType /\ sock.conn = sockets[s].conn
        /\ sock.select_waiting = sockets[s].select_waiting
        /\ Has(sock) \in SUBSET Kinds
        /\ ~CheckWaiters(sockets[s], evt) => Has(sock) \subseteq Has(sockets[s])
    <3>1. sockets[s] \in SocketType
      BY <2>0 DEF IInv, TypeOKSock
    <3>2. evt \in {"RCVPLUS", "RCVMINUS", "SENDPLUS", "SENDMINUS", "ERROR"}
      BY <1>0 DEF Events
    <3>3. CASE evt = "RCVPLUS"
      <4>1. sock = [sockets[s] EXCEPT !.rcvevent = sockets[s].rcvevent + 1]
        BY <3>3 DEF Counted
      <4>2. sockets[s].rcvevent + 1 \in Int
        BY <3>1 DEF SocketType
      <4>3. ~CheckWaiters(sockets[s], evt) => sockets[s].rcvevent > 0
        BY <3>1, <3>3 DEF CheckWaiters, SocketType
      <4> HIDE DEF sock
      <4>4. sock \in SocketType
        BY <3>1, <4>1, <4>2 DEF SocketType
      <4> QED
        BY <3>1, <4>1, <4>3, <4>4 DEF Has, Kinds, SocketType
    <3>4. CASE evt = "RCVMINUS"
      <4>1. sock = [sockets[s] EXCEPT !.rcvevent = sockets[s].rcvevent - 1]
        BY <3>4 DEF Counted
      <4>2. sockets[s].rcvevent - 1 \in Int /\ (sockets[s].rcvevent - 1 > 0 => sockets[s].rcvevent > 0)
        BY <3>1 DEF SocketType
      <4> HIDE DEF sock
      <4>4. sock \in SocketType
        BY <3>1, <4>1, <4>2 DEF SocketType
      <4> QED
        BY <3>1, <4>1, <4>2, <4>4 DEF Has, Kinds, SocketType
    <3>5. CASE evt = "SENDPLUS"
      BY <3>1, <3>5 DEF Counted, CheckWaiters, Has, Kinds, SocketType
    <3>6. CASE evt = "SENDMINUS"
      BY <3>1, <3>6 DEF Counted, CheckWaiters, Has, Kinds, SocketType
    <3>7. CASE evt = "ERROR"
      BY <3>1, <3>7 DEF Counted, CheckWaiters, Has, Kinds, SocketType
    <3> QED
      BY <3>2, <3>3, <3>4, <3>5, <3>6, <3>7

  <2> HIDE DEF sock
  <2>3. y \in CallType /\ (goes => y.pc = "check" /\ y.s = s /\ y.has = Has(sock)) /\ (~goes => y = NoCall)
    <3>1. [caller[x] EXCEPT !.pc = "check", !.s = s, !.has = Has(sock)] \in CallType
      BY <2>0, <2>2, <1>0 DEF CallType
    <3> QED
      BY <3>1, <1>0, <1>n DEF CallType
  <2> HIDE DEF y
  <2>4. \A z \in Callers : caller'[z] = IF z = x THEN y ELSE caller[z]
    BY <2>1 DEF IInv, TypeOKSock
  <2>5. \A q \in Fds : sockets'[q] = IF q = s THEN sock ELSE sockets[q]
    BY <2>1 DEF IInv, TypeOKSock
  <2>6. TypeOKSock'
    <3>1. caller' \in [Callers -> CallType] /\ sockets' \in [Fds -> SocketType]
      BY <2>0, <2>1, <2>2, <2>3 DEF IInv, TypeOKSock
    <3>2. \A z \in Callers : caller'[z].pc = "event" => caller'[z].conn \in Conns /\ caller'[z].evt # "none"
      BY <2>3, <2>4, <1>n DEF IInv, TypeOKSock
    <3> QED
      BY <2>1, <3>1, <3>2, <1>0 DEF IInv, TypeOKSock
  <2>7. WaitedOpen'
    <3>1. \A q \in Fds : sockets'[q].conn = sockets[q].conn
      BY <2>2, <2>5
    <3> QED
      BY <3>1, <1>0 DEF IInv, WaitedOpen, Open, Listens
  <2>8. CASE ~goes
    <3>1. sock.select_waiting = 0 => \A t \in Waiters : ~Watches(t, s)
      <4> SUFFICES ASSUME sock.select_waiting = 0, NEW t \in Waiters, Watches(t, s) PROVE FALSE
        OBVIOUS
      <4>1. t \in CountedAt(s)
        BY DEF CountedAt, Watches
      <4>2. CountedAt(s) \in SUBSET Waiters /\ IsFiniteSet(Waiters)
        BY SocketsConstants DEF CountedAt, SocketsConstants
      <4>3. IsFiniteSet(CountedAt(s))
        BY <4>2, FS_Subset
      <4>4. Cardinality(CountedAt(s)) = 0
        BY <2>0, <2>2 DEF IInv, CountsWaiters
      <4> QED
        BY <4>1, <4>3, <4>4, FS_EmptySet
    <3>2. sock.select_waiting > 0 => Has(sock) \subseteq Has(sockets[s])
      BY <2>2, <2>8
    <3>3. sock.select_waiting = 0 \/ sock.select_waiting > 0
      BY <2>2 DEF SocketType
    <3>4. ASSUME NEW q \in Fds
          PROVE  /\ sockets'[q].select_waiting = sockets[q].select_waiting
                 /\ \/ Has(sockets'[q]) \subseteq Has(sockets[q])
                    \/ \A t \in Waiters : ~Watches(t, q)
      BY <2>2, <2>5, <3>1, <3>2, <3>3
    <3>5. ASSUME NEW z \in Callers
          PROVE  \/ caller'[z] = caller[z]
                 \/ caller[z].pc \in {"idle", "event"} /\ caller'[z].pc \in {"idle", "event"}
      BY <2>3, <2>4, <2>8, <1>0, <1>n
    <3> QED
      BY <2>6, <2>7, <3>4, <3>5, <1>0, QuietStep
  <2>9. CASE goes
    <3>1. ListOfWaiters' /\ SignalsKept'
      BY <1>0 DEF IInv, ListOfWaiters, IsLinked, SignalsKept
    <3>2. CountsWaiters'
      <4>1. \A q \in Fds : CountedAt(q)' = CountedAt(q)
        BY <1>0 DEF CountedAt, Listens
      <4> QED
        BY <4>1, <2>2, <2>5 DEF IInv, CountsWaiters
    <3>3. WalksLinked'
      BY <2>3, <2>4, <2>9, <1>0 DEF IInv, WalksLinked
    <3>4. EventsOnTheWay'
      <4> SUFFICES ASSUME NEW t \in Waiters, NEW q \in Fds, NEW e \in (Asks(t, q) \cap Has(sockets[q]))',
                          Watches(t, q)'
                   PROVE  \E z \in Callers : Comes(z, t, q, e)'
        BY DEF EventsOnTheWay
      <4>1. CASE q = s
        <5>1. e \in Has(sock)
          BY <4>1, <2>5
        <5>2. Comes(x, t, q, e)'
          BY <4>1, <5>1, <2>3, <2>4, <2>9 DEF Comes
        <5> QED
          BY <5>2
      <4>2. CASE q # s
        <5>1. Watches(t, q) /\ e \in Asks(t, q) \cap Has(sockets[q])
          BY <4>2, <2>5, <1>0 DEF Watches, Asks, Listens
        <5>2. PICK z \in Callers : Comes(z, t, q, e)
          BY <5>1 DEF IInv, EventsOnTheWay
        <5>3. z # x
          BY <5>2, <1>0 DEF Comes
        <5>4. Comes(z, t, q, e)'
          BY <5>2, <5>3, <2>4, <1>0 DEF Comes, Follows
        <5> QED
          BY <5>4
      <4> QED
        BY <4>1, <4>2
    <3> QED
      BY <2>6, <2>7, <3>1, <3>2, <3>3, <3>4 DEF IInv
  <2> QED
    BY <2>8, <2>9
<1> QED
  BY <1>1, <1>2, <1>3

-----------------------------------------------------------------------------
\* The callback that select_check_waiters comes to next. Every thread that it still
\* has to come to is that one or behind it.
Nexts(x) == IF caller[x].pc = "check" \/ caller[x].changed THEN First ELSE NextAfter(caller[x].scb)
\* Where the walk of event_callback goes next: to a waiter still linked, or to the end.
LEMMA WalkNext ==
  ASSUME IInv, NEW x \in Callers
  PROVE  /\ Nexts(x) = NoOne \/ (Nexts(x) \in Waiters /\ IsLinked(Nexts(x)))
         /\ \A u \in Waiters :
              /\ IsLinked(u)
              /\ caller[x].pc = "check" \/ caller[x].changed \/ Follows(u, caller[x].scb)
              => Nexts(x) # NoOne /\ (u = Nexts(x) \/ Follows(u, Nexts(x)))
<1> DEFINE L == select_cb_list
           D == DOMAIN select_cb_list
<1>0. /\ L \in Seq(Waiters) /\ Len(L) \in Nat /\ D = 1 .. Len(L) /\ NoOne \notin Waiters
      /\ \A i \in D : L[i] \in Waiters
      /\ \A i, j \in D : L[i] = L[j] => i = j
  BY SocketsConstants DEF SocketsConstants, IInv, TypeOKSock, ListOfWaiters
<1>1. CASE caller[x].pc = "check" \/ caller[x].changed
  <2>1. Nexts(x) = First
    BY <1>1 DEF Nexts
  <2>2. CASE L = <<>>
    <3>1. \A u : ~IsLinked(u)
      BY <2>2 DEF IsLinked
    <3> QED
      BY <2>1, <2>2, <3>1 DEF First
  <2>3. CASE L # <<>>
    <3>1. 1 \in D /\ First = L[1]
      BY <2>3, <1>0 DEF First
    <3>2. ASSUME NEW u \in Waiters, IsLinked(u) PROVE u = First \/ Follows(u, First)
      <4>1. PICK j \in D : L[j] = u
        BY <3>2 DEF IsLinked
      <4>2. j = 1 \/ 1 < j
        BY <1>0
      <4> QED
        BY <3>1, <4>1, <4>2 DEF Follows
    <3> QED
      BY <1>0, <2>1, <3>1, <3>2 DEF IsLinked
  <2> QED
    BY <2>2, <2>3
<1>2. CASE ~(caller[x].pc = "check" \/ caller[x].changed)
  <2> DEFINE scb == caller[x].scb
             at == {i \in D : L[i] = scb}
             next == {i + 1 : i \in at} \cap D
  <2>1. Nexts(x) = IF next = {} THEN NoOne ELSE L[CHOOSE i \in next : TRUE]
    BY <1>2 DEF Nexts, NextAfter
  <2>2. ASSUME next # {}
        PROVE  \E i \in D : L[i] = scb /\ i + 1 \in D /\ Nexts(x) = L[i + 1]
    <3>1. (CHOOSE i \in next : TRUE) \in next
      BY <2>2
    <3> QED
      BY <2>1, <2>2, <3>1
  <2>3. ASSUME NEW u \in Waiters, Follows(u, scb)
        PROVE  next # {} /\ (u = Nexts(x) \/ Follows(u, Nexts(x)))
    <3>1. PICK i \in D, j \in D : i < j /\ L[i] = scb /\ L[j] = u
      BY <2>3 DEF Follows
    <3>2. i \in at /\ i + 1 \in D
      BY <3>1, <1>0
    <3>3. next # {}
      BY <3>2
    <3>4. PICK k \in D : L[k] = scb /\ k + 1 \in D /\ Nexts(x) = L[k + 1]
      BY <2>2, <3>3
    <3>5. k = i
      BY <3>1, <3>4, <1>0
    <3>6. j = i + 1 \/ i + 1 < j
      BY <3>1, <1>0
    <3> QED
      BY <3>1, <3>2, <3>3, <3>4, <3>5, <3>6 DEF Follows
  <2>4. next # {} => Nexts(x) \in Waiters /\ IsLinked(Nexts(x))
    BY <2>2, <1>0 DEF IsLinked
  <2>5. next = {} => Nexts(x) = NoOne
    BY <2>1
  <2> HIDE DEF next
  <2> QED
    BY <2>3, <2>4, <2>5, <1>0, <1>2
<1> QED
  BY <1>1, <1>2

\* One element of a walk: a thread whose socket is ready is signalled once.
LEMMA CheckStep == ASSUME IInv, NEW x \in Callers, select_check_waiters(x) PROVE IInv'
<1> DEFINE y == caller[x]
           hit == /\ Nexts(x) # NoOne /\ ~wait[Nexts(x)].signalled
                  /\ Asks(Nexts(x), y.s) \cap y.has # {}
<1>0. y.pc \in {"check", "next"} /\ y \in CallType /\ NoOne \notin Waiters
  BY SocketsConstants DEF select_check_waiters, IInv, TypeOKSock, SocketsConstants
<1>1. /\ caller' = [caller EXCEPT ![x] = IF Nexts(x) = NoOne THEN NoCall
                      ELSE [y EXCEPT !.pc = "next", !.scb = Nexts(x), !.changed = FALSE]]
      /\ wait' = IF hit THEN [wait EXCEPT ![Nexts(x)].signalled = TRUE, ![Nexts(x)].sem = @ + 1] ELSE wait
      /\ UNCHANGED <<sockets, socket, select_cb_list, acceptor, closer, selsetup>>
  BY DEF select_check_waiters, Nexts
<1>2. PICK t : t = Nexts(x)
  OBVIOUS
<1>3. t = NoOne \/ (t \in Waiters /\ IsLinked(t))
  BY <1>2, WalkNext
<1>4. PICK z \in CallType :
        /\ caller' = [caller EXCEPT ![x] = z] /\ (t = NoOne => z.pc = "idle")
        /\ t # NoOne => z.pc = "next" /\ z.scb = t /\ ~z.changed /\ z.s = y.s /\ z.has = y.has
  <2>1. NoCall \in CallType /\ NoCall.pc = "idle"
    BY Sizes DEF NoCall, CallType, Events, Fds
  <2> DEFINE v == [y EXCEPT !.pc = "next", !.scb = t, !.changed = FALSE]
  <2>2. t # NoOne => /\ v \in CallType /\ v.pc = "next" /\ v.scb = t /\ ~v.changed
                     /\ v.s = y.s /\ v.has = y.has
    BY <1>0, <1>3 DEF CallType
  <2>3. caller' = [caller EXCEPT ![x] = IF t = NoOne THEN NoCall ELSE v]
    BY <1>1, <1>2
  <2> HIDE DEF v
  <2> QED
    BY <2>1, <2>2, <2>3
<1>5. \A a \in Callers : caller'[a] = IF a = x THEN z ELSE caller[a]
  BY <1>4 DEF IInv, TypeOKSock
<1>6. /\ wait' \in [Waiters -> WaitType]
      /\ \A u \in Waiters : u # t \/ ~hit => wait'[u] = wait[u]
      /\ hit => /\ t \in Waiters /\ wait'[t].signalled /\ wait'[t].sem > 0
                /\ wait'[t].pc = wait[t].pc
  <2>1. CASE hit
    <3>1. t \in Waiters /\ wait[t] \in WaitType /\ wait[t] \in WaitFields
      BY <2>1, <1>2, <1>3 DEF IInv, TypeOKSock, WaitType
    <3> DEFINE w == [wait[t] EXCEPT !.signalled = TRUE, !.sem = wait[t].sem + 1]
    <3>2. wait' = [wait EXCEPT ![t] = w]
      BY <2>1, <3>1, <1>1, <1>2 DEF IInv, TypeOKSock
    <3>3. wait[t].sem + 1 \in Nat /\ wait[t].sem + 1 > 0 /\ TRUE \in BOOLEAN
      BY <3>1 DEF WaitFields
    <3>4. w \in WaitFields
      BY <3>1, <3>3 DEF WaitFields
    <3>5. /\ w.signalled /\ w.sem > 0 /\ w.pc = wait[t].pc /\ w.nready = wait[t].nready
          /\ w.upto = wait[t].upto
      BY <3>1, <3>3 DEF WaitFields
    <3> HIDE DEF w
    <3>6. w \in WaitType
      BY <3>1, <3>4, <3>5 DEF WaitType
    <3> QED
      BY <3>1, <3>2, <3>5, <3>6, <2>1 DEF IInv, TypeOKSock
  <2>2. CASE ~hit
    BY <2>2, <1>1 DEF IInv, TypeOKSock
  <2> QED
    BY <2>1, <2>2
<1> HIDE DEF hit
<1>7. \A u \in Waiters : wait'[u].pc = wait[u].pc
  BY <1>6
<1>8. TypeOKSock'
  <2>1. caller' \in [Callers -> CallType]
    BY <1>4 DEF IInv, TypeOKSock
  <2>2. \A a \in Callers : caller'[a].pc = "event" => caller'[a].conn \in Conns /\ caller'[a].evt # "none"
    BY <1>4, <1>5 DEF IInv, TypeOKSock
  <2> QED
    BY <1>1, <1>6, <2>1, <2>2 DEF IInv, TypeOKSock
<1>9. ListOfWaiters'
  BY <1>1, <1>7 DEF IInv, ListOfWaiters, IsLinked
<1>10. SignalsKept'
  <2>1. hit => wait[t].pc # "scan"
    BY <1>3, <1>6, <1>0 DEF IInv, ListOfWaiters
  <2> QED
    BY <2>1, <1>6, <1>7 DEF IInv, SignalsKept
<1>11. WaitedOpen'
  BY <1>1, <1>7 DEF IInv, WaitedOpen, Open, Listens
<1>12. CountsWaiters'
  <2>1. \A u \in Waiters : wait'[u].i = wait[u].i /\ wait'[u].upto = wait[u].upto
    <3>1. CASE hit
      <4>1. t \in Waiters /\ wait[t] \in WaitFields
        BY <3>1, <1>6 DEF IInv, TypeOKSock, WaitType
      <4> QED
        BY <3>1, <4>1, <1>1, <1>2, <1>6 DEF IInv, TypeOKSock, WaitFields
    <3>2. CASE ~hit
      BY <3>2, <1>6
    <3> QED
      BY <3>1, <3>2
  <2>2. \A q \in Fds : CountedAt(q)' = CountedAt(q)
    BY <2>1, <1>1, <1>7 DEF CountedAt, Listens
  <2> QED
    BY <2>2, <1>1 DEF IInv, CountsWaiters
<1>13. WalksLinked'
  <2>1. ASSUME NEW a \in Callers, caller'[a].pc = "next", ~caller'[a].changed
        PROVE  \E i \in DOMAIN select_cb_list : select_cb_list[i] = caller'[a].scb
    <3>1. CASE a = x
      BY <3>1, <2>1, <1>3, <1>4, <1>5 DEF IsLinked
    <3>2. CASE a # x
      BY <3>2, <2>1, <1>5 DEF IInv, WalksLinked
    <3> QED
      BY <3>1, <3>2
  <2> QED
    BY <2>1, <1>1 DEF WalksLinked
<1>14. EventsOnTheWay'
  <2> SUFFICES ASSUME NEW u \in Waiters, NEW q \in Fds, NEW e \in (Asks(u, q) \cap Has(sockets[q]))',
                      Watches(u, q)'
               PROVE  \E a \in Callers : Comes(a, u, q, e)'
    BY DEF EventsOnTheWay
  <2>0. wait'[u] = wait[u]
    BY <1>6 DEF Watches
  <2>1. Watches(u, q) /\ e \in Asks(u, q) \cap Has(sockets[q])
    BY <2>0, <1>1 DEF Watches, Asks, Listens
  <2>2. PICK a \in Callers : Comes(a, u, q, e)
    BY <2>1 DEF IInv, EventsOnTheWay
  <2>3. CASE a # x
    <3>1. Comes(a, u, q, e)'
      BY <2>2, <2>3, <1>1, <1>5 DEF Comes, Follows
    <3> QED
      BY <3>1
  <2>4. CASE a = x
    <3>1. IsLinked(u)
      BY <2>1 DEF IInv, ListOfWaiters, Watches
    <3>2. t # NoOne /\ (u = t \/ Follows(u, t))
      BY <2>2, <2>4, <3>1, <1>2, WalkNext DEF Comes
    <3>3. u # t
      <4> SUFFICES ASSUME u = t PROVE FALSE
        OBVIOUS
      <4>1. Asks(t, y.s) \cap y.has # {} /\ ~wait[t].signalled
        BY <2>1, <2>2, <2>4 DEF Comes, Watches
      <4>2. hit
        BY <3>2, <4>1, <1>2 DEF hit
      <4> QED
        BY <4>2, <1>6 DEF Watches
    <3>4. Comes(x, u, q, e)'
      <4>1. Follows(u, t)'
        BY <3>2, <3>3, <1>1 DEF Follows
      <4>2. caller'[x] = z /\ z.pc = "next" /\ z.scb = t /\ z.s = q /\ e \in z.has
        BY <2>2, <2>4, <3>2, <1>4, <1>5 DEF Comes
      <4> QED
        BY <4>1, <4>2 DEF Comes
    <3> QED
      BY <3>4
  <2> QED
    BY <2>3, <2>4
<1> QED
  BY <1>8, <1>9, <1>10, <1>11, <1>12, <1>13, <1>14 DEF IInv

-----------------------------------------------------------------------------
\* Every step preserves the inductive invariant.
LEMMA NextIInv == IInv /\ [NextSock]_sockvars => IInv'
<1> SUFFICES ASSUME IInv, [NextSock]_sockvars PROVE IInv'
  OBVIOUS
<1>1. ASSUME NEW t \in Waiters,
             \/ BeginWait(t) \/ lwip_selscan(t) \/ lwip_link_select_cb(t) \/ AddWaiter(t)
             \/ GoesToSleep(t) \/ sys_arch_sem_wait(t) \/ RemoveWaiter(t)
             \/ lwip_unlink_select_cb(t) \/ Return(t)
      PROVE  IInv'
  BY <1>1, BeginWaitStep, ScanStep, LinkStep, AddWaiterStep, SleepStep, SemWaitStep,
     RemoveWaiterStep, UnlinkStep, ReturnStep
<1>2. ASSUME NEW x \in Callers, event_callback(x) \/ select_check_waiters(x) PROVE IInv'
  BY <1>2, EventStep, CheckStep
<1>3. CASE Report \/ Read \/ alloc_socket \/ lwip_accept \/ lwip_close
  BY <1>3, ReportStep, AllocStep, AcceptStep, CloseStep
<1>4. CASE UNCHANGED sockvars
  <2>1. UNCHANGED <<sockets, socket, select_cb_list, wait, caller, acceptor, closer, selsetup>>
    BY <1>4 DEF sockvars
  <2>2. TypeOKSock' /\ WaitedOpen'
    BY <2>1 DEF IInv, TypeOKSock, WaitedOpen, Open, Listens
  <2> QED
    BY <2>1, <2>2, QuietStep
<1> QED
  BY <1>1, <1>2, <1>3, <1>4 DEF NextSock

\* So it always holds.
LEMMA AlwaysIInv == SpecSock => []IInv
  BY InitIInv, NextIInv, PTL DEF SpecSock

\* event_callback never goes on from the callback of a thread that has left its wait,
\* with any number of threads that wait, leave and report at the same time.
THEOREM SafeWalk == SpecSock => []WalksLinked
<1>1. IInv => WalksLinked
  BY DEF IInv
<1> QED
  BY <1>1, AlwaysIInv, PTL

\* No wakeup of lwip_select and lwip_poll is lost, for any number of threads, of
\* descriptors and of events, whoever reports them and whoever reads, accepts and
\* closes meanwhile.
THEOREM NoLostEvent == SpecSock => []NoMissedWakeup
<1>1. IInv => NoMissedWakeup
  <2> SUFFICES ASSUME IInv, NEW t \in Waiters, wait[t].pc = "wait", wait[t].sem = 0,
                      NEW s \in Fds, Listens(t, s), Asks(t, s) \cap Has(sockets[s]) # {}
               PROVE  \E x \in Callers : caller[x].pc \in {"check", "next"} /\ caller[x].s = s
    BY DEF NoMissedWakeup
  <2>1. ~wait[t].signalled
    BY DEF IInv, SignalsKept
  <2>2. Watches(t, s)
    BY <2>1 DEF Watches
  <2>3. PICK e : e \in Asks(t, s) \cap Has(sockets[s])
    OBVIOUS
  <2>4. PICK x \in Callers : Comes(x, t, s, e)
    BY <2>2, <2>3 DEF IInv, EventsOnTheWay
  <2> QED
    BY <2>4 DEF Comes
<1> QED
  BY <1>1, AlwaysIInv, PTL
==============================================================================
