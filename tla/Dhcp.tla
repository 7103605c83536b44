---------------------------------- MODULE Dhcp ---------------------------------
(***************************************************************************)
(* The DHCP client of lwIP (core/ipv4/dhcp.c) on one Ethernet interface,   *)
(* with the ARP check of an offered address. Messages may be lost, late or *)
(* repeated: a reply to the current transaction may come at any moment, in *)
(* any state, and any reply to another one is dropped by dhcp_recv.        *)
(*                                                                         *)
(* The retry timer is armed or not: how long it runs is left open, as is   *)
(* how much of it passes between two ticks of the lease timers.            *)
(***************************************************************************)
EXTENDS Integers, FiniteSets

CONSTANTS Addrs, NoAddr,
          Grants,         \* times in an ACK, in seconds: [t0, t1, t2], NotGiven
          NotGiven,
          COARSE_SECS,    \* DHCP_COARSE_TIMER_SECS
          SECS_MAX,       \* 0xffffffff in the code: a time for ever
          TICK_MAX,       \* 0xffff
          SELECT_TRIES,   \* requests before starting again (5 in dhcp_timeout)
          REBOOT_TRIES, MAX_TRIES

ASSUME DhcpConstants ==
  /\ NoAddr \notin Addrs /\ NotGiven \notin Nat
  /\ {COARSE_SECS, SECS_MAX, TICK_MAX} \subseteq Nat \ {0}
  /\ MAX_TRIES \in Nat
  /\ \A g \in Grants : {g.t0, g.t1, g.t2} \subseteq (0 .. SECS_MAX) \cup {NotGiven}
  /\ {2, SELECT_TRIES, REBOOT_TRIES} \subseteq 0 .. MAX_TRIES

VARIABLES dhcp,           \* struct dhcp, and ip: the address of the interface
          calm            \* from now on the network and the users behave

dhcpvars == <<dhcp, calm>>

\* struct dhcp after memset, on an interface with this address and link
Cleared(ip, link) ==
  [state |-> "OFF", tries |-> 0, armed |-> FALSE, pcb_allocated |-> FALSE, offered |-> NoAddr,
   offered_t0 |-> 0, offered_t1 |-> 0, offered_t2 |-> 0,
   t0_timeout |-> 0, t2_timeout |-> 0, t1_renew_time |-> 0, t2_rebind_time |-> 0,
   lease_used |-> 0, ip |-> ip, link |-> link]

-----------------------------------------------------------------------------
dhcp_set_state(s, new) ==
  IF s.state = new THEN s ELSE [s EXCEPT !.state = new, !.tries = 0, !.armed = FALSE]

\* The end of every function that sends: one more try, and the retry timer.
Tried(s) == [s EXCEPT !.tries = IF @ < MAX_TRIES THEN @ + 1 ELSE @, !.armed = TRUE]

dhcp_discover(s) == Tried([dhcp_set_state(s, "SELECTING") EXCEPT !.offered = NoAddr])
dhcp_select(s)   == Tried(dhcp_set_state(s, "REQUESTING"))
dhcp_check(s)    == Tried(dhcp_set_state(s, "CHECKING"))
dhcp_decline(s)  == Tried(dhcp_set_state(s, "BACKING_OFF"))
dhcp_renew(s)    == Tried(dhcp_set_state(s, "RENEWING"))
dhcp_rebind(s)   == Tried(dhcp_set_state(s, "REBINDING"))
dhcp_reboot(s)   == Tried(dhcp_set_state(s, "REBOOTING"))

\* Seconds rounded to ticks of the coarse timer, at most TICK_MAX and at least 1.
Ticks(secs) ==
  LET n == (secs + COARSE_SECS \div 2) \div COARSE_SECS
  IN IF n > TICK_MAX THEN TICK_MAX ELSE IF n = 0 THEN 1 ELSE n

dhcp_bind_KeepsUsed(s) ==
  LET set(field, secs) == IF secs = SECS_MAX THEN field ELSE Ticks(secs)
  IN [dhcp_set_state(s, "BOUND") EXCEPT
        !.t0_timeout = set(@, s.offered_t0),
        !.t1_renew_time = set(@, s.offered_t1),
        !.t2_timeout = set(@, s.offered_t2),
        !.t2_rebind_time = set(@, s.offered_t2),
        !.ip = s.offered]

\* A time that is infinite leaves its timer as it is. The subnet mask and the
\* gateway are left out.
dhcp_bind(s) ==
  LET set(field, secs) == IF secs = SECS_MAX THEN field ELSE Ticks(secs)
  IN [dhcp_set_state(s, "BOUND") EXCEPT
        !.lease_used = 0,
        !.t0_timeout = set(@, s.offered_t0),
        !.t1_renew_time = set(@, s.offered_t1),
        !.t2_timeout = set(@, s.offered_t2),
        !.t2_rebind_time = set(@, s.offered_t2),
        !.ip = s.offered]

dhcp_handle_ack(s, addr, g) ==
  [s EXCEPT !.offered = addr,
            !.offered_t0 = IF g.t0 = NotGiven THEN @ ELSE g.t0,
            !.offered_t1 = IF g.t1 # NotGiven THEN g.t1
                           ELSE (IF g.t0 = NotGiven THEN s.offered_t0 ELSE g.t0) \div 2,
            !.offered_t2 = IF g.t2 # NotGiven THEN g.t2
                           ELSE (((IF g.t0 = NotGiven THEN s.offered_t0 ELSE g.t0) * 7)
                                   % (SECS_MAX + 1)) \div 8]

dhcp_handle_nak(s) == dhcp_discover([dhcp_set_state(s, "BACKING_OFF") EXCEPT !.ip = NoAddr])

dhcp_release_and_stop(s) ==
  IF s.state = "OFF" THEN s
  ELSE [dhcp_set_state(s, "OFF") EXCEPT
          !.ip = NoAddr, !.offered = NoAddr, !.pcb_allocated = FALSE,
          !.offered_t0 = 0, !.offered_t1 = 0, !.offered_t2 = 0,
          !.t1_renew_time = 0, !.t2_rebind_time = 0, !.lease_used = 0, !.t0_timeout = 0]

\* open: udp_new succeeds. Sending the first message always counts as done.
dhcp_start(s, open) ==
  LET new == Cleared(s.ip, s.link)
  IN IF ~open THEN new
     ELSE IF ~s.link THEN dhcp_set_state([new EXCEPT !.pcb_allocated = TRUE], "INIT")
     ELSE dhcp_discover([new EXCEPT !.pcb_allocated = TRUE])


\* The pcb has just been given back, so that there is one.
Restart(s) == dhcp_start(dhcp_release_and_stop(s), TRUE)

-----------------------------------------------------------------------------
dhcp_timeout(s) ==
  CASE s.state \in {"BACKING_OFF", "SELECTING"} -> dhcp_discover(s)
    [] s.state = "REQUESTING" -> IF s.tries <= SELECT_TRIES THEN dhcp_select(s) ELSE Restart(s)
    [] s.state = "CHECKING" -> IF s.tries <= 1 THEN dhcp_check(s) ELSE dhcp_bind(s)
    [] s.state = "REBOOTING" -> IF s.tries < REBOOT_TRIES THEN dhcp_reboot(s) ELSE dhcp_discover(s)
    [] OTHER -> s

\* The tick on which the retry timer expires.
dhcp_fine_tmr ==
  /\ dhcp.armed
  /\ dhcp' = dhcp_timeout([dhcp EXCEPT !.armed = FALSE])
  /\ UNCHANGED calm

Half(timeout, used) == (timeout - used) \div 2

dhcp_t1_timeout(s) ==
  LET next == Half(s.t2_timeout, s.lease_used)
      r == dhcp_renew(s)
  IN IF s.state \notin {"REQUESTING", "BOUND", "RENEWING"} THEN s
     ELSE IF next >= 1 THEN [r EXCEPT !.t1_renew_time = next] ELSE r

dhcp_t2_timeout(s) ==
  LET next == Half(s.t0_timeout, s.lease_used)
      r == dhcp_rebind(s)
  IN IF s.state \notin {"REQUESTING", "BOUND", "RENEWING", "REBINDING"} THEN s
     ELSE IF next >= 1 THEN [r EXCEPT !.t2_rebind_time = next] ELSE r

dhcp_coarse_tmr ==
  LET s0 == IF dhcp.t0_timeout # 0 THEN [dhcp EXCEPT !.lease_used = @ + 1] ELSE dhcp
      s2 == IF dhcp.t2_rebind_time # 0 THEN [s0 EXCEPT !.t2_rebind_time = @ - 1] ELSE s0
      s1 == IF dhcp.t1_renew_time # 0 THEN [s2 EXCEPT !.t1_renew_time = @ - 1] ELSE s2
  IN /\ dhcp.state # "OFF"
     /\ dhcp' = IF dhcp.t0_timeout # 0 /\ s0.lease_used = dhcp.t0_timeout THEN Restart(s0)
                ELSE IF dhcp.t2_rebind_time = 1 THEN dhcp_t2_timeout(s2)
                ELSE IF dhcp.t1_renew_time = 1 THEN dhcp_t1_timeout(s1)
                ELSE s1
     /\ UNCHANGED calm

-----------------------------------------------------------------------------
\* The replies to the current transaction that dhcp_recv acts on.
Offer ==
  \E addr \in Addrs :
    /\ dhcp.pcb_allocated /\ dhcp.state = "SELECTING"
    /\ dhcp' = dhcp_select([dhcp EXCEPT !.armed = FALSE, !.offered = addr])
    /\ UNCHANGED calm

Ack ==
  \E addr \in Addrs, g \in Grants :
    /\ dhcp.pcb_allocated
    /\ \/ /\ dhcp.state = "REQUESTING"
          /\ dhcp' = dhcp_check(dhcp_handle_ack(dhcp, addr, g))
       \/ /\ dhcp.state \in {"REBOOTING", "REBINDING", "RENEWING"}
          /\ dhcp' = dhcp_bind(dhcp_handle_ack(dhcp, addr, g))
    /\ UNCHANGED calm

Nak ==
  /\ ~calm /\ dhcp.pcb_allocated
  /\ dhcp.state \in {"REBOOTING", "REQUESTING", "REBINDING", "RENEWING"}
  /\ dhcp' = dhcp_handle_nak(dhcp)
  /\ UNCHANGED calm

\* Another host answers for the address that is being checked.
dhcp_arp_reply ==
  /\ ~calm /\ dhcp.state = "CHECKING"
  /\ dhcp' = dhcp_decline(dhcp)
  /\ UNCHANGED calm

\* The link comes back.
dhcp_network_changed ==
  /\ ~calm /\ ~dhcp.link
  /\ LET s == [dhcp EXCEPT !.link = TRUE, !.tries = 0]
     IN dhcp' = CASE dhcp.state \in {"REBINDING", "RENEWING", "BOUND", "REBOOTING"} -> dhcp_reboot(s)
                  [] dhcp.state = "OFF" -> [dhcp EXCEPT !.link = TRUE]
                  [] OTHER -> dhcp_discover(s)
  /\ UNCHANGED calm

LinkDown == ~calm /\ dhcp.link /\ dhcp' = [dhcp EXCEPT !.link = FALSE] /\ UNCHANGED calm

\* lwip_netif_set_dhcp: the client is started when it is off.
Start == ~calm /\ dhcp.state = "OFF" /\ (\E open \in BOOLEAN : dhcp' = dhcp_start(dhcp, open)) /\ UNCHANGED calm

Stop == ~calm /\ dhcp.state # "OFF" /\ dhcp' = dhcp_release_and_stop(dhcp) /\ UNCHANGED calm

Calm == ~calm /\ dhcp.link /\ dhcp.state \notin {"OFF", "INIT"} /\ calm' = TRUE /\ UNCHANGED dhcp

InitDhcp ==
  /\ dhcp = Cleared(NoAddr, TRUE)
  /\ calm = FALSE

NextDhcp ==
  \/ dhcp_fine_tmr \/ dhcp_coarse_tmr \/ Offer \/ Ack \/ Nak \/ dhcp_arp_reply
  \/ dhcp_network_changed \/ LinkDown \/ Start \/ Stop \/ Calm

\* The timers always run. Once calm, a client that asks over and over is answered
\* in time once; a request to renew is one only if it names the client's address.
Served == dhcp.state \in {"REQUESTING", "REBOOTING"} \/ dhcp.ip # NoAddr

SpecDhcp ==
  /\ InitDhcp /\ [][NextDhcp]_dhcpvars
  /\ WF_dhcpvars(dhcp_fine_tmr) /\ WF_dhcpvars(dhcp_coarse_tmr)
  /\ SF_dhcpvars(calm /\ Offer) /\ SF_dhcpvars(calm /\ Served /\ Ack)

-----------------------------------------------------------------------------
\* An address is kept only while its lease runs: the timer that takes it away is
\* armed and has not been passed, whatever state the client is in.
AddressExpires ==
  dhcp.ip # NoAddr =>
    \/ dhcp.t0_timeout # 0 /\ dhcp.lease_used < dhcp.t0_timeout
    \/ dhcp.t0_timeout = 0 /\ dhcp.lease_used = 0 /\ (\E g \in Grants : g.t0 = SECS_MAX)


dhcp_supplied_address == dhcp.state \in {"BOUND", "RENEWING", "REBINDING"}

\* "check if DHCP supplied netif->ip_addr ... @return 1 if DHCP supplied
\* netif->ip_addr" (dhcp_supplied_address): if it says so there is an address.
SuppliedHasAddress == dhcp_supplied_address => dhcp.ip # NoAddr
===============================================================================
