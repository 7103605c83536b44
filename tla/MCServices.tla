------------------------------- MODULE MCServices -------------------------------
(***************************************************************************)
(* What the tcpip thread does in the background: its timeouts, the DHCP    *)
(* client and the DNS client. Every behaviour is about one of them.        *)
(***************************************************************************)
EXTENDS SysTimeouts, Dhcp, Dns

VARIABLE service

MCInterval == [h \in {"arp", "dns", "tcp"} |-> CASE h = "arp" -> 3 [] h = "dns" -> 2 [] OTHER -> 1]
Lease(t0, t1, t2) == [t0 |-> t0, t1 |-> t1, t2 |-> t2]
MCGrants == {Lease(480, NotGiven, NotGiven), Lease(60, NotGiven, NotGiven), Lease(300, 240, 120)}

OfTmo == service = "timeouts" /\ UNCHANGED <<service, dhcpvars, dnsvars>>
OfDhcp == service = "dhcp" /\ UNCHANGED <<service, tmovars, dnsvars>>
OfDns == service = "dns" /\ UNCHANGED <<service, tmovars, dhcpvars>>

InitServices == InitTmo /\ InitDhcp /\ InitDns /\ service \in {"timeouts", "dhcp", "dns"}

NextServices ==
  \/ OfTmo /\ Tick
  \/ OfTmo /\ tcpip_timeouts_mbox_fetch
  \/ OfTmo /\ FetchTimeout
  \/ OfTmo /\ sys_check_timeouts
  \/ OfTmo /\ tcpip_thread_handle_msg
  \/ OfDhcp /\ dhcp_fine_tmr
  \/ OfDhcp /\ dhcp_coarse_tmr
  \/ OfDhcp /\ Offer
  \/ OfDhcp /\ Ack
  \/ OfDhcp /\ Nak
  \/ OfDhcp /\ dhcp_arp_reply
  \/ OfDhcp /\ dhcp_network_changed
  \/ OfDhcp /\ LinkDown
  \/ OfDhcp /\ Start
  \/ OfDhcp /\ Stop
  \/ OfDhcp /\ Calm
  \/ OfDns /\ dns_gethostbyname
  \/ OfDns /\ dns_tmr
  \/ OfDns /\ Response
  \/ OfDns /\ dns_setserver

\* The fairness of the three specifications, each in its own behaviours.
SpecServices ==
  /\ InitServices /\ [][NextServices]_<<service, tmovars, dhcpvars, dnsvars>>
  /\ WF_tmovars(OfTmo /\ Tick) /\ WF_tmovars(OfTmo /\ ThreadStep)
  /\ WF_dhcpvars(OfDhcp /\ dhcp_fine_tmr) /\ WF_dhcpvars(OfDhcp /\ dhcp_coarse_tmr)
  /\ SF_dhcpvars(OfDhcp /\ calm /\ Offer) /\ SF_dhcpvars(OfDhcp /\ calm /\ Served /\ Ack)
  /\ (service = "dns" => []<><<second' # second>>_second)
==============================================================================
