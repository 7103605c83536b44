------------------------------- MODULE DhcpProofs ------------------------------
(***************************************************************************)
(* An address obtained by DHCP is given back when its lease ends, for all  *)
(* lease times a server may send and every order of replies, timeouts,     *)
(* link changes, starts and stops.                                         *)
(*                                                                         *)
(* The two lease counters satisfy the property in every state, also while  *)
(* there is no address: dhcp_bind sets the address and may leave t0_timeout *)
(* as an earlier lease set it. That t0_timeout = 0 with an address means a *)
(* lease for ever needs the same of offered_t0, which lives across states, *)
(* and that a client that is off, which dhcp_start clears, has no address. *)
(***************************************************************************)
EXTENDS Dhcp, TLAPS

States == {"OFF", "INIT", "SELECTING", "REQUESTING", "CHECKING", "BACKING_OFF", "BOUND",
           "RENEWING", "REBINDING", "REBOOTING"}

DhcpType ==
  [state : States, tries : Int, armed : BOOLEAN, pcb_allocated : BOOLEAN,
   offered : Addrs \cup {NoAddr},
   offered_t0 : 0 .. SECS_MAX, offered_t1 : Nat, offered_t2 : Nat,
   t0_timeout : Nat, t2_timeout : Nat, t1_renew_time : Int, t2_rebind_time : Int,
   lease_used : Nat, ip : Addrs \cup {NoAddr}, link : BOOLEAN]

ForEver == \E g \in Grants : g.t0 = SECS_MAX

\* What holds of the client's record whenever none of its functions runs.
LeaseSound(s) ==
  /\ s.t0_timeout # 0 => s.lease_used < s.t0_timeout
  /\ s.t0_timeout = 0 => s.lease_used = 0
  /\ s.t0_timeout = 0 /\ s.ip # NoAddr => ForEver
  /\ s.offered_t0 = SECS_MAX => ForEver
  /\ s.state = "OFF" => s.ip = NoAddr

Good(s) == s \in DhcpType /\ LeaseSound(s)

DhcpInv == Good(dhcp) /\ calm \in BOOLEAN

-----------------------------------------------------------------------------
\* A lease time becomes at least one tick, however short it is.
LEMMA TicksType == ASSUME NEW secs \in Nat PROVE Ticks(secs) \in Nat \ {0}
<1> DEFINE half == COARSE_SECS \div 2
           n == (secs + half) \div COARSE_SECS
<1>1. COARSE_SECS \in Nat \ {0} /\ TICK_MAX \in Nat \ {0}
  BY DhcpConstants
<1>2. half \in Nat
  BY <1>1
<1>3. n \in Nat
  <2> HIDE DEF half
  <2> QED BY <1>1, <1>2
<1>4. Ticks(secs) = IF n > TICK_MAX THEN TICK_MAX ELSE IF n = 0 THEN 1 ELSE n
  BY DEF Ticks
<1> HIDE DEF n
<1> QED BY <1>1, <1>3, <1>4

\* A function that leaves the lease alone, or takes the address away, keeps it sound.
LEMMA SameLease ==
  ASSUME NEW s, NEW r, Good(s), r \in DhcpType,
         r.t0_timeout = s.t0_timeout, r.lease_used = s.lease_used,
         r.offered_t0 = s.offered_t0, r.ip \in {s.ip, NoAddr},
         r.state \in {s.state} \cup (States \ {"OFF"})
  PROVE  Good(r)
BY DEF Good, LeaseSound

\* What a function that only moves between states leaves alone.
Alike(r, s) ==
  /\ r.t0_timeout = s.t0_timeout /\ r.lease_used = s.lease_used
  /\ r.offered_t0 = s.offered_t0 /\ r.ip = s.ip
  /\ r.offered = s.offered /\ r.offered_t1 = s.offered_t1 /\ r.offered_t2 = s.offered_t2

\* dhcp_set_state changes the state, the tries and the retry timer only.
LEMMA SetStateKeeps ==
  ASSUME NEW s, Good(s), NEW new \in States \ {"OFF"}
  PROVE  Good(dhcp_set_state(s, new)) /\ Alike(dhcp_set_state(s, new), s)
<1>1. s \in DhcpType
  BY DEF Good
<1>2. CASE s.state = new
  BY <1>2 DEF dhcp_set_state, Alike
<1>3. CASE s.state # new
  <2>1. PICK r : r = [s EXCEPT !.state = new, !.tries = 0, !.armed = FALSE]
    OBVIOUS
  <2>2. r = dhcp_set_state(s, new)
    BY <1>3, <2>1 DEF dhcp_set_state
  <2>3. 0 \in Int /\ FALSE \in BOOLEAN
    OBVIOUS
  <2>4. r \in DhcpType
    BY <1>1, <2>1, <2>3 DEF DhcpType
  <2>5. Alike(r, s)
    BY <1>1, <2>1 DEF DhcpType, Alike
  <2>6. r.state = new
    BY <1>1, <2>1 DEF DhcpType
  <2>7. Good(r)
    BY <2>4, <2>5, <2>6, SameLease DEF Alike
  <2> QED BY <2>2, <2>5, <2>7
<1> QED BY <1>2, <1>3

\* Counting a try and arming the retry timer leave the lease alone.
LEMMA TriedKeeps ==
  ASSUME NEW s, Good(s)
  PROVE  Good(Tried(s)) /\ Alike(Tried(s), s)
<1>1. s \in DhcpType
  BY DEF Good
<1>2. PICK t \in Int : t = IF s.tries < MAX_TRIES THEN s.tries + 1 ELSE s.tries
  <2>1. s.tries \in Int
    BY <1>1 DEF DhcpType
  <2> QED BY <2>1
<1>3. PICK r : r = [s EXCEPT !.tries = t, !.armed = TRUE]
  OBVIOUS
<1>4. r = Tried(s)
  BY <1>1, <1>2, <1>3 DEF Tried, DhcpType
<1>5. r \in DhcpType
  BY <1>1, <1>3, TRUE \in BOOLEAN DEF DhcpType
<1>6. Alike(r, s) /\ r.state = s.state
  BY <1>1, <1>3 DEF DhcpType, Alike
<1>7. Good(r)
  BY <1>5, <1>6, SameLease DEF Alike
<1> QED BY <1>4, <1>6, <1>7

\* Every function that sends a request in a new state keeps the lease sound.
LEMMA SendKeeps ==
  ASSUME NEW s, Good(s)
  PROVE  /\ Good(dhcp_select(s)) /\ Good(dhcp_check(s)) /\ Good(dhcp_decline(s))
         /\ Good(dhcp_renew(s)) /\ Good(dhcp_rebind(s)) /\ Good(dhcp_reboot(s))
<1>1. ASSUME NEW new \in States \ {"OFF"}
      PROVE  Good(Tried(dhcp_set_state(s, new)))
  <2>1. Good(dhcp_set_state(s, new))
    BY SetStateKeeps
  <2> QED BY <2>1, TriedKeeps
<1>2. {"REQUESTING", "CHECKING", "BACKING_OFF", "RENEWING", "REBINDING", "REBOOTING"}
        \subseteq States \ {"OFF"}
  BY DEF States
<1> QED
  BY <1>1, <1>2 DEF dhcp_select, dhcp_check, dhcp_decline, dhcp_renew, dhcp_rebind, dhcp_reboot

\* dhcp_discover forgets the offer and keeps the lease of the address in use.
LEMMA DiscoverKeeps ==
  ASSUME NEW s, Good(s)
  PROVE  Good(dhcp_discover(s))
<1>1. PICK m : m = dhcp_set_state(s, "SELECTING")
  OBVIOUS
<1>2. Good(m)
  BY <1>1, SetStateKeeps DEF States
<1>3. PICK r : r = [m EXCEPT !.offered = NoAddr]
  OBVIOUS
<1>4. m \in DhcpType
  BY <1>2 DEF Good
<1>5. r \in DhcpType
  BY <1>3, <1>4 DEF DhcpType
<1>6. /\ r.state = m.state
      /\ r.t0_timeout = m.t0_timeout /\ r.lease_used = m.lease_used
      /\ r.offered_t0 = m.offered_t0 /\ r.ip = m.ip
  BY <1>3, <1>4 DEF DhcpType
<1>7. Good(r)
  BY <1>2, <1>5, <1>6, SameLease
<1>8. dhcp_discover(s) = Tried(r)
  BY <1>1, <1>3 DEF dhcp_discover
<1> QED BY <1>7, <1>8, TriedKeeps

\* dhcp_bind starts a lease: unused, and timed unless it is for ever.
LEMMA BindKeeps ==
  ASSUME NEW s, Good(s)
  PROVE  Good(dhcp_bind(s))
<1> DEFINE set(field, secs) == IF secs = SECS_MAX THEN field ELSE Ticks(secs)
<1>1. PICK m : m = dhcp_set_state(s, "BOUND")
  OBVIOUS
<1>2. Good(m) /\ Alike(m, s)
  BY <1>1, SetStateKeeps DEF States
<1>3. m \in DhcpType /\ s \in DhcpType
  BY <1>2 DEF Good
<1>4. /\ s.offered_t0 \in Nat /\ s.offered_t1 \in Nat /\ s.offered_t2 \in Nat
      /\ m.t0_timeout \in Nat /\ m.t2_timeout \in Nat
      /\ m.t1_renew_time \in Int /\ m.t2_rebind_time \in Int
      /\ s.offered \in Addrs \cup {NoAddr} /\ m.state \in States
  <2>1. SECS_MAX \in Nat
    BY DhcpConstants
  <2> QED BY <1>3, <2>1 DEF DhcpType
<1>5. PICK t0 \in Nat : t0 = set(m.t0_timeout, s.offered_t0)
  BY <1>4, TicksType
<1>6. PICK t1 \in Int : t1 = set(m.t1_renew_time, s.offered_t1)
  BY <1>4, TicksType
<1>7. PICK t2 \in Nat : t2 = set(m.t2_timeout, s.offered_t2)
  BY <1>4, TicksType
<1>8. PICK t3 \in Int : t3 = set(m.t2_rebind_time, s.offered_t2)
  BY <1>4, TicksType
<1>9. PICK r : r = [m EXCEPT !.lease_used = 0, !.t0_timeout = t0, !.t1_renew_time = t1,
                             !.t2_timeout = t2, !.t2_rebind_time = t3, !.ip = s.offered]
  OBVIOUS
<1>10. r = dhcp_bind(s)
  BY <1>1, <1>3, <1>5, <1>6, <1>7, <1>8, <1>9 DEF dhcp_bind, DhcpType
<1> HIDE DEF set
<1>11. r \in DhcpType
  BY <1>3, <1>4, <1>9, 0 \in Nat DEF DhcpType
<1>12. /\ r.lease_used = 0 /\ r.t0_timeout = t0 /\ r.offered_t0 = m.offered_t0
       /\ r.state = m.state
  BY <1>3, <1>9 DEF DhcpType
<1>13. m.state = "BOUND"
  BY <1>1, <1>3 DEF dhcp_set_state, DhcpType
<1>14. t0 = 0 => ForEver
  <2>1. CASE s.offered_t0 = SECS_MAX
    BY <2>1 DEF Good, LeaseSound
  <2>2. CASE s.offered_t0 # SECS_MAX
    BY <1>4, <1>5, <2>2, TicksType DEF set
  <2> QED BY <2>1, <2>2
<1>15. r.offered_t0 = SECS_MAX => ForEver
  BY <1>2, <1>12 DEF Good, LeaseSound
<1>16. LeaseSound(r)
  BY <1>5, <1>12, <1>13, <1>14, <1>15 DEF LeaseSound
<1> QED BY <1>10, <1>11, <1>16 DEF Good

\* The times of an ACK are lease times, and the only ones for ever come from one.
LEMMA HandleAckKeeps ==
  ASSUME NEW s, Good(s), NEW addr \in Addrs, NEW g \in Grants
  PROVE  Good(dhcp_handle_ack(s, addr, g))
<1> DEFINE whole == IF g.t0 = NotGiven THEN s.offered_t0 ELSE g.t0
<1>1. s \in DhcpType
  BY DEF Good
<1>2. SECS_MAX \in Nat \ {0}
  BY DhcpConstants
<1>3. /\ g.t0 \in (0 .. SECS_MAX) \cup {NotGiven}
      /\ g.t1 \in (0 .. SECS_MAX) \cup {NotGiven}
      /\ g.t2 \in (0 .. SECS_MAX) \cup {NotGiven}
  BY DhcpConstants
<1>4. s.offered_t0 \in 0 .. SECS_MAX /\ addr \in Addrs \cup {NoAddr}
  BY <1>1 DEF DhcpType
<1>5. PICK t0 \in 0 .. SECS_MAX : t0 = whole
  BY <1>3, <1>4
<1> HIDE DEF whole
<1>6. t0 \in Nat /\ t0 \div 2 \in Nat
  BY <1>2, <1>5
<1>7. ((t0 * 7) % (SECS_MAX + 1)) \div 8 \in Nat
  <2>1. t0 * 7 \in Nat /\ SECS_MAX + 1 \in Nat \ {0}
    BY <1>2, <1>6
  <2>2. (t0 * 7) % (SECS_MAX + 1) \in Nat
    BY <2>1
  <2> QED BY <2>2
<1>8. PICK t1 \in Nat : t1 = IF g.t1 # NotGiven THEN g.t1 ELSE t0 \div 2
  BY <1>2, <1>3, <1>6
<1>9. PICK t2 \in Nat :
        t2 = IF g.t2 # NotGiven THEN g.t2 ELSE ((t0 * 7) % (SECS_MAX + 1)) \div 8
  BY <1>2, <1>3, <1>7
<1>10. PICK r : r = [s EXCEPT !.offered = addr, !.offered_t0 = t0, !.offered_t1 = t1,
                              !.offered_t2 = t2]
  OBVIOUS
<1>11. r = dhcp_handle_ack(s, addr, g)
  BY <1>1, <1>5, <1>8, <1>9, <1>10 DEF dhcp_handle_ack, DhcpType, whole
<1>12. r \in DhcpType
  BY <1>1, <1>4, <1>5, <1>8, <1>9, <1>10 DEF DhcpType
<1>13. /\ r.offered_t0 = t0 /\ r.t0_timeout = s.t0_timeout /\ r.lease_used = s.lease_used
       /\ r.ip = s.ip /\ r.state = s.state
  BY <1>1, <1>10 DEF DhcpType
<1>14. t0 = SECS_MAX => ForEver
  BY <1>5 DEF whole, Good, LeaseSound, ForEver
<1> QED BY <1>11, <1>12, <1>13, <1>14 DEF Good, LeaseSound

\* What a client with no lease and no address has.
Off(s) == s \in DhcpType /\ s.state = "OFF" /\ s.ip = NoAddr

\* A cleared record with no address is sound.
LEMMA ClearedGood ==
  ASSUME NEW link \in BOOLEAN
  PROVE  Good(Cleared(NoAddr, link))
<1>1. PICK r : r = Cleared(NoAddr, link)
  OBVIOUS
<1>2. SECS_MAX \in Nat \ {0}
  BY DhcpConstants
<1>3. r \in DhcpType
  BY <1>1, <1>2, 0 \in Nat, 0 \in Int, 0 \in 0 .. SECS_MAX DEF Cleared, DhcpType, States
<1>4. /\ r.t0_timeout = 0 /\ r.lease_used = 0 /\ r.ip = NoAddr /\ r.offered_t0 = 0
  BY <1>1 DEF Cleared
<1> QED BY <1>1, <1>2, <1>3, <1>4 DEF Good, LeaseSound

\* dhcp_release_and_stop gives the address and the lease back, in every state.
LEMMA StopKeeps ==
  ASSUME NEW s, s \in DhcpType, s.state = "OFF" => Good(s)
  PROVE  Good(dhcp_release_and_stop(s)) /\ Off(dhcp_release_and_stop(s))
<1>1. CASE s.state = "OFF"
  BY <1>1 DEF dhcp_release_and_stop, Off, Good, LeaseSound
<1>2. CASE s.state # "OFF"
  <2>1. SECS_MAX \in Nat \ {0}
    BY DhcpConstants
  <2>2. PICK m : m = [s EXCEPT !.state = "OFF", !.tries = 0, !.armed = FALSE]
    OBVIOUS
  <2>3. m \in DhcpType /\ m.state = "OFF"
    BY <2>2, 0 \in Int, FALSE \in BOOLEAN DEF DhcpType, States
  <2>4. PICK r : r = [m EXCEPT
          !.ip = NoAddr, !.offered = NoAddr, !.pcb_allocated = FALSE,
          !.offered_t0 = 0, !.offered_t1 = 0, !.offered_t2 = 0,
          !.t1_renew_time = 0, !.t2_rebind_time = 0, !.lease_used = 0, !.t0_timeout = 0]
    OBVIOUS
  <2>5. r = dhcp_release_and_stop(s)
    BY <1>2, <2>2, <2>4 DEF dhcp_release_and_stop, dhcp_set_state
  <2>6. r \in DhcpType
    BY <2>1, <2>3, <2>4, 0 \in Nat, 0 \in Int, 0 \in 0 .. SECS_MAX, FALSE \in BOOLEAN DEF DhcpType
  <2>7. /\ r.state = "OFF" /\ r.ip = NoAddr /\ r.offered_t0 = 0 /\ r.lease_used = 0
        /\ r.t0_timeout = 0
    BY <2>3, <2>4 DEF DhcpType
  <2> QED BY <2>1, <2>5, <2>6, <2>7 DEF Good, LeaseSound, Off
<1> QED BY <1>1, <1>2

\* dhcp_start of a client that is off: the cleared record has no address.
LEMMA StartKeeps ==
  ASSUME NEW s, Off(s), NEW open \in BOOLEAN
  PROVE  Good(dhcp_start(s, open))
<1>1. PICK new : new = Cleared(s.ip, s.link)
  OBVIOUS
<1>2. Good(new) /\ new \in DhcpType
  BY <1>1, ClearedGood DEF Off, DhcpType, Good
<1>3. PICK p : p = [new EXCEPT !.pcb_allocated = TRUE]
  OBVIOUS
<1>4. p \in DhcpType
  BY <1>2, <1>3, TRUE \in BOOLEAN DEF DhcpType
<1>5. /\ p.t0_timeout = new.t0_timeout /\ p.lease_used = new.lease_used
      /\ p.offered_t0 = new.offered_t0 /\ p.ip = new.ip /\ p.state = new.state
  BY <1>2, <1>3 DEF DhcpType
<1>6. Good(p)
  BY <1>2, <1>4, <1>5, SameLease
<1>7. Good(dhcp_set_state(p, "INIT")) /\ Good(dhcp_discover(p))
  BY <1>6, SetStateKeeps, DiscoverKeeps DEF States
<1>8. dhcp_start(s, open) \in {new, dhcp_set_state(p, "INIT"), dhcp_discover(p)}
  BY <1>1, <1>3 DEF dhcp_start
<1> QED BY <1>2, <1>7, <1>8

\* The end of a lease, or of the requests: stopped and started again.
LEMMA RestartKeeps ==
  ASSUME NEW s, s \in DhcpType, s.state = "OFF" => Good(s)
  PROVE  Good(Restart(s))
BY StopKeeps, StartKeeps DEF Restart

\* Whatever the retry timer finds the client doing.
LEMMA TimeoutKeeps ==
  ASSUME NEW s, Good(s)
  PROVE  Good(dhcp_timeout(s))
<1>1. Good(Restart(s))
  BY RestartKeeps DEF Good
<1>2. /\ Good(dhcp_discover(s)) /\ Good(dhcp_bind(s))
      /\ Good(dhcp_select(s)) /\ Good(dhcp_check(s)) /\ Good(dhcp_reboot(s))
  BY SendKeeps, DiscoverKeeps, BindKeeps
<1>3. dhcp_timeout(s) \in {dhcp_discover(s), dhcp_select(s), Restart(s), dhcp_check(s),
                           dhcp_bind(s), dhcp_reboot(s), s}
  BY DEF dhcp_timeout
<1> QED BY <1>1, <1>2, <1>3

\* Setting a field that is not of the lease.
LEMMA FieldKeeps ==
  ASSUME NEW s, Good(s)
  PROVE  /\ \A b \in BOOLEAN : Good([s EXCEPT !.armed = b]) /\ Good([s EXCEPT !.link = b])
         /\ \A t \in Int : /\ Good([s EXCEPT !.t1_renew_time = t])
                           /\ Good([s EXCEPT !.t2_rebind_time = t])
         /\ \A b \in BOOLEAN, a \in Addrs : Good([s EXCEPT !.armed = b, !.offered = a])
         /\ \A b \in BOOLEAN : Good([s EXCEPT !.link = b, !.tries = 0])
<1>1. s \in DhcpType
  BY DEF Good
<1>2. ASSUME NEW r, r \in DhcpType, Alike(r, [s EXCEPT !.offered = r.offered]), r.state = s.state
      PROVE  Good(r)
  <2>1. /\ r.t0_timeout = s.t0_timeout /\ r.lease_used = s.lease_used
        /\ r.offered_t0 = s.offered_t0 /\ r.ip = s.ip
    BY <1>1, <1>2 DEF Alike, DhcpType
  <2> QED BY <1>2, <2>1, SameLease
<1>3. ASSUME NEW b \in BOOLEAN, NEW r, r \in {[s EXCEPT !.armed = b], [s EXCEPT !.link = b]}
      PROVE  Good(r)
  <2>1. r \in DhcpType
    BY <1>1, <1>3 DEF DhcpType
  <2>2. Alike(r, [s EXCEPT !.offered = r.offered]) /\ r.state = s.state
    BY <1>1, <1>3 DEF DhcpType, Alike
  <2> QED BY <1>2, <2>1, <2>2
<1>4. ASSUME NEW t \in Int,
             NEW r, r \in {[s EXCEPT !.t1_renew_time = t], [s EXCEPT !.t2_rebind_time = t]}
      PROVE  Good(r)
  <2>1. r \in DhcpType
    BY <1>1, <1>4 DEF DhcpType
  <2>2. Alike(r, [s EXCEPT !.offered = r.offered]) /\ r.state = s.state
    BY <1>1, <1>4 DEF DhcpType, Alike
  <2> QED BY <1>2, <2>1, <2>2
<1>5. ASSUME NEW b \in BOOLEAN, NEW a \in Addrs, NEW r, r = [s EXCEPT !.armed = b, !.offered = a]
      PROVE  Good(r)
  <2>1. r \in DhcpType
    BY <1>1, <1>5 DEF DhcpType
  <2>2. Alike(r, [s EXCEPT !.offered = r.offered]) /\ r.state = s.state
    BY <1>1, <1>5 DEF DhcpType, Alike
  <2> QED BY <1>2, <2>1, <2>2
<1>6. ASSUME NEW b \in BOOLEAN, NEW r, r = [s EXCEPT !.link = b, !.tries = 0]
      PROVE  Good(r)
  <2>1. r \in DhcpType
    BY <1>1, <1>6, 0 \in Int DEF DhcpType
  <2>2. Alike(r, [s EXCEPT !.offered = r.offered]) /\ r.state = s.state
    BY <1>1, <1>6 DEF DhcpType, Alike
  <2> QED BY <1>2, <2>1, <2>2
<1> QED BY <1>3, <1>4, <1>5, <1>6

\* The requests to renew and to rebind leave the lease running.
LEMMA RenewalKeeps ==
  ASSUME NEW s, Good(s)
  PROVE  Good(dhcp_t1_timeout(s)) /\ Good(dhcp_t2_timeout(s))
<1>1. s \in DhcpType
  BY DEF Good
<1>2. s.t0_timeout \in Nat /\ s.t2_timeout \in Nat /\ s.lease_used \in Nat
  BY <1>1 DEF DhcpType
<1>3. PICK n1 \in Int : n1 = Half(s.t2_timeout, s.lease_used)
  BY <1>2 DEF Half
<1>4. PICK n2 \in Int : n2 = Half(s.t0_timeout, s.lease_used)
  BY <1>2 DEF Half
<1>5. PICK r1 : r1 = dhcp_renew(s)
  OBVIOUS
<1>6. PICK r2 : r2 = dhcp_rebind(s)
  OBVIOUS
<1>7. Good(r1) /\ Good(r2)
  BY <1>5, <1>6, SendKeeps
<1>8. Good([r1 EXCEPT !.t1_renew_time = n1]) /\ Good([r2 EXCEPT !.t2_rebind_time = n2])
  BY <1>7, FieldKeeps
<1>9. dhcp_t1_timeout(s) \in {s, r1, [r1 EXCEPT !.t1_renew_time = n1]}
  BY <1>3, <1>5 DEF dhcp_t1_timeout
<1>10. dhcp_t2_timeout(s) \in {s, r2, [r2 EXCEPT !.t2_rebind_time = n2]}
  BY <1>4, <1>6 DEF dhcp_t2_timeout
<1> QED BY <1>7, <1>8, <1>9, <1>10

\* A tick of the lease: it is over on the tick that uses it up, and on no later one.
LEMMA CoarseStep ==
  ASSUME Good(dhcp), dhcp_coarse_tmr
  PROVE  Good(dhcp')
<1>1. dhcp \in DhcpType /\ LeaseSound(dhcp)
  BY DEF Good
<1>2. /\ dhcp.lease_used \in Nat /\ dhcp.t0_timeout \in Nat
      /\ dhcp.t1_renew_time \in Int /\ dhcp.t2_rebind_time \in Int
  BY <1>1 DEF DhcpType
<1>3. PICK s0 : s0 = IF dhcp.t0_timeout # 0 THEN [dhcp EXCEPT !.lease_used = @ + 1] ELSE dhcp
  OBVIOUS
<1>4. PICK s2 : s2 = IF dhcp.t2_rebind_time # 0 THEN [s0 EXCEPT !.t2_rebind_time = @ - 1] ELSE s0
  OBVIOUS
<1>5. PICK s1 : s1 = IF dhcp.t1_renew_time # 0 THEN [s2 EXCEPT !.t1_renew_time = @ - 1] ELSE s2
  OBVIOUS
<1>6. /\ dhcp.state # "OFF"
      /\ dhcp' = IF dhcp.t0_timeout # 0 /\ s0.lease_used = dhcp.t0_timeout THEN Restart(s0)
                 ELSE IF dhcp.t2_rebind_time = 1 THEN dhcp_t2_timeout(s2)
                 ELSE IF dhcp.t1_renew_time = 1 THEN dhcp_t1_timeout(s1)
                 ELSE s1
  BY <1>3, <1>4, <1>5 DEF dhcp_coarse_tmr
<1>7. s0 \in DhcpType
  <2>1. dhcp.lease_used + 1 \in Nat
    BY <1>2
  <2> QED BY <1>1, <1>3, <2>1 DEF DhcpType
<1>8. /\ s0.t0_timeout = dhcp.t0_timeout /\ s0.ip = dhcp.ip /\ s0.offered_t0 = dhcp.offered_t0
      /\ s0.state = dhcp.state
      /\ s0.lease_used = IF dhcp.t0_timeout # 0 THEN dhcp.lease_used + 1 ELSE dhcp.lease_used
  BY <1>1, <1>3 DEF DhcpType
<1>9. CASE dhcp.t0_timeout # 0 /\ s0.lease_used = dhcp.t0_timeout
  BY <1>6, <1>7, <1>8, <1>9, RestartKeeps
<1>10. CASE ~(dhcp.t0_timeout # 0 /\ s0.lease_used = dhcp.t0_timeout)
  <2>1. LeaseSound(s0)
    BY <1>1, <1>2, <1>8, <1>10 DEF LeaseSound
  <2>2. Good(s0)
    BY <1>7, <2>1 DEF Good
  <2>3. Good(s2)
    <3>1. s0.t2_rebind_time \in Int
      BY <1>7 DEF DhcpType
    <3>2. PICK t \in Int : t = s0.t2_rebind_time - 1
      BY <3>1
    <3>3. Good([s0 EXCEPT !.t2_rebind_time = t])
      BY <2>2, FieldKeeps
    <3>4. s2 = s0 \/ s2 = [s0 EXCEPT !.t2_rebind_time = t]
      BY <1>4, <3>2
    <3> QED BY <2>2, <3>3, <3>4
  <2>4. Good(s1)
    <3>1. s2.t1_renew_time \in Int
      BY <2>3 DEF Good, DhcpType
    <3>2. PICK t \in Int : t = s2.t1_renew_time - 1
      BY <3>1
    <3>3. Good([s2 EXCEPT !.t1_renew_time = t])
      BY <2>3, FieldKeeps
    <3>4. s1 = s2 \/ s1 = [s2 EXCEPT !.t1_renew_time = t]
      BY <1>5, <3>2
    <3> QED BY <2>3, <3>3, <3>4
  <2>5. Good(dhcp_t2_timeout(s2)) /\ Good(dhcp_t1_timeout(s1))
    BY <2>3, <2>4, RenewalKeeps
  <2>6. dhcp' \in {dhcp_t2_timeout(s2), dhcp_t1_timeout(s1), s1}
    BY <1>6, <1>10
  <2> QED BY <2>4, <2>5, <2>6
<1> QED BY <1>9, <1>10

\* A NAK takes the address away before the client asks again.
LEMMA NakKeeps ==
  ASSUME NEW s, Good(s)
  PROVE  Good(dhcp_handle_nak(s))
<1>1. PICK m : m = dhcp_set_state(s, "BACKING_OFF")
  OBVIOUS
<1>2. Good(m) /\ m \in DhcpType
  BY <1>1, SetStateKeeps DEF States, Good
<1>3. PICK r : r = [m EXCEPT !.ip = NoAddr]
  OBVIOUS
<1>4. r \in DhcpType
  BY <1>2, <1>3 DEF DhcpType
<1>5. /\ r.t0_timeout = m.t0_timeout /\ r.lease_used = m.lease_used /\ r.ip = NoAddr
      /\ r.offered_t0 = m.offered_t0 /\ r.state = m.state
  BY <1>2, <1>3 DEF DhcpType
<1>6. Good(r)
  BY <1>2, <1>4, <1>5, SameLease
<1> QED BY <1>1, <1>3, <1>6, DiscoverKeeps DEF dhcp_handle_nak

\* The invariant holds at the start.
LEMMA InitDhcpInv == InitDhcp => DhcpInv
BY ClearedGood DEF InitDhcp, DhcpInv

\* Every timer, reply, link change and call keeps the invariant.
LEMMA NextDhcpInv == DhcpInv /\ [NextDhcp]_dhcpvars => DhcpInv'
<1> SUFFICES ASSUME DhcpInv, [NextDhcp]_dhcpvars PROVE DhcpInv'
  OBVIOUS
<1>1. Good(dhcp) /\ calm \in BOOLEAN
  BY DEF DhcpInv
<1>2. calm' \in BOOLEAN
  BY <1>1 DEF NextDhcp, dhcpvars, dhcp_fine_tmr, dhcp_coarse_tmr, Offer, Ack, Nak, dhcp_arp_reply,
              dhcp_network_changed, LinkDown, Start, Stop, Calm
<1>3. Good(dhcp')
  <2>1. CASE dhcp_fine_tmr
    <3>1. Good([dhcp EXCEPT !.armed = FALSE])
      BY <1>1, FieldKeeps
    <3> QED BY <2>1, <3>1, TimeoutKeeps DEF dhcp_fine_tmr
  <2>2. CASE dhcp_coarse_tmr
    BY <1>1, <2>2, CoarseStep
  <2>3. CASE Offer
    <3>1. PICK addr \in Addrs : dhcp' = dhcp_select([dhcp EXCEPT !.armed = FALSE, !.offered = addr])
      BY <2>3 DEF Offer
    <3>2. Good([dhcp EXCEPT !.armed = FALSE, !.offered = addr])
      BY <1>1, FieldKeeps
    <3> QED BY <3>1, <3>2, SendKeeps
  <2>4. CASE Ack
    <3>1. PICK addr \in Addrs, g \in Grants :
            dhcp' \in {dhcp_check(dhcp_handle_ack(dhcp, addr, g)),
                       dhcp_bind(dhcp_handle_ack(dhcp, addr, g))}
      BY <2>4 DEF Ack
    <3>2. Good(dhcp_handle_ack(dhcp, addr, g))
      BY <1>1, HandleAckKeeps
    <3>3. /\ Good(dhcp_check(dhcp_handle_ack(dhcp, addr, g)))
          /\ Good(dhcp_bind(dhcp_handle_ack(dhcp, addr, g)))
      BY <3>2, SendKeeps, BindKeeps
    <3> QED BY <3>1, <3>3
  <2>5. CASE Nak
    BY <1>1, <2>5, NakKeeps DEF Nak
  <2>6. CASE dhcp_arp_reply
    BY <1>1, <2>6, SendKeeps DEF dhcp_arp_reply
  <2>7. CASE dhcp_network_changed
    <3>1. PICK s : s = [dhcp EXCEPT !.link = TRUE, !.tries = 0]
      OBVIOUS
    <3>2. Good(s) /\ Good([dhcp EXCEPT !.link = TRUE])
      BY <1>1, <3>1, FieldKeeps
    <3>3. dhcp' \in {dhcp_reboot(s), [dhcp EXCEPT !.link = TRUE], dhcp_discover(s)}
      BY <2>7, <3>1 DEF dhcp_network_changed
    <3> QED BY <3>2, <3>3, SendKeeps, DiscoverKeeps
  <2>8. CASE LinkDown
    BY <1>1, <2>8, FieldKeeps DEF LinkDown
  <2>9. CASE Start
    <3>1. Off(dhcp)
      BY <1>1, <2>9 DEF Start, Off, Good, LeaseSound
    <3> QED BY <2>9, <3>1, StartKeeps DEF Start
  <2>10. CASE Stop
    BY <1>1, <2>10, StopKeeps DEF Stop, Good
  <2>11. CASE Calm \/ UNCHANGED dhcpvars
    BY <1>1, <2>11 DEF Calm, dhcpvars
  <2> QED
    BY <2>1, <2>2, <2>3, <2>4, <2>5, <2>6, <2>7, <2>8, <2>9, <2>10, <2>11 DEF NextDhcp
<1> QED BY <1>2, <1>3 DEF DhcpInv

\* AddressExpires for every set of lease times: the address of the interface is
\* kept only while a lease runs that the coarse timer will end, or one for ever.
THEOREM LeaseAlwaysEnds == SpecDhcp => []AddressExpires
<1>1. DhcpInv => AddressExpires
  BY DEF DhcpInv, Good, LeaseSound, ForEver, AddressExpires
<1> QED BY <1>1, InitDhcpInv, NextDhcpInv, PTL DEF SpecDhcp
=============================================================================
