--------------------------- MODULE RsvpHelloProofs ---------------------------
(***************************************************************************)
(* Proofs about RsvpHello, for every set of routers and every interval,    *)
(* dead factor, table size and bound.                                      *)
(***************************************************************************)
EXTENDS RsvpHello, FiniteSetTheorems, TLAPS

-----------------------------------------------------------------------------
(* Types.                                                                  *)

\* The two intervals of an entry's timers are positive numbers of ticks.
LEMMA Intervals ==
    /\ HelloInterval \in Nat \ {0}
    /\ DeadInterval \in Nat \ {0}
    /\ Off \notin Nat
<1>1. HelloInterval \in Nat \ {0} /\ DeadFactor \in Nat \ {0}
  BY HelloAssumption
<1>2. \A x, y \in Nat \ {0} : x * y \in Nat \ {0}
  BY SMT
<1>. QED  BY <1>1, <1>2 DEF DeadInterval, Off

\* A fresh entry is an entry.
LEMMA NewEntryType ==
    ASSUME NEW i \in {0, LinkIf}, NEW inst \in Instances
    PROVE  /\ NewEntry(i, inst) \in Entry
           /\ NewEntry(i, inst).hello_timer = HelloInterval
           /\ NewEntry(i, inst).dead_timer = Off
           /\ NewEntry(i, inst).state = "IDLE"
           /\ NewEntry(i, inst).src_instance = inst
<1>1. HelloInterval \in 0 .. HelloInterval
  BY Intervals
<1>2. NewEntry(i, inst) \in Entry
  BY <1>1 DEF NewEntry, Unused, Entry
<1>3. NewEntry(i, inst).hello_timer = HelloInterval
  BY DEF NewEntry, Unused
<1>4. NewEntry(i, inst).dead_timer = Off
  BY DEF NewEntry, Unused
<1>5. NewEntry(i, inst).state = "IDLE"
  BY DEF NewEntry, Unused
<1>6. NewEntry(i, inst).src_instance = inst
  BY DEF NewEntry, Unused
<1>. QED  BY <1>2, <1>3, <1>4, <1>5, <1>6

\* What a received Hello does to an entry.
LEMMA ReceivedType ==
    ASSUME NEW e \in Entry, NEW m \in Hello, NEW late \in BOOLEAN
    PROVE  /\ received(e, m, late) \in Entry
           /\ received(e, m, late).hello_timer = e.hello_timer
           /\ received(e, m, late).src_instance = e.src_instance
           /\ received(e, m, late).dead_timer = DeadInterval
           /\ received(e, m, late).state = "UP"
           /\ received(e, m, late).dst_instance = m.src_instance
<1>1. DeadInterval \in 0 .. DeadInterval
  BY Intervals
<1>2. m.src_instance \in Instances
  BY DEF Hello
<1>3. received(e, m, late) \in Entry
  BY <1>1, <1>2 DEF received, Entry
<1>4. received(e, m, late).hello_timer = e.hello_timer
  BY DEF received, Entry
<1>5. received(e, m, late).src_instance = e.src_instance
  BY DEF received, Entry
<1>6. received(e, m, late).dead_timer = DeadInterval
  BY DEF received, Entry
<1>7. received(e, m, late).state = "UP"
  BY DEF received, Entry
<1>8. received(e, m, late).dst_instance = m.src_instance
  BY DEF received, Entry
<1>. QED  BY <1>3, <1>4, <1>5, <1>6, <1>7, <1>8

\* A timer that is not due keeps its type when a tick passes.
LEMMA TickedType ==
    ASSUME NEW max \in Nat, NEW t \in {Off} \cup 0 .. max, t # 0
    PROVE  /\ Ticked(t) \in {Off} \cup 0 .. max
           /\ t = Off <=> Ticked(t) = Off
           /\ t # Off => Ticked(t) = t - 1
BY DEF Ticked, Off

\* An entry's message is a message; it needs an instance of our own.
LEMMA SendType ==
    ASSUME NEW n \in Nodes, NEW p \in Nodes, NEW e \in Entry,
           e.src_instance \in Instances, NEW t \in {"REQUEST", "ACK"}
    PROVE  /\ send_hello(n, p, e, t) \in Hello
           /\ send_hello(n, p, e, t).c_type = t
           /\ send_hello(n, p, e, t).from = n
           /\ send_hello(n, p, e, t).to = p
BY DEF send_hello, Hello, Entry

\* The reply to a message: nothing, or an ACK.
LEMMA AcksType ==
    ASSUME NEW n \in Nodes, NEW p \in Nodes, NEW e \in Entry,
           e.src_instance \in Instances, NEW m
    PROVE  /\ Acks(n, p, e, m) \subseteq Hello
           /\ \A a \in Acks(n, p, e, m) : a.c_type = "ACK"
BY SendType DEF Acks

-----------------------------------------------------------------------------
(* The fields of an entry agree.                                           *)

EntryOK(e) ==
    /\ e.state = "NONE" <=> e.hello_timer = Off
    /\ e.state # "NONE" => e.src_instance \in Instances
    /\ e.state = "UP" => e.dead_timer # Off
    /\ e.state = "UP" => e.dst_instance # 0

EntriesOK == \A n, p \in Nodes : EntryOK(g_neighbors[n][p])

Inv == TypeOK /\ EntriesOK

\* A step that writes one entry, correctly, keeps the table correct.
LEMMA SetEntryKeeps ==
    ASSUME g_neighbors \in [Nodes -> [Nodes -> Entry]], EntriesOK,
           NEW n \in Nodes, NEW p \in Nodes, NEW e \in Entry, EntryOK(e),
           SetEntry(n, p, e)
    PROVE  /\ g_neighbors' \in [Nodes -> [Nodes -> Entry]]
           /\ EntriesOK'
<1>1. g_neighbors' \in [Nodes -> [Nodes -> Entry]]
  BY DEF SetEntry
<1>2. ASSUME NEW a \in Nodes, NEW b \in Nodes
      PROVE  EntryOK(g_neighbors'[a][b])
  <2>1. g_neighbors'[a][b] = e \/ g_neighbors'[a][b] = g_neighbors[a][b]
    BY DEF SetEntry
  <2>. QED  BY <2>1 DEF EntriesOK
<1>. QED  BY <1>1, <1>2 DEF EntriesOK

\* A fresh entry, and an entry that received a Hello, agree with themselves.
LEMMA NewEntryOK ==
    ASSUME NEW i \in {0, LinkIf}, NEW inst \in Instances
    PROVE  EntryOK(NewEntry(i, inst))
BY NewEntryType, Intervals DEF EntryOK

LEMMA ReceivedOK ==
    ASSUME NEW e \in Entry, NEW m \in Hello, NEW late \in BOOLEAN,
           EntryOK(e), e.state # "NONE"
    PROVE  /\ EntryOK(received(e, m, late))
           /\ received(e, m, late).src_instance \in Instances
<1>1. m.src_instance # 0
  BY HelloAssumption DEF Hello
<1>. QED  BY <1>1, ReceivedType, Intervals DEF EntryOK

\* The number of entries for other addresses stays within the table.
LEMMA RoomForOthers ==
    ASSUME TypeOK, NEW n \in Nodes, ~ TableFull(n)
    PROVE  others[n] + 1 \in 0 .. MaxNeighbors
<1>. DEFINE T == {p \in Nodes : Tracks(n, p)}
<1>1. Cardinality(T) \in Nat
  BY HelloAssumption, FS_Subset, FS_CardinalityType
<1>2. others[n] \in 0 .. MaxNeighbors /\ MaxNeighbors \in Nat
  BY HelloAssumption DEF TypeOK
<1>3. others[n] + Cardinality(T) < MaxNeighbors
  BY <1>1, <1>2 DEF TableFull, g_nbor_count
<1>. QED  BY <1>1, <1>2, <1>3

LEMMA InitInv == rsvp_hello_init => Inv
<1>. SUFFICES ASSUME rsvp_hello_init PROVE Inv
  OBVIOUS
<1>1. Unused \in Entry
  BY DEF Unused, Entry
<1>2. EntryOK(Unused)
  BY DEF EntryOK, Unused
<1>3. TypeOK
  BY <1>1, HelloAssumption DEF rsvp_hello_init, TypeOK, NoTrigger
<1>4. EntriesOK
  BY <1>2 DEF rsvp_hello_init, EntriesOK
<1>. QED  BY <1>3, <1>4 DEF Inv

\* Every step keeps the invariant.
LEMMA StepInv == Inv /\ [Next]_vars => Inv'
<1>. SUFFICES ASSUME TypeOK, EntriesOK, [Next]_vars PROVE TypeOK' /\ EntriesOK'
  BY DEF Inv
<1>. USE DEF TypeOK
<1>n. NoTrigger \in [node : SUBSET Nodes, ifindex : {Off, 0, LinkIf}]
  BY DEF NoTrigger
<1>t. ASSUME NEW n \in Nodes, NEW i \in {0, LinkIf}
      PROVE  Triggers(n, i) \in [node : SUBSET Nodes, ifindex : {Off, 0, LinkIf}]
  BY DEF Triggers
<1>1. CASE Tick
  <2>1. ASSUME NEW n \in Nodes, NEW p \in Nodes
        PROVE  g_neighbors'[n][p] \in Entry /\ EntryOK(g_neighbors'[n][p])
    <3>. DEFINE e == g_neighbors[n][p]
    <3>1. e \in Entry /\ EntryOK(e)
      BY DEF EntriesOK
    <3>2. /\ e.hello_timer \in {Off} \cup 0 .. HelloInterval
          /\ e.dead_timer \in {Off} \cup 0 .. DeadInterval
          /\ e.hello_timer # 0 /\ e.dead_timer # 0
      BY <1>1, <3>1 DEF Tick, TimerDue, Entry
    <3>3. /\ Ticked(e.hello_timer) \in {Off} \cup 0 .. HelloInterval
          /\ Ticked(e.dead_timer) \in {Off} \cup 0 .. DeadInterval
          /\ Ticked(e.hello_timer) = Off <=> e.hello_timer = Off
          /\ Ticked(e.dead_timer) = Off <=> e.dead_timer = Off
      BY <3>2, TickedType, Intervals
    <3>4. g_neighbors'[n][p] = [e EXCEPT !.hello_timer = Ticked(@),
                                         !.dead_timer = Ticked(@)]
      BY <1>1 DEF Tick
    <3>. HIDE DEF e
    <3>5. g_neighbors'[n][p] \in Entry
      BY <3>1, <3>3, <3>4 DEF Entry
    <3>6. /\ g_neighbors'[n][p].state = e.state
          /\ g_neighbors'[n][p].src_instance = e.src_instance
          /\ g_neighbors'[n][p].dst_instance = e.dst_instance
          /\ g_neighbors'[n][p].hello_timer = Ticked(e.hello_timer)
          /\ g_neighbors'[n][p].dead_timer = Ticked(e.dead_timer)
      BY <3>1, <3>4 DEF Entry
    <3>7. EntryOK(g_neighbors'[n][p])
      BY <3>1, <3>3, <3>6 DEF EntryOK
    <3>. QED  BY <3>5, <3>7
  <2>2. g_neighbors' \in [Nodes -> [Nodes -> Entry]]
    BY <1>1, <2>1 DEF Tick
  <2>3. EntriesOK'
    BY <2>1 DEF EntriesOK
  <2>. QED  BY <1>1, <1>n, <2>2, <2>3 DEF Tick
<1>2. ASSUME NEW n \in Nodes, add_other_neighbor(n) PROVE TypeOK' /\ EntriesOK'
  <2>1. others[n] + 1 \in 0 .. MaxNeighbors
    BY <1>2, RoomForOthers DEF add_other_neighbor
  <2>2. EntriesOK'
    BY <1>2 DEF add_other_neighbor, EntriesOK
  <2>. QED  BY <1>2, <1>n, <2>1, <2>2 DEF add_other_neighbor
<1>3. ASSUME NEW n \in Nodes, rsvp_hello_shutdown(n) PROVE TypeOK' /\ EntriesOK'
  <2>1. Unused \in Entry /\ EntryOK(Unused)
    BY DEF Unused, Entry, EntryOK
  <2>2. g_neighbors' \in [Nodes -> [Nodes -> Entry]]
    BY <1>3, <2>1 DEF rsvp_hello_shutdown
  <2>3. ASSUME NEW a \in Nodes, NEW b \in Nodes PROVE EntryOK(g_neighbors'[a][b])
    <3>1. g_neighbors'[a][b] = Unused \/ g_neighbors'[a][b] = g_neighbors[a][b]
      BY <1>3 DEF rsvp_hello_shutdown
    <3>. QED  BY <2>1, <3>1 DEF EntriesOK
  <2>4. EntriesOK'
    BY <2>3 DEF EntriesOK
  <2>5. /\ running' \in [Nodes -> BOOLEAN]
        /\ others' \in [Nodes -> 0 .. MaxNeighbors]
        /\ heard' \in [Nodes -> SUBSET Nodes]
        /\ stops' \in 0 .. MaxStops
    BY <1>3, HelloAssumption DEF rsvp_hello_shutdown
  <2>6. lost' \in [Nodes -> [Nodes -> 0 .. MaxLost]]
    BY <1>3, HelloAssumption DEF rsvp_hello_shutdown
  <2>. QED  BY <1>3, <1>n, <2>2, <2>4, <2>5, <2>6 DEF rsvp_hello_shutdown
<1>4. ASSUME NEW n \in Nodes, start(n) PROVE TypeOK' /\ EntriesOK'
  <2>1. EntriesOK'
    BY <1>4 DEF start, EntriesOK
  <2>2. running' \in [Nodes -> BOOLEAN]
    BY <1>4 DEF start
  <2>. QED  BY <1>4, <1>n, <2>1, <2>2 DEF start
<1>5. ASSUME NEW n \in Nodes, NEW p \in Nodes, rsvp_hello_add_neighbor(n, p)
      PROVE  TypeOK' /\ EntriesOK'
  <2>1. PICK i \in {0, LinkIf}, inst \in Instances : SetEntry(n, p, NewEntry(i, inst))
    BY <1>5 DEF rsvp_hello_add_neighbor
  <2>2. g_neighbors' \in [Nodes -> [Nodes -> Entry]] /\ EntriesOK'
    BY <2>1, NewEntryType, NewEntryOK, SetEntryKeeps
  <2>3. heard' \in [Nodes -> SUBSET Nodes]
    BY <1>5 DEF rsvp_hello_add_neighbor
  <2>. QED  BY <1>5, <1>n, <2>2, <2>3 DEF rsvp_hello_add_neighbor
<1>6. ASSUME NEW n \in Nodes, NEW p \in Nodes, hello_timer_cb(n, p)
      PROVE  TypeOK' /\ EntriesOK'
  <2>. DEFINE e == g_neighbors[n][p]
              f == [e EXCEPT !.hello_timer = HelloInterval]
  <2>1. e \in Entry /\ EntryOK(e) /\ e.state # "NONE"
    BY <1>6 DEF EntriesOK, hello_timer_cb, Tracks
  <2>2. SetEntry(n, p, f) /\ net' = net \cup {send_hello(n, p, e, "REQUEST")}
    BY <1>6 DEF hello_timer_cb
  <2>3. send_hello(n, p, e, "REQUEST") \in Hello
    BY <2>1, SendType DEF EntryOK
  <2>. HIDE DEF e
  <2>4. HelloInterval \in 0 .. HelloInterval /\ HelloInterval # Off
    BY Intervals
  <2>5. f \in Entry
    BY <2>1, <2>4 DEF Entry
  <2>6. /\ f.state = e.state /\ f.src_instance = e.src_instance
        /\ f.dst_instance = e.dst_instance
        /\ f.hello_timer = HelloInterval /\ f.dead_timer = e.dead_timer
    BY <2>1 DEF Entry
  <2>. HIDE DEF f
  <2>7. EntryOK(f)
    BY <2>1, <2>4, <2>6 DEF EntryOK
  <2>8. g_neighbors' \in [Nodes -> [Nodes -> Entry]] /\ EntriesOK'
    BY <2>2, <2>5, <2>7, SetEntryKeeps
  <2>. QED  BY <1>6, <1>n, <2>2, <2>3, <2>8 DEF hello_timer_cb
<1>7. ASSUME NEW n \in Nodes, NEW p \in Nodes, dead_timer_cb(n, p)
      PROVE  TypeOK' /\ EntriesOK'
  <2>. DEFINE e == g_neighbors[n][p]
              f == [e EXCEPT !.state = "DOWN", !.dead_timer = Off]
  <2>1. e \in Entry /\ EntryOK(e) /\ e.state # "NONE"
    BY <1>7 DEF EntriesOK, dead_timer_cb, Tracks
  <2>2. SetEntry(n, p, f) /\ frr' = Triggers(n, e.ifindex)
    BY <1>7 DEF dead_timer_cb
  <2>3. e.ifindex \in {0, LinkIf}
    BY <2>1 DEF Entry
  <2>4. frr' \in [node : SUBSET Nodes, ifindex : {Off, 0, LinkIf}]
    BY <1>t, <2>2, <2>3
  <2>. HIDE DEF e
  <2>5. f \in Entry
    BY <2>1 DEF Entry
  <2>6. /\ f.state = "DOWN" /\ f.src_instance = e.src_instance
        /\ f.hello_timer = e.hello_timer /\ f.dead_timer = Off
    BY <2>1 DEF Entry
  <2>. HIDE DEF f
  <2>7. EntryOK(f)
    BY <2>1, <2>6 DEF EntryOK
  <2>8. g_neighbors' \in [Nodes -> [Nodes -> Entry]] /\ EntriesOK'
    BY <2>2, <2>5, <2>7, SetEntryKeeps
  <2>. QED  BY <1>7, <2>4, <2>8 DEF dead_timer_cb
<1>8. ASSUME NEW m \in net, rsvp_hello_recv(m) PROVE TypeOK' /\ EntriesOK'
  <2>. DEFINE n == m.to
              p == m.from
              e == g_neighbors[n][p]
              g == received(e, m, FALSE)
  <2>1. m \in Hello /\ n \in Nodes /\ p \in Nodes
    BY DEF Hello
  <2>2. e \in Entry /\ EntryOK(e) /\ e.state # "NONE"
    BY <1>8, <2>1 DEF EntriesOK, rsvp_hello_recv, Tracks
  <2>l. PICK late \in OldExpiry(e) : SetEntry(n, p, received(e, m, late))
    BY <1>8 DEF rsvp_hello_recv
  <2>b. late \in BOOLEAN
    BY <2>l DEF OldExpiry
  <2>. DEFINE f == received(e, m, late)
  <2>3. /\ SetEntry(n, p, f) /\ net' = (net \ {m}) \cup Acks(n, p, g, m)
        /\ frr' = IF Restarted(e, m) THEN Triggers(n, e.ifindex) ELSE NoTrigger
    BY <1>8, <2>l DEF rsvp_hello_recv
  <2>4. e.ifindex \in {0, LinkIf}
    BY <2>2 DEF Entry
  <2>5. frr' \in [node : SUBSET Nodes, ifindex : {Off, 0, LinkIf}]
    BY <1>n, <1>t, <2>1, <2>3, <2>4
  <2>6. /\ f \in Entry /\ EntryOK(f)
        /\ g \in Entry /\ g.src_instance \in Instances
    BY <2>1, <2>2, <2>b, ReceivedType, ReceivedOK
  <2>7. net' \subseteq Hello
    BY <2>1, <2>3, <2>6, AcksType
  <2>8. g_neighbors' \in [Nodes -> [Nodes -> Entry]] /\ EntriesOK'
    BY <2>1, <2>3, <2>6, SetEntryKeeps
  <2>9. /\ heard' \in [Nodes -> SUBSET Nodes]
        /\ lost' \in [Nodes -> [Nodes -> 0 .. MaxLost]]
    <3>1. heard' \in [Nodes -> SUBSET Nodes]
      BY <1>8, <2>1 DEF rsvp_hello_recv
    <3>2. lost' = [lost EXCEPT ![n][p] = 0]
      BY <1>8 DEF rsvp_hello_recv, Delivered
    <3>. QED  BY <2>1, <3>1, <3>2, HelloAssumption
  <2>. QED  BY <1>8, <2>5, <2>7, <2>8, <2>9 DEF rsvp_hello_recv, Delivered
<1>9. ASSUME NEW m \in net, hello_discovers(m) PROVE TypeOK' /\ EntriesOK'
  <2>. DEFINE n == m.to
              p == m.from
  <2>1. m \in Hello /\ n \in Nodes /\ p \in Nodes
    BY DEF Hello
  <2>2. PICK inst \in Instances :
           /\ SetEntry(n, p, received(NewEntry(0, inst), m, FALSE))
           /\ net' = (net \ {m}) \cup Acks(n, p, received(NewEntry(0, inst), m, FALSE), m)
    BY <1>9 DEF hello_discovers
  <2>. DEFINE e == NewEntry(0, inst)
              f == received(e, m, FALSE)
  <2>3. e \in Entry /\ EntryOK(e) /\ e.state # "NONE"
    BY NewEntryType, NewEntryOK
  <2>4. f \in Entry /\ EntryOK(f) /\ f.src_instance \in Instances
    BY <2>1, <2>3, ReceivedType, ReceivedOK
  <2>5. net' \subseteq Hello
    BY <2>1, <2>2, <2>4, AcksType
  <2>6. g_neighbors' \in [Nodes -> [Nodes -> Entry]] /\ EntriesOK'
    BY <2>1, <2>2, <2>4, SetEntryKeeps
  <2>7. lost' \in [Nodes -> [Nodes -> 0 .. MaxLost]]
    BY <1>9, <2>1, HelloAssumption DEF hello_discovers, Delivered
  <2>8. heard' \in [Nodes -> SUBSET Nodes]
    BY <1>9, <2>1 DEF hello_discovers
  <2>. QED  BY <1>9, <1>n, <2>5, <2>6, <2>7, <2>8 DEF hello_discovers, Delivered
<1>10. ASSUME NEW m \in net, hello_dropped(m) PROVE TypeOK' /\ EntriesOK'
  <2>1. EntriesOK'
    BY <1>10 DEF hello_dropped, EntriesOK
  <2>. QED  BY <1>10, <1>n, <2>1 DEF hello_dropped
<1>11. ASSUME NEW m \in net, hello_lost(m) PROVE TypeOK' /\ EntriesOK'
  <2>1. m.to \in Nodes /\ m.from \in Nodes
    BY DEF Hello
  <2>2. lost' \in [Nodes -> [Nodes -> 0 .. MaxLost]]
    <3>1. CASE m.c_type = "REQUEST"
      <4>1. /\ lost[m.to][m.from] < MaxLost
            /\ lost' = [lost EXCEPT ![m.to][m.from] = lost[m.to][m.from] + 1]
        BY <1>11, <3>1 DEF hello_lost
      <4>2. lost[m.to][m.from] + 1 \in 0 .. MaxLost
        BY <2>1, <4>1, HelloAssumption
      <4>. QED  BY <2>1, <4>1, <4>2
    <3>2. CASE m.c_type # "REQUEST"
      BY <1>11, <3>2 DEF hello_lost
    <3>. QED  BY <3>1, <3>2
  <2>3. EntriesOK'
    BY <1>11 DEF hello_lost, EntriesOK
  <2>. QED  BY <1>11, <1>n, <2>2, <2>3 DEF hello_lost
<1>12. CASE UNCHANGED vars
  <2>1. EntriesOK'
    BY <1>12 DEF vars, EntriesOK
  <2>. QED  BY <1>12, <2>1 DEF vars
<1>13. ASSUME NEW n \in Nodes, NEW p \in Nodes, dead_timer_late(n, p)
       PROVE  TypeOK' /\ EntriesOK'
  <2>. DEFINE e == g_neighbors[n][p]
              f == [e EXCEPT !.state = "DOWN", !.late = FALSE]
  <2>1. e \in Entry /\ EntryOK(e) /\ e.state # "NONE"
    BY <1>13 DEF EntriesOK, dead_timer_late, Tracks
  <2>2. SetEntry(n, p, f) /\ frr' = Triggers(n, e.ifindex)
    BY <1>13 DEF dead_timer_late
  <2>3. e.ifindex \in {0, LinkIf}
    BY <2>1 DEF Entry
  <2>4. frr' \in [node : SUBSET Nodes, ifindex : {Off, 0, LinkIf}]
    BY <1>t, <2>2, <2>3
  <2>. HIDE DEF e
  <2>5. f \in Entry
    BY <2>1 DEF Entry
  <2>6. /\ f.state = "DOWN" /\ f.src_instance = e.src_instance
        /\ f.hello_timer = e.hello_timer
    BY <2>1 DEF Entry
  <2>. HIDE DEF f
  <2>7. EntryOK(f)
    BY <2>1, <2>6 DEF EntryOK
  <2>8. g_neighbors' \in [Nodes -> [Nodes -> Entry]] /\ EntriesOK'
    BY <2>2, <2>5, <2>7, SetEntryKeeps
  <2>. QED  BY <1>13, <2>4, <2>8 DEF dead_timer_late
<1>. QED
  BY <1>1, <1>2, <1>3, <1>4, <1>5, <1>6, <1>7, <1>8, <1>9, <1>10, <1>11, <1>12,
     <1>13
  DEF Next

\* The types of RsvpHello hold in every reachable state.
THEOREM HelloTypeCorrect == Spec => []TypeOK
<1>1. Inv => TypeOK
  BY DEF Inv
<1>. QED  BY InitInv, StepInv, <1>1, PTL DEF Spec

\* In every reachable state a neighbour that is UP has an armed dead timer, for
\* every order of Hellos, restarts, due timers and expiries that dead_timer_cb
\* sees after the Hello which replaced their arming.
THEOREM HelloUpIsWatched == Spec => []UpIsWatched
<1>1. Inv => UpIsWatched
  BY DEF Inv, EntriesOK, EntryOK, UpIsWatched, IsUp
<1>. QED  BY InitInv, StepInv, <1>1, PTL DEF Spec

-----------------------------------------------------------------------------
(* No false alarm.  Per link, the dead timer of the receiver always exceeds *)
(* what the sender may still use up: one interval for every REQUEST that    *)
(* may yet be lost, plus the time to the next REQUEST.                      *)

\* A REQUEST from p to n is in flight.
InFlight(p, n) == \E m \in net : m.from = p /\ m.to = n /\ m.c_type = "REQUEST"

\* Intervals the dead timer of n for p has left beyond the next REQUEST.
Spare(n, p) == DeadFactor - 1 - lost[n][p] - (IF InFlight(p, n) THEN 1 ELSE 0)

\* A REQUEST in flight was sent in the current tick.
SentNow ==
    \A n, p \in Nodes :
       InFlight(n, p) => g_neighbors[n][p].hello_timer \in {Off, HelloInterval}

\* Who has been heard is tracked, and only a running daemon tracks anyone.
HeardTracked ==
    \A n, p \in Nodes : /\ p \in heard[n] => Tracks(n, p)
                        /\ Tracks(n, p) => running[n]

InTime(n, p) ==
    /\ g_neighbors[n][p].dead_timer # Off
    /\ g_neighbors[n][p].dead_timer >=
          Spare(n, p) * HelloInterval + g_neighbors[p][n].hello_timer

AllInTime ==
    \A n, p \in Nodes : (Tracks(p, n) /\ p \in heard[n]) => InTime(n, p)

AlarmInv == Inv /\ SentNow /\ HeardTracked /\ AllInTime

\* Products with the interval: they are integers, naturals for a natural
\* factor, monotonic, and one factor more is one interval more.
LEMMA IntervalInt == \A x \in Int : x * HelloInterval \in Int
<1>1. HelloInterval \in Nat
  BY HelloAssumption
<1>2. \A h \in Nat : \A x \in Int : x * h \in Int
  BY SMT
<1>. QED  BY <1>1, <1>2, Zenon

LEMMA IntervalNat == \A x \in Nat : x * HelloInterval \in Nat
<1>1. HelloInterval \in Nat
  BY HelloAssumption
<1>2. \A h \in Nat : \A x \in Nat : x * h \in Nat
  BY SMT
<1>. QED  BY <1>1, <1>2, Zenon

LEMMA IntervalMonotonic ==
    \A x, y \in Int : x <= y => x * HelloInterval <= y * HelloInterval
<1>1. HelloInterval \in Nat
  BY HelloAssumption
<1>2. \A h \in Nat : \A x, y \in Int : x <= y => x * h <= y * h
  BY SMT
<1>. QED  BY <1>1, <1>2, Zenon

LEMMA IntervalStep ==
    \A x \in Int : (x - 1) * HelloInterval + HelloInterval = x * HelloInterval
<1>1. HelloInterval \in Nat
  BY HelloAssumption
<1>2. \A h \in Nat : \A x \in Int : (x - 1) * h + h = x * h
  BY SMT
<1>. QED  BY <1>1, <1>2, Zenon

LEMMA DeadIntervalIs == DeadInterval = DeadFactor * HelloInterval
<1>1. HelloInterval \in Nat /\ DeadFactor \in Nat
  BY HelloAssumption
<1>2. \A h, x \in Nat : h * x = x * h
  BY SMT
<1>. QED  BY <1>1, <1>2, Zenon DEF DeadInterval

\* The timers of an entry are integers.
LEMMA TimerInts ==
    ASSUME TypeOK, NEW n \in Nodes, NEW p \in Nodes
    PROVE  /\ g_neighbors[n][p] \in Entry
           /\ g_neighbors[n][p].hello_timer \in Int
           /\ g_neighbors[n][p].dead_timer \in Int
           /\ g_neighbors[n][p].hello_timer <= HelloInterval
           /\ g_neighbors[n][p].hello_timer # Off => g_neighbors[n][p].hello_timer >= 0
           /\ lost[n][p] \in 0 .. MaxLost
           /\ Spare(n, p) \in Int
           /\ Spare(n, p) <= DeadFactor - 1 - lost[n][p]
<1>1. g_neighbors[n][p] \in Entry
  BY DEF TypeOK
<1>2. /\ g_neighbors[n][p].hello_timer \in {Off} \cup 0 .. HelloInterval
      /\ g_neighbors[n][p].dead_timer \in {Off} \cup 0 .. DeadInterval
  BY <1>1 DEF Entry
<1>3. lost[n][p] \in 0 .. MaxLost
  BY DEF TypeOK
<1>. QED  BY <1>1, <1>2, <1>3, Intervals, HelloAssumption DEF Off, Spare

\* A link whose dead timer stays, whose next REQUEST comes no later and whose
\* spare intervals do not grow stays in time.
LEMMA StaysInTime ==
    ASSUME TypeOK, TypeOK', NEW n \in Nodes, NEW p \in Nodes, InTime(n, p),
           g_neighbors'[n][p].dead_timer = g_neighbors[n][p].dead_timer,
           g_neighbors'[p][n].hello_timer <= g_neighbors[p][n].hello_timer,
           Spare(n, p)' <= Spare(n, p)
    PROVE  InTime(n, p)'
<1>1. Spare(n, p)' \in Int /\ Spare(n, p) \in Int
  BY TimerInts, HelloAssumption DEF TypeOK, Spare
<1>2. Spare(n, p)' * HelloInterval <= Spare(n, p) * HelloInterval
  BY <1>1, IntervalMonotonic, Zenon
<1>3. /\ g_neighbors[n][p].dead_timer \in Int
      /\ g_neighbors[p][n].hello_timer \in Int
      /\ g_neighbors'[p][n].hello_timer \in Int
  <2>1. g_neighbors'[p][n] \in Entry
    BY DEF TypeOK
  <2>2. g_neighbors'[p][n].hello_timer \in {Off} \cup 0 .. HelloInterval
    BY <2>1 DEF Entry
  <2>. QED  BY <2>2, TimerInts, Intervals DEF Off
<1>4. Spare(n, p)' * HelloInterval \in Int /\ Spare(n, p) * HelloInterval \in Int
  BY <1>1, IntervalInt, Zenon
<1>5. \A d, s, t, h, i \in Int : d >= s + h /\ t <= s /\ i <= h => d >= t + i
  BY SMT
<1>6. /\ g_neighbors[n][p].dead_timer # Off
      /\ g_neighbors[n][p].dead_timer >=
            Spare(n, p) * HelloInterval + g_neighbors[p][n].hello_timer
  BY DEF InTime
<1>7. g_neighbors[n][p].dead_timer >=
         Spare(n, p)' * HelloInterval + g_neighbors'[p][n].hello_timer
  BY <1>2, <1>3, <1>4, <1>5, <1>6
<1>. QED  BY <1>6, <1>7 DEF InTime

\* A link on which nothing of this happens: neither entry's timer, nor the
\* losses, nor a REQUEST in flight.
LEMMA UntouchedInTime ==
    ASSUME TypeOK, TypeOK', NEW n \in Nodes, NEW p \in Nodes, InTime(n, p),
           g_neighbors'[n][p].dead_timer = g_neighbors[n][p].dead_timer,
           g_neighbors'[p][n].hello_timer = g_neighbors[p][n].hello_timer,
           lost'[n][p] = lost[n][p], InFlight(p, n) => InFlight(p, n)'
    PROVE  InTime(n, p)'
<1>1. lost[n][p] \in Int
  BY TimerInts
<1>2. Spare(n, p)' <= Spare(n, p)
  BY <1>1, HelloAssumption DEF Spare
<1>3. g_neighbors[p][n].hello_timer \in Int
  BY TimerInts
<1>. QED  BY <1>2, <1>3, StaysInTime

\* A link whose dead timer has just been armed and whose losses are forgotten.
LEMMA FreshInTime ==
    ASSUME TypeOK', NEW n \in Nodes, NEW p \in Nodes,
           g_neighbors'[n][p].dead_timer = DeadInterval, lost'[n][p] = 0
    PROVE  InTime(n, p)'
<1>1. g_neighbors'[p][n] \in Entry
  BY DEF TypeOK
<1>2. g_neighbors'[p][n].hello_timer \in {Off} \cup 0 .. HelloInterval
  BY <1>1 DEF Entry
<1>3. g_neighbors'[p][n].hello_timer \in Int /\ g_neighbors'[p][n].hello_timer <= HelloInterval
  BY <1>2, Intervals DEF Off
<1>4. Spare(n, p)' \in Int /\ Spare(n, p)' <= DeadFactor - 1
  BY HelloAssumption DEF Spare
<1>5. DeadFactor \in Int /\ DeadFactor - 1 \in Int
  BY HelloAssumption
<1>6. Spare(n, p)' * HelloInterval <= (DeadFactor - 1) * HelloInterval
  BY <1>4, <1>5, IntervalMonotonic, Zenon
<1>7. (DeadFactor - 1) * HelloInterval + HelloInterval = DeadInterval
  BY <1>5, IntervalStep, DeadIntervalIs, Zenon
<1>8. (DeadFactor - 1) * HelloInterval \in Int /\ Spare(n, p)' * HelloInterval \in Int
  BY <1>4, <1>5, IntervalInt, Zenon
<1>. QED  BY <1>3, <1>6, <1>7, <1>8, Intervals DEF InTime

\* A due dead timer is never that of a live link: REQUESTs that may still be
\* lost leave it at least one interval.
LEMMA InTimeNotDue ==
    ASSUME AlarmInv, MaxLost + 2 <= DeadFactor
    PROVE  NoFalseAlarm
<1>. SUFFICES ASSUME NEW n \in Nodes, NEW p \in Nodes, Tracks(p, n), p \in heard[n]
              PROVE  g_neighbors[n][p].dead_timer # 0
  BY DEF NoFalseAlarm
<1>. DEFINE S == Spare(n, p)
            h == g_neighbors[p][n].hello_timer
            d == g_neighbors[n][p].dead_timer
<1>1. d >= S * HelloInterval + h
  BY DEF AlarmInv, AllInTime, InTime
<1>2. h \in Nat /\ S \in Int /\ d \in Int
  <2>1. EntryOK(g_neighbors[p][n]) /\ g_neighbors[p][n].state # "NONE"
    BY DEF AlarmInv, Inv, EntriesOK, Tracks
  <2>2. h # Off
    BY <2>1 DEF EntryOK
  <2>. QED  BY <2>2, TimerInts DEF AlarmInv, Inv
<1>3. CASE InFlight(p, n)
  <2>1. h = HelloInterval
    BY <1>2, <1>3 DEF AlarmInv, SentNow, Off
  <2>2. S >= 0
    <3>1. S = DeadFactor - 1 - lost[n][p] - 1
      BY <1>3 DEF Spare
    <3>2. lost[n][p] \in 0 .. MaxLost
      BY TimerInts DEF AlarmInv, Inv
    <3>. HIDE DEF S
    <3>. QED  BY <3>1, <3>2, HelloAssumption
  <2>. HIDE DEF S, h, d
  <2>3. S * HelloInterval \in Nat
    <3>1. S \in Nat
      BY <1>2, <2>2
    <3>. QED  BY <3>1, IntervalNat, Zenon
  <2>4. d > 0
    BY <1>1, <1>2, <2>1, <2>3, Intervals
  <2>. QED  BY <2>4 DEF d
<1>4. CASE ~ InFlight(p, n)
  <2>1. S >= 1
    <3>1. S = DeadFactor - 1 - lost[n][p] - 0
      BY <1>4 DEF Spare
    <3>2. lost[n][p] \in 0 .. MaxLost
      BY TimerInts DEF AlarmInv, Inv
    <3>. HIDE DEF S
    <3>. QED  BY <3>1, <3>2, HelloAssumption
  <2>. HIDE DEF S, h, d
  <2>2. 1 * HelloInterval <= S * HelloInterval /\ S * HelloInterval \in Int
    <3>1. 1 \in Int /\ 1 <= S
      BY <1>2, <2>1
    <3>. QED  BY <1>2, <3>1, IntervalMonotonic, IntervalInt, Zenon
  <2>3. 1 * HelloInterval = HelloInterval
    BY Intervals
  <2>4. d > 0
    BY <1>1, <1>2, <2>2, <2>3, Intervals
  <2>. QED  BY <2>4 DEF d
<1>. QED  BY <1>3, <1>4

\* A step that writes one entry leaves the others alone.
LEMMA SetEntryOthers ==
    ASSUME TypeOK, NEW n \in Nodes, NEW p \in Nodes, NEW e, SetEntry(n, p, e)
    PROVE  /\ g_neighbors'[n][p] = e
           /\ \A a, b \in Nodes : a # n \/ b # p => g_neighbors'[a][b] = g_neighbors[a][b]
BY DEF SetEntry, TypeOK

\* Time passes for both timers of a link at once.
LEMMA AlarmTick ==
    ASSUME AlarmInv, TypeOK', Tick
    PROVE  SentNow' /\ HeardTracked' /\ AllInTime'
<1>. USE DEF AlarmInv, Inv
<1>1. net = {} /\ net' = {} /\ lost' = lost /\ heard' = heard /\ running' = running
  BY DEF Tick
<1>2. ASSUME NEW a \in Nodes, NEW b \in Nodes
      PROVE  /\ g_neighbors'[a][b].state = g_neighbors[a][b].state
             /\ g_neighbors'[a][b].hello_timer = Ticked(g_neighbors[a][b].hello_timer)
             /\ g_neighbors'[a][b].dead_timer = Ticked(g_neighbors[a][b].dead_timer)
  <2>. DEFINE e == g_neighbors[a][b]
  <2>1. e \in Entry
    BY DEF TypeOK
  <2>2. g_neighbors'[a][b] = [e EXCEPT !.hello_timer = Ticked(e.hello_timer),
                                       !.dead_timer = Ticked(e.dead_timer)]
    BY DEF Tick
  <2>. HIDE DEF e
  <2>3. g_neighbors'[a][b].state = e.state
    BY <2>1, <2>2 DEF Entry
  <2>4. g_neighbors'[a][b].hello_timer = Ticked(e.hello_timer)
    BY <2>1, <2>2 DEF Entry
  <2>5. g_neighbors'[a][b].dead_timer = Ticked(e.dead_timer)
    BY <2>1, <2>2 DEF Entry
  <2>. QED  BY <2>3, <2>4, <2>5 DEF e
<1>3. SentNow'
  BY <1>1 DEF SentNow, InFlight
<1>4. HeardTracked'
  BY <1>1, <1>2 DEF HeardTracked, Tracks
<1>5. ASSUME NEW n \in Nodes, NEW p \in Nodes, Tracks(p, n)', p \in heard'[n]
      PROVE  InTime(n, p)'
  <2>. DEFINE h == g_neighbors[p][n].hello_timer
              d == g_neighbors[n][p].dead_timer
              k == Spare(n, p) * HelloInterval
  <2>1. Tracks(p, n) /\ InTime(n, p)
    BY <1>1, <1>2, <1>5 DEF AllInTime, Tracks
  <2>2. h # Off /\ d # Off /\ d >= k + h
    BY <2>1 DEF InTime, EntriesOK, EntryOK, Tracks
  <2>3. h # 0 /\ d # 0
    BY DEF Tick, TimerDue
  <2>4. g_neighbors'[p][n].hello_timer = h - 1 /\ g_neighbors'[n][p].dead_timer = d - 1
    BY <1>2, <2>2 DEF Ticked
  <2>5. Spare(n, p)' = Spare(n, p)
    BY <1>1 DEF Spare, InFlight
  <2>6. h \in Int /\ d \in Int /\ k \in Int
    <3>1. h \in Int /\ d \in Int /\ Spare(n, p) \in Int
      BY TimerInts
    <3>. QED  BY <3>1, IntervalInt, Zenon
  <2>7. d \in {Off} \cup 0 .. DeadInterval
    <3>1. g_neighbors[n][p] \in Entry
      BY DEF TypeOK
    <3>. QED  BY <3>1 DEF Entry
  <2>. HIDE DEF h, d, k
  <2>8. d - 1 >= k + (h - 1) /\ d - 1 # Off
    BY <2>2, <2>3, <2>6, <2>7, Intervals DEF Off
  <2>9. Spare(n, p)' * HelloInterval = k
    BY <2>5 DEF k
  <2>. QED  BY <2>4, <2>8, <2>9 DEF InTime
<1>. QED  BY <1>3, <1>4, <1>5 DEF AllInTime

\* A daemon that stops is neither heard nor hears.
LEMMA AlarmShutdown ==
    ASSUME AlarmInv, TypeOK', NEW n \in Nodes, rsvp_hello_shutdown(n)
    PROVE  SentNow' /\ HeardTracked' /\ AllInTime'
<1>. USE DEF AlarmInv, Inv
<1>1. /\ net' = net
      /\ \A a, b \in Nodes : b \in heard'[a] => b \in heard[a] /\ a # n /\ b # n
      /\ \A a, b \in Nodes : a # n => g_neighbors'[a][b] = g_neighbors[a][b]
      /\ \A b \in Nodes : g_neighbors'[n][b] = Unused
      /\ \A a \in Nodes : a # n => running'[a] = running[a]
  BY DEF rsvp_hello_shutdown, TypeOK
<1>2. \A a, b \in Nodes : a # n /\ b # n => lost'[a][b] = lost[a][b]
  BY DEF rsvp_hello_shutdown, TypeOK
<1>3. Unused.hello_timer = Off /\ Unused.state = "NONE"
  BY DEF Unused
<1>4. SentNow'
  BY <1>1, <1>3 DEF SentNow, InFlight
<1>5. HeardTracked'
  BY <1>1, <1>3 DEF HeardTracked, Tracks
<1>6. ASSUME NEW a \in Nodes, NEW b \in Nodes, Tracks(b, a)', b \in heard'[a]
      PROVE  InTime(a, b)'
  <2>1. a # n /\ b # n /\ Tracks(b, a) /\ b \in heard[a]
    BY <1>1, <1>6 DEF Tracks
  <2>2. InTime(a, b)
    BY <2>1 DEF AllInTime
  <2>3. InFlight(b, a) => InFlight(b, a)'
    BY <1>1 DEF InFlight
  <2>. QED  BY <1>1, <1>2, <2>1, <2>2, <2>3, UntouchedInTime
<1>. QED  BY <1>4, <1>5, <1>6 DEF AllInTime

\* A neighbour that is newly configured has not heard this router since.
LEMMA AlarmAdd ==
    ASSUME AlarmInv, TypeOK', NEW n \in Nodes, NEW p \in Nodes,
           rsvp_hello_add_neighbor(n, p)
    PROVE  SentNow' /\ HeardTracked' /\ AllInTime'
<1>. USE DEF AlarmInv, Inv
<1>1. /\ net' = net /\ lost' = lost /\ running' = running /\ running[n] /\ n # p
      /\ \A a, b \in Nodes : b \in heard'[a] => b \in heard[a] /\ (a # p \/ b # n)
      /\ ~ Tracks(n, p)
  BY DEF rsvp_hello_add_neighbor, Peers, TypeOK
<1>2. PICK i \in {0, LinkIf}, inst \in Instances : SetEntry(n, p, NewEntry(i, inst))
  BY DEF rsvp_hello_add_neighbor
<1>3. \A a, b \in Nodes : a # n \/ b # p => g_neighbors'[a][b] = g_neighbors[a][b]
  BY <1>2, SetEntryOthers
<1>4. g_neighbors'[n][p].hello_timer = HelloInterval /\ g_neighbors'[n][p].state = "IDLE"
  BY <1>2, SetEntryOthers, NewEntryType
<1>5. SentNow'
  BY <1>1, <1>3, <1>4 DEF SentNow, InFlight
<1>6. HeardTracked'
  BY <1>1, <1>3, <1>4 DEF HeardTracked, Tracks
<1>7. ASSUME NEW a \in Nodes, NEW b \in Nodes, Tracks(b, a)', b \in heard'[a]
      PROVE  InTime(a, b)'
  <2>1. b \in heard[a] /\ (a # p \/ b # n) /\ (a # n \/ b # p)
    BY <1>1, <1>7 DEF HeardTracked
  <2>2. g_neighbors'[a][b] = g_neighbors[a][b] /\ g_neighbors'[b][a] = g_neighbors[b][a]
    BY <1>3, <2>1
  <2>3. InTime(a, b)
    BY <1>7, <2>1, <2>2 DEF AllInTime, Tracks
  <2>4. InFlight(b, a) => InFlight(b, a)'
    BY <1>1 DEF InFlight
  <2>. QED  BY <1>1, <2>2, <2>3, <2>4, UntouchedInTime
<1>. QED  BY <1>5, <1>6, <1>7 DEF AllInTime

\* A REQUEST that is sent uses up one spare interval and starts the next one.
LEMMA AlarmSend ==
    ASSUME AlarmInv, TypeOK', NEW n \in Nodes, NEW p \in Nodes, hello_timer_cb(n, p)
    PROVE  SentNow' /\ HeardTracked' /\ AllInTime'
<1>. USE DEF AlarmInv, Inv
<1>. DEFINE e == g_neighbors[n][p]
            f == [e EXCEPT !.hello_timer = HelloInterval]
            m == send_hello(n, p, e, "REQUEST")
<1>1. /\ lost' = lost /\ running' = running /\ heard' = heard
      /\ net' = net \cup {m} /\ SetEntry(n, p, f)
      /\ Tracks(n, p) /\ e.hello_timer = 0
  BY DEF hello_timer_cb
<1>2. m.from = n /\ m.to = p /\ m.c_type = "REQUEST"
  BY DEF send_hello
<1>3. /\ \A a, b \in Nodes : a # n \/ b # p => g_neighbors'[a][b] = g_neighbors[a][b]
      /\ g_neighbors'[n][p] = f
  BY <1>1, SetEntryOthers
<1>4. f.hello_timer = HelloInterval /\ f.state = e.state /\ f.dead_timer = e.dead_timer
  <2>1. e \in Entry
    BY DEF TypeOK
  <2>. HIDE DEF e
  <2>. QED  BY <2>1 DEF Entry
<1>. HIDE DEF m, f
<1>5. \A a, b \in Nodes : /\ InFlight(a, b) => InFlight(a, b)'
                          /\ InFlight(a, b)' /\ (a # n \/ b # p) => InFlight(a, b)
  BY <1>1, <1>2 DEF InFlight
<1>6. InFlight(n, p)' /\ ~ InFlight(n, p)
  <2>1. InFlight(n, p)'
    BY <1>1, <1>2 DEF InFlight
  <2>2. 0 \notin {Off, HelloInterval}
    BY Intervals DEF Off
  <2>. QED  BY <1>1, <2>1, <2>2 DEF SentNow
<1>7. \A a, b \in Nodes : /\ g_neighbors'[a][b].state = g_neighbors[a][b].state
                          /\ g_neighbors'[a][b].dead_timer = g_neighbors[a][b].dead_timer
  BY <1>3, <1>4
<1>8. SentNow'
  BY <1>3, <1>4, <1>5 DEF SentNow
<1>9. HeardTracked'
  BY <1>1, <1>7 DEF HeardTracked, Tracks
<1>10. ASSUME NEW a \in Nodes, NEW b \in Nodes, Tracks(b, a)', b \in heard'[a]
       PROVE  InTime(a, b)'
  <2>1. InTime(a, b)
    BY <1>1, <1>7, <1>10 DEF AllInTime, Tracks
  <2>2. CASE b # n \/ a # p
    BY <1>1, <1>3, <1>5, <1>7, <2>1, <2>2, UntouchedInTime
  <2>3. CASE b = n /\ a = p
    <3>. DEFINE S == Spare(a, b)
                d == g_neighbors[a][b].dead_timer
    <3>1. d >= S * HelloInterval + 0 /\ d # Off
      BY <1>1, <2>1, <2>3 DEF InTime
    <3>2. S \in Int /\ d \in Int
      BY TimerInts
    <3>3. Spare(a, b)' = S - 1
      <4>1. S = DeadFactor - 1 - lost[a][b] - 0
        BY <1>6, <2>3 DEF Spare
      <4>2. Spare(a, b)' = DeadFactor - 1 - lost[a][b] - 1
        BY <1>1, <1>6, <2>3 DEF Spare
      <4>3. lost[a][b] \in 0 .. MaxLost
        BY TimerInts
      <4>. HIDE DEF S
      <4>. QED  BY <4>1, <4>2, <4>3, HelloAssumption
    <3>4. g_neighbors'[b][a].hello_timer = HelloInterval
      BY <1>3, <1>4, <2>3
    <3>5. g_neighbors'[a][b].dead_timer = d
      BY <1>7
    <3>. HIDE DEF S, d
    <3>6. (S - 1) * HelloInterval + HelloInterval = S * HelloInterval
          /\ S * HelloInterval \in Int
      BY <3>2, IntervalStep, IntervalInt, Zenon
    <3>7. d >= (S - 1) * HelloInterval + HelloInterval
      BY <3>1, <3>2, <3>6
    <3>. QED  BY <3>1, <3>3, <3>4, <3>5, <3>7 DEF InTime
  <2>. QED  BY <2>2, <2>3
<1>. QED  BY <1>8, <1>9, <1>10 DEF AllInTime

\* The dead timer of a live link is not due, so the one that fires is another's.
LEMMA AlarmDead ==
    ASSUME AlarmInv, TypeOK', MaxLost + 2 <= DeadFactor,
           NEW n \in Nodes, NEW p \in Nodes, dead_timer_cb(n, p)
    PROVE  SentNow' /\ HeardTracked' /\ AllInTime'
<1>. USE DEF AlarmInv, Inv
<1>. DEFINE e == g_neighbors[n][p]
            f == [e EXCEPT !.state = "DOWN", !.dead_timer = Off]
<1>1. /\ lost' = lost /\ running' = running /\ heard' = heard /\ net' = net
      /\ SetEntry(n, p, f) /\ Tracks(n, p) /\ e.dead_timer = 0
  BY DEF dead_timer_cb
<1>2. /\ \A a, b \in Nodes : a # n \/ b # p => g_neighbors'[a][b] = g_neighbors[a][b]
      /\ g_neighbors'[n][p] = f
  BY <1>1, SetEntryOthers
<1>3. f.hello_timer = e.hello_timer /\ f.state = "DOWN"
  <2>1. e \in Entry
    BY DEF TypeOK
  <2>. HIDE DEF e
  <2>. QED  BY <2>1 DEF Entry
<1>. HIDE DEF f
<1>4. \A a, b \in Nodes : /\ Tracks(a, b)' <=> Tracks(a, b)
                          /\ g_neighbors'[a][b].hello_timer = g_neighbors[a][b].hello_timer
  BY <1>1, <1>2, <1>3 DEF Tracks
<1>5. \A a, b \in Nodes : InFlight(a, b)' <=> InFlight(a, b)
  BY <1>1 DEF InFlight
<1>6. SentNow'
  BY <1>4, <1>5 DEF SentNow
<1>7. HeardTracked'
  BY <1>1, <1>4 DEF HeardTracked
<1>8. ASSUME NEW a \in Nodes, NEW b \in Nodes, Tracks(b, a)', b \in heard'[a]
      PROVE  InTime(a, b)'
  <2>1. InTime(a, b) /\ Tracks(b, a) /\ b \in heard[a]
    BY <1>1, <1>4, <1>8 DEF AllInTime
  <2>2. a # n \/ b # p
    BY <1>1, <2>1, InTimeNotDue DEF NoFalseAlarm
  <2>. QED  BY <1>1, <1>2, <1>4, <1>5, <2>1, <2>2, UntouchedInTime
<1>. QED  BY <1>6, <1>7, <1>8 DEF AllInTime

\* A late expiry changes no timer.
LEMMA AlarmLate ==
    ASSUME AlarmInv, TypeOK', NEW n \in Nodes, NEW p \in Nodes, dead_timer_late(n, p)
    PROVE  SentNow' /\ HeardTracked' /\ AllInTime'
<1>. USE DEF AlarmInv, Inv
<1>. DEFINE e == g_neighbors[n][p]
            f == [e EXCEPT !.state = "DOWN", !.late = FALSE]
<1>1. /\ lost' = lost /\ running' = running /\ heard' = heard /\ net' = net
      /\ SetEntry(n, p, f) /\ Tracks(n, p)
  BY DEF dead_timer_late
<1>2. /\ \A a, b \in Nodes : a # n \/ b # p => g_neighbors'[a][b] = g_neighbors[a][b]
      /\ g_neighbors'[n][p] = f
  BY <1>1, SetEntryOthers
<1>3. /\ f.hello_timer = e.hello_timer /\ f.state = "DOWN"
      /\ f.dead_timer = e.dead_timer
  <2>1. e \in Entry
    BY DEF TypeOK
  <2>. HIDE DEF e
  <2>. QED  BY <2>1 DEF Entry
<1>. HIDE DEF f
<1>4. \A a, b \in Nodes : /\ Tracks(a, b)' <=> Tracks(a, b)
                          /\ g_neighbors'[a][b].hello_timer = g_neighbors[a][b].hello_timer
                          /\ g_neighbors'[a][b].dead_timer = g_neighbors[a][b].dead_timer
  BY <1>1, <1>2, <1>3 DEF Tracks
<1>5. \A a, b \in Nodes : InFlight(a, b)' <=> InFlight(a, b)
  BY <1>1 DEF InFlight
<1>6. SentNow'
  BY <1>4, <1>5 DEF SentNow
<1>7. HeardTracked'
  BY <1>1, <1>4 DEF HeardTracked
<1>8. ASSUME NEW a \in Nodes, NEW b \in Nodes, Tracks(b, a)', b \in heard'[a]
      PROVE  InTime(a, b)'
  <2>1. InTime(a, b)
    BY <1>1, <1>4, <1>8 DEF AllInTime
  <2>. QED  BY <1>1, <1>4, <1>5, <2>1, UntouchedInTime
<1>. QED  BY <1>6, <1>7, <1>8 DEF AllInTime

\* A Hello that is read arms the dead timer of its own link for the full
\* interval; an ACK that answers it is no REQUEST.
LEMMA AlarmRecv ==
    ASSUME AlarmInv, TypeOK', NEW m \in net, rsvp_hello_recv(m)
    PROVE  SentNow' /\ HeardTracked' /\ AllInTime'
<1>. USE DEF AlarmInv, Inv
<1>. DEFINE n == m.to
            p == m.from
            e == g_neighbors[n][p]
            g == received(e, m, FALSE)
<1>1. m \in Hello /\ n \in Nodes /\ p \in Nodes
  BY DEF Hello, TypeOK
<1>l. PICK late \in OldExpiry(e) : SetEntry(n, p, received(e, m, late))
  BY DEF rsvp_hello_recv
<1>b. late \in BOOLEAN
  BY <1>l DEF OldExpiry
<1>. DEFINE f == received(e, m, late)
<1>2. /\ running[n] /\ Tracks(n, p) /\ SetEntry(n, p, f)
      /\ net' = (net \ {m}) \cup Acks(n, p, g, m) /\ running' = running
      /\ lost' = [lost EXCEPT ![n][p] = 0]
      /\ heard' = [heard EXCEPT ![n] = IF Tracks(p, n) THEN heard[n] \cup {p} ELSE heard[n]]
  BY <1>l DEF rsvp_hello_recv, Delivered
<1>3. e \in Entry /\ EntryOK(e)
  BY <1>1 DEF TypeOK, EntriesOK
<1>4. /\ f.hello_timer = e.hello_timer /\ f.dead_timer = DeadInterval
      /\ f.state = "UP" /\ g \in Entry /\ g.src_instance \in Instances
  BY <1>1, <1>2, <1>3, <1>b, ReceivedType DEF Tracks, EntryOK
<1>5. \A k \in Acks(n, p, g, m) : k.c_type = "ACK"
  BY <1>1, <1>4, AcksType
<1>6. /\ \A a, b \in Nodes : a # n \/ b # p => g_neighbors'[a][b] = g_neighbors[a][b]
      /\ g_neighbors'[n][p] = f
  BY <1>1, <1>2, SetEntryOthers
<1>. HIDE DEF f, g
<1>7. \A a, b \in Nodes : /\ Tracks(a, b)' <=> Tracks(a, b)
                          /\ g_neighbors'[a][b].hello_timer = g_neighbors[a][b].hello_timer
  BY <1>2, <1>4, <1>6 DEF Tracks
<1>8. \A a, b \in Nodes : /\ InFlight(a, b)' => InFlight(a, b)
                          /\ InFlight(a, b) /\ (a # p \/ b # n) => InFlight(a, b)'
  BY <1>2, <1>5 DEF InFlight
<1>9. /\ \A a, b \in Nodes : b \in heard'[a] => b \in heard[a] \/ (a = n /\ b = p)
      /\ \A a, b \in Nodes : a # n \/ b # p => lost'[a][b] = lost[a][b]
      /\ lost'[n][p] = 0
  BY <1>1, <1>2 DEF TypeOK
<1>. HIDE DEF n, p
<1>10. SentNow'
  BY <1>7, <1>8 DEF SentNow
<1>11. HeardTracked'
  BY <1>2, <1>7, <1>9 DEF HeardTracked
<1>12. ASSUME NEW a \in Nodes, NEW b \in Nodes, Tracks(b, a)', b \in heard'[a]
       PROVE  InTime(a, b)'
  <2>1. CASE a = n /\ b = p
    BY <1>1, <1>4, <1>6, <1>9, <2>1, FreshInTime
  <2>2. CASE a # n \/ b # p
    <3>1. InTime(a, b)
      BY <1>7, <1>9, <1>12, <2>2 DEF AllInTime
    <3>. QED  BY <1>6, <1>7, <1>8, <1>9, <2>2, <3>1, UntouchedInTime
  <2>. QED  BY <2>1, <2>2
<1>. QED  BY <1>10, <1>11, <1>12 DEF AllInTime

\* A neighbour that is discovered has not heard this router since.
LEMMA AlarmDiscovers ==
    ASSUME AlarmInv, TypeOK', NEW m \in net, hello_discovers(m)
    PROVE  SentNow' /\ HeardTracked' /\ AllInTime'
<1>. USE DEF AlarmInv, Inv
<1>. DEFINE n == m.to
            p == m.from
<1>1. m \in Hello /\ n \in Nodes /\ p \in Nodes
  BY DEF Hello, TypeOK
<1>2. /\ running[n] /\ ~ Tracks(n, p) /\ running' = running
      /\ lost' = [lost EXCEPT ![n][p] = 0]
      /\ \A q \in Nodes : heard'[q] = CASE q = p -> heard[q] \ {n}
                                        [] q = n /\ Tracks(p, n) -> heard[q] \cup {p}
                                        [] OTHER -> heard[q]
  BY DEF hello_discovers, Delivered
<1>3. PICK inst \in Instances :
         /\ SetEntry(n, p, received(NewEntry(0, inst), m, FALSE))
         /\ net' = (net \ {m}) \cup Acks(n, p, received(NewEntry(0, inst), m, FALSE), m)
  BY DEF hello_discovers
<1>. DEFINE e == NewEntry(0, inst)
            f == received(e, m, FALSE)
<1>4. /\ e \in Entry /\ e.hello_timer = HelloInterval /\ e.src_instance \in Instances
  BY NewEntryType
<1>. HIDE DEF e
<1>5. /\ f.hello_timer = HelloInterval /\ f.dead_timer = DeadInterval
      /\ f.state = "UP" /\ f \in Entry /\ f.src_instance \in Instances
  <2>. DEFINE no == FALSE
  <2>1. no \in BOOLEAN
    OBVIOUS
  <2>. HIDE DEF no
  <2>2. /\ received(e, m, no).hello_timer = e.hello_timer
        /\ received(e, m, no).src_instance = e.src_instance
        /\ received(e, m, no).dead_timer = DeadInterval
        /\ received(e, m, no).state = "UP"
        /\ received(e, m, no) \in Entry
    BY <1>1, <1>4, <2>1, ReceivedType
  <2>3. f = received(e, m, no)
    BY Zenon DEF no
  <2>. HIDE DEF f
  <2>. QED  BY <1>4, <2>2, <2>3, Zenon
<1>6. \A k \in Acks(n, p, f, m) : k.c_type = "ACK"
  BY <1>1, <1>5, AcksType
<1>7. /\ \A a, b \in Nodes : a # n \/ b # p => g_neighbors'[a][b] = g_neighbors[a][b]
      /\ g_neighbors'[n][p] = f /\ net' = (net \ {m}) \cup Acks(n, p, f, m)
  <2>1. SetEntry(n, p, f) /\ net' = (net \ {m}) \cup Acks(n, p, f, m)
    BY <1>3, Zenon DEF e
  <2>. HIDE DEF f
  <2>. QED  BY <1>1, <2>1, SetEntryOthers
<1>. HIDE DEF f
<1>8. \A a, b \in Nodes : /\ InFlight(a, b)' => InFlight(a, b)
                          /\ InFlight(a, b) /\ (a # p \/ b # n) => InFlight(a, b)'
  BY <1>6, <1>7 DEF InFlight
<1>9. /\ \A a, b \in Nodes : b \in heard'[a] => b \in heard[a] \/ (a = n /\ b = p)
      /\ n \notin heard'[p]
  BY <1>1, <1>2
<1>10. /\ \A a, b \in Nodes : a # n \/ b # p => lost'[a][b] = lost[a][b]
       /\ lost'[n][p] = 0
  BY <1>1, <1>2 DEF TypeOK
<1>. HIDE DEF n, p
<1>11. SentNow'
  BY <1>5, <1>7, <1>8 DEF SentNow
<1>12. HeardTracked'
  BY <1>2, <1>5, <1>7, <1>9 DEF HeardTracked, Tracks
<1>13. ASSUME NEW a \in Nodes, NEW b \in Nodes, Tracks(b, a)', b \in heard'[a]
       PROVE  InTime(a, b)'
  <2>1. CASE a = n /\ b = p
    BY <1>1, <1>5, <1>7, <1>10, <2>1, FreshInTime
  <2>2. CASE a # n \/ b # p
    <3>1. a # p \/ b # n
      BY <1>9, <1>13
    <3>2. g_neighbors'[b][a] = g_neighbors[b][a] /\ g_neighbors'[a][b] = g_neighbors[a][b]
      BY <1>7, <2>2, <3>1
    <3>3. InTime(a, b)
      BY <1>9, <1>13, <2>2, <3>2 DEF AllInTime, Tracks
    <3>. QED  BY <1>8, <1>10, <2>2, <3>2, <3>3, UntouchedInTime
  <2>. QED  BY <2>1, <2>2
<1>. QED  BY <1>11, <1>12, <1>13 DEF AllInTime

\* A Hello that is dropped had no entry to refresh.
LEMMA AlarmDropped ==
    ASSUME AlarmInv, TypeOK', NEW m \in net, hello_dropped(m)
    PROVE  SentNow' /\ HeardTracked' /\ AllInTime'
<1>. USE DEF AlarmInv, Inv
<1>1. /\ g_neighbors' = g_neighbors /\ running' = running /\ lost' = lost
      /\ heard' = heard /\ net' = net \ {m}
      /\ ~ running[m.to] \/ ~ Tracks(m.to, m.from)
  BY DEF hello_dropped
<1>2. m.to \in Nodes /\ m.from \in Nodes
  BY DEF TypeOK, Hello
<1>3. \A a, b \in Nodes : /\ InFlight(a, b)' => InFlight(a, b)
                          /\ InFlight(a, b) /\ (a # m.from \/ b # m.to) => InFlight(a, b)'
  BY <1>1 DEF InFlight
<1>4. SentNow'
  BY <1>1, <1>3 DEF SentNow
<1>5. HeardTracked'
  BY <1>1 DEF HeardTracked, Tracks
<1>6. ASSUME NEW a \in Nodes, NEW b \in Nodes, Tracks(b, a)', b \in heard'[a]
      PROVE  InTime(a, b)'
  <2>1. b \in heard[a] /\ Tracks(b, a) /\ InTime(a, b)
    BY <1>1, <1>6 DEF AllInTime, Tracks
  <2>2. a # m.to \/ b # m.from
    BY <1>1, <2>1 DEF HeardTracked
  <2>. QED  BY <1>1, <1>3, <2>1, <2>2, UntouchedInTime
<1>. QED  BY <1>4, <1>5, <1>6 DEF AllInTime

\* A REQUEST that is lost was in flight: what it took from the spare intervals
\* now counts as a loss.
LEMMA AlarmLost ==
    ASSUME AlarmInv, TypeOK', NEW m \in net, hello_lost(m)
    PROVE  SentNow' /\ HeardTracked' /\ AllInTime'
<1>. USE DEF AlarmInv, Inv
<1>1. /\ g_neighbors' = g_neighbors /\ running' = running
      /\ heard' = heard /\ net' = net \ {m}
  BY DEF hello_lost
<1>2. m.to \in Nodes /\ m.from \in Nodes
  BY DEF TypeOK, Hello
<1>3. \A a, b \in Nodes :
         /\ InFlight(a, b)' => InFlight(a, b)
         /\ InFlight(a, b) /\ (a # m.from \/ b # m.to \/ m.c_type # "REQUEST")
               => InFlight(a, b)'
  BY <1>1 DEF InFlight
<1>4. SentNow'
  BY <1>1, <1>3 DEF SentNow
<1>5. HeardTracked'
  BY <1>1 DEF HeardTracked, Tracks
<1>6. ASSUME NEW a \in Nodes, NEW b \in Nodes, Tracks(b, a)', b \in heard'[a]
      PROVE  InTime(a, b)'
  <2>1. InTime(a, b)
    BY <1>1, <1>6 DEF AllInTime, Tracks
  <2>2. CASE m.c_type # "REQUEST"
    <3>1. lost' = lost
      BY <2>2 DEF hello_lost
    <3>. QED  BY <1>1, <1>3, <2>1, <2>2, <3>1, UntouchedInTime
  <2>3. CASE m.c_type = "REQUEST"
    <3>1. lost' = [lost EXCEPT ![m.to][m.from] = lost[m.to][m.from] + 1]
      BY <2>3 DEF hello_lost
    <3>2. CASE a # m.to \/ b # m.from
      <4>1. lost'[a][b] = lost[a][b]
        BY <1>2, <3>1, <3>2 DEF TypeOK
      <4>. QED  BY <1>1, <1>3, <2>1, <3>2, <4>1, UntouchedInTime
    <3>3. CASE a = m.to /\ b = m.from
      <4>1. lost'[a][b] = lost[a][b] + 1 /\ lost[a][b] \in 0 .. MaxLost
        BY <1>2, <3>1, <3>3 DEF TypeOK
      <4>2. InFlight(b, a)
        BY <2>3, <3>3 DEF InFlight
      <4>3. Spare(a, b) = DeadFactor - 1 - lost[a][b] - 1
        BY <4>2 DEF Spare
      <4>4. Spare(a, b)' = DeadFactor - 1 - (lost[a][b] + 1)
                           - (IF InFlight(b, a)' THEN 1 ELSE 0)
        BY <4>1 DEF Spare
      <4>5. Spare(a, b)' <= Spare(a, b)
        BY <4>1, <4>3, <4>4, HelloAssumption
      <4>6. g_neighbors[b][a].hello_timer \in Int
        BY TimerInts
      <4>. QED  BY <1>1, <2>1, <4>5, <4>6, StaysInTime
    <3>. QED  BY <3>2, <3>3
  <2>. QED  BY <2>2, <2>3
<1>. QED  BY <1>4, <1>5, <1>6 DEF AllInTime

\* AlarmInv is inductive while the losses in a row stay two below the factor.
LEMMA StepAlarm ==
    ASSUME AlarmInv, [Next]_vars, MaxLost + 2 <= DeadFactor
    PROVE  AlarmInv'
<1>1. Inv'
  BY StepInv DEF AlarmInv
<1>2. TypeOK'
  BY <1>1 DEF Inv
<1>. SUFFICES SentNow' /\ HeardTracked' /\ AllInTime'
  BY <1>1 DEF AlarmInv
<1>3. ASSUME running' = running, g_neighbors' = g_neighbors, net' = net,
             lost' = lost, heard' = heard
      PROVE  SentNow' /\ HeardTracked' /\ AllInTime'
  BY <1>3 DEF AlarmInv, SentNow, HeardTracked, AllInTime, InTime, InFlight, Spare, Tracks
<1>4. CASE UNCHANGED vars
  BY <1>3, <1>4 DEF vars
<1>5. ASSUME NEW n \in Nodes, add_other_neighbor(n)
      PROVE  SentNow' /\ HeardTracked' /\ AllInTime'
  BY <1>3, <1>5 DEF add_other_neighbor
<1>6. ASSUME NEW n \in Nodes, start(n)
      PROVE  SentNow' /\ HeardTracked' /\ AllInTime'
  <2>1. /\ g_neighbors' = g_neighbors /\ net' = net /\ lost' = lost /\ heard' = heard
        /\ running' = [running EXCEPT ![n] = TRUE]
    BY <1>6 DEF start
  <2>2. SentNow' /\ AllInTime'
    BY <2>1 DEF AlarmInv, SentNow, AllInTime, InTime, InFlight, Spare, Tracks
  <2>3. HeardTracked'
    BY <2>1 DEF AlarmInv, Inv, TypeOK, HeardTracked, Tracks
  <2>. QED  BY <2>2, <2>3
<1>. QED
  BY <1>2, <1>4, <1>5, <1>6, AlarmTick, AlarmShutdown, AlarmAdd, AlarmSend,
     AlarmDead, AlarmLate, AlarmRecv, AlarmDiscovers, AlarmDropped, AlarmLost
  DEF Next

\* While no link loses more than DeadFactor - 2 REQUESTs in a row, no daemon
\* declares a neighbour dead that tracks it and has been heard since: the dead
\* timer of dead_timer_cb is never due for it, for every number of routers.  (The
\* expiry of an earlier silence may still run late.)
THEOREM HelloNoFalseAlarm ==
    ASSUME MaxLost + 2 <= DeadFactor
    PROVE  Spec => []NoFalseAlarm
<1>1. rsvp_hello_init => AlarmInv
  <2>. SUFFICES ASSUME rsvp_hello_init PROVE AlarmInv
    OBVIOUS
  <2>1. Inv
    BY InitInv
  <2>2. SentNow /\ HeardTracked /\ AllInTime
    BY DEF rsvp_hello_init, SentNow, HeardTracked, AllInTime, InFlight, Tracks, Unused
  <2>. QED  BY <2>1, <2>2 DEF AlarmInv
<1>2. AlarmInv /\ [Next]_vars => AlarmInv'
  BY StepAlarm
<1>3. AlarmInv => NoFalseAlarm
  BY InTimeNotDue
<1>. QED  BY <1>1, <1>2, <1>3, PTL DEF Spec

-----------------------------------------------------------------------------
(* Losses of adjacencies.                                                  *)

\* What one step owes a single adjacency: it stays UP with the instance it had,
\* or fast reroute is triggered for its interface.
Rerouted(n, p) ==
    /\ IsUp(n, p) /\ running'[n]
    /\ \/ ~ IsUp(n, p)'
       \/ g_neighbors'[n][p].dst_instance # g_neighbors[n][p].dst_instance
    => frr' = Triggers(n, g_neighbors[n][p].ifindex)

\* An entry that keeps its state and its instance owes nothing.
LEMMA KeptIsRerouted ==
    ASSUME NEW n \in Nodes, NEW p \in Nodes,
           g_neighbors'[n][p].state = g_neighbors[n][p].state,
           g_neighbors'[n][p].dst_instance = g_neighbors[n][p].dst_instance
    PROVE  Rerouted(n, p)
BY DEF Rerouted, IsUp

\* A step that writes one entry owes something to that entry only.
LEMMA OneEntryRerouted ==
    ASSUME TypeOK, NEW n \in Nodes, NEW p \in Nodes, NEW e, SetEntry(n, p, e),
           Rerouted(n, p)
    PROVE  \A a, b \in Nodes : Rerouted(a, b)
<1>. SUFFICES ASSUME NEW a \in Nodes, NEW b \in Nodes, a # n \/ b # p
              PROVE  Rerouted(a, b)
  OBVIOUS
<1>1. g_neighbors'[a][b] = g_neighbors[a][b]
  BY SetEntryOthers
<1>. QED  BY <1>1, KeptIsRerouted

\* Every step gives every adjacency what it owes.
LEMMA StepReroutes ==
    ASSUME Inv, [Next]_vars
    PROVE  \A a, b \in Nodes : Rerouted(a, b)
<1>. USE DEF Inv
<1>1. ASSUME g_neighbors' = g_neighbors PROVE \A a, b \in Nodes : Rerouted(a, b)
  BY <1>1, KeptIsRerouted
<1>2. CASE Tick
  <2>. SUFFICES ASSUME NEW n \in Nodes, NEW p \in Nodes PROVE Rerouted(n, p)
    OBVIOUS
  <2>. DEFINE e == g_neighbors[n][p]
  <2>1. e \in Entry
    BY DEF TypeOK
  <2>2. g_neighbors'[n][p] = [e EXCEPT !.hello_timer = Ticked(@),
                                       !.dead_timer = Ticked(@)]
    BY <1>2 DEF Tick
  <2>. HIDE DEF e
  <2>3. g_neighbors'[n][p].state = e.state /\ g_neighbors'[n][p].dst_instance = e.dst_instance
    BY <2>1, <2>2 DEF Entry
  <2>. QED  BY <2>3, KeptIsRerouted DEF e
<1>3. ASSUME NEW n \in Nodes, rsvp_hello_shutdown(n)
      PROVE  \A a, b \in Nodes : Rerouted(a, b)
  <2>1. ~ running'[n]
    BY <1>3 DEF rsvp_hello_shutdown, TypeOK
  <2>2. ASSUME NEW a \in Nodes, NEW b \in Nodes, a # n
        PROVE  g_neighbors'[a][b] = g_neighbors[a][b]
    BY <1>3, <2>2 DEF rsvp_hello_shutdown, TypeOK
  <2>3. ASSUME NEW b \in Nodes PROVE Rerouted(n, b)
    BY <2>1 DEF Rerouted
  <2>. QED  BY <2>2, <2>3, KeptIsRerouted
<1>4. ASSUME NEW n \in Nodes, NEW p \in Nodes, rsvp_hello_add_neighbor(n, p)
      PROVE  \A a, b \in Nodes : Rerouted(a, b)
  <2>1. PICK i \in {0, LinkIf}, inst \in Instances : SetEntry(n, p, NewEntry(i, inst))
    BY <1>4 DEF rsvp_hello_add_neighbor
  <2>2. Rerouted(n, p)
    BY <1>4 DEF rsvp_hello_add_neighbor, Rerouted, Tracks, IsUp
  <2>. QED  BY <2>1, <2>2, OneEntryRerouted
<1>5. ASSUME NEW n \in Nodes, NEW p \in Nodes, hello_timer_cb(n, p)
      PROVE  \A a, b \in Nodes : Rerouted(a, b)
  <2>. DEFINE e == g_neighbors[n][p]
              f == [e EXCEPT !.hello_timer = HelloInterval]
  <2>1. e \in Entry
    BY DEF TypeOK
  <2>2. SetEntry(n, p, f)
    BY <1>5 DEF hello_timer_cb
  <2>3. g_neighbors'[n][p] = f
    BY <2>2, SetEntryOthers
  <2>. HIDE DEF e
  <2>4. f.state = e.state /\ f.dst_instance = e.dst_instance
    BY <2>1 DEF Entry
  <2>. HIDE DEF f
  <2>5. Rerouted(n, p)
    BY <2>3, <2>4, KeptIsRerouted DEF e
  <2>. QED  BY <2>2, <2>5, OneEntryRerouted
<1>6. ASSUME NEW n \in Nodes, NEW p \in Nodes, dead_timer_cb(n, p)
      PROVE  \A a, b \in Nodes : Rerouted(a, b)
  <2>1. Rerouted(n, p)
    BY <1>6 DEF dead_timer_cb, Rerouted
  <2>2. SetEntry(n, p, [g_neighbors[n][p] EXCEPT !.state = "DOWN", !.dead_timer = Off])
    BY <1>6 DEF dead_timer_cb
  <2>. QED  BY <2>1, <2>2, OneEntryRerouted
<1>7. ASSUME NEW m \in net, rsvp_hello_recv(m)
      PROVE  \A a, b \in Nodes : Rerouted(a, b)
  <2>. DEFINE n == m.to
              p == m.from
              e == g_neighbors[n][p]
  <2>1. m \in Hello /\ n \in Nodes /\ p \in Nodes
    BY DEF TypeOK, Hello
  <2>2. e \in Entry /\ EntryOK(e)
    BY <2>1 DEF TypeOK, EntriesOK
  <2>l. PICK late \in OldExpiry(e) : SetEntry(n, p, received(e, m, late))
    BY <1>7 DEF rsvp_hello_recv
  <2>b. late \in BOOLEAN
    BY <2>l DEF OldExpiry
  <2>. DEFINE f == received(e, m, late)
  <2>3. /\ SetEntry(n, p, f)
        /\ frr' = IF Restarted(e, m) THEN Triggers(n, e.ifindex) ELSE NoTrigger
    BY <1>7, <2>l DEF rsvp_hello_recv
  <2>4. g_neighbors'[n][p] = f
    BY <2>1, <2>3, SetEntryOthers
  <2>5. f.state = "UP" /\ f.dst_instance = m.src_instance
    BY <2>1, <2>2, <2>b, ReceivedType
  <2>6. ASSUME Restarted(e, m) PROVE Rerouted(n, p)
    BY <2>3, <2>6 DEF Rerouted
  <2>7. ASSUME ~ Restarted(e, m) PROVE Rerouted(n, p)
    <3>1. e.state = "UP" => f.dst_instance = e.dst_instance
      BY <2>2, <2>5, <2>7 DEF Restarted, EntryOK
    <3>. QED  BY <2>4, <2>5, <3>1 DEF Rerouted, IsUp
  <2>8. Rerouted(n, p)
    BY <2>6, <2>7
  <2>. QED  BY <2>1, <2>3, <2>8, OneEntryRerouted
<1>8. ASSUME NEW m \in net, hello_discovers(m)
      PROVE  \A a, b \in Nodes : Rerouted(a, b)
  <2>1. m.to \in Nodes /\ m.from \in Nodes
    BY DEF TypeOK, Hello
  <2>2. PICK inst \in Instances :
           SetEntry(m.to, m.from, received(NewEntry(0, inst), m, FALSE))
    BY <1>8 DEF hello_discovers
  <2>3. Rerouted(m.to, m.from)
    BY <1>8 DEF hello_discovers, Rerouted, Tracks, IsUp
  <2>. QED  BY <2>1, <2>2, <2>3, OneEntryRerouted
<1>9. CASE UNCHANGED vars
  BY <1>1, <1>9 DEF vars
<1>10. ASSUME NEW n \in Nodes, add_other_neighbor(n) \/ start(n)
       PROVE  g_neighbors' = g_neighbors
  BY <1>10 DEF add_other_neighbor, start
<1>11. ASSUME NEW m \in net, hello_dropped(m) \/ hello_lost(m)
       PROVE  g_neighbors' = g_neighbors
  BY <1>11 DEF hello_dropped, hello_lost
<1>12. ASSUME NEW n \in Nodes, NEW p \in Nodes, dead_timer_late(n, p)
       PROVE  \A a, b \in Nodes : Rerouted(a, b)
  <2>1. Rerouted(n, p)
    BY <1>12 DEF dead_timer_late, Rerouted
  <2>2. SetEntry(n, p, [g_neighbors[n][p] EXCEPT !.state = "DOWN", !.late = FALSE])
    BY <1>12 DEF dead_timer_late
  <2>. QED  BY <2>1, <2>2, OneEntryRerouted
<1>. QED
  BY <1>1, <1>2, <1>3, <1>4, <1>5, <1>6, <1>7, <1>8, <1>9, <1>10, <1>11, <1>12
  DEF Next

\* No adjacency that was UP ends, or passes to another instance of the neighbour,
\* without a call of rsvp_frr_trigger for the interface of its entry, for every
\* number of routers and every order of losses, restarts and dead timers.
THEOREM HelloLossReroutes == Spec => LossReroutes
<1>1. Inv /\ [Next]_vars =>
        [\A n, p \in Nodes :
            /\ IsUp(n, p) /\ running'[n]
            /\ \/ ~ IsUp(n, p)'
               \/ g_neighbors'[n][p].dst_instance # g_neighbors[n][p].dst_instance
            => frr' = Triggers(n, g_neighbors[n][p].ifindex)]_vars
  BY StepReroutes DEF Rerouted
<1>. QED  BY <1>1, InitInv, StepInv, PTL DEF Spec, LossReroutes
=============================================================================
