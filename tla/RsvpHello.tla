------------------------------ MODULE RsvpHello ------------------------------
(***************************************************************************)
(* RSVP Hello between routers, src/pi/rsvp_hello.c, with the command that  *)
(* configures a neighbour (rsvp_cli.c) and the dispatch of a received      *)
(* Hello.  Every router runs the same code; messages may be lost and       *)
(* reordered, routers stop (shutdown or crash) and start again.            *)
(*                                                                         *)
(* Time passes in ticks.  A timer that is due fires before the next tick,  *)
(* and a message is delivered or lost before the next tick; within a tick  *)
(* everything happens in any order, so that a dead timer may fire just     *)
(* before the Hello that would have reset it is read, or just after it: an *)
(* expiry that is already in the timer pipe is not cancelled by the stop.  *)
(***************************************************************************)
EXTENDS Integers, FiniteSets

CONSTANTS
    Nodes,          \* the routers, every two of them joined by a link
    Instances,      \* the non-zero values of rand()
    HelloInterval,  \* RSVP_HELLO_INTERVAL_MS, in ticks
    DeadFactor,     \* RSVP_HELLO_DEAD_FACTOR
    MaxNeighbors,   \* RSVP_MAX_NEIGHBORS
    MaxLost,        \* bound: consecutive REQUESTs a link may lose
    MaxStops        \* bound: how often routers stop

ASSUME HelloAssumption ==
    /\ IsFiniteSet(Nodes)
    /\ Instances \subseteq Nat \ {0}
    /\ HelloInterval \in Nat \ {0}
    /\ DeadFactor \in Nat \ {0}
    /\ MaxNeighbors \in Nat
    /\ MaxLost \in Nat
    /\ MaxStops \in Nat

VARIABLES
    running,       \* router |-> its daemon runs
    g_neighbors,   \* router |-> peer |-> the entry of its table
    others,        \* router |-> entries for addresses outside Nodes
    net,           \* Hello messages in flight
    frr,           \* the rsvp_frr_trigger call of the latest step, if any
    lost,          \* router |-> peer |-> REQUESTs lost since the last delivery
    heard,         \* router |-> peers heard from since they track the router
    stops          \* how often a router has stopped

vars == <<running, g_neighbors, others, net, frr, lost, heard, stops>>

-----------------------------------------------------------------------------
DeadInterval == HelloInterval * DeadFactor
Off          == -1                      \* a timer that is not armed
LinkIf       == 1                       \* the interface of the link to a peer

\* An entry that is not active has state NONE.
Entry == [ifindex : {0, LinkIf},
          src_instance : Instances \cup {0}, dst_instance : Instances \cup {0},
          state : {"NONE", "IDLE", "UP", "DOWN"},
          hello_timer : {Off} \cup 0 .. HelloInterval,
          dead_timer : {Off} \cup 0 .. DeadInterval,
          late : BOOLEAN]  \* an expiry of an earlier arming is in the pipe

Unused == [ifindex |-> 0, src_instance |-> 0, dst_instance |-> 0,
           state |-> "NONE", hello_timer |-> Off, dead_timer |-> Off,
           late |-> FALSE]

Hello == [from : Nodes, to : Nodes, c_type : {"REQUEST", "ACK"},
          src_instance : Instances, dst_instance : Instances \cup {0}]

NoTrigger == [node |-> {}, ifindex |-> Off]
Triggers(n, i) == [node |-> {n}, ifindex |-> i]

Peers(n)     == Nodes \ {n}
Tracks(n, p) == g_neighbors[n][p].state # "NONE"
IsUp(n, p)   == g_neighbors[n][p].state = "UP"

TypeOK ==
    /\ running \in [Nodes -> BOOLEAN]
    /\ g_neighbors \in [Nodes -> [Nodes -> Entry]]
    /\ others \in [Nodes -> 0 .. MaxNeighbors]
    /\ net \subseteq Hello
    /\ frr \in [node : SUBSET Nodes, ifindex : {Off, 0, LinkIf}]
    /\ lost \in [Nodes -> [Nodes -> 0 .. MaxLost]]
    /\ heard \in [Nodes -> SUBSET Nodes]
    /\ stops \in 0 .. MaxStops

rsvp_hello_init ==
    /\ running = [n \in Nodes |-> TRUE]
    /\ g_neighbors = [n \in Nodes |-> [p \in Nodes |-> Unused]]
    /\ others = [n \in Nodes |-> 0]
    /\ net = {}
    /\ frr = NoTrigger
    /\ lost = [n \in Nodes |-> [p \in Nodes |-> 0]]
    /\ heard = [n \in Nodes |-> {}]
    /\ stops = 0

-----------------------------------------------------------------------------
(* The neighbour table.                                                    *)

g_nbor_count(n) == others[n] + Cardinality({p \in Nodes : Tracks(n, p)})
TableFull(n)    == g_nbor_count(n) >= MaxNeighbors

\* A fresh entry: its Hello timer is armed, its dead timer is not.
NewEntry(i, inst) ==
    [Unused EXCEPT !.state = "IDLE", !.ifindex = i, !.src_instance = inst,
                   !.hello_timer = HelloInterval]

SetEntry(n, p, e) == g_neighbors' = [g_neighbors EXCEPT ![n][p] = e]

send_hello(n, p, e, type) ==
    [from |-> n, to |-> p, c_type |-> type,
     src_instance |-> e.src_instance, dst_instance |-> e.dst_instance]

\* "interface <name> rsvp neighbor <ip>": the index is that of the interface's
\* entry in the RSVP interface table, 0 when it has none or the kernel does not
\* know the interface.  A neighbour that is tracked already stays as it is, and
\* a full table refuses a new one.
rsvp_hello_add_neighbor(n, p) ==
    /\ running[n] /\ p \in Peers(n)
    /\ ~ Tracks(n, p) /\ ~ TableFull(n)
    /\ \E i \in {0, LinkIf}, inst \in Instances : SetEntry(n, p, NewEntry(i, inst))
    /\ heard' = [heard EXCEPT ![p] = @ \ {n}]
    /\ frr' = NoTrigger
    /\ UNCHANGED <<running, others, net, lost, stops>>

\* A Hello from, or a command for, an address outside Nodes takes a slot.  The
\* code never frees one.
add_other_neighbor(n) ==
    /\ running[n] /\ ~ TableFull(n)
    /\ others' = [others EXCEPT ![n] = @ + 1]
    /\ frr' = NoTrigger
    /\ UNCHANGED <<running, g_neighbors, net, lost, heard, stops>>

-----------------------------------------------------------------------------
(* Timers.                                                                 *)

\* The Hello timer sends a REQUEST and starts itself again.
hello_timer_cb(n, p) ==
    LET e == g_neighbors[n][p] IN
    /\ Tracks(n, p) /\ e.hello_timer = 0
    /\ net' = net \cup {send_hello(n, p, e, "REQUEST")}
    /\ SetEntry(n, p, [e EXCEPT !.hello_timer = HelloInterval])
    /\ frr' = NoTrigger
    /\ UNCHANGED <<running, others, lost, heard, stops>>

\* Mutant: no reroute for a dead neighbour.
dead_timer_silent(n, p) ==
    LET e == g_neighbors[n][p] IN
    /\ Tracks(n, p) /\ e.dead_timer = 0
    /\ SetEntry(n, p, [e EXCEPT !.state = "DOWN", !.dead_timer = Off])
    /\ frr' = NoTrigger
    /\ UNCHANGED <<running, others, net, lost, heard, stops>>
dead_timer_cb(n, p) ==
    LET e == g_neighbors[n][p] IN
    /\ Tracks(n, p) /\ e.dead_timer = 0
    /\ SetEntry(n, p, [e EXCEPT !.state = "DOWN", !.dead_timer = Off])
    /\ frr' = Triggers(n, e.ifindex)
    /\ UNCHANGED <<running, others, net, lost, heard, stops>>

\* The same callback, for the expiry of an arming that a Hello has replaced
\* since: rsvp_timer_stop did nothing, because the worker had cleared active
\* before.  The new arming keeps running.
dead_timer_late(n, p) ==
    LET e == g_neighbors[n][p] IN
    /\ Tracks(n, p) /\ e.late
    /\ SetEntry(n, p, [e EXCEPT !.state = "DOWN", !.late = FALSE])
    /\ frr' = Triggers(n, e.ifindex)
    /\ UNCHANGED <<running, others, net, lost, heard, stops>>

\* Mutant: a timer that is not armed runs too.
Ticked_always(t) == t - 1
Ticked(t) == IF t = Off THEN Off ELSE t - 1

TimerDue ==
    \E n, p \in Nodes : \/ g_neighbors[n][p].hello_timer = 0
                        \/ g_neighbors[n][p].dead_timer = 0
                        \/ g_neighbors[n][p].late

Tick ==
    /\ net = {} /\ ~ TimerDue
    /\ g_neighbors' =
          [n \in Nodes |-> [p \in Nodes |->
              [g_neighbors[n][p] EXCEPT !.hello_timer = Ticked(@),
                                        !.dead_timer = Ticked(@)]]]
    /\ frr' = NoTrigger
    /\ UNCHANGED <<running, others, net, lost, heard, stops>>

-----------------------------------------------------------------------------
(* Reception.                                                              *)

\* rsvp_hello_recv on entry e: a known instance that changed means that the
\* neighbour has restarted.
Restarted(e, m) == e.dst_instance # 0 /\ m.src_instance # e.dst_instance

\* Mutants: the dead timer keeps running; the dead timer is only stopped; the
\* first instance is kept.
received_no_reset(e, m, late) ==
    [e EXCEPT !.state = "UP", !.dst_instance = m.src_instance, !.late = late,
              !.dead_timer = IF @ = Off THEN DeadInterval ELSE @]
received_stops(e, m, late) ==
    [e EXCEPT !.state = "UP", !.dst_instance = m.src_instance, !.late = late,
              !.dead_timer = IF @ = Off THEN DeadInterval ELSE Off]
received_keeps(e, m, late) ==
    [e EXCEPT !.state = "UP", !.dead_timer = DeadInterval, !.late = late,
              !.dst_instance = IF @ = 0 THEN m.src_instance ELSE @]

\* The dead timer is stopped and started; every state becomes UP, whatever
\* instance of ours the Hello confirms.
received(e, m, late) ==
    [e EXCEPT !.state = "UP", !.dst_instance = m.src_instance,
              !.dead_timer = DeadInterval, !.late = late]

\* Whether an expiry of the old arming outlives the stop: only one that was due,
\* and only if its worker was first and the registry still matches it.
OldExpiry(e) == {FALSE, e.late \/ e.dead_timer = 0}

Acks(n, p, e, m) ==
    IF m.c_type = "REQUEST" THEN {send_hello(n, p, e, "ACK")} ELSE {}

\* The message leaves the network and ends the series of losses.
Delivered(m) ==
    /\ lost' = [lost EXCEPT ![m.to][m.from] = 0]
    /\ UNCHANGED <<running, others, stops>>

\* A Hello from a neighbour of the table.
rsvp_hello_recv(m) ==
    LET n == m.to
        p == m.from
        e == g_neighbors[n][p]
    IN
    /\ m \in net /\ running[n] /\ Tracks(n, p)
    /\ \E late \in OldExpiry(e) : SetEntry(n, p, received(e, m, late))
    /\ net' = (net \ {m}) \cup Acks(n, p, received(e, m, FALSE), m)
    /\ frr' = IF Restarted(e, m) THEN Triggers(n, e.ifindex) ELSE NoTrigger
    /\ heard' = [heard EXCEPT ![n] = IF Tracks(p, n) THEN @ \cup {p} ELSE @]
    /\ Delivered(m)

\* A Hello from an unknown neighbour makes an entry with interface 0.
hello_discovers(m) ==
    LET n == m.to
        p == m.from
    IN
    /\ m \in net /\ running[n] /\ ~ Tracks(n, p) /\ ~ TableFull(n)
    /\ \E inst \in Instances :
          LET e == received(NewEntry(0, inst), m, FALSE) IN
          /\ SetEntry(n, p, e)
          /\ net' = (net \ {m}) \cup Acks(n, p, e, m)
    /\ frr' = NoTrigger
    /\ heard' = [q \in Nodes |->
                    CASE q = p -> heard[q] \ {n}
                      [] q = n /\ Tracks(p, n) -> heard[q] \cup {p}
                      [] OTHER -> heard[q]]
    /\ Delivered(m)

\* The table is full, or nobody listens.
hello_dropped(m) ==
    /\ m \in net
    /\ ~ running[m.to] \/ (~ Tracks(m.to, m.from) /\ TableFull(m.to))
    /\ net' = net \ {m}
    /\ frr' = NoTrigger
    /\ UNCHANGED <<running, g_neighbors, others, lost, heard, stops>>

\* The network loses a message, but not more than MaxLost REQUESTs in a row.
hello_lost(m) ==
    /\ m \in net
    /\ IF m.c_type = "REQUEST"
       THEN /\ lost[m.to][m.from] < MaxLost
            /\ lost' = [lost EXCEPT ![m.to][m.from] = @ + 1]
       ELSE UNCHANGED lost
    /\ net' = net \ {m}
    /\ frr' = NoTrigger
    /\ UNCHANGED <<running, g_neighbors, others, heard, stops>>

-----------------------------------------------------------------------------
(* Stop and start.                                                         *)

\* rsvp_hello_shutdown, or a crash: the timers and the table are gone, and no
\* message says so.
rsvp_hello_shutdown(n) ==
    /\ running[n] /\ stops < MaxStops
    /\ running' = [running EXCEPT ![n] = FALSE]
    /\ g_neighbors' = [g_neighbors EXCEPT ![n] = [p \in Nodes |-> Unused]]
    /\ others' = [others EXCEPT ![n] = 0]
    /\ lost' = [q \in Nodes |-> IF q = n THEN [p \in Nodes |-> 0]
                                ELSE [lost[q] EXCEPT ![n] = 0]]
    /\ heard' = [q \in Nodes |-> IF q = n THEN {} ELSE heard[q] \ {n}]
    /\ stops' = stops + 1
    /\ frr' = NoTrigger
    /\ UNCHANGED net

start(n) ==
    /\ ~ running[n]
    /\ running' = [running EXCEPT ![n] = TRUE]
    /\ frr' = NoTrigger
    /\ UNCHANGED <<g_neighbors, others, net, lost, heard, stops>>

Next ==
    \/ Tick
    \/ \E n \in Nodes :
          \/ add_other_neighbor(n) \/ rsvp_hello_shutdown(n) \/ start(n)
          \/ \E p \in Nodes :
                \/ rsvp_hello_add_neighbor(n, p)
                \/ hello_timer_cb(n, p) \/ dead_timer_cb(n, p)
                \/ dead_timer_late(n, p)
    \/ \E m \in net :
          \/ rsvp_hello_recv(m) \/ hello_discovers(m) \/ hello_dropped(m)
          \/ hello_lost(m)

Spec == rsvp_hello_init /\ [][Next]_vars

\* Due timers fire, messages arrive or are lost, and time passes: the poll loop
\* returns to the timer pipe and to the socket, and the wheel ticks.  Nothing is
\* assumed about commands, stops and starts.
Fairness ==
    /\ WF_vars(Tick)
    /\ \A n, p \in Nodes : /\ WF_vars(hello_timer_cb(n, p))
                           /\ WF_vars(dead_timer_cb(n, p))
                           /\ WF_vars(dead_timer_late(n, p))
    /\ WF_vars(\E m \in net : \/ rsvp_hello_recv(m) \/ hello_discovers(m)
                              \/ hello_dropped(m) \/ hello_lost(m))

FairSpec == Spec /\ Fairness

-----------------------------------------------------------------------------
(* Properties.                                                             *)

\* A neighbour that is UP has an armed dead timer, through restarts,
\* rediscoveries and late expiries: whatever ends the timer takes the neighbour
\* DOWN.  An UP neighbour that nothing watches would stay UP for ever.  The
\* converse does not hold: an expiry that the Hello found in the timer pipe
\* (rsvp_timers.c:130) leaves the neighbour DOWN with its dead timer armed.
UpIsWatched ==
    \A n, p \in Nodes : IsUp(n, p) => g_neighbors[n][p].dead_timer # Off

\* The dead timer of a neighbour that tracks this router and has been heard since
\* is never due while the link loses at most MaxLost REQUESTs in a row: an expiry,
\* also one that runs late (dead_timer_cb), goes back to a real silence.  It takes
\* MaxLost <= DeadFactor - 2: with one loss more, the timer may fire just before
\* the next Hello is read.
NoFalseAlarm ==
    \A n, p \in Nodes : (Tracks(p, n) /\ p \in heard[n])
                        => g_neighbors[n][p].dead_timer # 0

\* An adjacency that was UP does not end, and does not pass to another instance
\* of the neighbour, without a call of rsvp_frr_trigger for the interface of
\* its entry (dead_timer_cb and the restart branch of rsvp_hello_recv).
LossReroutes ==
    [][\A n, p \in Nodes :
          /\ IsUp(n, p) /\ running'[n]
          /\ \/ ~ IsUp(n, p)'
             \/ g_neighbors'[n][p].dst_instance # g_neighbors[n][p].dst_instance
          => frr' = Triggers(n, g_neighbors[n][p].ifindex)]_vars

\* The neighbours of a router that stops for good notice: none of them keeps it
\* UP (dead_timer_cb).
DeathNoticed ==
    \A n, p \in Nodes : <>[](~ running[p]) => <>[](~ IsUp(n, p))

\* n tracks p, whose daemon runs and has a slot for n.
Reaches(n, p) ==
    Tracks(n, p) /\ running[p] /\ (Tracks(p, n) \/ ~ TableFull(p))

\* One router that tracks the other is enough: in the end both are UP with the
\* other's current instance, whatever stopped, was lost or came late before.
AdjacencyForms ==
    \A n, p \in Nodes :
       <>[]Reaches(n, p) =>
          <>[](/\ IsUp(n, p) /\ IsUp(p, n)
               /\ g_neighbors[n][p].dst_instance = g_neighbors[p][n].src_instance
               /\ g_neighbors[p][n].dst_instance = g_neighbors[n][p].src_instance)
=============================================================================
