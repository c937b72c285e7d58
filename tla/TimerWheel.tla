----------------------------- MODULE TimerWheel ------------------------------
(***************************************************************************)
(* The hierarchical timer wheel, wheel_timer/wheel_timer.c: five levels of *)
(* buckets, the tick thread that cascades and expires them, the worker     *)
(* threads that run the callbacks, and the operations of one client thread.*)
(*                                                                         *)
(* A critical section of wheel->lock is one action.  Ticks are counted     *)
(* modulo Wrap, as the code counts them modulo 2^64, and differences are   *)
(* signed.  The client does what keeps a node in one list: it does not arm *)
(* one that waits in expired_list or in the batch of a worker (the subject *)
(* of RsvpTimers), nor one whose callback runs if it is to be periodic,    *)
(* since that worker may link it once more.  With one wheel, node->wheel   *)
(* decides nothing.                                                        *)
(***************************************************************************)
EXTENDS Integers, FiniteSets

CONSTANTS
    Nodes,       \* timer nodes
    Workers,     \* the threads of the callback pool
    TVR, TVN,    \* WHEEL_TVR_SIZE and WHEEL_TVN_SIZE
    Wrap,        \* ticks are counted modulo Wrap
    TickMs,      \* tick_ms
    Delays,      \* the delays in ms the client asks for
    Periods,     \* the periods in ms the client asks for
    MaxLag       \* bound: ticks a periodic node may fall behind

Level == 1 .. 5

\* The ticks that the buckets of level l and those below cover; one bucket of
\* level l covers Span(l - 1).
Span(l) ==
    LET N2 == TVN * TVN IN
    CASE l = 0 -> 1              [] l = 1 -> TVR
      [] l = 2 -> TVR * TVN      [] l = 3 -> TVR * N2
      [] l = 4 -> TVR * N2 * TVN [] l = 5 -> TVR * N2 * N2

\* expires_ms in ticks, rounded up; mutant: rounded down.
ticks_down(ms) == ms \div TickMs
ticks_up(ms)   == ms \div TickMs + (IF ms % TickMs # 0 THEN 1 ELSE 0)

\* period_ms in ticks, rounded down, but at least one.
period_ticks(ms) == IF ms \div TickMs = 0 THEN 1 ELSE ms \div TickMs

ASSUME WheelAssumption ==
    /\ TVR \in Nat /\ TVR >= 2 /\ TVN \in Nat /\ TVN >= 2 /\ TickMs \in Nat \ {0}
    /\ Wrap \in Nat /\ Wrap % Span(5) = 0 /\ Wrap >= 2 * Span(5)
    /\ Delays \subseteq Nat /\ Periods \subseteq Nat \ {0}
    /\ MaxLag \in Nat \ {0} /\ 2 * MaxLag < Wrap
    /\ \A ms \in Delays : ticks_up(ms) < Span(5)
    /\ \A ms \in Periods : period_ticks(ms) < Span(5)

VARIABLES
    jiffies,       \* ticks so far, modulo Wrap
    running,       \* wheel->running
    node,          \* the nodes
    expired_list,  \* nodes handed to the workers
    worker,        \* the worker threads
    tick_thread,   \* "loop" or "exited"
    destroy        \* how far timer_wheel_destroy has come

vars == <<jiffies, running, node, expired_list, worker, tick_thread, destroy>>

-----------------------------------------------------------------------------
Ticks == 0 .. Wrap - 1

\* (int64_t)(a - b)
Diff(a, b) == LET d == (a - b) % Wrap IN IF 2 * d >= Wrap THEN d - Wrap ELSE d

\* A bucket of a level; NoBucket is that of a node that is not pending.
NoBucket == <<0, 0>>
Buckets  == ({1} \X (0 .. TVR - 1)) \cup ((2 .. 5) \X (0 .. TVN - 1))

\* since, asked and stopped belong to the model: when the node was last linked
\* by an operation, the delay asked for, and whether the client's last
\* operation deleted it.  The expiry of a node that is neither pending nor
\* periodic is never read again and is 0.
NodeState == [expires : Ticks, period : 0 .. Span(5), bucket : Buckets \cup {NoBucket},
              since : Ticks, asked : {0} \cup Delays, stopped : {"yes", "no"}]

timer_node_init == [expires |-> 0, period |-> 0, bucket |-> NoBucket,
                    since |-> 0, asked |-> 0, stopped |-> "no"]

Stages == {"ready", "waiting", "busy", "exited"}

TypeOK ==
    /\ jiffies \in Ticks
    /\ running \in BOOLEAN
    /\ node \in [Nodes -> NodeState]
    /\ expired_list \subseteq Nodes
    /\ worker \in [Workers -> [stage : Stages, batch : SUBSET Nodes, runs : SUBSET Nodes]]
    /\ tick_thread \in {"loop", "exited"}
    /\ destroy \in {"no", "tick", "workers", "done"}

Pending(n)   == node[n].bucket # NoBucket
Executing(n) == \E w \in Workers : n \in worker[w].runs
Waits(n)     == n \in expired_list \/ \E w \in Workers : n \in worker[w].batch

Ready == [stage |-> "ready", batch |-> {}, runs |-> {}]

timer_wheel_create ==
    /\ jiffies = 0
    /\ running = TRUE
    /\ node = [n \in Nodes |-> timer_node_init]
    /\ expired_list = {}
    /\ worker = [w \in Workers |-> Ready]
    /\ tick_thread = "loop"
    /\ destroy = "no"

-----------------------------------------------------------------------------
(* Buckets.                                                                *)

\* The bucket of level l for tick t; mutant: without the mask.
Slot_unmasked(l, t) == t \div Span(l - 1)
Slot(l, t) == (t \div Span(l - 1)) % (IF l = 1 THEN TVR ELSE TVN)

\* internal_add_timer: the lowest level that covers the delay; a node that is
\* due goes to the bucket of the next tick.
internal_add_timer(e, now) ==
    LET idx == Diff(e, now)
        l   == CHOOSE k \in Level : /\ k = 5 \/ idx < Span(k)
                                    /\ \A i \in 1 .. k - 1 : idx >= Span(i)
    IN  IF idx <= 0 THEN <<1, (now + 1) % TVR>> ELSE <<l, Slot(l, e)>>

\* Mutant: only the second level comes down.
cascades_one(b, now) == b[1] = 2 /\ b[2] = Slot(2, now) /\ Slot(1, now) = 0

\* The buckets that come down at tick now: that of a level, when every level
\* below is at its first bucket.
cascades(b, now) ==
    /\ b[1] \in 2 .. 5
    /\ b[2] = Slot(b[1], now)
    /\ \A k \in 1 .. b[1] - 1 : Slot(k, now) = 0

-----------------------------------------------------------------------------
(* The client.                                                             *)

Calls == running /\ destroy = "no"
Arms(n) == Calls /\ ~ Waits(n)

Set(n, s) == node' = [node EXCEPT ![n] = s]
OnlyNode == UNCHANGED <<jiffies, running, expired_list, worker, tick_thread, destroy>>

\* Node s linked for tick e.
Linked(s, e) == [s EXCEPT !.expires = e, !.bucket = internal_add_timer(e, jiffies),
                          !.since = jiffies]

timer_add(n, ms) ==
    /\ Arms(n)
    /\ Set(n, [Linked(node[n], (jiffies + ticks_up(ms)) % Wrap)
                  EXCEPT !.period = 0, !.asked = ms, !.stopped = "no"])
    /\ OnlyNode

timer_add_periodic(n, ms) ==
    /\ Arms(n) /\ ~ Executing(n)
    /\ Set(n, [Linked(node[n], (jiffies + period_ticks(ms)) % Wrap)
                  EXCEPT !.period = period_ticks(ms), !.asked = 0, !.stopped = "no"])
    /\ OnlyNode

\* timer_mod keeps the period.
timer_mod(n, ms) ==
    /\ Arms(n) /\ (node[n].period > 0 => ~ Executing(n))
    /\ Set(n, [Linked(node[n], (jiffies + ticks_up(ms)) % Wrap)
                  EXCEPT !.asked = ms, !.stopped = "no"])
    /\ OnlyNode

\* Mutant: the period is cleared only when the node is pending.
timer_del_keeps(n) ==
    /\ Calls
    /\ Set(n, IF Pending(n) THEN [timer_node_init EXCEPT !.stopped = "yes"]
              ELSE [node[n] EXCEPT !.stopped = "yes"])
    /\ OnlyNode
\* timer_del, and the part of timer_del_sync that changes something: a pending
\* node is unlinked, and the period is cleared in every case.
timer_del(n) ==
    /\ Calls
    /\ Set(n, [timer_node_init EXCEPT !.stopped = "yes"])
    /\ OnlyNode

-----------------------------------------------------------------------------
(* The tick thread.                                                        *)

\* pthread_cond_broadcast(&wheel->dispatch_cond); mutant: nobody is woken.
broadcast_none == UNCHANGED worker
broadcast ==
    worker' = [w \in Workers |->
                  IF worker[w].stage = "waiting" THEN Ready ELSE worker[w]]

\* How far a node is behind.
Lag(n) == Diff(jiffies, node[n].expires)

\* What a tick does to a node, once the buckets have come down.
came_down(s, now) ==
    IF cascades(s.bucket, now)
    THEN [s EXCEPT !.bucket = internal_add_timer(s.expires, now)] ELSE s

\* No longer pending; the expiry of a one-shot is no longer needed.
fired(s) == [s EXCEPT !.bucket = NoBucket, !.since = 0, !.asked = 0,
                      !.expires = IF s.period = 0 THEN 0 ELSE @]

\* One round of tick_thread_func.  A tick that was under way when the wheel was
\* stopped is the last.
tick ==
    LET now == (jiffies + 1) % Wrap
        down == [n \in Nodes |-> came_down(node[n], now)]
        out  == {n \in Nodes : down[n].bucket = <<1, Slot(1, now)>>}
    IN
    /\ tick_thread = "loop"
    /\ \A n \in Nodes : (Waits(n) \/ Executing(n)) /\ node[n].period > 0 => Lag(n) < MaxLag
    /\ jiffies' = now
    /\ node' = [n \in Nodes |-> IF n \in out THEN fired(down[n]) ELSE down[n]]
    /\ expired_list' = expired_list \cup out
    /\ IF out = {} THEN UNCHANGED worker ELSE broadcast
    /\ tick_thread' = IF running THEN "loop" ELSE "exited"
    /\ UNCHANGED <<running, destroy>>

tick_thread_exits ==
    /\ tick_thread = "loop" /\ ~ running
    /\ tick_thread' = "exited"
    /\ UNCHANGED <<jiffies, running, node, expired_list, worker, destroy>>

-----------------------------------------------------------------------------
(* A worker.                                                               *)

OnlyWorkers == UNCHANGED <<jiffies, running, node, tick_thread, destroy>>

worker_waits(w) ==
    /\ worker[w].stage = "ready" /\ running /\ expired_list = {}
    /\ worker' = [worker EXCEPT ![w].stage = "waiting"]
    /\ UNCHANGED expired_list /\ OnlyWorkers

worker_exits(w) ==
    /\ worker[w].stage = "ready" /\ ~ running /\ expired_list = {}
    /\ worker' = [worker EXCEPT ![w].stage = "exited"]
    /\ UNCHANGED expired_list /\ OnlyWorkers

\* The whole list becomes the worker's batch.
worker_takes(w) ==
    /\ worker[w].stage = "ready" /\ expired_list # {}
    /\ worker' = [worker EXCEPT ![w] = [stage |-> "busy", batch |-> expired_list, runs |-> {}]]
    /\ expired_list' = {}
    /\ OnlyWorkers

worker_calls(w, n) ==
    /\ worker[w].stage = "busy" /\ worker[w].runs = {} /\ n \in worker[w].batch
    /\ worker' = [worker EXCEPT ![w].batch = @ \ {n}, ![w].runs = {n}]
    /\ UNCHANGED expired_list /\ OnlyWorkers

\* Mutant: a periodic node that is late is not linked again.
readd_if_early(s) ==
    LET e == (s.expires + s.period) % Wrap IN
    IF /\ running /\ s.period > 0 /\ s.bucket = NoBucket
       /\ Diff(e, jiffies) >= 0
    THEN Linked(s, e) ELSE s
\* A periodic node is linked again, unless the client has deleted it or linked
\* it itself meanwhile.
readd(s) ==
    IF running /\ s.period > 0 /\ s.bucket = NoBucket
    THEN Linked(s, (s.expires + s.period) % Wrap) ELSE s

worker_returns(w, n) ==
    /\ n \in worker[w].runs
    /\ worker' = [worker EXCEPT ![w] = IF worker[w].batch = {} THEN Ready
                                       ELSE [@ EXCEPT !.runs = {}]]
    /\ Set(n, readd(node[n]))
    /\ UNCHANGED <<jiffies, running, expired_list, tick_thread, destroy>>

-----------------------------------------------------------------------------
(* timer_wheel_destroy: stop, join the tick thread, wake and join the       *)
(* workers.                                                                *)

destroy_stops ==
    /\ destroy = "no"
    /\ running' = FALSE
    /\ destroy' = "tick"
    /\ UNCHANGED <<jiffies, node, expired_list, worker, tick_thread>>

\* Mutant: the workers that wait are not woken.
destroy_silent ==
    /\ destroy = "tick" /\ tick_thread = "exited"
    /\ destroy' = "workers"
    /\ UNCHANGED <<jiffies, running, node, expired_list, worker, tick_thread>>
destroy_wakes ==
    /\ destroy = "tick" /\ tick_thread = "exited"
    /\ broadcast
    /\ destroy' = "workers"
    /\ UNCHANGED <<jiffies, running, node, expired_list, tick_thread>>

destroy_returns ==
    /\ destroy = "workers" /\ \A w \in Workers : worker[w].stage = "exited"
    /\ destroy' = "done"
    /\ UNCHANGED <<jiffies, running, node, expired_list, worker, tick_thread>>

Next ==
    \/ \E n \in Nodes :
          \/ \E ms \in Delays : timer_add(n, ms) \/ timer_mod(n, ms)
          \/ \E ms \in Periods : timer_add_periodic(n, ms)
          \/ timer_del(n)
    \/ tick \/ tick_thread_exits
    \/ \E w \in Workers :
          \/ worker_waits(w) \/ worker_exits(w) \/ worker_takes(w)
          \/ \E n \in Nodes : worker_calls(w, n) \/ worker_returns(w, n)
    \/ destroy_stops \/ destroy_wakes \/ destroy_returns

Spec == timer_wheel_create /\ [][Next]_vars

\* The threads run, and the client that has begun to destroy the wheel goes on.
Fairness ==
    /\ WF_vars(tick) /\ WF_vars(tick_thread_exits)
    /\ \A w \in Workers :
          /\ WF_vars(worker_waits(w) \/ worker_exits(w) \/ worker_takes(w))
          /\ \A n \in Nodes : WF_vars(worker_calls(w, n)) /\ WF_vars(worker_returns(w, n))
    /\ WF_vars(destroy_wakes) /\ WF_vars(destroy_returns)

FairSpec == Spec /\ Fairness

-----------------------------------------------------------------------------
(* Properties.                                                             *)

\* The tick in which a pending node fires: its expiry, or the next tick if that
\* has passed already; one tick later for a node that comes down in the very
\* tick of its expiry, which internal_add_timer then puts into the next bucket.
DueTick(n) ==
    LET s == node[n] IN
    IF Diff(s.expires, s.since) <= 0 THEN (s.since + 1) % Wrap
    ELSE IF s.expires % TVR = 0 /\ Diff(s.expires, s.since) >= TVR
    THEN (s.expires + 1) % Wrap ELSE s.expires

\* A pending node is handed to the workers in its due tick and in no other,
\* through every cascade of tick_thread_func and across the wrap of the counter:
\* none comes in an earlier tick, is lost in a bucket that has passed, or a round late.
OnTime ==
    [][\A n \in Nodes :
          Pending(n) /\ jiffies' # jiffies
          => (n \in expired_list' <=> jiffies' = DueTick(n))]_vars

\* The ticks between a timer_add or timer_mod and its expiry are worth the
\* milliseconds asked, and less than two ticks more: one for the rounding, one
\* for a node that comes down in its own tick.  They are counted from the tick
\* before the call, as the code does.  "Delay from now" (wheel_timer.h:63) is
\* therefore not kept by the clock: the call may come at the end of its tick, and
\* ticks that the tick thread makes up follow each other at once.
AskedTicks ==
    [][\A n \in Nodes :
          Pending(n) /\ n \in expired_list' /\ node[n].asked # 0
          => LET ms == ((jiffies' - node[n].since) % Wrap) * TickMs
             IN  node[n].asked <= ms /\ ms < node[n].asked + 2 * TickMs]_vars

\* What timer_del has removed does not come back, whatever worker was running
\* its callback: it is not pending until the client arms it again.
DelSticks == \A n \in Nodes : node[n].stopped = "yes" => ~ Pending(n)

\* A periodic node is never forgotten while the wheel runs: it is pending, with
\* the workers, or being run, however late its callbacks are.
PeriodicAlive ==
    \A n \in Nodes :
       running /\ node[n].period > 0 => Pending(n) \/ Waits(n) \/ Executing(n)

\* The callback of an expired node is run while the wheel runs: the broadcast of
\* the tick thread reaches a worker that waits, or every worker looks at the
\* list again before it waits.  (A node that the last tick expires after the
\* workers have left is dropped.)
CallbackRuns == \A n \in Nodes : Waits(n) ~> (Executing(n) \/ ~ running)

\* timer_wheel_destroy comes back: no worker sleeps through its broadcast.
DestroyReturns == (destroy = "tick") ~> (destroy = "done")
=============================================================================
