----------------------------- MODULE RsvpTimers ------------------------------
(***************************************************************************)
(* The soft-state timers, src/pi/rsvp_timers.c over wheel_timer/: the main *)
(* thread starts, resets and stops the two timers embedded in a PSB, the   *)
(* wheel's tick thread moves expired nodes to expired_list, the worker     *)
(* threads run internal_wheel_cb, and the main thread reads the expiries   *)
(* back from timer_pipe.                                                   *)
(*                                                                         *)
(* A handler of the main thread is a sequence of timer operations (todo);  *)
(* the other threads run between them.  Memory that is freed may be handed *)
(* out again: alive[b] tells whether block b is allocated.  Behaviour      *)
(* after a list of the wheel has been corrupted is not modelled.           *)
(***************************************************************************)
EXTENDS Integers, Sequences

CONSTANTS
    Blocks,        \* addresses of PSBs
    Workers,       \* the wheel's worker threads (2 in rsvp_timer_init)
    MaxActive,     \* MAX_ACTIVE_TIMERS, the slots of the registry
    MaxSeq         \* bound on global_timer_seq

ASSUME TimersAssumption ==
    /\ MaxActive \in Nat \ {0}
    /\ MaxSeq \in Nat \ {0}

VARIABLES
    alive,             \* allocated blocks
    active, seq,       \* the fields of rsvp_timer_t
    node,              \* where the timer's wheel node is linked; "expired" is
                       \* expired_list or the batch a worker has spliced off it
    executing,         \* worker |-> what it runs
    active_timers,     \* the registry: slot |-> [timer, seq]
    global_timer_seq,
    timer_pipe,        \* messages written by workers, oldest first
    todo,              \* operations left in the handler the main thread runs
    fired,             \* sequence number |-> how often its callback has run
    corrupt            \* a list of the wheel has been corrupted

vars == <<alive, active, seq, node, executing, active_timers,
          global_timer_seq, timer_pipe, todo, fired, corrupt>>

-----------------------------------------------------------------------------
Kinds  == {"refresh", "cleanup"}
Timers == Blocks \X Kinds
Slots  == 1 .. MaxActive
Seqs   == 0 .. MaxSeq

Block(t) == t[1]
Kind(t)  == t[2]

Empty == [timer |-> <<>>, seq |-> 0]
Idle  == [timer |-> <<>>, stage |-> "idle"]
Stages == {"called", "inactive", "written"}

TypeOK ==
    /\ alive \in [Blocks -> BOOLEAN]
    /\ active \in [Timers -> BOOLEAN]
    /\ seq \in [Timers -> Seqs]
    /\ node \in [Timers -> {"none", "wheel", "expired"}]
    /\ executing \in [Workers -> [timer : Timers, stage : Stages] \cup {Idle}]
    /\ active_timers \in [Slots -> [timer : Timers, seq : Seqs] \cup {Empty}]
    /\ global_timer_seq \in Seqs
    /\ timer_pipe \in Seq([timer : Timers, seq : Seqs])
    /\ fired \in [Seqs -> Nat]
    /\ corrupt \in BOOLEAN

rsvp_timer_init ==
    /\ alive = [b \in Blocks |-> FALSE]
    /\ active = [t \in Timers |-> FALSE]
    /\ seq = [t \in Timers |-> 0]
    /\ node = [t \in Timers |-> "none"]
    /\ executing = [w \in Workers |-> Idle]
    /\ active_timers = [i \in Slots |-> Empty]
    /\ global_timer_seq = 1
    /\ timer_pipe = <<>>
    /\ todo = <<>>
    /\ fired = [s \in Seqs |-> 0]
    /\ corrupt = FALSE

-----------------------------------------------------------------------------
(* The registry.                                                           *)

\* The first slot of S.
First(S) == CHOOSE i \in S : \A j \in S : i <= j

slots_of(t) == {i \in Slots : active_timers[i].timer = t}
free_slots  == {i \in Slots : active_timers[i] = Empty}

\* A full registry only logs an error.
register_active_timer(t, s) ==
    active_timers' = IF free_slots = {} THEN active_timers
                     ELSE [active_timers EXCEPT ![First(free_slots)] =
                              [timer |-> t, seq |-> s]]

\* Mutant: the entry stays.
unregister_nothing(t) == UNCHANGED active_timers
unregister_active_timer(t) ==
    active_timers' = IF slots_of(t) = {} THEN active_timers
                     ELSE [active_timers EXCEPT ![First(slots_of(t))] = Empty]

\* Only the first slot of the timer is compared.
is_timer_active_and_matches(t, s) ==
    slots_of(t) # {} /\ active_timers[First(slots_of(t))].seq = s

-----------------------------------------------------------------------------
(* Timer operations of the main thread.                                    *)

Op(op, t) == [op |-> op, timer |-> t]

\* The operation at the head of todo, and what is left after it.
Doing(op, t) == ~ corrupt /\ todo # <<>> /\ Head(todo) = Op(op, t)
Done         == todo' = Tail(todo)

\* rsvp_timer_stop: timer_del unlinks a node that is pending in the wheel and
\* leaves one that has expired alone.
stop(t) ==
    IF active[t]
    THEN /\ node' = IF node[t] = "wheel" THEN [node EXCEPT ![t] = "none"] ELSE node
         /\ active' = [active EXCEPT ![t] = FALSE]
         /\ unregister_active_timer(t)
    ELSE UNCHANGED <<node, active, active_timers>>

rsvp_timer_stop(t) ==
    /\ Doing("stop", t)
    /\ stop(t)
    /\ Done
    /\ UNCHANGED <<alive, seq, executing, global_timer_seq, timer_pipe, fired, corrupt>>

\* rsvp_timer_start, first half: an active timer is stopped ...
rsvp_timer_start(t) ==
    /\ Doing("start", t)
    /\ stop(t)
    /\ todo' = <<Op("arm", t)>> \o Tail(todo)
    /\ UNCHANGED <<alive, seq, executing, global_timer_seq, timer_pipe, fired, corrupt>>

\* ... and second half: timer_node_init clears the node whether or not it is
\* still linked, and timer_add links it into the wheel.
rsvp_timer_arm(t) ==
    /\ Doing("arm", t)
    /\ global_timer_seq < MaxSeq
    /\ active' = [active EXCEPT ![t] = TRUE]
    /\ global_timer_seq' = global_timer_seq + 1
    /\ seq' = [seq EXCEPT ![t] = global_timer_seq + 1]
    /\ register_active_timer(t, global_timer_seq + 1)
    /\ node' = [node EXCEPT ![t] = "wheel"]
    /\ corrupt' = (node[t] # "none")
    /\ Done
    /\ UNCHANGED <<alive, executing, timer_pipe, fired>>

\* The PATH handler's cleanup timer: rsvp_timer_reset, or a start when the timer
\* is not active.  timer_mod unlinks the node only if it is pending.
rsvp_timer_reset(t) ==
    /\ Doing("reset", t)
    /\ IF active[t]
       THEN /\ node' = [node EXCEPT ![t] = "wheel"]
            /\ corrupt' = (node[t] = "expired")
            /\ Done
       ELSE /\ todo' = <<Op("start", t)>> \o Tail(todo)
            /\ UNCHANGED <<node, corrupt>>
    /\ UNCHANGED <<alive, active, seq, executing, active_timers,
                   global_timer_seq, timer_pipe, fired>>

\* The PATH handler's refresh timer: started only if it is not active.
ensure_started(t) ==
    /\ Doing("ensure", t)
    /\ todo' = IF active[t] THEN Tail(todo) ELSE <<Op("start", t)>> \o Tail(todo)
    /\ UNCHANGED <<alive, active, seq, node, executing, active_timers,
                   global_timer_seq, timer_pipe, fired, corrupt>>

psb_free(t) ==
    /\ Doing("free", t)
    /\ alive' = [alive EXCEPT ![Block(t)] = FALSE]
    /\ Done
    /\ UNCHANGED <<active, seq, node, executing, active_timers,
                   global_timer_seq, timer_pipe, fired, corrupt>>

-----------------------------------------------------------------------------
(* Handlers of the main thread.                                            *)

path_ops(b) == <<Op("reset", <<b, "cleanup">>), Op("ensure", <<b, "refresh">>)>>
tear_ops(b) == <<Op("stop", <<b, "refresh">>), Op("stop", <<b, "cleanup">>),
                 Op("free", <<b, "cleanup">>)>>

MainIdle == ~ corrupt /\ todo = <<>>

\* A PATH for a new LSP: calloc returns block b zeroed.
path_creates(b) ==
    /\ MainIdle /\ ~ alive[b]
    /\ alive' = [alive EXCEPT ![b] = TRUE]
    /\ active' = [t \in Timers |-> IF Block(t) = b THEN FALSE ELSE active[t]]
    /\ seq' = [t \in Timers |-> IF Block(t) = b THEN 0 ELSE seq[t]]
    /\ todo' = path_ops(b)
    /\ UNCHANGED <<node, executing, active_timers, global_timer_seq,
                   timer_pipe, fired, corrupt>>

path_refreshes(b) ==
    /\ MainIdle /\ alive[b]
    /\ todo' = path_ops(b)
    /\ UNCHANGED <<alive, active, seq, node, executing, active_timers,
                   global_timer_seq, timer_pipe, fired, corrupt>>

path_tears(b) ==
    /\ MainIdle /\ alive[b]
    /\ todo' = tear_ops(b)
    /\ UNCHANGED <<alive, active, seq, node, executing, active_timers,
                   global_timer_seq, timer_pipe, fired, corrupt>>

\* What the callback of a timer does next: a refresh re-arms itself, a cleanup
\* deletes the block.
callback_ops(t) ==
    IF Kind(t) = "refresh" THEN <<Op("start", t)>> ELSE tear_ops(Block(t))

\* One message of rsvp_timer_handle_exp.
rsvp_timer_handle_exp ==
    /\ MainIdle /\ timer_pipe # <<>>
    /\ LET t == Head(timer_pipe).timer
           s == Head(timer_pipe).seq
       IN  IF is_timer_active_and_matches(t, s)
           THEN /\ unregister_active_timer(t)
                /\ fired' = [fired EXCEPT ![s] = @ + 1]
                /\ todo' = callback_ops(t)
           ELSE UNCHANGED <<active_timers, fired, todo>>
    /\ timer_pipe' = Tail(timer_pipe)
    /\ UNCHANGED <<alive, active, seq, node, executing, global_timer_seq, corrupt>>

-----------------------------------------------------------------------------
(* The wheel's threads.                                                    *)

\* tick_thread_func: the node's time has come.
tick(t) ==
    /\ ~ corrupt /\ node[t] = "wheel"
    /\ node' = [node EXCEPT ![t] = "expired"]
    /\ UNCHANGED <<alive, active, seq, executing, active_timers,
                   global_timer_seq, timer_pipe, todo, fired, corrupt>>

\* worker_thread_func takes an expired node and calls internal_wheel_cb ...
worker_takes(w, t) ==
    /\ ~ corrupt /\ executing[w] = Idle /\ node[t] = "expired"
    /\ node' = [node EXCEPT ![t] = "none"]
    /\ executing' = [executing EXCEPT ![w] = [timer |-> t, stage |-> "called"]]
    /\ UNCHANGED <<alive, active, seq, active_timers, global_timer_seq,
                   timer_pipe, todo, fired, corrupt>>

\* ... which clears active ...
wheel_cb_inactive(w) ==
    /\ ~ corrupt /\ executing[w].stage = "called"
    /\ active' = [active EXCEPT ![executing[w].timer] = FALSE]
    /\ executing' = [executing EXCEPT ![w].stage = "inactive"]
    /\ UNCHANGED <<alive, seq, node, active_timers, global_timer_seq,
                   timer_pipe, todo, fired, corrupt>>

\* The values a read of timer->seq may return: anything once it is freed.
seq_reads(t) == IF alive[Block(t)] THEN {seq[t]} ELSE 0 .. global_timer_seq

\* ... reads the sequence number and writes the message ...
wheel_cb_writes(w) ==
    LET t == executing[w].timer IN
    /\ ~ corrupt /\ executing[w].stage = "inactive"
    /\ \E s \in seq_reads(t) :
          timer_pipe' = Append(timer_pipe, [timer |-> t, seq |-> s])
    /\ executing' = [executing EXCEPT ![w].stage = "written"]
    /\ UNCHANGED <<alive, active, seq, node, active_timers, global_timer_seq,
                   todo, fired, corrupt>>

\* ... and the worker writes node->executing and looks at node->period.
worker_done(w) ==
    /\ ~ corrupt /\ executing[w].stage = "written"
    /\ executing' = [executing EXCEPT ![w] = Idle]
    /\ UNCHANGED <<alive, active, seq, node, active_timers, global_timer_seq,
                   timer_pipe, todo, fired, corrupt>>

Next ==
    \/ \E b \in Blocks : path_creates(b) \/ path_refreshes(b) \/ path_tears(b)
    \/ rsvp_timer_handle_exp
    \/ \E t \in Timers :
          \/ rsvp_timer_stop(t) \/ rsvp_timer_start(t) \/ rsvp_timer_arm(t)
          \/ rsvp_timer_reset(t) \/ ensure_started(t) \/ psb_free(t)
          \/ tick(t)
          \/ \E w \in Workers : worker_takes(w, t)
    \/ \E w \in Workers :
          wheel_cb_inactive(w) \/ wheel_cb_writes(w) \/ worker_done(w)

Spec == rsvp_timer_init /\ [][Next]_vars

-----------------------------------------------------------------------------
\* The callback of one arming runs at most once, however the threads interleave
\* and however often its expiry is reported: rsvp_timer_handle_exp calls back
\* only for the registry entry it removes, and an arming is registered once.
FiresOnce == \A s \in Seqs : fired[s] <= 1

-----------------------------------------------------------------------------
(* A statement of the code's comments that the threads can break.          *)

\* "Stop timers before freeing to prevent callbacks firing on freed memory":
\* the main thread never calls back into a freed block.
CallbackOnLiveBlock ==
    [][fired' # fired => alive[Block(Head(timer_pipe).timer)]]_vars
=============================================================================
