-------------------------- MODULE RsvpTimersProofs ---------------------------
(***************************************************************************)
(* For every set of PSBs, every number of worker threads and every size of *)
(* the registry: the timer module keeps its types, and the callback of one *)
(* arming runs at most once.                                               *)
(***************************************************************************)
EXTENDS RsvpTimers, TLAPS, WellFoundedInduction

\* Every entry of the registry belongs to an arming that has not fired, no two
\* slots hold the same arming, and numbers not yet assigned have not fired.
RegistryExact ==
    /\ \A i \in Slots : active_timers[i] # Empty =>
          /\ active_timers[i].seq <= global_timer_seq
          /\ fired[active_timers[i].seq] = 0
    /\ \A i, j \in Slots :
          /\ active_timers[i] # Empty /\ active_timers[j] # Empty
          /\ active_timers[i].seq = active_timers[j].seq
          => i = j
    /\ \A s \in Seqs : s > global_timer_seq => fired[s] = 0

IInv == TypeOK /\ RegistryExact /\ FiresOnce

-----------------------------------------------------------------------------
\* The scan of the registry stops at a slot of the set it looks for.
LEMMA FirstInSet ==
    ASSUME NEW S \in SUBSET Slots, S # {}
    PROVE  First(S) \in S
<1> DEFINE R == OpToRel(<, Nat)
<1>1. S \subseteq Nat
  BY TimersAssumption DEF Slots
<1>2. \E i \in S : \A j \in S : ~ (<<j, i>> \in R)
  BY <1>1, NatLessThanWellFounded, WFMin
<1>3. \A i, j \in Nat : ~ (<<j, i>> \in R) => i <= j
  BY DEF OpToRel
<1>4. \E i \in S : \A j \in S : i <= j
  BY <1>1, <1>2, <1>3
<1>5. QED
  BY <1>4 DEF First

\* Timers are pairs, so no timer is the mark of an empty slot.
LEMMA TimerNotEmpty == \A t \in Timers : t # <<>>
BY DEF Timers

\* The slots of a timer hold that timer.
LEMMA SlotsOfEntry ==
    ASSUME TypeOK, NEW t \in Timers, slots_of(t) # {}
    PROVE  /\ First(slots_of(t)) \in Slots
           /\ active_timers[First(slots_of(t))] # Empty
<1>1. First(slots_of(t)) \in slots_of(t)
  BY FirstInSet DEF slots_of
<1>2. QED
  BY <1>1, TimerNotEmpty DEF slots_of, Empty

\* Removing an entry keeps the registry's type and its other entries.
LEMMA UnregisterKeeps ==
    ASSUME TypeOK, NEW t \in Timers, unregister_active_timer(t)
    PROVE  /\ active_timers' \in [Slots -> [timer : Timers, seq : Seqs] \cup {Empty}]
           /\ \A i \in Slots : active_timers'[i] = active_timers[i]
                               \/ active_timers'[i] = Empty
BY DEF unregister_active_timer, TypeOK

\* Stopping a timer only ever removes a registry entry.
LEMMA StopKeeps ==
    ASSUME TypeOK, NEW t \in Timers, stop(t)
    PROVE  /\ active_timers' \in [Slots -> [timer : Timers, seq : Seqs] \cup {Empty}]
           /\ \A i \in Slots : active_timers'[i] = active_timers[i]
                               \/ active_timers'[i] = Empty
           /\ active' \in [Timers -> BOOLEAN]
           /\ node' \in [Timers -> {"none", "wheel", "expired"}]
<1>1. CASE active[t]
  <2>1. unregister_active_timer(t)
    BY <1>1 DEF stop
  <2>2. /\ active' \in [Timers -> BOOLEAN]
        /\ node' \in [Timers -> {"none", "wheel", "expired"}]
    BY <1>1 DEF stop, TypeOK
  <2>3. QED BY <2>1, <2>2, UnregisterKeeps
<1>2. CASE ~ active[t]
  BY <1>2 DEF stop, TypeOK
<1>3. QED BY <1>1, <1>2

\* A step that removes registry entries at most, and neither fires nor assigns
\* a number, keeps RegistryExact.
LEMMA RemovalKeepsExact ==
    ASSUME TypeOK, RegistryExact,
           \A i \in Slots : active_timers'[i] = active_timers[i]
                            \/ active_timers'[i] = Empty,
           UNCHANGED <<fired, global_timer_seq>>
    PROVE  RegistryExact'
BY DEF RegistryExact, TypeOK

\* The state after rsvp_timer_init satisfies the invariant.
LEMMA InitIInv == rsvp_timer_init => IInv
<1> SUFFICES ASSUME rsvp_timer_init PROVE IInv
  OBVIOUS
<1> USE TimersAssumption DEF rsvp_timer_init
<1>1. TypeOK
  <2>1. /\ alive \in [Blocks -> BOOLEAN]
        /\ active \in [Timers -> BOOLEAN]
        /\ node \in [Timers -> {"none", "wheel", "expired"}]
        /\ executing \in [Workers -> [timer : Timers, stage : Stages] \cup {Idle}]
        /\ active_timers \in [Slots -> [timer : Timers, seq : Seqs] \cup {Empty}]
    OBVIOUS
  <2>2. /\ seq \in [Timers -> Seqs]
        /\ global_timer_seq \in Seqs
        /\ fired \in [Seqs -> Nat]
    BY DEF Seqs
  <2>3. timer_pipe \in Seq([timer : Timers, seq : Seqs])
    OBVIOUS
  <2>4. corrupt \in BOOLEAN
    OBVIOUS
  <2>5. QED BY <2>1, <2>2, <2>3, <2>4 DEF TypeOK
<1>2. RegistryExact
  BY DEF RegistryExact, Slots, Seqs
<1>3. FiresOnce
  BY DEF FiresOnce, Seqs
<1>4. QED BY <1>1, <1>2, <1>3 DEF IInv

\* Arming registers a number that no slot holds and that has not fired.
LEMMA ArmKeeps ==
    ASSUME IInv, NEW t \in Timers, rsvp_timer_arm(t)
    PROVE  IInv'
<1> DEFINE n == global_timer_seq + 1
<1> USE TimersAssumption DEF IInv
<1>1. n \in Seqs /\ n > global_timer_seq
  BY DEF rsvp_timer_arm, TypeOK, Seqs
<1>2. CASE free_slots = {}
  <2>1. active_timers' = active_timers
    BY <1>2 DEF rsvp_timer_arm, register_active_timer
  <2>2. TypeOK'
    BY <1>1, <2>1 DEF rsvp_timer_arm, TypeOK
  <2>3. RegistryExact'
    BY <1>1, <2>1 DEF rsvp_timer_arm, TypeOK, RegistryExact, Seqs
  <2>4. QED BY <2>2, <2>3 DEF rsvp_timer_arm, FiresOnce
<1>3. CASE free_slots # {}
  <2> DEFINE f == First(free_slots)
  <2>1. f \in Slots
    BY <1>3, FirstInSet DEF free_slots
  <2>2. active_timers' = [active_timers EXCEPT ![f] = [timer |-> t, seq |-> n]]
    BY <1>3 DEF rsvp_timer_arm, register_active_timer
  <2> HIDE DEF f
  <2>3. TypeOK'
    BY <1>1, <2>1, <2>2 DEF rsvp_timer_arm, TypeOK
  <2>4. RegistryExact'
    <3>1. /\ active_timers'[f] = [timer |-> t, seq |-> n]
          /\ \A i \in Slots : i # f => active_timers'[i] = active_timers[i]
      BY <2>1, <2>2 DEF TypeOK
    <3>2. global_timer_seq' = n /\ fired' = fired
      BY DEF rsvp_timer_arm
    <3>3. fired[n] = 0
      BY <1>1 DEF RegistryExact
    <3>4. n \in Nat /\ global_timer_seq \in Nat
      BY DEF TypeOK, Seqs
    <3>5. \A i \in Slots : active_timers[i] # Empty =>
             /\ active_timers[i].seq \in Nat
             /\ active_timers[i].seq <= global_timer_seq
             /\ fired[active_timers[i].seq] = 0
      BY DEF TypeOK, RegistryExact, Seqs
    <3> HIDE DEF n
    <3>6. ASSUME NEW i \in Slots, active_timers'[i] # Empty
          PROVE  /\ active_timers'[i].seq <= n
                 /\ fired[active_timers'[i].seq] = 0
      <4>1. CASE i = f
        BY <3>1, <3>3, <3>4, <4>1
      <4>2. CASE i # f
        BY <1>1, <3>1, <3>4, <3>5, <3>6, <4>2
      <4>3. QED BY <4>1, <4>2
    <3>7. ASSUME NEW i \in Slots, NEW j \in Slots,
                 active_timers'[i] # Empty, active_timers'[j] # Empty,
                 active_timers'[i].seq = active_timers'[j].seq
          PROVE  i = j
      <4>1. CASE i # f /\ j # f
        BY <3>1, <3>7, <4>1 DEF RegistryExact
      <4>2. CASE i = f /\ j # f
        BY <1>1, <3>1, <3>4, <3>5, <3>7, <4>2
      <4>3. CASE i # f /\ j = f
        BY <1>1, <3>1, <3>4, <3>5, <3>7, <4>3
      <4>4. QED BY <4>1, <4>2, <4>3
    <3>8. \A q \in Seqs : q > n => fired[q] = 0
      BY <1>1, <3>4 DEF RegistryExact, Seqs
    <3>9. QED BY <3>2, <3>6, <3>7, <3>8 DEF RegistryExact
  <2>5. QED BY <2>3, <2>4 DEF rsvp_timer_arm, FiresOnce
<1>4. QED BY <1>2, <1>3

\* Handling a message calls back only for the entry it removes.
LEMMA HandleExpKeeps ==
    ASSUME IInv, rsvp_timer_handle_exp
    PROVE  IInv'
<1> USE DEF IInv
<1> DEFINE t == Head(timer_pipe).timer
           s == Head(timer_pipe).seq
<1>1. t \in Timers /\ s \in Seqs
      /\ timer_pipe' \in Seq([timer : Timers, seq : Seqs])
  <2> DEFINE M == [timer : Timers, seq : Seqs]
  <2>1. timer_pipe \in Seq(M) /\ timer_pipe # <<>> /\ timer_pipe' = Tail(timer_pipe)
    BY DEF rsvp_timer_handle_exp, TypeOK
  <2> HIDE DEF M
  <2>2. Head(timer_pipe) \in M /\ timer_pipe' \in Seq(M)
    BY <2>1
  <2>3. QED BY <2>2 DEF M
<1>2. CASE is_timer_active_and_matches(t, s)
  <2> DEFINE f == First(slots_of(t))
  <2>1. /\ slots_of(t) # {}
        /\ f \in Slots
        /\ active_timers[f] # Empty
        /\ active_timers[f].seq = s
    BY <1>1, <1>2, SlotsOfEntry DEF is_timer_active_and_matches
  <2>2. /\ active_timers' = [active_timers EXCEPT ![f] = Empty]
        /\ fired' = [fired EXCEPT ![s] = @ + 1]
        /\ UNCHANGED <<alive, active, seq, node, executing, global_timer_seq, corrupt>>
    BY <1>2, <2>1 DEF rsvp_timer_handle_exp, unregister_active_timer
  <2> HIDE DEF f, t, s
  <2>3. fired[s] = 0 /\ s <= global_timer_seq
    BY <2>1 DEF RegistryExact
  <2>4. TypeOK'
    BY <1>1, <2>1, <2>2 DEF TypeOK
  <2>5. RegistryExact'
    BY <1>1, <2>1, <2>2, <2>3 DEF TypeOK, RegistryExact, Seqs
  <2>6. FiresOnce'
    BY <1>1, <2>2, <2>3 DEF TypeOK, FiresOnce
  <2>7. QED BY <2>4, <2>5, <2>6
<1>3. CASE ~ is_timer_active_and_matches(t, s)
  <2>1. UNCHANGED <<alive, active, seq, node, executing, global_timer_seq,
                    corrupt, active_timers, fired>>
    BY <1>3 DEF rsvp_timer_handle_exp
  <2>2. QED
    BY <1>1, <2>1 DEF TypeOK, RegistryExact, FiresOnce
<1>4. QED BY <1>2, <1>3

\* Every step of every thread keeps the invariant.
LEMMA NextIInv == IInv /\ [Next]_vars => IInv'
<1> SUFFICES ASSUME IInv, [Next]_vars PROVE IInv'
  OBVIOUS
<1> USE DEF IInv
<1>1. ASSUME NEW b \in Blocks,
             path_creates(b) \/ path_refreshes(b) \/ path_tears(b)
      PROVE  IInv'
  <2>1. UNCHANGED <<node, executing, active_timers, global_timer_seq,
                    timer_pipe, fired, corrupt>>
    BY <1>1 DEF path_creates, path_refreshes, path_tears
  <2>2. /\ alive' \in [Blocks -> BOOLEAN]
        /\ active' \in [Timers -> BOOLEAN]
        /\ seq' \in [Timers -> Seqs]
    <3>1. CASE path_creates(b)
      <4>1. alive' \in [Blocks -> BOOLEAN]
        BY <3>1 DEF path_creates, TypeOK
      <4>2. active' \in [Timers -> BOOLEAN]
        BY <3>1 DEF path_creates, TypeOK
      <4>3. 0 \in Seqs
        BY TimersAssumption DEF Seqs
      <4>4. seq' \in [Timers -> Seqs]
        BY <3>1, <4>3 DEF path_creates, TypeOK
      <4>5. QED BY <4>1, <4>2, <4>4
    <3>2. CASE path_refreshes(b) \/ path_tears(b)
      BY <3>2 DEF path_refreshes, path_tears, TypeOK
    <3>3. QED BY <1>1, <3>1, <3>2
  <2>3. QED
    BY <2>1, <2>2 DEF TypeOK, RegistryExact, FiresOnce
<1>2. ASSUME NEW t \in Timers, rsvp_timer_stop(t) \/ rsvp_timer_start(t)
      PROVE  IInv'
  <2>1. /\ stop(t)
        /\ UNCHANGED <<alive, seq, executing, global_timer_seq, timer_pipe,
                       fired, corrupt>>
    BY <1>2 DEF rsvp_timer_stop, rsvp_timer_start
  <2>2. TypeOK'
    BY <2>1, StopKeeps DEF TypeOK
  <2>3. RegistryExact'
    BY <2>1, StopKeeps, RemovalKeepsExact
  <2>4. QED BY <2>1, <2>2, <2>3 DEF FiresOnce
<1>3. ASSUME NEW t \in Timers,
             rsvp_timer_reset(t) \/ ensure_started(t) \/ psb_free(t) \/ tick(t)
      PROVE  IInv'
  <2>1. UNCHANGED <<active, seq, executing, active_timers, global_timer_seq,
                    timer_pipe, fired>>
    BY <1>3 DEF rsvp_timer_reset, ensure_started, psb_free, tick
  <2>2. /\ alive' \in [Blocks -> BOOLEAN]
        /\ node' \in [Timers -> {"none", "wheel", "expired"}]
        /\ corrupt' \in BOOLEAN
    BY <1>3 DEF rsvp_timer_reset, ensure_started, psb_free, tick, TypeOK
  <2>3. QED
    BY <2>1, <2>2 DEF TypeOK, RegistryExact, FiresOnce
<1>4. ASSUME NEW w \in Workers, NEW t \in Timers, worker_takes(w, t)
      PROVE  IInv'
  <2>1. UNCHANGED <<alive, active, seq, active_timers, global_timer_seq,
                    timer_pipe, fired, corrupt>>
    BY <1>4 DEF worker_takes
  <2>2. /\ node' \in [Timers -> {"none", "wheel", "expired"}]
        /\ executing' \in [Workers -> [timer : Timers, stage : Stages] \cup {Idle}]
    BY <1>4 DEF worker_takes, TypeOK, Stages
  <2>3. QED
    BY <2>1, <2>2 DEF TypeOK, RegistryExact, FiresOnce
<1>5. ASSUME NEW w \in Workers,
             wheel_cb_inactive(w) \/ wheel_cb_writes(w) \/ worker_done(w)
      PROVE  IInv'
  <2>1. UNCHANGED <<alive, seq, node, active_timers, global_timer_seq,
                    fired, corrupt>>
    BY <1>5 DEF wheel_cb_inactive, wheel_cb_writes, worker_done
  <2>2. active' \in [Timers -> BOOLEAN]
    BY <1>5 DEF wheel_cb_inactive, wheel_cb_writes, worker_done, TypeOK
  <2>3. executing' \in [Workers -> [timer : Timers, stage : Stages] \cup {Idle}]
    <3> DEFINE R == [timer : Timers, stage : Stages]
    <3>1. executing \in [Workers -> R \cup {Idle}]
      BY DEF TypeOK
    <3>2. ASSUME NEW g, executing' = [executing EXCEPT ![w].stage = g],
                 executing[w] # Idle, g \in Stages
          PROVE  executing' \in [Workers -> R \cup {Idle}]
      <4>1. executing[w] \in R
        BY <3>1, <3>2
      <4>2. [executing[w] EXCEPT !.stage = g] \in R
        BY <4>1, <3>2
      <4>3. executing' = [executing EXCEPT ![w] = [executing[w] EXCEPT !.stage = g]]
        BY <3>2
      <4> HIDE DEF R
      <4>4. QED BY <3>1, <4>2, <4>3
    <3>3. CASE wheel_cb_inactive(w)
      <4>1. executing' = [executing EXCEPT ![w].stage = "inactive"]
        BY <3>3 DEF wheel_cb_inactive
      <4>2. executing[w] # Idle
        BY <3>3 DEF wheel_cb_inactive, Idle
      <4>3. "inactive" \in Stages
        BY DEF Stages
      <4>4. QED BY <3>2, <4>1, <4>2, <4>3
    <3>4. CASE wheel_cb_writes(w)
      <4>1. executing' = [executing EXCEPT ![w].stage = "written"]
        BY <3>4 DEF wheel_cb_writes
      <4>2. executing[w] # Idle
        BY <3>4 DEF wheel_cb_writes, Idle
      <4>3. "written" \in Stages
        BY DEF Stages
      <4>4. QED BY <3>2, <4>1, <4>2, <4>3
    <3>5. CASE worker_done(w)
      BY <3>1, <3>5 DEF worker_done
    <3>6. QED BY <1>5, <3>3, <3>4, <3>5
  <2>4. timer_pipe' \in Seq([timer : Timers, seq : Seqs])
    <3>1. CASE wheel_cb_writes(w)
      <4> DEFINE t == executing[w].timer
      <4>1. t \in Timers
        BY <3>1 DEF wheel_cb_writes, TypeOK, Idle
      <4>2. seq_reads(t) \subseteq Seqs
        BY <4>1, TimersAssumption DEF seq_reads, TypeOK, Seqs
      <4>3. PICK s \in seq_reads(t) :
                timer_pipe' = Append(timer_pipe, [timer |-> t, seq |-> s])
        BY <3>1 DEF wheel_cb_writes
      <4>4. QED BY <4>1, <4>2, <4>3 DEF TypeOK
    <3>2. CASE wheel_cb_inactive(w) \/ worker_done(w)
      BY <3>2 DEF wheel_cb_inactive, worker_done, TypeOK
    <3>3. QED BY <1>5, <3>1, <3>2
  <2>5. QED
    BY <2>1, <2>2, <2>3, <2>4 DEF TypeOK, RegistryExact, FiresOnce
<1>6. CASE UNCHANGED vars
  BY <1>6 DEF vars, TypeOK, RegistryExact, FiresOnce
<1>7. QED
  BY <1>1, <1>2, <1>3, <1>4, <1>5, <1>6, ArmKeeps, HandleExpKeeps DEF Next

-----------------------------------------------------------------------------
\* The fields of rsvp_timers.c keep their types, whatever the threads do.
THEOREM TimersTypeCorrect == Spec => []TypeOK
BY InitIInv, NextIInv, PTL DEF Spec, IInv

\* The callback of one arming runs at most once, for every number of timers,
\* worker threads and registry slots, also when the worker reads the number of
\* a later arming or of freed memory.
THEOREM TimersFireOnce == Spec => []FiresOnce
BY InitIInv, NextIInv, PTL DEF Spec, IInv
=============================================================================
