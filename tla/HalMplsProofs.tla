---------------------------- MODULE HalMplsProofs ----------------------------
(***************************************************************************)
(* For every number of labels, destinations, routes and slots: what        *)
(* 'show mpls routes' prints first for a key is the kernel's route.        *)
(*                                                                         *)
(* ShowAgrees is inductive with the types.  The argument is about slots:   *)
(* the one an install takes is before every slot that has the key, and it  *)
(* was free or had the key, so that it becomes the first slot of its key   *)
(* and no slot of another key is touched.                                  *)
(***************************************************************************)
EXTENDS HalMpls, TLAPS

\* Two calls are for the same key exactly when match says so.
LEMMA MatchIsKey ==
    ASSUME NEW s \in Slot, NEW in_label \in Labels \cup {0}, NEW dest \in Dests
    PROVE  match(s, in_label, dest)
           <=> s.active = 1 /\ Key(s.in_label, s.dest) = Key(in_label, dest)
<1>1. in_label \in Nat /\ s.in_label \in Nat /\ s.dest \in Nat /\ dest \in Nat
  <2>1. s.in_label \in Labels \cup {0} /\ s.dest \in Dests \cup {0}
    BY DEF Slot
  <2>2. Labels \subseteq Nat /\ Dests \subseteq Nat
    BY HalAssumption
  <2>3. \A x \in Labels \cup {0} : x \in Nat
    BY <2>2
  <2>4. \A x \in Dests \cup {0} : x \in Nat
    BY <2>2
  <2>5. in_label \in Nat /\ dest \in Nat
    BY <2>3, <2>4
  <2>6. s.in_label \in Nat
    BY <2>1, <2>3, Zenon
  <2>7. s.dest \in Nat
    BY <2>1, <2>4, Zenon
  <2>. QED
    BY <2>5, <2>6, <2>7
<1>2. \A a, b, c, d \in Nat : <<a, b>> = <<c, d>> <=> a = c /\ b = d
  OBVIOUS
<1>3. CASE in_label = 0
  <2>1. Key(in_label, dest) = <<0, dest>>
    BY <1>3 DEF Key
  <2>2. CASE s.in_label = 0
    BY <1>1, <1>2, <1>3, <2>1, <2>2 DEF match, Key
  <2>3. CASE s.in_label # 0
    BY <1>1, <1>2, <1>3, <2>1, <2>3 DEF match, Key
  <2>. QED
    BY <2>2, <2>3
<1>4. CASE in_label # 0
  <2>1. Key(in_label, dest) = <<in_label, 0>>
    BY <1>4 DEF Key
  <2>2. CASE s.in_label = 0
    BY <1>1, <1>2, <1>4, <2>1, <2>2 DEF match, Key
  <2>3. CASE s.in_label # 0
    BY <1>1, <1>2, <1>4, <2>1, <2>3 DEF match, Key
  <2>. QED
    BY <2>2, <2>3
<1>. QED
  BY <1>3, <1>4

LEMMA KeyIsKey ==
    ASSUME NEW in_label \in Labels \cup {0}, NEW dest \in Dests
    PROVE  Key(in_label, dest) \in Keys
<1>1. in_label = 0 => Key(in_label, dest) = <<0, dest>>
  BY DEF Key
<1>2. in_label # 0 => Key(in_label, dest) = <<in_label, 0>> /\ in_label \in Labels
  BY DEF Key
<1>. QED
  BY <1>1, <1>2 DEF Keys

\* A call keeps the types and, of the cache, every slot of another key; its own
\* key ends up with the new route in its first slot, with no slot because there
\* is none, or, after a removal, with no slot at all.
LEMMA CacheInstall ==
    ASSUME TypeOK, NEW in_label \in Labels \cup {0}, NEW dest \in Dests,
           NEW route \in Routes, cache_install(in_label, dest, route)
    PROVE  /\ mpls_routes' \in [Slots -> Slot]
           /\ missed' \subseteq Keys
           /\ \A k \in Keys \ {Key(in_label, dest)} :
                 /\ \A i \in Slots : Caches(i, k)' <=> Caches(i, k)
                 /\ \A i \in Slots : Caches(i, k) => mpls_routes'[i] = mpls_routes[i]
                 /\ k \in missed' <=> k \in missed
           /\ \A i \in Slots : First(i, Key(in_label, dest))' => mpls_routes'[i].route = route
           /\ (\A i \in Slots : ~ Caches(i, Key(in_label, dest))')
              => Key(in_label, dest) \in missed'
<1>. DEFINE K == Key(in_label, dest)
            new == [active |-> 1, in_label |-> in_label, dest |-> dest, route |-> route]
<1>1. K \in Keys
  BY KeyIsKey
<1>2. new \in Slot
  BY DEF Slot
<1>3. \A i \in Slots : match(mpls_routes[i], in_label, dest) <=> Caches(i, K)
  BY MatchIsKey DEF TypeOK, Caches
<1>4. CASE \E i \in Slots :
             /\ Takes(i, in_label, dest)
             /\ mpls_routes' = [mpls_routes EXCEPT ![i] = new]
             /\ missed' = missed \ {K}
  <2>1. PICK i \in Slots : /\ Takes(i, in_label, dest)
                           /\ mpls_routes' = [mpls_routes EXCEPT ![i] = new]
                           /\ missed' = missed \ {K}
    BY <1>4
  <2>2. /\ mpls_routes' \in [Slots -> Slot]
        /\ mpls_routes'[i] = new
        /\ \A j \in Slots \ {i} : mpls_routes'[j] = mpls_routes[j]
    BY <1>2, <2>1 DEF TypeOK
  <2>3. /\ mpls_routes[i].active = 0 \/ Caches(i, K)
        /\ \A j \in Slots : j < i => ~ Caches(j, K)
    BY <1>3, <2>1 DEF Takes, Usable
  <2>4. Caches(i, K)'
    BY <2>2 DEF Caches
  <2>5. \A k \in Keys \ {K} : ~ Caches(i, k) /\ ~ Caches(i, k)'
    BY <2>2, <2>3 DEF Caches
  <2>6. \A k \in Keys : \A j \in Slots \ {i} : Caches(j, k)' <=> Caches(j, k)
    BY <2>2 DEF Caches
  <2>7. \A j \in Slots : First(j, K)' => j = i
    <3>. SUFFICES ASSUME NEW j \in Slots, First(j, K)', j # i PROVE FALSE
      OBVIOUS
    <3>1. Caches(j, K)' /\ ~ (i < j)
      BY <2>4 DEF First
    <3>2. Caches(j, K)
      BY <1>1, <2>6, <3>1
    <3>3. j < i
      BY <3>1 DEF Slots
    <3>. QED
      BY <2>3, <3>2, <3>3
  <2>8. \A j \in Slots : First(j, K)' => mpls_routes'[j].route = route
    BY <2>2, <2>7
  <2>9. \A k \in Keys \ {K} :
           /\ \A j \in Slots : Caches(j, k)' <=> Caches(j, k)
           /\ \A j \in Slots : Caches(j, k) => mpls_routes'[j] = mpls_routes[j]
           /\ k \in missed' <=> k \in missed
    BY <2>1, <2>2, <2>5, <2>6
  <2>10. missed' \subseteq Keys
    BY <2>1 DEF TypeOK
  <2>. QED
    BY <2>2, <2>4, <2>8, <2>9, <2>10
<1>5. CASE /\ \A i \in Slots : ~ Usable(i, in_label, dest)
           /\ missed' = missed \cup {K}
           /\ UNCHANGED mpls_routes
  <2>1. \A i \in Slots : ~ Caches(i, K)
    BY <1>3, <1>5 DEF Usable
  <2>2. \A k \in Keys : \A j \in Slots : Caches(j, k)' <=> Caches(j, k)
    BY <1>5 DEF Caches
  <2>3. \A i \in Slots : ~ First(i, K)'
    BY <1>1, <2>1, <2>2 DEF First
  <2>4. mpls_routes' \in [Slots -> Slot] /\ missed' \subseteq Keys
    BY <1>1, <1>5 DEF TypeOK
  <2>5. \A k \in Keys \ {K} : k \in missed' <=> k \in missed
    BY <1>5
  <2>. QED
    BY <1>5, <2>2, <2>3, <2>4, <2>5
<1>. QED
  BY <1>4, <1>5 DEF cache_install

LEMMA CacheRemove ==
    ASSUME TypeOK, NEW in_label \in Labels \cup {0}, NEW dest \in Dests,
           cache_remove(in_label, dest)
    PROVE  /\ mpls_routes' \in [Slots -> Slot]
           /\ missed' \subseteq Keys
           /\ \A k \in Keys \ {Key(in_label, dest)} :
                 /\ \A i \in Slots : Caches(i, k)' <=> Caches(i, k)
                 /\ \A i \in Slots : Caches(i, k) => mpls_routes'[i] = mpls_routes[i]
                 /\ k \in missed' <=> k \in missed
           /\ \A i \in Slots : ~ Caches(i, Key(in_label, dest))'
<1>. DEFINE K == Key(in_label, dest)
<1>1. \A i \in Slots : match(mpls_routes[i], in_label, dest) <=> Caches(i, K)
  BY MatchIsKey DEF TypeOK, Caches
<1>2. FreeSlot \in Slot /\ FreeSlot.active = 0
  BY DEF FreeSlot, Slot
<1>3. /\ mpls_routes' \in [Slots -> Slot]
      /\ \A i \in Slots : mpls_routes'[i] =
            IF Caches(i, K) THEN FreeSlot ELSE mpls_routes[i]
  BY <1>1, <1>2 DEF TypeOK, cache_remove
<1>4. \A i \in Slots : ~ Caches(i, K)'
  <2>. SUFFICES ASSUME NEW i \in Slots PROVE ~ Caches(i, K)'
    OBVIOUS
  <2>1. CASE Caches(i, K)
    BY <1>2, <1>3, <2>1 DEF Caches
  <2>2. CASE ~ Caches(i, K)
    BY <1>3, <2>2 DEF Caches
  <2>. QED
    BY <2>1, <2>2
<1>5. ASSUME NEW k \in Keys \ {K}, NEW i \in Slots
      PROVE  /\ Caches(i, k)' <=> Caches(i, k)
             /\ Caches(i, k) => mpls_routes'[i] = mpls_routes[i]
  <2>1. CASE Caches(i, K)
    BY <1>2, <1>3, <2>1 DEF Caches
  <2>2. CASE ~ Caches(i, K)
    BY <1>3, <2>2 DEF Caches
  <2>. QED
    BY <2>1, <2>2
<1>6. missed' = missed \ {K}
  BY DEF cache_remove
<1>7. missed' \subseteq Keys /\ \A k \in Keys \ {K} : k \in missed' <=> k \in missed
  BY <1>6 DEF TypeOK
<1>. QED
  BY <1>3, <1>4, <1>5, <1>7

\* What both calls have in common: the state of other keys carries over.
LEMMA OthersAgree ==
    ASSUME TypeOK, ShowAgrees, NEW K \in Keys,
           NEW k \in Keys \ {K}, k \notin trouble', NEW route, asked(K, route),
           \A i \in Slots : Caches(i, k)' <=> Caches(i, k),
           \A i \in Slots : Caches(i, k) => mpls_routes'[i] = mpls_routes[i],
           k \in missed' <=> k \in missed
    PROVE  /\ \A i \in Slots : First(i, k)' => mpls_routes'[i].route = kernel'[k]
           /\ (\A i \in Slots : ~ Caches(i, k)') /\ k \notin missed' => kernel'[k] = None
<1>1. k \notin trouble /\ kernel'[k] = kernel[k]
  BY DEF asked, TypeOK
<1>2. /\ \A i \in Slots : First(i, k) => mpls_routes[i].route = kernel[k]
      /\ (\A i \in Slots : ~ Caches(i, k)) /\ k \notin missed => kernel[k] = None
  BY <1>1 DEF ShowAgrees
<1>3. \A i \in Slots : First(i, k)' => First(i, k) /\ Caches(i, k)
  BY DEF First
<1>. QED
  BY <1>1, <1>2, <1>3

LEMMA AskedTypes ==
    ASSUME TypeOK, NEW K \in Keys, NEW route \in Routes \cup {None}, asked(K, route)
    PROVE  /\ kernel' \in [Keys -> Routes \cup {None}]
           /\ trouble' \subseteq Keys
           /\ K \notin trouble' => kernel'[K] = route
BY DEF asked, TypeOK

LEMMA InstallStep ==
    ASSUME TypeOK, ShowAgrees, NEW in_label \in Labels \cup {0}, NEW dest \in Dests,
           NEW route \in Routes, hal_mpls_install(in_label, dest, route)
    PROVE  TypeOK' /\ ShowAgrees'
<1>. DEFINE K == Key(in_label, dest)
<1>1. K \in Keys
  BY KeyIsKey
<1>2. cache_install(in_label, dest, route) /\ asked(K, route)
  BY DEF hal_mpls_install
<1>3. TypeOK'
  BY <1>1, <1>2, CacheInstall, AskedTypes DEF TypeOK
<1>4. ASSUME NEW k \in Keys \ {K}, k \notin trouble'
      PROVE  /\ \A i \in Slots : First(i, k)' => mpls_routes'[i].route = kernel'[k]
             /\ (\A i \in Slots : ~ Caches(i, k)') /\ k \notin missed' => kernel'[k] = None
  <2>1. /\ \A i \in Slots : Caches(i, k)' <=> Caches(i, k)
        /\ \A i \in Slots : Caches(i, k) => mpls_routes'[i] = mpls_routes[i]
        /\ k \in missed' <=> k \in missed
    BY <1>2, CacheInstall
  <2>. QED
    BY <1>1, <1>2, <1>4, <2>1, OthersAgree
<1>5. K \notin trouble' =>
        /\ \A i \in Slots : First(i, K)' => mpls_routes'[i].route = kernel'[K]
        /\ (\A i \in Slots : ~ Caches(i, K)') /\ K \notin missed' => kernel'[K] = None
  <2>1. /\ \A i \in Slots : First(i, K)' => mpls_routes'[i].route = route
        /\ (\A i \in Slots : ~ Caches(i, K)') => K \in missed'
    BY <1>2, CacheInstall
  <2>2. K \notin trouble' => kernel'[K] = route
    BY <1>1, <1>2, AskedTypes
  <2>. QED
    BY <2>1, <2>2
<1>6. ShowAgrees'
  BY <1>4, <1>5 DEF ShowAgrees
<1>. QED
  BY <1>3, <1>6

LEMMA RemoveStep ==
    ASSUME TypeOK, ShowAgrees, NEW in_label \in Labels \cup {0}, NEW dest \in Dests,
           hal_mpls_remove(in_label, dest)
    PROVE  TypeOK' /\ ShowAgrees'
<1>. DEFINE K == Key(in_label, dest)
<1>1. K \in Keys
  BY KeyIsKey
<1>2. cache_remove(in_label, dest) /\ asked(K, None)
  BY DEF hal_mpls_remove
<1>3. TypeOK'
  BY <1>1, <1>2, CacheRemove, AskedTypes DEF TypeOK
<1>4. ASSUME NEW k \in Keys \ {K}, k \notin trouble'
      PROVE  /\ \A i \in Slots : First(i, k)' => mpls_routes'[i].route = kernel'[k]
             /\ (\A i \in Slots : ~ Caches(i, k)') /\ k \notin missed' => kernel'[k] = None
  <2>1. /\ \A i \in Slots : Caches(i, k)' <=> Caches(i, k)
        /\ \A i \in Slots : Caches(i, k) => mpls_routes'[i] = mpls_routes[i]
        /\ k \in missed' <=> k \in missed
    BY <1>2, CacheRemove
  <2>. QED
    BY <1>1, <1>2, <1>4, <2>1, OthersAgree
<1>5. K \notin trouble' =>
        /\ \A i \in Slots : First(i, K)' => mpls_routes'[i].route = kernel'[K]
        /\ (\A i \in Slots : ~ Caches(i, K)') /\ K \notin missed' => kernel'[K] = None
  <2>1. \A i \in Slots : ~ First(i, K)'
    BY <1>2, CacheRemove DEF First
  <2>2. K \notin trouble' => kernel'[K] = None
    BY <1>1, <1>2, AskedTypes
  <2>. QED
    BY <2>1, <2>2
<1>6. ShowAgrees'
  BY <1>4, <1>5 DEF ShowAgrees
<1>. QED
  BY <1>3, <1>6

LEMMA LinkDownStep ==
    ASSUME TypeOK, ShowAgrees, NEW K \in Keys, link_down(K)
    PROVE  TypeOK' /\ ShowAgrees'
<1>1. TypeOK'
  BY DEF TypeOK, link_down
<1>2. \A k \in Keys \ trouble' : k \notin trouble /\ kernel'[k] = kernel[k]
  BY DEF TypeOK, link_down
<1>3. mpls_routes' = mpls_routes /\ missed' = missed
  BY DEF link_down
<1>. QED
  BY <1>1, <1>2, <1>3 DEF ShowAgrees, First, Caches

\* An empty cache agrees: every route of the kernel is one of an earlier run.
LEMMA EmptyAgrees ==
    ASSUME mpls_routes = [i \in Slots |-> FreeSlot], missed = {},
           kernel \in [Keys -> Routes \cup {None}],
           trouble = {k \in Keys : kernel[k] # None}
    PROVE  TypeOK /\ ShowAgrees
<1>1. FreeSlot \in Slot /\ FreeSlot.active = 0
  BY DEF FreeSlot, Slot
<1>2. TypeOK
  BY <1>1 DEF TypeOK
<1>3. \A k \in Keys, i \in Slots : ~ Caches(i, k)
  BY <1>1 DEF Caches
<1>. QED
  BY <1>2, <1>3 DEF ShowAgrees, First

LEMMA RestartStep ==
    ASSUME TypeOK, restart
    PROVE  TypeOK' /\ ShowAgrees'
<1>1. FreeSlot \in Slot /\ FreeSlot.active = 0
  BY DEF FreeSlot, Slot
<1>2. TypeOK'
  BY <1>1 DEF TypeOK, restart
<1>3. \A k \in Keys, i \in Slots : ~ Caches(i, k)'
  BY <1>1 DEF Caches, restart
<1>4. \A k \in Keys \ trouble' : kernel'[k] = None
  BY DEF restart
<1>. QED
  BY <1>2, <1>3, <1>4 DEF ShowAgrees, First

LEMMA StepAgrees == TypeOK /\ ShowAgrees /\ [Next]_vars => TypeOK' /\ ShowAgrees'
<1>. SUFFICES ASSUME TypeOK, ShowAgrees, [Next]_vars PROVE TypeOK' /\ ShowAgrees'
  OBVIOUS
<1>1. CASE UNCHANGED vars
  BY <1>1 DEF vars, TypeOK, ShowAgrees, First, Caches
<1>2. ASSUME NEW in_label \in Labels \cup {0}, NEW dest \in Dests,
             NEW route \in Routes, hal_mpls_install(in_label, dest, route)
      PROVE  TypeOK' /\ ShowAgrees'
  BY <1>2, InstallStep
<1>3. ASSUME NEW in_label \in Labels \cup {0}, NEW dest \in Dests,
             hal_mpls_remove(in_label, dest)
      PROVE  TypeOK' /\ ShowAgrees'
  BY <1>3, RemoveStep
<1>4. ASSUME NEW k \in Keys, link_down(k) PROVE TypeOK' /\ ShowAgrees'
  BY <1>4, LinkDownStep
<1>5. CASE restart
  BY <1>5, RestartStep
<1>. QED
  BY <1>1, <1>2, <1>3, <1>4, <1>5 DEF Next

\* mpls_routes, the kernel's table and the bookkeeping keep their types.
THEOREM MplsTypeCorrect == Spec => []TypeOK
<1>1. Init => TypeOK /\ ShowAgrees
  BY EmptyAgrees DEF Init
<1>. QED
  BY <1>1, StepAgrees, PTL DEF Spec

\* For every number of slots, labels and destinations, the first entry that
\* 'show mpls routes' prints for a key is the kernel's route (hal_mpls_install
\* takes the first slot that is free or matches, hal_mpls_remove clears all).
THEOREM MplsShowAgrees == Spec => []ShowAgrees
<1>1. Init => TypeOK /\ ShowAgrees
  BY EmptyAgrees DEF Init
<1>. QED
  BY <1>1, StepAgrees, PTL DEF Spec

\* Slots that keep their contents show the same route.
LEMMA SameShown ==
    ASSUME NEW k,
           \A i \in Slots : Caches(i, k)' <=> Caches(i, k),
           \A i \in Slots : Caches(i, k) => mpls_routes'[i] = mpls_routes[i]
    PROVE  Shown(k)' = Shown(k)
<1>1. \A i \in Slots : First(i, k)' <=> First(i, k)
  BY DEF First
<1>2. \A i \in Slots : First(i, k) => mpls_routes'[i] = mpls_routes[i]
  BY DEF First
<1>. QED
  BY <1>1, <1>2 DEF Shown

\* A call for one label or destination leaves what is printed for the others.
THEOREM MplsNoInterference == Spec => NoInterference
<1>1. TypeOK /\ [Next]_vars =>
        [\A in_label \in Labels \cup {0}, dest \in Dests :
          (\/ \E route \in Routes : hal_mpls_install(in_label, dest, route)
           \/ hal_mpls_remove(in_label, dest))
          => \A k \in Keys \ {Key(in_label, dest)} : Shown(k)' = Shown(k)]_vars
  <2>. SUFFICES ASSUME TypeOK, NEW in_label \in Labels \cup {0}, NEW dest \in Dests,
                       \/ \E route \in Routes : hal_mpls_install(in_label, dest, route)
                       \/ hal_mpls_remove(in_label, dest),
                       NEW k \in Keys \ {Key(in_label, dest)}
                PROVE  Shown(k)' = Shown(k)
    OBVIOUS
  <2>1. /\ \A i \in Slots : Caches(i, k)' <=> Caches(i, k)
        /\ \A i \in Slots : Caches(i, k) => mpls_routes'[i] = mpls_routes[i]
    <3>1. CASE \E route \in Routes : hal_mpls_install(in_label, dest, route)
      BY <3>1, CacheInstall DEF hal_mpls_install
    <3>2. CASE hal_mpls_remove(in_label, dest)
      BY <3>2, CacheRemove DEF hal_mpls_remove
    <3>. QED
      BY <3>1, <3>2
  <2>. QED
    BY <2>1, SameShown
<1>. QED
  BY <1>1, MplsTypeCorrect, PTL DEF Spec, NoInterference
=============================================================================
