------------------------------- MODULE HalMpls -------------------------------
(***************************************************************************)
(* The MPLS part of src/pd/hal_netlink_linux.c: hal_mpls_install,          *)
(* hal_mpls_remove and the cache mpls_routes that 'show mpls routes'       *)
(* prints, next to the kernel's own table.                                 *)
(*                                                                         *)
(* The cache is written before the kernel is asked, the kernel is asked    *)
(* without NLM_F_ACK, and what it does to the routes later is not listened *)
(* to: the two are tied together by nothing but the order of the calls.    *)
(***************************************************************************)
EXTENDS Naturals

CONSTANTS
    Labels,            \* incoming labels; 0 stands for a PUSH route
    Dests,             \* destinations of PUSH routes
    Routes,            \* out label, interface and next hop of a route
    MAX_MPLS_ROUTES,   \* slots of the cache
    None               \* no route

ASSUME HalAssumption ==
    /\ Labels \subseteq Nat \ {0}
    /\ Dests \subseteq Nat
    /\ MAX_MPLS_ROUTES \in Nat
    /\ None \notin Routes

VARIABLES
    mpls_routes,   \* the cache
    kernel,        \* the kernel's routes
    trouble,       \* keys of which the kernel did not do what was last asked,
                   \* or changed the route since (not in the code)
    missed         \* keys for which the cache had no slot (not in the code)

vars == <<mpls_routes, kernel, trouble, missed>>

Slots == 1 .. MAX_MPLS_ROUTES

\* The kernel looks a packet up by its label, or by its destination.
Key(in_label, dest) == IF in_label = 0 THEN <<0, dest>> ELSE <<in_label, 0>>
Keys == ({0} \X Dests) \cup (Labels \X {0})

Slot == [active : {0, 1}, in_label : Labels \cup {0}, dest : Dests \cup {0},
         route : Routes \cup {None}]
FreeSlot == [active |-> 0, in_label |-> 0, dest |-> 0, route |-> None]

TypeOK ==
    /\ mpls_routes \in [Slots -> Slot]
    /\ kernel \in [Keys -> Routes \cup {None}]
    /\ trouble \subseteq Keys
    /\ missed \subseteq Keys

\* The daemon starts with an empty cache; the kernel has what an earlier run of
\* the daemon left there.
Init ==
    /\ mpls_routes = [i \in Slots |-> FreeSlot]
    /\ kernel \in [Keys -> Routes \cup {None}]
    /\ trouble = {k \in Keys : kernel[k] # None}
    /\ missed = {}

-----------------------------------------------------------------------------
(* The cache.                                                              *)

\* Mutant: PUSH routes are told apart by their label only.
match_label(s, in_label, dest) == s.active = 1 /\ s.in_label = in_label
match(s, in_label, dest) ==
    /\ s.active = 1
    /\ \/ in_label = 0 /\ s.in_label = 0 /\ s.dest = dest
       \/ in_label > 0 /\ s.in_label = in_label

\* The first slot that is free or has the key, whichever comes first.
Usable(i, in_label, dest) ==
    mpls_routes[i].active = 0 \/ match(mpls_routes[i], in_label, dest)
Takes(i, in_label, dest) ==
    /\ Usable(i, in_label, dest)
    /\ \A j \in Slots : j < i => ~ Usable(j, in_label, dest)

cache_install(in_label, dest, route) ==
    \/ \E i \in Slots :
          /\ Takes(i, in_label, dest)
          /\ mpls_routes' = [mpls_routes EXCEPT ![i] =
                [active |-> 1, in_label |-> in_label, dest |-> dest, route |-> route]]
          /\ missed' = missed \ {Key(in_label, dest)}
    \/ /\ \A i \in Slots : ~ Usable(i, in_label, dest)
       /\ missed' = missed \cup {Key(in_label, dest)}
       /\ UNCHANGED mpls_routes

\* Mutant: the first slot with the key is cleared, and no other.
cache_remove_first(in_label, dest) ==
    /\ mpls_routes' = [i \in Slots |->
          IF /\ match(mpls_routes[i], in_label, dest)
             /\ \A j \in Slots : j < i => ~ match(mpls_routes[j], in_label, dest)
          THEN FreeSlot ELSE mpls_routes[i]]
    /\ missed' = missed \ {Key(in_label, dest)}
\* Every slot with the key is cleared.  What the code leaves in the other fields
\* is not read before the next install has overwritten them all.
cache_remove(in_label, dest) ==
    /\ mpls_routes' = [i \in Slots |->
          IF match(mpls_routes[i], in_label, dest)
          THEN FreeSlot ELSE mpls_routes[i]]
    /\ missed' = missed \ {Key(in_label, dest)}

-----------------------------------------------------------------------------
(* The calls.                                                              *)

\* What the kernel does with a request: it is carried out, or the socket could
\* not be opened or written, or the kernel refuses and nobody reads its answer.
asked(k, route) ==
    \/ /\ kernel' = [kernel EXCEPT ![k] = route]
       /\ trouble' = trouble \ {k}
    \/ /\ UNCHANGED kernel
       /\ trouble' = trouble \cup {k}

\* RTM_NEWROUTE with NLM_F_CREATE and NLM_F_REPLACE.
hal_mpls_install(in_label, dest, route) ==
    /\ cache_install(in_label, dest, route)
    /\ asked(Key(in_label, dest), route)

\* RTM_DELROUTE.
hal_mpls_remove(in_label, dest) ==
    /\ cache_remove(in_label, dest)
    /\ asked(Key(in_label, dest), None)

\* The kernel flushes the routes of an interface that goes down.  The daemon
\* listens to links and addresses, and only logs the former.
link_down(k) ==
    /\ kernel[k] # None
    /\ kernel' = [kernel EXCEPT ![k] = None]
    /\ trouble' = trouble \cup {k}
    /\ UNCHANGED <<mpls_routes, missed>>

\* The daemon crashes and is started again: the kernel keeps its routes.
restart ==
    /\ mpls_routes' = [i \in Slots |-> FreeSlot]
    /\ trouble' = {k \in Keys : kernel[k] # None}
    /\ missed' = {}
    /\ UNCHANGED kernel

Next ==
    \/ \E in_label \in Labels \cup {0}, dest \in Dests :
          \/ \E route \in Routes : hal_mpls_install(in_label, dest, route)
          \/ hal_mpls_remove(in_label, dest)
    \/ \E k \in Keys : link_down(k)
    \/ restart

Spec == Init /\ [][Next]_vars

-----------------------------------------------------------------------------
(* Properties.                                                             *)

Caches(i, k) ==
    /\ mpls_routes[i].active = 1
    /\ Key(mpls_routes[i].in_label, mpls_routes[i].dest) = k
First(i, k) == Caches(i, k) /\ \A j \in Slots : j < i => ~ Caches(j, k)

\* What 'show mpls routes' prints first for a label or a destination is the
\* route by which the kernel forwards, and what it does not print the kernel
\* does not have, although a route can be cached in several slots with older
\* contents in the later ones.  The exceptions are the ones the code cannot
\* see: a request the kernel did not carry out, a route it flushed or has from
\* an earlier run, and a route for which the cache was full.
ShowAgrees ==
    \A k \in Keys \ trouble :
       /\ \A i \in Slots : First(i, k) => mpls_routes[i].route = kernel[k]
       /\ (\A i \in Slots : ~ Caches(i, k)) /\ k \notin missed => kernel[k] = None

\* The route that 'show mpls routes' prints first for k.
Shown(k) == {mpls_routes[i].route : i \in {j \in Slots : First(j, k)}}

\* A call for one label or destination does not change what is printed for
\* another, also when the cache is full or the slot was used before.
NoInterference ==
    [][\A in_label \in Labels \cup {0}, dest \in Dests :
          (\/ \E route \in Routes : hal_mpls_install(in_label, dest, route)
           \/ hal_mpls_remove(in_label, dest))
          => \A k \in Keys \ {Key(in_label, dest)} : Shown(k)' = Shown(k)]_vars
=============================================================================
