----------------------------- MODULE RsvpStateDb -----------------------------
(***************************************************************************)
(* The state one RSVP-TE node keeps: the PSB, RSB and BSB tables           *)
(* (src/pi/rsvp_state.h, src/pi/rsvp_state_db.c), the labels it has        *)
(* allocated and the MPLS forwarding entries it has programmed             *)
(* (src/pd/hal_netlink_linux.c), with the table operations the state       *)
(* machine is built from.  A freshly calloc'ed block is Psb0 / Rsb0, and   *)
(* a key that has no block keeps that value.                               *)
(***************************************************************************)
EXTENDS Integers, FiniteSets

CONSTANTS
    Keys,         \* path keys: records [dest, tid, src, lsp]
    LocalAddrs,   \* the addresses of this node
    Hops,         \* addresses an RSVP_HOP may carry; 0 is 0.0.0.0
    Ifs,          \* interface indexes, non-zero
    Labels,       \* the label manager's range
    OutLabels,    \* labels a neighbour may advertise, 0 (explicit null) too
    Flows,        \* reservation sizes (the FLOWSPEC rate)
    Null,         \* a NULL bypass_psb
    Dangling      \* a bypass_psb whose PSB has been freed

ASSUME DbAssumption ==
    /\ Hops \subseteq Nat
    /\ Ifs \subseteq Nat \ {0}
    /\ Labels \subseteq Nat \ {0}
    /\ OutLabels \subseteq Nat
    /\ Flows \subseteq Nat
    /\ \A k \in Keys : k = [dest |-> k.dest, tid |-> k.tid,
                            src |-> k.src, lsp |-> k.lsp]
    /\ Null \notin Keys /\ Dangling \notin Keys /\ Null # Dangling

VARIABLES
    psbs, psb,    \* keys that have a PSB, and the PSBs
    rsbs, rsb,    \* keys that have an RSB, and the RSBs
    bsbs, bsb,    \* keys that are blockaded, and the blockade flowspec Qb
    labels,       \* labels taken from the label manager
    swap,         \* kernel MPLS routes: in-label |-> entry
    push,         \* kernel IPv4 routes that push a label: dest |-> entry
    sent          \* the messages sent by the latest step

dbVars == <<psbs, psb, rsbs, rsb, bsbs, bsb, labels, swap, push, sent>>

-----------------------------------------------------------------------------
NoRoute == -1
NoLsp   == -1     \* mbb_old_lsp_id of a PSB that is not is_mbb_pending
Absent  == -1     \* an object the message does not carry; zero is a value
Routes  == Ifs \cup {NoRoute}
Dests   == {k.dest : k \in Keys}
LspIds  == {k.lsp : k \in Keys}

Psb0 == [prev_hop |-> 0, is_ingress |-> FALSE,
         refresh_timer |-> FALSE, cleanup_timer |-> FALSE,
         ifindex_out |-> 0, facility |-> FALSE, frr_active |-> FALSE,
         is_bypass_tunnel |-> FALSE, frr_protected_ifindex |-> 0,
         bypass_psb |-> Null, mbb_old_lsp_id |-> NoLsp,
         associated_rsb |-> FALSE]

Rsb0 == [label_in |-> 0, label_out |-> 0, next_hop |-> 0, flowspec |-> 0,
         refresh_timer |-> FALSE, cleanup_timer |-> FALSE,
         associated_psb |-> FALSE]

Psb == [prev_hop : Hops \cup {0}, is_ingress : BOOLEAN,
        refresh_timer : BOOLEAN, cleanup_timer : BOOLEAN,
        ifindex_out : Ifs \cup {0}, facility : BOOLEAN, frr_active : BOOLEAN,
        is_bypass_tunnel : BOOLEAN, frr_protected_ifindex : Ifs \cup {0},
        bypass_psb : Keys \cup {Null, Dangling},
        mbb_old_lsp_id : LspIds \cup {NoLsp},
        associated_rsb : BOOLEAN]

Rsb == [label_in : Labels \cup {0}, label_out : OutLabels \cup {0},
        next_hop : Hops \cup {0}, flowspec : Flows \cup {0},
        refresh_timer : BOOLEAN, cleanup_timer : BOOLEAN,
        associated_psb : BOOLEAN]

\* A forwarding entry: the outgoing label and the neighbour it goes to.
NoEntry == [label |-> Absent, hop |-> Absent]
Entry   == [label : OutLabels \cup {0}, hop : Hops \cup {0}] \cup {NoEntry}
EntryOf(r) == [label |-> r.label_out, hop |-> r.next_hop]

\* val: the label of a RESV, 1 for a PATH that says LOCAL_PROTECTION_IN_USE.
MsgTypes == {"PATH", "RESV", "PATHTEAR", "RESVTEAR", "PATHERR", "RESVERR"}
Msg(type, k, to, val) == [type |-> type, key |-> k, to |-> to, val |-> val]

rsvp_state_db_init ==
    /\ psbs = {} /\ psb = [k \in Keys |-> Psb0]
    /\ rsbs = {} /\ rsb = [k \in Keys |-> Rsb0]
    /\ bsbs = {} /\ bsb = [k \in Keys |-> 0]
    /\ labels = {}
    /\ swap = [l \in Labels |-> NoEntry]
    /\ push = [d \in Dests |-> NoEntry]
    /\ sent = {}

TypeOK ==
    /\ psbs \subseteq Keys /\ psb \in [Keys -> Psb]
    /\ rsbs \subseteq Keys /\ rsb \in [Keys -> Rsb]
    /\ bsbs \subseteq Keys /\ bsb \in [Keys -> Flows \cup {0}]
    /\ labels \subseteq Labels
    /\ swap \in [Labels -> Entry]
    /\ push \in [Dests -> Entry]
    /\ \A m \in sent : m.type \in MsgTypes /\ m.key \in Keys

-----------------------------------------------------------------------------
(* Label manager: the label pool of module LabelPool.                      *)

FreeLabels == Labels \ labels

\* Mutant: an exhausted search runs one past the end of the range.
label_alloc_past_end ==
    IF FreeLabels = {} THEN {l + 1 : l \in {m \in Labels : \A n \in Labels : n <= m}}
    ELSE {l \in FreeLabels : \A m \in FreeLabels : l <= m}

\* The one possible result of label_mgr_alloc, as a singleton.
label_mgr_alloc ==
    IF FreeLabels = {} THEN {0}
    ELSE {l \in FreeLabels : \A m \in FreeLabels : l <= m}

(* MPLS routes.                                                            *)

\* hal_mpls_install: RTM_NEWROUTE with NLM_F_REPLACE, keyed by the in-label or,
\* without one, by the destination.
swap_install(t, in_label, e) == [t EXCEPT ![in_label] = e]
push_install(t, d, e)        == [t EXCEPT ![d] = e]

-----------------------------------------------------------------------------
(* Lookups.                                                                *)

is_local(addr) == addr \in LocalAddrs
is_egress(k)   == is_local(k.dest)

\* The PSBs rsvp_psb_find_by_id may return: it walks the buckets and compares
\* the tunnel and LSP numbers only; which match comes first depends on the hash.
rsvp_psb_find_by_id(tid, lsp) == {k \in psbs : k.tid = tid /\ k.lsp = lsp}

\* A PSB that points at one of the freed PSBs D keeps the pointer.
forget_bypass(p, D) ==
    IF p.bypass_psb \in D THEN [p EXCEPT !.bypass_psb = Dangling] ELSE p

\* The PSB table t after the PSBs D have been deleted.
psb_delete_all(t, D) ==
    [k \in Keys |-> IF k \in D THEN Psb0 ELSE forget_bypass(t[k], D)]

\* The RSB table t after the RSBs D have been deleted.
rsb_delete_all(t, D) == [k \in Keys |-> IF k \in D THEN Rsb0 ELSE t[k]]

\* Blockade state: rsvp_bsb_create (or an update) and rsvp_bsb_delete.
bsb_create(k, flow) == bsbs' = bsbs \cup {k} /\ bsb' = [bsb EXCEPT ![k] = flow]
bsb_delete(k)       == bsbs' = bsbs \ {k} /\ bsb' = [bsb EXCEPT ![k] = 0]

\* What rsvp_state_db_cleanup still finds after the state machine's shutdown.
rsvp_state_db_cleanup == bsbs' = {} /\ bsb' = [k \in Keys |-> 0]

-----------------------------------------------------------------------------
(* rsb_cleanup_resources for all RSBs in D: the labels they return and the *)
(* routes that are removed with them.                                      *)

in_labels(D) == {rsb[k].label_in : k \in D} \ {0}

\* Mutant: the label is returned to the pool but the route stays.
swap_keep(t, D) == t
swap_remove(t, D) ==
    [l \in Labels |-> IF l \in in_labels(D) THEN NoEntry ELSE t[l]]

\* An ingress RSB has no in-label; its route is found by destination.
push_dests(D) ==
    {k.dest : k \in {j \in D : /\ rsb[j].label_in = 0
                               /\ rsb[j].associated_psb
                               /\ psb[j].is_ingress}}

\* Mutant: the ingress route is never removed.
push_keep(t, D) == t
push_remove(t, D) ==
    [d \in Dests |-> IF d \in push_dests(D) THEN NoEntry ELSE t[d]]

\* Mutant: labels are not returned.
labels_keep(s, D) == s
labels_free(s, D) == s \ in_labels(D)

\* Mutant: a PSB is deleted without its RSB.
rsbs_of_none(D) == {}

\* The RSBs that go away with the PSBs D.
rsbs_of(D) == {k \in D : k \in rsbs /\ psb[k].associated_rsb}
=============================================================================
