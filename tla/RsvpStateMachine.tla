-------------------------- MODULE RsvpStateMachine --------------------------
(***************************************************************************)
(* The RSVP-TE state machine of one node, src/pi/rsvp_state_machine.c:     *)
(* message handlers, timer callbacks, the operator's commands, fast        *)
(* reroute, make-before-break and shutdown.  The daemon runs all of them   *)
(* on its main thread, so each is one action.                              *)
(*                                                                         *)
(* The parameter r of an action is what the kernel's route lookup answers  *)
(* during it (NoRoute when there is none); a timer that is armed may fire  *)
(* at any time.  Refresh intervals, TTL, ERO/RRO and traffic parameters    *)
(* are not distinguished by the properties and are left out.               *)
(***************************************************************************)
EXTENDS RsvpStateDb

CONSTANTS
    OwnSrcs,       \* the source addresses the operator gives LSPs started here
    BypassTids,    \* tunnel numbers the operator uses for bypass tunnels
    LspIdSpace,    \* next_lsp_id counts modulo this (2^16 in the code)
    FrrRequests,   \* the protection LSPs ask for: a subset of FrrModes
    OwnPathLoops   \* whether a PATH this node originated can come back to it

FrrModes == {"none", "facility", "one_to_one"}

ASSUME SmAssumption ==
    /\ LspIdSpace \in Nat \ {0, 1}
    /\ FrrRequests \subseteq FrrModes
    /\ OwnPathLoops \in BOOLEAN

VARIABLES next_lsp_id,
          running,       \* FALSE once rsvp_state_machine_shutdown is done
          strays         \* history: LSPs that have been Strayed

vars == <<psbs, psb, rsbs, rsb, bsbs, bsb, labels, swap, push, sent,
          next_lsp_id, running, strays>>

Init ==
    /\ rsvp_state_db_init
    /\ next_lsp_id = 1 % LspIdSpace
    /\ running = TRUE
    /\ strays = {}

-----------------------------------------------------------------------------
(* Message senders: the messages that go out, as sets.                     *)

\* send_path_downstream updates ifindex_out of PSB p and sends a PATH.
path_sent(p, r) == IF r = NoRoute THEN p ELSE [p EXCEPT !.ifindex_out = r]
path_out(k, p, r) ==
    IF r = NoRoute THEN {}
    ELSE {Msg("PATH", k, r, IF p.frr_active THEN 1 ELSE 0)}

resv_out(k, hop, label) == {Msg("RESV", k, hop, label)}

\* Errors this node reports to whoever sent the message.
send_path_err(k) == {Msg("PATHERR", k, 0, 0)}
send_resv_err(k) == {Msg("RESVERR", k, 0, 0)}

\* An error from upstream is passed on along the route of the path.
propagate_resv_err(k, r) ==
    IF ~ rsb[k].associated_psb \/ r = NoRoute THEN {}
    ELSE {Msg("RESVERR", k, r, 0)}

propagate_path_tear(k, r) ==
    IF r = NoRoute \/ is_egress(k) THEN {} ELSE {Msg("PATHTEAR", k, r, 0)}

\* Mutant: the ResvTear is not propagated.
no_resv_tear(k) == {}
propagate_resv_tear(k) ==
    IF \/ ~ rsb[k].associated_psb
       \/ psb[k].is_ingress
       \/ psb[k].prev_hop = 0
    THEN {}
    ELSE {Msg("RESVTEAR", k, psb[k].prev_hop, 0)}

-----------------------------------------------------------------------------
(* Teardown.                                                               *)

\* rsvp_rsb_cleanup for one RSB, when the PSBs stay.
rsvp_rsb_cleanup(k) ==
    /\ rsbs' = rsbs \ {k}
    /\ rsb' = rsb_delete_all(rsb, {k})
    /\ psb' = IF rsb[k].associated_psb
              THEN [psb EXCEPT ![k].associated_rsb = FALSE] ELSE psb
    /\ labels' = labels_free(labels, {k})
    /\ swap' = swap_remove(swap, {k})
    /\ push' = push_remove(push, {k})
    /\ UNCHANGED psbs

\* rsvp_psb_cleanup of all PSBs in D, each with its RSB.
rsvp_psb_cleanup(D) ==
    LET R == rsbs_of(D) IN
    /\ psbs' = psbs \ D
    /\ psb' = psb_delete_all(psb, D)
    /\ rsbs' = rsbs \ R
    /\ rsb' = rsb_delete_all(rsb, R)
    /\ labels' = labels_free(labels, R)
    /\ swap' = swap_remove(swap, R)
    /\ push' = push_remove(push, R)

-----------------------------------------------------------------------------
(* PATH.                                                                   *)

\* The bypass tunnels that are ready to protect interface ifindex.
ready_bypasses(ifindex, t, have, r) ==
    {c \in psbs : /\ t[c].is_bypass_tunnel
                  /\ t[c].frr_protected_ifindex = ifindex
                  /\ c \in have /\ r[c].label_out # 0}

\* rsvp_frr_auto_associate: the values it may give bypass_psb (the walk over
\* the hash buckets takes the first ready bypass it meets).
rsvp_frr_auto_associate(p, t, have, r) ==
    LET ready == ready_bypasses(p.ifindex_out, t, have, r) IN
    IF \/ ~ p.facility \/ p.is_bypass_tunnel
       \/ p.bypass_psb # Null \/ p.ifindex_out = 0 \/ ready = {}
    THEN {p.bypass_psb}
    ELSE ready

\* Only the presence of RSVP_HOP is checked: its address may be 0.0.0.0, which
\* the rest of the code takes for the prev_hop of an ingress.
path_valid(k, hop, label_req) == hop # Absent /\ (~ label_req => k \in psbs)

\* Whether PSB p is facility-protected after a request: a PATH without
\* FAST_REROUTE, and any PATH of a bypass tunnel, leaves frr_mode alone.
facility_after(p, frr) ==
    IF frr = "none" \/ p.is_bypass_tunnel THEN p.facility ELSE frr = "facility"

\* Mutant: the cleanup timer is not started.
path_updated_no_timer(k, hop, frr) ==
    [psb[k] EXCEPT !.prev_hop = hop,
                   !.facility = facility_after(psb[k], frr),
                   !.refresh_timer = TRUE]

\* The PSB after the objects of a valid PATH have been stored and both timers
\* are running.
path_updated(k, hop, frr) ==
    [psb[k] EXCEPT !.prev_hop = hop,
                   !.facility = facility_after(psb[k], frr),
                   !.cleanup_timer = TRUE,
                   !.refresh_timer = TRUE]

handle_path_invalid(k, hop, label_req) ==
    /\ ~ path_valid(k, hop, label_req)
    /\ sent' = send_path_err(k)
    /\ UNCHANGED <<psbs, psb, rsbs, rsb, bsbs, bsb, labels, swap, push>>

\* Egress, no reservation yet: create the RSB and answer with a RESV.
handle_path_egress_new(k, hop, frr) ==
    /\ is_egress(k) /\ k \notin rsbs
    /\ psbs' = psbs \cup {k}
    /\ psb' = [psb EXCEPT ![k] =
                  [path_updated(k, hop, frr) EXCEPT !.associated_rsb = TRUE]]
    /\ rsbs' = rsbs \cup {k}
    /\ \E l \in label_mgr_alloc :
          /\ rsb' = [rsb EXCEPT ![k].associated_psb = TRUE,
                                ![k].refresh_timer = TRUE,
                                ![k].label_in = l]
          /\ labels' = labels \cup ({l} \ {0})
          /\ sent' = IF l = 0 THEN {} ELSE resv_out(k, hop, l)
    /\ UNCHANGED <<bsbs, bsb, swap, push>>

handle_path_egress_refresh(k, hop, frr) ==
    /\ is_egress(k) /\ k \in rsbs
    /\ psbs' = psbs \cup {k}
    /\ psb' = [psb EXCEPT ![k] = path_updated(k, hop, frr)]
    /\ sent' = {}
    /\ UNCHANGED <<rsbs, rsb, bsbs, bsb, labels, swap, push>>

\* A PATH of this very node has come back: nothing is sent, but the PSB has
\* been updated by then.
handle_path_own(k, hop, frr) ==
    /\ ~ is_egress(k) /\ is_local(k.src)
    /\ psbs' = psbs \cup {k}
    /\ psb' = [psb EXCEPT ![k] = path_updated(k, hop, frr)]
    /\ sent' = {}
    /\ UNCHANGED <<rsbs, rsb, bsbs, bsb, labels, swap, push>>

\* Transit without a route: a PSB created just now is deleted again.
handle_path_no_route(k, hop, frr) ==
    /\ ~ is_egress(k) /\ ~ is_local(k.src)
    /\ psb' = IF k \in psbs THEN [psb EXCEPT ![k] = path_updated(k, hop, frr)]
              ELSE psb
    /\ sent' = send_path_err(k)
    /\ UNCHANGED <<psbs, rsbs, rsb, bsbs, bsb, labels, swap, push>>

\* The route is looked up a second time by send_path_downstream, where the
\* answer r may already be NoRoute.
handle_path_transit(k, hop, frr, r) ==
    LET p == path_sent(path_updated(k, hop, frr), r) IN
    /\ ~ is_egress(k) /\ ~ is_local(k.src)
    /\ psbs' = psbs \cup {k}
    /\ \E b \in rsvp_frr_auto_associate(p, psb, rsbs, rsb) :
          psb' = [psb EXCEPT ![k] = [p EXCEPT !.bypass_psb = b]]
    /\ sent' = path_out(k, p, r)
    /\ UNCHANGED <<rsbs, rsb, bsbs, bsb, labels, swap, push>>

handle_path_message(k) ==
    \E hop \in Hops \cup {Absent}, label_req \in BOOLEAN :
        /\ is_local(k.src) => OwnPathLoops
        /\ \/ handle_path_invalid(k, hop, label_req)
           \/ /\ path_valid(k, hop, label_req)
              /\ \E frr \in FrrRequests :
                    \/ handle_path_egress_new(k, hop, frr)
                    \/ handle_path_egress_refresh(k, hop, frr)
                    \/ handle_path_own(k, hop, frr)
                    \/ handle_path_no_route(k, hop, frr)
                    \/ \E r \in Routes : handle_path_transit(k, hop, frr, r)

-----------------------------------------------------------------------------
(* RESV.                                                                   *)

resv_valid(k, hop, label) == k \in psbs /\ hop # Absent /\ label # Absent

\* Mutant: the blockade is ignored.
never_blockaded(k, flow) == FALSE
rsvp_is_blockaded(k, flow) == k \in bsbs /\ flow >= bsb[k]

\* FLOWSPEC is optional: without one the stored one stays.
resv_flow(k, flow) == IF flow = Absent THEN rsb[k].flowspec ELSE flow

\* The RSB once the RESV's objects are stored and its timers are set.
resv_updated(k, hop, label, flow) ==
    [rsb[k] EXCEPT !.associated_psb = @ \/ k \notin rsbs,
                   !.flowspec = resv_flow(k, flow),
                   !.cleanup_timer = TRUE,
                   !.refresh_timer = ~ psb[k].is_ingress,
                   !.label_out = label,
                   !.next_hop = hop]

handle_resv_invalid(k, hop, label) ==
    /\ ~ resv_valid(k, hop, label)
    /\ sent' = send_resv_err(k)
    /\ UNCHANGED <<psbs, psb, rsbs, rsb, bsbs, bsb, labels, swap, push>>

\* A new RSB is freed again; an existing one keeps the new flowspec.
handle_resv_blockaded(k, flow) ==
    /\ rsvp_is_blockaded(k, resv_flow(k, flow))
    /\ rsb' = IF k \in rsbs
              THEN [rsb EXCEPT ![k].flowspec = resv_flow(k, flow)] ELSE rsb
    /\ sent' = {}
    /\ UNCHANGED <<psbs, psb, rsbs, bsbs, bsb, labels, swap, push>>

\* rsvp_frr_auto_associate_all, run when bypass k gets its label: the PSB
\* tables it may leave behind.
rsvp_frr_auto_associate_all(k, t, have, r) ==
    LET waiting == {c \in psbs :
                       /\ ~ t[c].is_bypass_tunnel /\ t[c].facility
                       /\ t[c].ifindex_out = t[k].frr_protected_ifindex
                       /\ t[c].bypass_psb = Null}
        choices == [c \in waiting |-> rsvp_frr_auto_associate(t[c], t, have, r)]
    IN  {[c \in Keys |-> IF c \in waiting
                         THEN [t[c] EXCEPT !.bypass_psb = pick[c]] ELSE t[c]] :
            pick \in {f \in [waiting -> Keys \cup {Null}] :
                         \A c \in waiting : f[c] \in choices[c]}}

\* Mutant: every LSP of the tunnel but the new one goes.
mbb_victims_all(k) ==
    {{o \in psbs : o.tid = k.tid /\ o # k}}
\* rsvp_mbb_complete: the LSP with the incumbent's numbers that is torn down, if
\* there is one.
mbb_victims(k) ==
    LET found == rsvp_psb_find_by_id(k.tid, psb[k].mbb_old_lsp_id) IN
    IF found = {} THEN {{}} ELSE {{o} : o \in found}

\* Mutant: the pending flag is never cleared.
mbb_flag_kept(k) == psb[k].mbb_old_lsp_id
mbb_flag_after(k) ==
    IF k \notin rsbs THEN NoLsp ELSE psb[k].mbb_old_lsp_id

\* What follows the programming of the route: arming the LSPs a bypass
\* protects, and completing make-before-break.
resv_installed(k, new, in_label, labels1, swap1, push1, out) ==
    LET is_new == k \notin rsbs
        have   == rsbs \cup {k}
        rsb1   == [rsb EXCEPT ![k] = [new EXCEPT !.label_in = in_label]]
        psb1   == [psb EXCEPT ![k].associated_rsb = @ \/ is_new]
        arms   == /\ psb[k].is_bypass_tunnel
                  /\ is_new \/ new.label_out # rsb[k].label_out
    IN  \E t \in IF arms THEN rsvp_frr_auto_associate_all(k, psb1, have, rsb1)
                 ELSE {psb1} :
        \E D \in IF is_new /\ psb[k].mbb_old_lsp_id # NoLsp
                 THEN mbb_victims(k) ELSE {{}} :
        \E r \in Routes :
           LET R == rsbs_of(D) IN
           /\ psbs' = psbs \ D
           /\ psb' = psb_delete_all(
                        [t EXCEPT ![k].mbb_old_lsp_id = mbb_flag_after(k)], D)
           /\ rsbs' = have \ R
           /\ rsb' = rsb_delete_all(rsb1, R)
           /\ labels' = labels_free(labels1, R)
           /\ swap' = swap_remove(swap1, R)
           /\ push' = push_remove(push1, R)
           /\ sent' = out \cup UNION {propagate_path_tear(o, r) : o \in D}

\* The in-label of an RSB, allocated on first use.
label_in_or_alloc(k) ==
    IF rsb[k].label_in = 0 THEN label_mgr_alloc ELSE {rsb[k].label_in}

\* Transit: swap label_in for the advertised label, then RESV upstream.
handle_resv_transit(k, new) ==
    \E l \in label_in_or_alloc(k) \ {0} :
       /\ psb[k].prev_hop # 0
       /\ resv_installed(k, new, l, labels \cup {l},
                         swap_install(swap, l, EntryOf(new)), push,
                         resv_out(k, psb[k].prev_hop, l))
       /\ UNCHANGED <<bsbs, bsb>>

\* Transit without a free label: ResvErr, and a new RSB is cleaned up.
handle_resv_no_label(k, new) ==
    /\ psb[k].prev_hop # 0
    /\ label_in_or_alloc(k) = {0}
    /\ sent' = send_resv_err(k)
    /\ rsb' = IF k \in rsbs THEN [rsb EXCEPT ![k] = new] ELSE rsb
    /\ push' = IF k \notin rsbs /\ psb[k].is_ingress
               THEN [push EXCEPT ![k.dest] = NoEntry] ELSE push
    /\ UNCHANGED <<psbs, psb, rsbs, bsbs, bsb, labels, swap>>

\* Ingress: push the advertised label onto the traffic to the destination.
handle_resv_ingress(k, new) ==
    /\ psb[k].prev_hop = 0
    /\ resv_installed(k, new, rsb[k].label_in, labels, swap,
                      push_install(push, k.dest, EntryOf(new)), {})
    /\ UNCHANGED <<bsbs, bsb>>

\* send_resv_upstream for an RSB whose route is already programmed; the RSB
\* becomes new (it may need a label first).
send_resv_upstream(k, new) ==
    \E l \in label_in_or_alloc(k) :
       /\ rsb' = [rsb EXCEPT ![k] = [new EXCEPT !.label_in = l]]
       /\ labels' = labels \cup ({l} \ {0})
       /\ sent' = IF l = 0 THEN {} ELSE resv_out(k, psb[k].prev_hop, l)

\* A refresh without change (or an RSB without a PSB: it is only stored).
handle_resv_refresh(k, new) ==
    /\ IF new.associated_psb /\ psb[k].prev_hop # 0 /\ ~ psb[k].is_ingress
       THEN send_resv_upstream(k, new)
       ELSE /\ rsb' = [rsb EXCEPT ![k] = new]
            /\ sent' = {}
            /\ UNCHANGED labels
    /\ UNCHANGED <<psbs, psb, rsbs, bsbs, bsb, swap, push>>

\* Mutant: only a change of label counts.
resv_changes_label(k, new) == k \notin rsbs \/ new.label_out # rsb[k].label_out

\* Mutant: every RESV programs the route.
resv_changes_always(k, new) == TRUE

\* Whether the route has to be programmed (again).
resv_changes(k, new) ==
    \/ k \notin rsbs
    \/ new.label_out # rsb[k].label_out
    \/ new.next_hop # rsb[k].next_hop

handle_resv_message(k) ==
    \E hop \in Hops \cup {Absent}, label \in OutLabels \cup {Absent} :
        \/ handle_resv_invalid(k, hop, label)
        \/ /\ resv_valid(k, hop, label)
           /\ \E flow \in Flows \cup {Absent} :
                 LET new == resv_updated(k, hop, label, flow) IN
                 \/ handle_resv_blockaded(k, flow)
                 \/ /\ ~ rsvp_is_blockaded(k, resv_flow(k, flow))
                    /\ IF resv_changes(k, new) /\ new.associated_psb
                       THEN \/ handle_resv_transit(k, new)
                            \/ handle_resv_no_label(k, new)
                            \/ handle_resv_ingress(k, new)
                       ELSE handle_resv_refresh(k, new)

-----------------------------------------------------------------------------
(* Tear and error messages.                                                *)

handle_path_tear(k) ==
    \E r \in Routes :
       /\ is_local(k.src) => OwnPathLoops
       /\ k \in psbs \cup bsbs
       /\ rsvp_psb_cleanup({k} \cap psbs)
       /\ sent' = IF k \in psbs THEN propagate_path_tear(k, r) ELSE {}
       /\ bsb_delete(k)

handle_resv_tear(k) ==
    /\ k \in rsbs \cup bsbs
    /\ IF k \in rsbs
       THEN rsvp_rsb_cleanup(k) /\ sent' = propagate_resv_tear(k)
       ELSE sent' = {} /\ UNCHANGED <<psbs, psb, rsbs, rsb, labels, swap, push>>
    /\ bsb_delete(k)

handle_path_err(k) ==
    /\ k \in psbs /\ ~ psb[k].is_ingress /\ psb[k].prev_hop # 0
    /\ sent' = {Msg("PATHERR", k, psb[k].prev_hop, 0)}
    /\ UNCHANGED <<psbs, psb, rsbs, rsb, bsbs, bsb, labels, swap, push>>

\* flow # Absent: an admission control failure that carries a FLOWSPEC.
handle_resv_err(k) ==
    \E flow \in Flows \cup {Absent} :
       /\ IF flow # Absent THEN bsb_create(k, flow) ELSE UNCHANGED <<bsbs, bsb>>
       /\ IF k \in rsbs /\ ~ is_egress(k)
          THEN \E r \in Routes : sent' = propagate_resv_err(k, r)
          ELSE sent' = {}
       /\ UNCHANGED <<psbs, psb, rsbs, rsb, labels, swap, push>>

-----------------------------------------------------------------------------
(* Timer callbacks.                                                        *)

bsb_cleanup_timer_cb(k) ==
    /\ k \in bsbs
    /\ bsb_delete(k)
    /\ sent' = {}
    /\ UNCHANGED <<psbs, psb, rsbs, rsb, labels, swap, push>>

psb_refresh_timer_cb(k) ==
    \E r \in Routes :
       /\ k \in psbs /\ psb[k].refresh_timer
       /\ IF psb[k].is_ingress \/ ~ is_egress(k)
          THEN /\ psb' = [psb EXCEPT ![k] = path_sent(psb[k], r)]
               /\ sent' = path_out(k, psb[k], r)
          ELSE sent' = {} /\ UNCHANGED psb
       /\ UNCHANGED <<psbs, rsbs, rsb, bsbs, bsb, labels, swap, push>>

psb_cleanup_timer_cb(k) ==
    \E r \in Routes :
       /\ k \in psbs /\ psb[k].cleanup_timer
       /\ rsvp_psb_cleanup({k})
       /\ sent' = propagate_path_tear(k, r)
       /\ UNCHANGED <<bsbs, bsb>>

rsb_refresh_timer_cb(k) ==
    /\ k \in rsbs /\ rsb[k].refresh_timer
    /\ IF /\ rsb[k].associated_psb
          /\ psb[k].prev_hop # 0 /\ ~ psb[k].is_ingress
       THEN send_resv_upstream(k, rsb[k])
       ELSE sent' = {} /\ UNCHANGED <<rsb, labels>>
    /\ UNCHANGED <<psbs, psb, rsbs, bsbs, bsb, swap, push>>

rsb_cleanup_timer_cb(k) ==
    /\ k \in rsbs /\ rsb[k].cleanup_timer
    /\ rsvp_rsb_cleanup(k)
    /\ sent' = propagate_resv_tear(k)
    /\ UNCHANGED <<bsbs, bsb>>

-----------------------------------------------------------------------------
(* The operator's commands.                                                *)

\* A PSB this node starts: its refresh timer runs, and a PATH goes out.
psb_started(k, new, r) ==
    /\ psbs' = psbs \cup {k}
    /\ psb' = [psb EXCEPT ![k] = path_sent(new, r)]
    /\ sent' = path_out(k, new, r)
    /\ UNCHANGED <<rsbs, rsb, bsbs, bsb, labels, swap, push>>

take_lsp_id == next_lsp_id' = (next_lsp_id + 1) % LspIdSpace

rsvp_initiate_path(dest, tid, src) ==
    LET k == [dest |-> dest, tid |-> tid, src |-> src, lsp |-> next_lsp_id]
    IN  \E frr \in FrrRequests, r \in Routes :
        /\ k \in Keys
        /\ psb_started(k, IF k \in psbs THEN psb[k]
                          ELSE [Psb0 EXCEPT !.is_ingress = TRUE,
                                            !.facility = frr = "facility",
                                            !.refresh_timer = TRUE], r)
        /\ take_lsp_id

rsvp_initiate_bypass_tunnel(dest, tid, src, protected_ifindex) ==
    LET k == [dest |-> dest, tid |-> tid, src |-> src, lsp |-> next_lsp_id]
    IN  /\ k \in Keys
        /\ IF k \in psbs
           THEN sent' = {} /\ UNCHANGED <<psbs, psb, rsbs, rsb, bsbs, bsb,
                                          labels, swap, push>>
           ELSE \E r \in Routes :
                  psb_started(k, [Psb0 EXCEPT
                                    !.is_ingress = TRUE,
                                    !.is_bypass_tunnel = TRUE,
                                    !.frr_protected_ifindex = protected_ifindex,
                                    !.refresh_timer = TRUE], r)
        /\ take_lsp_id

rsvp_teardown_path(tid, lsp) ==
    \E k \in rsvp_psb_find_by_id(tid, lsp), r \in Routes :
       /\ rsvp_psb_cleanup({k})
       /\ sent' = propagate_path_tear(k, r)
       /\ UNCHANGED <<bsbs, bsb, next_lsp_id>>

rsvp_mbb_start(tid, old_lsp, new_lsp) ==
    \E old \in rsvp_psb_find_by_id(tid, old_lsp), r \in Routes :
       LET k == [old EXCEPT !.lsp = new_lsp] IN
       /\ psb[old].is_ingress
       /\ k \in Keys \ psbs
       /\ psb_started(k, [Psb0 EXCEPT !.is_ingress = TRUE,
                                      !.facility = psb[old].facility,
                                      !.mbb_old_lsp_id = old_lsp,
                                      !.refresh_timer = TRUE], r)
       /\ UNCHANGED next_lsp_id

-----------------------------------------------------------------------------
(* Fast reroute.                                                           *)

rsvp_frr_enable_protection(tid, lsp, mode, bypass_tid) ==
    \E k \in rsvp_psb_find_by_id(tid, lsp),
       b \in {c \in psbs : c.tid = bypass_tid /\ psb[c].is_bypass_tunnel} :
       /\ b \in rsbs /\ rsb[b].label_out # 0
       /\ psb' = [psb EXCEPT ![k].facility = mode = "facility",
                             ![k].bypass_psb = b]
       /\ sent' = {}
       /\ UNCHANGED <<psbs, rsbs, rsb, bsbs, bsb, labels, swap, push,
                      next_lsp_id>>

\* Programs entry e[k] for every RSB k of W.  Ingress LSPs to one destination
\* share a route: the one visited last (last[d]) stays.
mpls_install_all(W, e, last) ==
    /\ swap' = [l \in Labels |->
                  IF \E k \in W : rsb[k].label_in = l
                  THEN e[CHOOSE k \in W : rsb[k].label_in = l] ELSE swap[l]]
    /\ push' = [d \in Dests |->
                  IF d \in DOMAIN last THEN e[last[d]] ELSE push[d]]

\* The choices of last for the RSBs W.
last_visited(W) ==
    LET ingress(d) == {k \in W : rsb[k].label_in = 0 /\ k.dest = d}
        ds == {d \in Dests : ingress(d) # {}}
    IN  {f \in [ds -> W] : \A d \in ds : f[d] \in ingress(d)}

\* The RSB found through psb->bypass_psb, Null when there is none: reading a
\* freed PSB gives some key, which may belong to any RSB or to none.
bypass_rsb(k) ==
    LET b == psb[k].bypass_psb IN
    CASE b = Dangling              -> rsbs \cup {Null}
      [] b # Dangling /\ b \in rsbs    -> {b}
      [] b # Dangling /\ b \notin rsbs -> {Null}

frr_protected(ifindex) ==
    {k \in psbs : /\ psb[k].ifindex_out = ifindex
                  /\ psb[k].facility
                  /\ psb[k].bypass_psb # Null
                  /\ ~ psb[k].frr_active
                  /\ ~ psb[k].is_bypass_tunnel}

\* The values psb->bypass_psb->ifindex_out may read: anything when freed.
bypass_ifindexes(k) ==
    IF psb[k].bypass_psb = Dangling THEN Ifs \cup {0}
    ELSE {psb[psb[k].bypass_psb].ifindex_out}

\* ifindex_out becomes the bypass's (i), until send_path_downstream resolves
\* the route again (r).
switched(k, i, r) ==
    path_sent([psb[k] EXCEPT !.frr_active = TRUE, !.ifindex_out = i], r)

rsvp_frr_trigger(ifindex) ==
    \E via \in [frr_protected(ifindex) -> rsbs \cup {Null}] :
       LET W == {k \in DOMAIN via : via[k] \in rsbs /\ rsb[via[k]].label_out # 0}
           e == [k \in W |-> EntryOf(rsb[via[k]])]
       IN  /\ W # {}
           /\ \A k \in DOMAIN via : via[k] \in bypass_rsb(k)
           /\ \E last \in last_visited(W \cap rsbs) :
                 mpls_install_all(W \cap rsbs, e, last)
           /\ \E i \in [W -> Ifs \cup {0}], r \in [W -> Routes] :
                 /\ \A k \in W : i[k] \in bypass_ifindexes(k)
                 /\ psb' = [k \in Keys |-> IF k \in W
                              THEN switched(k, i[k], r[k]) ELSE psb[k]]
                 /\ sent' = UNION {path_out(k, switched(k, i[k], r[k]), r[k]) :
                                     k \in W}
           /\ UNCHANGED <<psbs, rsbs, rsb, bsbs, bsb, labels, next_lsp_id>>

\* psb->bypass_psb->frr_protected_ifindex, anything when the bypass is freed.
protects(k, ifindex) ==
    IF psb[k].bypass_psb = Dangling THEN BOOLEAN
    ELSE {psb[psb[k].bypass_psb].frr_protected_ifindex = ifindex}

reverted(k, ifindex, r) ==
    path_sent([psb[k] EXCEPT !.frr_active = FALSE, !.ifindex_out = ifindex], r)

\* Mutant: only the flags are reset, the routes still use the bypass.
revert_no_routes(W) == UNCHANGED <<swap, push>>

\* The LSPs W are programmed as their reservations say again.
revert_routes(W) ==
    \E last \in last_visited(W) :
       mpls_install_all(W, [k \in W |-> EntryOf(rsb[k])], last)

rsvp_frr_revert(ifindex) ==
    \E W \in SUBSET {k \in psbs \cap rsbs : /\ psb[k].frr_active
                                            /\ psb[k].bypass_psb # Null} :
       /\ W # {}
       /\ \A k \in psbs \cap rsbs :
             psb[k].frr_active /\ psb[k].bypass_psb # Null
                => (k \in W) \in protects(k, ifindex)
       /\ revert_routes(W)
       /\ \E r \in [W -> Routes] :
             /\ psb' = [k \in Keys |-> IF k \in W
                          THEN reverted(k, ifindex, r[k]) ELSE psb[k]]
             /\ sent' = UNION {path_out(k, reverted(k, ifindex, r[k]), r[k]) :
                                 k \in W}
       /\ UNCHANGED <<psbs, rsbs, rsb, bsbs, bsb, labels, next_lsp_id>>

-----------------------------------------------------------------------------
\* Mutant: shutdown frees the tables without releasing what they hold.
shutdown_tables_only ==
    /\ psbs' = {} /\ psb' = [k \in Keys |-> Psb0]
    /\ rsbs' = {} /\ rsb' = [k \in Keys |-> Rsb0]
    /\ UNCHANGED <<labels, swap, push>>
shutdown_cleanup == rsvp_psb_cleanup(psbs)

\* rsvp_state_machine_shutdown, then rsvp_state_db_cleanup, which frees the
\* blockade state.
rsvp_state_machine_shutdown ==
    \E r \in [psbs -> Routes] :
       /\ shutdown_cleanup
       /\ sent' = UNION {propagate_path_tear(k, r[k]) : k \in psbs}
       /\ rsvp_state_db_cleanup
       /\ running' = FALSE
       /\ UNCHANGED next_lsp_id

Receive(k) ==
    \/ handle_path_message(k)
    \/ handle_resv_message(k)
    \/ handle_path_tear(k)
    \/ handle_resv_tear(k)
    \/ handle_path_err(k)
    \/ handle_resv_err(k)

TimerFires(k) ==
    \/ bsb_cleanup_timer_cb(k)
    \/ psb_refresh_timer_cb(k)
    \/ psb_cleanup_timer_cb(k)
    \/ rsb_refresh_timer_cb(k)
    \/ rsb_cleanup_timer_cb(k)

Tids == {k.tid : k \in Keys}

Command ==
    \/ \E d \in Dests, t \in Tids \ BypassTids, s \in OwnSrcs :
          rsvp_initiate_path(d, t, s)
    \/ \E d \in Dests, t \in BypassTids, s \in OwnSrcs, i \in Ifs :
          rsvp_initiate_bypass_tunnel(d, t, s, i)
    \/ \E t \in Tids, o \in LspIds : rsvp_teardown_path(t, o)
    \/ \E t \in Tids, o, n \in LspIds : rsvp_mbb_start(t, o, n)

Frr ==
    \/ \E t \in Tids, o \in LspIds, b \in BypassTids,
          mode \in FrrRequests \ {"none"} :
          rsvp_frr_enable_protection(t, o, mode, b)
    \/ \E i \in Ifs \cup {0} : rsvp_frr_trigger(i) \/ rsvp_frr_revert(i)

\* An LSP that does not begin here but that the code treats as if it did: a
\* PATH came with the HOP address 0.0.0.0, so the next RESV programs a PUSH
\* route, or it ends here and was rerouted, which programs a PUSH route when it
\* has no label.  rsb_cleanup_resources removes neither.
Strayed(k) ==
    /\ ~ psb[k].is_ingress
    /\ psb[k].prev_hop = 0 \/ (is_egress(k) /\ psb[k].frr_active)

NoteStrays == strays' = strays \cup {k \in psbs' : Strayed(k)'}

Next ==
    /\ running
    /\ \/ /\ \E k \in Keys : Receive(k) \/ TimerFires(k)
          /\ UNCHANGED <<next_lsp_id, running>>
       \/ (Command \/ Frr) /\ UNCHANGED running
       \/ rsvp_state_machine_shutdown
    /\ NoteStrays

Spec == Init /\ [][Next]_vars
=============================================================================
