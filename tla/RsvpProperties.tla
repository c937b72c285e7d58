--------------------------- MODULE RsvpProperties ---------------------------
(***************************************************************************)
(* What the state machine of one node must keep true, and what its         *)
(* documentation says of it where the code does otherwise.                 *)
(***************************************************************************)
EXTENDS RsvpStateMachine

\* Every RSB has its PSB and the two point at each other: no handler, timer
\* callback or command leaves a reservation without a path (whose teardown
\* would then never reach it) or a pointer to a freed block.
Linked ==
    /\ \A k \in rsbs : /\ k \in psbs
                       /\ rsb[k].associated_psb
                       /\ psb[k].associated_rsb
    /\ \A k \in psbs : psb[k].associated_rsb => k \in rsbs

\* The labels taken from the label manager are exactly the in-labels of the
\* RSBs, and no two RSBs share one: no handler, error path or teardown loses a
\* label or returns one that is in use.
LabelsOwned ==
    /\ labels = in_labels(rsbs)
    /\ \A j, k \in rsbs :
          rsb[j].label_in = rsb[k].label_in /\ rsb[j].label_in # 0 => j = k

\* No forwarding entry outlives its reservation: a label that can be allocated
\* again never has a route left over from its previous owner, and the PUSH
\* route of a destination goes with the LSPs that start here.  The one PUSH
\* route that may stay is that of a stray, an LSP treated as an ingress that is
\* none (a PATH whose HOP address is 0.0.0.0, or an egress LSP rerouted).
RoutesOwned ==
    /\ \A l \in Labels : swap[l] # NoEntry => l \in in_labels(rsbs)
    /\ \A d \in Dests : push[d] # NoEntry =>
          \/ \E k \in rsbs : k.dest = d /\ psb[k].is_ingress
          \/ \E k \in strays : k.dest = d

\* A transit LSP that is not rerouted forwards as its reservation says: by the
\* time a label has been advertised upstream it is programmed towards the
\* neighbour, and with the label, that the latest RESV named.  Not so for an
\* LSP that has been a stray: a reservation made while its HOP was 0.0.0.0 has
\* a PUSH route, and an unchanged RESV then advertises a label without a SWAP.
TransitForwards ==
    \A k \in rsbs \ strays :
       psb[k].prev_hop # 0 /\ ~ is_egress(k) /\ ~ psb[k].frr_active =>
          /\ rsb[k].label_in # 0
          /\ swap[rsb[k].label_in] = EntryOf(rsb[k])

\* No state is immortal and none goes silent: everything learned from the
\* network dies by its cleanup timer unless it is refreshed (the RSB of an
\* egress dies with its PSB), and everything this node must refresh has its
\* refresh timer running.
SoftState ==
    /\ \A k \in psbs : /\ psb[k].refresh_timer
                       /\ psb[k].is_ingress \/ psb[k].cleanup_timer
    /\ \A k \in rsbs : /\ is_egress(k) \/ rsb[k].cleanup_timer
                       /\ psb[k].is_ingress \/ rsb[k].refresh_timer

\* Make-before-break stays pending only until the new LSP has its reservation,
\* and only at the ingress.
MbbPending ==
    \A k \in psbs : psb[k].mbb_old_lsp_id # NoLsp =>
       psb[k].is_ingress /\ k \notin rsbs

\* After shutdown the node holds no path, reservation, label or SWAP route, and
\* no PUSH route but one for the destination of a stray (see RoutesOwned).
ShutdownClean ==
    ~ running => /\ psbs = {} /\ rsbs = {} /\ labels = {}
                 /\ \A l \in Labels : swap[l] = NoEntry
                 /\ \A d \in Dests \ {k.dest : k \in strays} :
                       push[d] = NoEntry

\* When a reservation goes but its path stays, the upstream neighbour, which
\* is still forwarding to our label, is told by a ResvTear in the same step.
WithdrawalAnnounced ==
    [][\A k \in rsbs \ rsbs' :
          k \in psbs' /\ ~ psb[k].is_ingress /\ psb[k].prev_hop # 0 =>
             Msg("RESVTEAR", k, psb[k].prev_hop, 0) \in sent']_vars

\* While a blockade lasts, a RESV for as much as the rejected flowspec or more
\* creates no reservation and does not change where an existing one forwards
\* ("not installing in hardware").  An egress makes its own reservation when
\* the PATH arrives, which the blockade does not hold up.
BlockadeHolds ==
    [][\A k \in bsbs \cap bsbs' :
          k \in rsbs' /\ rsb'[k].flowspec >= bsb[k] =>
             /\ k \in rsbs \/ is_egress(k)
             /\ k \in rsbs => EntryOf(rsb'[k]) = EntryOf(rsb[k])]_vars

\* A reservation that arrives takes down no LSP, unless it completes
\* make-before-break: then exactly one LSP that has the incumbent's tunnel and
\* LSP numbers goes, if there is one, and nothing else does.  The code compares
\* these two numbers only, so that where another ingress uses the same ones its
\* LSP may go in the incumbent's place.  (An LSP to an address of this node has
\* its reservation from the start and completes nothing.)
MbbTakesOne ==
    [][\A k \in rsbs' \ rsbs :
          LET old     == psb[k].mbb_old_lsp_id
              found   == rsvp_psb_find_by_id(k.tid, old)
              pending == old # NoLsp
          IN  \/ psbs \subseteq psbs' /\ (pending => found = {} \/ is_egress(k))
              \/ pending /\ \E o \in found : psbs' = psbs \ {o}]_vars

\* While an LSP is rerouted, nothing but a new reservation of its own changes
\* where its traffic goes: not a refresh of its PATH or RESV, not a second
\* trigger, and not what happens to the bypass or to another LSP.
FrrSticks ==
    [][\A k \in rsbs \cap rsbs' :
          /\ psb[k].frr_active /\ psb'[k].frr_active
          /\ rsb[k].label_in # 0
          /\ EntryOf(rsb'[k]) = EntryOf(rsb[k])
          => /\ rsb'[k].label_in = rsb[k].label_in
             /\ swap'[rsb[k].label_in] = swap[rsb[k].label_in]]_vars

-----------------------------------------------------------------------------
(* A statement of the documentation that the code does not keep.           *)

\* README: make-before-break re-routes with zero traffic interruption, so an
\* ingress LSP with a reservation has a PUSH route for its destination.
IngressForwards ==
    \A k \in rsbs : psb[k].is_ingress /\ psb[k].prev_hop = 0 =>
       push[k.dest] # NoEntry
=============================================================================
