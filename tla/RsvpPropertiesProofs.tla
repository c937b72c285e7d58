------------------------ MODULE RsvpPropertiesProofs ------------------------
(***************************************************************************)
(* The properties of the state machine, for every instance.                *)
(*                                                                         *)
(* Every step of the node is of one of nine kinds (StepKinds); the         *)
(* invariant Inv and the properties are proved kind by kind.               *)
(***************************************************************************)
EXTENDS RsvpStateMachineProofs

-----------------------------------------------------------------------------
(* The invariant.                                                          *)

\* What a block that calloc has just returned says.
BlankPsb(p) ==
    /\ p.prev_hop = 0 /\ p.is_ingress = FALSE /\ p.ifindex_out = 0
    /\ p.mbb_old_lsp_id = NoLsp /\ p.associated_rsb = FALSE
    /\ p.frr_active = FALSE

\* A key without a block keeps the value of a fresh one.
Blank ==
    \A k \in Keys : /\ k \notin psbs => BlankPsb(psb[k])
                    /\ k \notin rsbs => rsb[k] = Rsb0

\* Only a label that is taken has a route.
SwapOwned == \A l \in Labels : swap[l] # NoEntry => l \in labels

\* What begins here has a source the operator gave, and whatever else the code
\* takes for an ingress is noted as a stray: so a path without a previous hop
\* begins here or is a stray.
Origin ==
    \A k \in psbs : /\ Strayed(k) => k \in strays
                    /\ psb[k].is_ingress => k.src \in OwnSrcs

\* An LSP is never its own incumbent.
MbbApart ==
    \A k \in psbs : psb[k].mbb_old_lsp_id # NoLsp => psb[k].mbb_old_lsp_id # k.lsp

Inv ==
    /\ TypeOK
    /\ Blank /\ Linked /\ LabelsOwned /\ SwapOwned /\ Origin /\ MbbApart
    /\ SoftState

-----------------------------------------------------------------------------
(* The kinds of steps.                                                     *)

OtherPsbs(k) == \A j \in Keys \ {k} : psb'[j] = psb[j]
OtherRsbs(k) == \A j \in Keys \ {k} : rsb'[j] = rsb[j]

\* No block changes, and no route except that one may go.
Quiet ==
    /\ UNCHANGED <<psbs, psb, rsbs, rsb, labels, swap>>
    /\ \A d \in Dests : push'[d] = push[d] \/ push'[d] = NoEntry

\* A PATH of another node, or one of ours that has come back.
PathAccepted(k) == is_local(k.src) => OwnPathLoops

\* What may happen to the PSB of k when it is created or written.
PsbWritten(k) ==
    LET p == psb[k]
        q == psb'[k] IN
    /\ q.refresh_timer /\ (q.is_ingress \/ q.cleanup_timer)
    /\ q.frr_active = p.frr_active
    /\ k \in psbs => /\ q.is_ingress = p.is_ingress
                     /\ q.mbb_old_lsp_id = p.mbb_old_lsp_id
    /\ q.prev_hop = p.prev_hop \/ PathAccepted(k)
    /\ k \notin psbs =>
          \/ ~ q.is_ingress /\ PathAccepted(k) /\ q.mbb_old_lsp_id = NoLsp
          \/ /\ q.is_ingress /\ q.prev_hop = 0 /\ k.src \in OwnSrcs
             /\ q.mbb_old_lsp_id # NoLsp => q.mbb_old_lsp_id # k.lsp

\* A PSB is created or written.
PathSet(k) ==
    /\ psbs' = psbs \cup {k} /\ OtherPsbs(k) /\ PsbWritten(k)
    /\ psb'[k].associated_rsb = psb[k].associated_rsb
    /\ UNCHANGED <<rsbs, rsb, labels, swap, push>>

\* The RSB of k keeps its label, or takes a free one.
LabelKept(k) == rsb'[k].label_in = rsb[k].label_in /\ labels' = labels
LabelTaken(k) ==
    /\ rsb[k].label_in = 0 /\ rsb'[k].label_in \in Labels \ labels
    /\ labels' = labels \cup {rsb'[k].label_in}

\* The reservation of k is smaller than what is blockaded, if anything is.
Unblocked(k) == k \in bsbs => ~ (rsb'[k].flowspec >= bsb[k])

\* An egress answers a PATH with a reservation.
EgressSet(k) ==
    /\ k \notin rsbs /\ is_egress(k) /\ PathAccepted(k)
    /\ psbs' = psbs \cup {k} /\ OtherPsbs(k) /\ PsbWritten(k)
    /\ psb'[k].associated_rsb
    /\ rsbs' = rsbs \cup {k} /\ OtherRsbs(k)
    /\ rsb'[k].associated_psb /\ rsb'[k].refresh_timer
    /\ LabelKept(k) \/ LabelTaken(k)
    /\ UNCHANGED <<swap, push>>

\* An RSB is written, and no route.
ResvSet(k) ==
    /\ k \in rsbs
    /\ OtherRsbs(k)
    /\ rsb'[k].associated_psb
    /\ is_egress(k) \/ rsb'[k].cleanup_timer
    /\ psb[k].is_ingress \/ rsb'[k].refresh_timer
    /\ LabelKept(k) \/ (LabelTaken(k) /\ ~ psb[k].is_ingress)
    /\ \/ EntryOf(rsb'[k]) = EntryOf(rsb[k])
       \/ rsb[k].label_in = 0 /\ psb[k].prev_hop # 0 /\ LabelKept(k) /\ Unblocked(k)
    /\ UNCHANGED <<psbs, psb, rsbs, swap, push>>

\* The labels and destinations that the RSBs of D give back.
Freed(D) == in_labels(D \cap rsbs)
FreedDests(D) == push_dests(D \cap rsbs)

\* The PSBs D that the first RESV of k takes down: one that has the numbers of
\* the incumbent it was started to replace, if there is one.
MbbTaken(k, D) ==
    LET found   == rsvp_psb_find_by_id(k.tid, psb[k].mbb_old_lsp_id)
        pending == k \notin rsbs /\ psb[k].mbb_old_lsp_id # NoLsp
    IN  \/ D = {} /\ (pending => found = {})
        \/ pending /\ \E o \in found : D = {o}

\* A RESV is installed for k, which may take the PSBs D down.
Installed(k, D) ==
    /\ k \in psbs \ D /\ Unblocked(k) /\ MbbTaken(k, D)
    /\ psbs' = psbs \ D
    /\ \A j \in D : psb'[j] = Psb0 /\ rsb'[j] = Rsb0
    /\ \A j \in Keys \ D :
          /\ j # k => SamePsb(psb'[j], psb[j]) /\ rsb'[j] = rsb[j]
          /\ psb'[j].ifindex_out = psb[j].ifindex_out
          /\ psb'[j].frr_active = psb[j].frr_active
    /\ psb'[k].prev_hop = psb[k].prev_hop /\ psb'[k].is_ingress = psb[k].is_ingress
    /\ psb'[k].refresh_timer = psb[k].refresh_timer
    /\ psb'[k].cleanup_timer = psb[k].cleanup_timer
    /\ psb'[k].associated_rsb
    /\ psb'[k].mbb_old_lsp_id = IF k \in rsbs THEN psb[k].mbb_old_lsp_id ELSE NoLsp
    /\ rsbs' = (rsbs \cup {k}) \ D
    /\ rsb'[k].associated_psb /\ rsb'[k].cleanup_timer
    /\ psb[k].is_ingress \/ rsb'[k].refresh_timer
    /\ k \in rsbs => EntryOf(rsb'[k]) # EntryOf(rsb[k])
    /\ \/ /\ psb[k].prev_hop # 0
          /\ \/ /\ rsb'[k].label_in = rsb[k].label_in /\ rsb[k].label_in # 0
             \/ /\ rsb[k].label_in = 0 /\ rsb'[k].label_in \in Labels \ labels
          /\ labels' = (labels \cup {rsb'[k].label_in}) \ Freed(D)
          /\ \A l \in Labels : swap'[l] = IF l \in Freed(D) THEN NoEntry
                                          ELSE IF l = rsb'[k].label_in
                                          THEN EntryOf(rsb'[k]) ELSE swap[l]
          /\ \A d \in Dests : push'[d] = IF d \in FreedDests(D) THEN NoEntry
                                         ELSE push[d]
       \/ /\ psb[k].prev_hop = 0
          /\ rsb'[k].label_in = rsb[k].label_in
          /\ labels' = labels \ Freed(D)
          /\ \A l \in Labels : swap'[l] = IF l \in Freed(D) THEN NoEntry
                                          ELSE swap[l]
          /\ \A d \in Dests : d # k.dest =>
                push'[d] = IF d \in FreedDests(D) THEN NoEntry ELSE push[d]

\* The RSB of k goes and its PSB stays.
ResvGone(k) ==
    /\ k \in rsbs
    /\ rsbs' = rsbs \ {k} /\ rsb'[k] = Rsb0 /\ OtherRsbs(k) /\ OtherPsbs(k)
    /\ psb'[k] = [psb[k] EXCEPT !.associated_rsb = FALSE]
    /\ labels' = labels \ Freed({k})
    /\ \A l \in Labels : swap'[l] = IF l \in Freed({k}) THEN NoEntry ELSE swap[l]
    /\ \A d \in Dests : push'[d] = IF d \in FreedDests({k}) THEN NoEntry ELSE push[d]
    /\ ~ psb[k].is_ingress /\ psb[k].prev_hop # 0 =>
          Msg("RESVTEAR", k, psb[k].prev_hop, 0) \in sent'
    /\ UNCHANGED psbs

\* The PSBs D go with their RSBs.
PathsGone(D) ==
    /\ psbs' = psbs \ D /\ rsbs' = rsbs \ D
    /\ \A j \in D : psb'[j] = Psb0 /\ rsb'[j] = Rsb0
    /\ \A j \in Keys \ D : /\ SamePsb(psb'[j], psb[j]) /\ rsb'[j] = rsb[j]
                           /\ psb'[j].ifindex_out = psb[j].ifindex_out
                           /\ psb'[j].frr_active = psb[j].frr_active
    /\ labels' = labels \ Freed(D)
    /\ \A l \in Labels : swap'[l] = IF l \in Freed(D) THEN NoEntry ELSE swap[l]
    /\ \A d \in Dests : push'[d] = IF d \in FreedDests(D) THEN NoEntry ELSE push[d]

\* The LSPs W change between their own route and their bypass.
Switch(W, active) ==
    /\ \A j \in W : /\ psb[j].frr_active = ~ active /\ psb'[j].frr_active = active
                    /\ SamePsb(psb'[j], psb[j])
    /\ \A j \in Keys \ W : psb'[j] = psb[j]
    /\ \A l \in Labels :
          (\A k \in W \cap rsbs : rsb[k].label_in # l) => swap'[l] = swap[l]
    /\ \A d \in Dests : push'[d] # push[d] =>
          \E k \in W \cap rsbs : rsb[k].label_in = 0 /\ k.dest = d
    /\ UNCHANGED <<psbs, rsbs, rsb, labels>>

Trigger(W) == Switch(W, TRUE)
Revert(W) ==
    /\ Switch(W, FALSE) /\ W \subseteq rsbs
    /\ \A l \in Labels : (\E k \in W : rsb[k].label_in = l) =>
          \E k \in W : rsb[k].label_in = l /\ swap'[l] = EntryOf(rsb[k])

Kind ==
    \/ Quiet
    \/ \E k \in Keys : \/ PathSet(k) \/ EgressSet(k) \/ ResvSet(k) \/ ResvGone(k)
                       \/ \E D \in SUBSET psbs : Installed(k, D)
    \/ \E D \in SUBSET psbs : PathsGone(D)
    \/ \E W \in SUBSET psbs : Trigger(W) \/ Revert(W)

-----------------------------------------------------------------------------
(* Every step is of one of these kinds.                                    *)

\* Writing one block of a table.
LEMMA OneWrite ==
    ASSUME TypeOK, NEW k \in Keys
    PROVE  /\ \A q : psb' = [psb EXCEPT ![k] = q] => psb'[k] = q /\ OtherPsbs(k)
           /\ \A q : rsb' = [rsb EXCEPT ![k] = q] => rsb'[k] = q /\ OtherRsbs(k)
BY DEF TypeOK, OtherPsbs, OtherRsbs

\* A PATH that is stored.
LEMMA PathStored ==
    ASSUME Inv, NEW k \in Keys, PathAccepted(k),
           psb'[k].is_ingress = psb[k].is_ingress,
           psb'[k].refresh_timer, psb'[k].cleanup_timer,
           psb'[k].frr_active = psb[k].frr_active,
           psb'[k].mbb_old_lsp_id = psb[k].mbb_old_lsp_id
    PROVE  PsbWritten(k)
<1>1. k \notin psbs => psb[k].is_ingress = FALSE /\ psb[k].mbb_old_lsp_id = NoLsp
  BY DEF Inv, Blank, BlankPsb
<1>. QED  BY <1>1 DEF PsbWritten

\* handle_path_message drops the message, stores a PSB, or answers as egress.
LEMMA PathKind ==
    ASSUME Inv, TypeOK', NEW k \in Keys, handle_path_message(k)
    PROVE  Quiet \/ PathSet(k) \/ EgressSet(k)
<1>1. PathAccepted(k)
  BY DEF handle_path_message, PathAccepted
<1>3. ASSUME NEW hop, NEW label_req, handle_path_invalid(k, hop, label_req)
      PROVE  Quiet
  BY <1>3 DEF handle_path_invalid, Quiet
<1>. SUFFICES ASSUME NEW hop \in Hops \cup {0}, NEW frr \in FrrRequests,
                     AcceptedPath(k, hop, frr)
              PROVE  Quiet \/ PathSet(k) \/ EgressSet(k)
  BY <1>3, PathCases
<1>. DEFINE q == path_updated(k, hop, frr)
<1>t. TypeOK /\ psb[k] \in Psb /\ rsb[k] \in Rsb /\ psb'[k] \in Psb
  BY DEF Inv, TypeOK
<1>2. /\ q \in Psb
      /\ q.prev_hop = hop /\ q.is_ingress = psb[k].is_ingress
      /\ q.refresh_timer /\ q.cleanup_timer
      /\ q.ifindex_out = psb[k].ifindex_out /\ q.frr_active = psb[k].frr_active
      /\ q.mbb_old_lsp_id = psb[k].mbb_old_lsp_id
      /\ q.associated_rsb = psb[k].associated_rsb
  BY <1>t, PathUpdated
<1>5. ASSUME psbs' = psbs \cup {k},
             psb' = [psb EXCEPT ![k] = q],
             UNCHANGED <<rsbs, rsb, labels, swap, push>>
      PROVE  PathSet(k)
  <2>1. psb'[k] = q /\ OtherPsbs(k)
    BY <1>t, <1>5, OneWrite
  <2>2. PsbWritten(k)
    BY <1>1, <1>2, <1>5, <1>t, <2>1, PathStored
  <2>. QED  BY <1>2, <1>5, <2>1, <2>2 DEF PathSet
<1>6. CASE handle_path_egress_new(k, hop, frr)
  <2>1. PICK l \in label_mgr_alloc :
           /\ rsb' = [rsb EXCEPT ![k].associated_psb = TRUE,
                                 ![k].refresh_timer = TRUE,
                                 ![k].label_in = l]
           /\ labels' = labels \cup ({l} \ {0})
    BY <1>6 DEF handle_path_egress_new
  <2>2. l = 0 \/ l \in Labels \ labels
    BY AllocResult
  <2>3. rsb' = [rsb EXCEPT ![k] = EgressRsb(k, l)]
    BY <2>1 DEF EgressRsb
  <2>4. rsb'[k] = EgressRsb(k, l) /\ OtherRsbs(k)
    BY <1>t, <2>3, OneWrite
  <2>5. /\ rsb'[k].label_in = l /\ rsb'[k].associated_psb
        /\ rsb'[k].refresh_timer
    BY <1>t, <2>2, <2>4, EgressRsbFields
  <2>6. k \notin rsbs /\ is_egress(k) /\ rsb[k] = Rsb0
    BY <1>6 DEF handle_path_egress_new, Inv, Blank
  <2>7. Rsb0.label_in = 0
    BY DEF Rsb0
  <2>8. LabelKept(k) \/ LabelTaken(k)
    BY <2>1, <2>2, <2>5, <2>6, <2>7, DbAssumption DEF LabelKept, LabelTaken
  <2>10. psb' = [psb EXCEPT ![k] = [q EXCEPT !.associated_rsb = TRUE]]
    BY <1>6 DEF handle_path_egress_new
  <2>11. psb'[k] = [q EXCEPT !.associated_rsb = TRUE] /\ OtherPsbs(k)
    BY <1>t, <2>10, OneWrite
  <2>. HIDE DEF q
  <2>12. /\ psb'[k].prev_hop = hop /\ psb'[k].is_ingress = psb[k].is_ingress
         /\ psb'[k].refresh_timer /\ psb'[k].cleanup_timer
         /\ psb'[k].frr_active = psb[k].frr_active
         /\ psb'[k].mbb_old_lsp_id = psb[k].mbb_old_lsp_id
         /\ psb'[k].associated_rsb
    BY <1>2, <2>11, PsbFields
  <2>13. PsbWritten(k)
    BY <1>1, <2>12, PathStored
  <2>. QED  BY <1>1, <1>6, <2>4, <2>5, <2>6, <2>8, <2>11, <2>12, <2>13
            DEF handle_path_egress_new, EgressSet
<1>7. CASE handle_path_egress_refresh(k, hop, frr)
  BY <1>5, <1>7 DEF handle_path_egress_refresh
<1>8. CASE handle_path_own(k, hop, frr)
  BY <1>5, <1>8 DEF handle_path_own
<1>9. CASE handle_path_no_route(k, hop, frr)
  <2>1. CASE k \in psbs
    BY <1>5, <1>9, <2>1 DEF handle_path_no_route
  <2>2. CASE k \notin psbs
    BY <1>9, <2>2 DEF handle_path_no_route, Quiet
  <2>. QED  BY <2>1, <2>2
<1>10. ASSUME NEW r \in Routes, handle_path_transit(k, hop, frr, r)
       PROVE  PathSet(k)
  <2>. DEFINE p == path_sent(q, r)
  <2>1. p \in Psb /\ SamePsb(p, q) /\ p.frr_active = q.frr_active
    BY <1>2, PathSent
  <2>2. PICK b \in rsvp_frr_auto_associate(p, psb, rsbs, rsb) :
           psb' = [psb EXCEPT ![k] = [p EXCEPT !.bypass_psb = b]]
    BY <1>10 DEF handle_path_transit
  <2>. HIDE DEF p, q
  <2>3. psb'[k] = [p EXCEPT !.bypass_psb = b] /\ OtherPsbs(k)
    BY <1>t, <2>2, OneWrite
  <2>4. b \in Keys \cup {Null, Dangling}
    BY <1>t, <2>1, AutoAssociate DEF TypeOK
  <2>5. SamePsb(psb'[k], p) /\ psb'[k].frr_active = p.frr_active
    BY <2>1, <2>3, <2>4, PsbFields
  <2>6. PsbWritten(k)
    BY <1>1, <1>2, <2>1, <2>5, PathStored DEF SamePsb
  <2>. QED  BY <1>2, <1>10, <2>1, <2>3, <2>5, <2>6
            DEF handle_path_transit, PathSet, SamePsb
<1>. QED  BY <1>6, <1>7, <1>8, <1>9, <1>10 DEF AcceptedPath

\* The RSBs that go with PSBs are all the RSBs of these keys.
LEMMA RsbsOf ==
    ASSUME Linked, NEW D
    PROVE  rsbs_of(D) = D \cap rsbs
BY DEF Linked, rsbs_of

\* What resv_installed does, apart from the label and the route of k itself.
InstalledParts(k, q, labels1, swap1, push1, D) ==
    /\ k \notin D /\ MbbTaken(k, D)
    /\ psbs' = psbs \ D
    /\ \A j \in D : psb'[j] = Psb0 /\ rsb'[j] = Rsb0
    /\ \A j \in Keys \ D :
          /\ j # k => SamePsb(psb'[j], psb[j]) /\ rsb'[j] = rsb[j]
          /\ psb'[j].ifindex_out = psb[j].ifindex_out
          /\ psb'[j].frr_active = psb[j].frr_active
    /\ psb'[k].prev_hop = psb[k].prev_hop /\ psb'[k].is_ingress = psb[k].is_ingress
    /\ psb'[k].refresh_timer = psb[k].refresh_timer
    /\ psb'[k].cleanup_timer = psb[k].cleanup_timer
    /\ psb'[k].associated_rsb
    /\ psb'[k].mbb_old_lsp_id = IF k \in rsbs THEN psb[k].mbb_old_lsp_id ELSE NoLsp
    /\ rsbs' = (rsbs \cup {k}) \ D
    /\ rsb'[k] = q
    /\ labels' = labels1 \ Freed(D)
    /\ \A l \in Labels : swap'[l] = IF l \in Freed(D) THEN NoEntry ELSE swap1[l]
    /\ \A d \in Dests : push'[d] = IF d \in FreedDests(D) THEN NoEntry ELSE push1[d]

\* What the end of handle_resv_message does, once the label is known: the route,
\* and the incumbents that a make-before-break takes down.
LEMMA InstalledDoes ==
    ASSUME Inv, NEW k \in psbs, NEW new \in Rsb, NEW in_label \in Labels \cup {0},
           NEW labels1, NEW swap1, NEW push1, NEW out,
           resv_installed(k, new, in_label, labels1, swap1, push1, out)
    PROVE  \E D \in SUBSET psbs :
              InstalledParts(k, [new EXCEPT !.label_in = in_label],
                             labels1, swap1, push1, D)
<1>. DEFINE is_new == k \notin rsbs
            have   == rsbs \cup {k}
            q      == [new EXCEPT !.label_in = in_label]
            rsb1   == [rsb EXCEPT ![k] = q]
            psb1   == [psb EXCEPT ![k].associated_rsb = @ \/ is_new]
            arms   == /\ psb[k].is_bypass_tunnel
                      /\ is_new \/ new.label_out # rsb[k].label_out
<1>1. k \in Keys /\ TypeOK /\ psb[k] \in Psb
  BY DEF Inv, TypeOK
<1>2. q \in Rsb
  BY RsbFields
<1>3. /\ rsb1 \in [Keys -> Rsb] /\ rsb1[k] = q
      /\ \A j \in Keys \ {k} : rsb1[j] = rsb[j]
  BY <1>1, <1>2 DEF TypeOK
<1>4. /\ psb1 \in [Keys -> Psb]
      /\ \A j \in Keys \ {k} : psb1[j] = psb[j]
      /\ LET p == psb1[k] IN
         /\ p.associated_rsb
         /\ p.prev_hop = psb[k].prev_hop /\ p.is_ingress = psb[k].is_ingress
         /\ p.refresh_timer = psb[k].refresh_timer
         /\ p.cleanup_timer = psb[k].cleanup_timer
         /\ p.mbb_old_lsp_id = psb[k].mbb_old_lsp_id
         /\ p.ifindex_out = psb[k].ifindex_out /\ p.frr_active = psb[k].frr_active
  <2>. DEFINE a == psb[k].associated_rsb \/ is_new
  <2>1. a = TRUE
    BY DEF Inv, Linked
  <2>2. psb1 = [psb EXCEPT ![k] = [psb[k] EXCEPT !.associated_rsb = TRUE]]
    BY <2>1
  <2>3. LET p == [psb[k] EXCEPT !.associated_rsb = TRUE] IN
         /\ p \in Psb /\ p.associated_rsb
         /\ p.prev_hop = psb[k].prev_hop /\ p.is_ingress = psb[k].is_ingress
         /\ p.refresh_timer = psb[k].refresh_timer
         /\ p.cleanup_timer = psb[k].cleanup_timer
         /\ p.mbb_old_lsp_id = psb[k].mbb_old_lsp_id
         /\ p.ifindex_out = psb[k].ifindex_out /\ p.frr_active = psb[k].frr_active
    BY <1>1, PsbFields
  <2>4. psb1[k] = [psb[k] EXCEPT !.associated_rsb = TRUE]
    BY <1>1, <2>2 DEF TypeOK
  <2>5. psb1 \in [Keys -> Psb] /\ \A j \in Keys \ {k} : psb1[j] = psb[j]
    BY <1>1, <2>2, <2>3 DEF TypeOK
  <2>. HIDE DEF psb1
  <2>. QED  BY <2>3, <2>4, <2>5
<1>5. PICK t \in IF arms THEN rsvp_frr_auto_associate_all(k, psb1, have, rsb1)
                 ELSE {psb1},
           D \in IF is_new /\ psb[k].mbb_old_lsp_id # NoLsp
                 THEN mbb_victims(k) ELSE {{}},
           r \in Routes :
           LET R == rsbs_of(D) IN
           /\ psbs' = psbs \ D
           /\ psb' = psb_delete_all(
                        [t EXCEPT ![k].mbb_old_lsp_id = mbb_flag_after(k)], D)
           /\ rsbs' = have \ R
           /\ rsb' = rsb_delete_all(rsb1, R)
           /\ labels' = labels_free(labels1, R)
           /\ swap' = swap_remove(swap1, R)
           /\ push' = push_remove(push1, R)
           /\ sent' = out \cup UNION {propagate_path_tear(o, r) : o \in D}
  BY DEF resv_installed
<1>6. /\ t \in [Keys -> Psb]
      /\ \A j \in Keys : /\ SamePsb(t[j], psb1[j])
                         /\ t[j].ifindex_out = psb1[j].ifindex_out
                         /\ t[j].frr_active = psb1[j].frr_active
  <2>1. t \in rsvp_frr_auto_associate_all(k, psb1, have, rsb1) \/ t = psb1
    BY <1>5
  <2>2. psb1 \in [Keys -> Psb]
    BY <1>4
  <2>. HIDE DEF psb1, rsb1, have
  <2>3. CASE t \in rsvp_frr_auto_associate_all(k, psb1, have, rsb1)
    BY <2>2, <2>3, AutoAssociateAll
  <2>4. CASE t = psb1
    BY <2>2, <2>4 DEF SamePsb
  <2>. QED  BY <2>1, <2>3, <2>4
<1>. DEFINE u == [t EXCEPT ![k].mbb_old_lsp_id = mbb_flag_after(k)]
<1>7. /\ u \in [Keys -> Psb]
      /\ \A j \in Keys \ {k} : u[j] = t[j]
      /\ u[k].prev_hop = t[k].prev_hop /\ u[k].is_ingress = t[k].is_ingress
      /\ u[k].refresh_timer = t[k].refresh_timer
      /\ u[k].cleanup_timer = t[k].cleanup_timer
      /\ u[k].associated_rsb = t[k].associated_rsb
      /\ u[k].ifindex_out = t[k].ifindex_out /\ u[k].frr_active = t[k].frr_active
      /\ u[k].mbb_old_lsp_id = mbb_flag_after(k)
  <2>1. mbb_flag_after(k) \in LspIds \cup {NoLsp}
    BY <1>1 DEF mbb_flag_after, Psb
  <2>2. t[k] \in Psb
    BY <1>1, <1>6
  <2>3. LET p == [t[k] EXCEPT !.mbb_old_lsp_id = mbb_flag_after(k)] IN
        /\ p \in Psb
        /\ p.prev_hop = t[k].prev_hop /\ p.is_ingress = t[k].is_ingress
        /\ p.refresh_timer = t[k].refresh_timer
        /\ p.cleanup_timer = t[k].cleanup_timer
        /\ p.associated_rsb = t[k].associated_rsb
        /\ p.ifindex_out = t[k].ifindex_out /\ p.frr_active = t[k].frr_active
        /\ p.mbb_old_lsp_id = mbb_flag_after(k)
    BY <2>1, <2>2, PsbFields
  <2>4. u[k] = [t[k] EXCEPT !.mbb_old_lsp_id = mbb_flag_after(k)]
    BY <1>1, <1>6
  <2>5. u \in [Keys -> Psb] /\ \A j \in Keys \ {k} : u[j] = t[j]
    BY <1>1, <1>6, <2>3
  <2>. HIDE DEF u
  <2>. QED  BY <2>3, <2>4, <2>5
<1>8. D \subseteq psbs /\ k \notin D /\ MbbTaken(k, D)
  <2>1. CASE is_new /\ psb[k].mbb_old_lsp_id # NoLsp
    <3>1. D \in mbb_victims(k)
      BY <1>5, <2>1
    <3>2. MbbTaken(k, D)
      BY <2>1, <3>1 DEF mbb_victims, MbbTaken
    <3>. QED  BY <2>1, <3>1, <3>2, Victims DEF Inv, MbbApart
  <2>2. CASE ~ (is_new /\ psb[k].mbb_old_lsp_id # NoLsp)
    BY <1>5, <2>2 DEF MbbTaken
  <2>. QED  BY <2>1, <2>2
<1>9. rsbs_of(D) = D \cap rsbs
  BY RsbsOf DEF Inv
<1>. HIDE DEF u, psb1, rsb1, q, arms
<1>10. \A j \in D : psb'[j] = Psb0 /\ rsb'[j] = Rsb0
  <2>1. ASSUME NEW j \in D PROVE psb'[j] = Psb0 /\ rsb'[j] = Rsb0
    <3>1. j \in Keys /\ j # k
      BY <1>1, <1>8 DEF TypeOK
    <3>2. psb'[j] = Psb0
      BY <1>5, <1>7, <3>1, PsbDeleted DEF u
    <3>3. j \notin rsbs => rsb1[j] = Rsb0
      BY <1>3, <3>1 DEF Inv, Blank
    <3>4. rsb'[j] = Rsb0
      BY <1>5, <1>9, <3>1, <3>3 DEF rsb_delete_all
    <3>. QED  BY <3>2, <3>4
  <2>. QED  BY <2>1
<1>11. \A j \in Keys \ D : /\ SamePsb(psb'[j], u[j]) /\ rsb'[j] = rsb1[j]
                           /\ psb'[j].ifindex_out = u[j].ifindex_out
                           /\ psb'[j].frr_active = u[j].frr_active
  BY <1>5, <1>7, <1>9, PsbDeleted DEF u, rsb_delete_all
<1>12. mbb_flag_after(k) = IF k \in rsbs THEN psb[k].mbb_old_lsp_id ELSE NoLsp
  BY DEF mbb_flag_after
<1>13. \A j \in Keys \ D :
          /\ j # k => SamePsb(psb'[j], psb[j]) /\ rsb'[j] = rsb[j]
          /\ psb'[j].ifindex_out = psb[j].ifindex_out
          /\ psb'[j].frr_active = psb[j].frr_active
  BY <1>3, <1>4, <1>6, <1>7, <1>11 DEF SamePsb
<1>14. /\ psb'[k].prev_hop = psb[k].prev_hop /\ psb'[k].is_ingress = psb[k].is_ingress
       /\ psb'[k].refresh_timer = psb[k].refresh_timer
       /\ psb'[k].cleanup_timer = psb[k].cleanup_timer
       /\ psb'[k].associated_rsb
       /\ psb'[k].mbb_old_lsp_id = mbb_flag_after(k)
       /\ rsb'[k] = q
  BY <1>1, <1>3, <1>4, <1>6, <1>7, <1>8, <1>11 DEF SamePsb
<1>15. /\ labels' = labels1 \ Freed(D)
       /\ \A l \in Labels : swap'[l] = IF l \in Freed(D) THEN NoEntry ELSE swap1[l]
       /\ \A d \in Dests : push'[d] = IF d \in FreedDests(D) THEN NoEntry
                                      ELSE push1[d]
  BY <1>5, <1>9 DEF labels_free, swap_remove, push_remove, Freed, FreedDests
<1>16. psbs' = psbs \ D /\ rsbs' = (rsbs \cup {k}) \ D
  BY <1>5, <1>8, <1>9
<1>17. InstalledParts(k, q, labels1, swap1, push1, D)
  BY <1>8, <1>10, <1>12, <1>13, <1>14, <1>15, <1>16 DEF InstalledParts
<1>. QED  BY <1>8, <1>17 DEF q

\* The label of an RSB is taken.
LEMMA LabelIsTaken ==
    ASSUME Inv, NEW k \in rsbs, rsb[k].label_in # 0
    PROVE  rsb[k].label_in \in labels
BY DEF Inv, LabelsOwned, in_labels

\* send_resv_upstream gives the RSB a label if it has none.
LEMMA UpstreamDoes ==
    ASSUME Inv, NEW k \in rsbs, NEW new \in Rsb, new.label_in = rsb[k].label_in,
           send_resv_upstream(k, new)
    PROVE  /\ OtherRsbs(k)
           /\ LabelKept(k) \/ LabelTaken(k)
           /\ EntryOf(rsb'[k]) = EntryOf(new) /\ rsb'[k].flowspec = new.flowspec
           /\ rsb'[k].associated_psb = new.associated_psb
           /\ rsb'[k].refresh_timer = new.refresh_timer
           /\ rsb'[k].cleanup_timer = new.cleanup_timer
<1>1. PICK l \in label_in_or_alloc(k) :
         /\ rsb' = [rsb EXCEPT ![k] = [new EXCEPT !.label_in = l]]
         /\ labels' = labels \cup ({l} \ {0})
  BY DEF send_resv_upstream
<1>2. k \in Keys /\ TypeOK
  BY DEF Inv, TypeOK
<1>3. /\ l \in Labels \cup {0}
      /\ rsb[k].label_in # 0 => l = rsb[k].label_in
      /\ rsb[k].label_in = 0 => l = 0 \/ l \in Labels \ labels
  BY <1>2, LabelFound
<1>4. rsb'[k] = [new EXCEPT !.label_in = l] /\ OtherRsbs(k)
  BY <1>1, <1>2, OneWrite
<1>5. /\ rsb'[k].label_in = l
      /\ EntryOf(rsb'[k]) = EntryOf(new) /\ rsb'[k].flowspec = new.flowspec
      /\ rsb'[k].associated_psb = new.associated_psb
      /\ rsb'[k].refresh_timer = new.refresh_timer
      /\ rsb'[k].cleanup_timer = new.cleanup_timer
  BY <1>3, <1>4, RsbFields
<1>6. LabelKept(k) \/ LabelTaken(k)
  <2>1. CASE rsb[k].label_in # 0
    BY <1>1, <1>3, <1>5, <2>1, LabelIsTaken DEF LabelKept
  <2>2. CASE rsb[k].label_in = 0 /\ l = 0
    BY <1>1, <1>5, <2>2 DEF LabelKept
  <2>3. CASE rsb[k].label_in = 0 /\ l \in Labels \ labels
    BY <1>1, <1>5, <2>3, DbAssumption DEF LabelTaken
  <2>. QED  BY <1>3, <2>1, <2>2, <2>3
<1>. QED  BY <1>4, <1>5, <1>6

\* handle_resv_message drops the message, writes the RSB alone, or installs it.
LEMMA ResvKind ==
    ASSUME Inv, NEW k \in Keys, handle_resv_message(k)
    PROVE  Quiet \/ ResvSet(k) \/ \E D \in SUBSET psbs : Installed(k, D)
<1>7. ASSUME NEW hop, NEW label, handle_resv_invalid(k, hop, label)
      PROVE  Quiet
  BY <1>7 DEF handle_resv_invalid, Quiet
<1>. SUFFICES ASSUME k \in psbs,
                     NEW hop \in Hops \cup {0}, NEW label \in OutLabels \cup {0},
                     NEW flow \in Flows \cup {Absent},
                     AcceptedResv(k, flow, resv_updated(k, hop, label, flow))
              PROVE  Quiet \/ ResvSet(k) \/ \E D \in SUBSET psbs : Installed(k, D)
  BY <1>7, ResvCases
<1>. DEFINE new == resv_updated(k, hop, label, flow)
<1>t. TypeOK /\ psb[k] \in Psb /\ rsb[k] \in Rsb
  BY DEF Inv, TypeOK
<1>2. /\ new \in Rsb
      /\ new.label_in = rsb[k].label_in
      /\ new.flowspec = resv_flow(k, flow)
      /\ new.associated_psb <=> (rsb[k].associated_psb \/ k \notin rsbs)
      /\ new.cleanup_timer
      /\ new.refresh_timer <=> ~ psb[k].is_ingress
  BY <1>t, ResvUpdated
<1>n. new \in Rsb
  BY <1>2
<1>3. new.associated_psb
  BY <1>2 DEF Inv, Linked
<1>4. ASSUME NEW x \in Rsb, EntryOf(x) = EntryOf(rsb[k])
      PROVE  x.label_out = rsb[k].label_out /\ x.next_hop = rsb[k].next_hop
  BY <1>4 DEF EntryOf
<1>5. resv_changes(k, new) <=> (k \in rsbs => EntryOf(new) # EntryOf(rsb[k]))
  BY <1>2, <1>4 DEF resv_changes, EntryOf
<1>6. rsb[k].label_in \in Labels \cup {0} /\ resv_flow(k, flow) \in Flows \cup {0}
  BY <1>t DEF Rsb, resv_flow
<1>. HIDE DEF new
<1>8. CASE handle_resv_blockaded(k, flow)
  <2>1. CASE k \in rsbs
    <3>1. rsb' = [rsb EXCEPT ![k] = [rsb[k] EXCEPT !.flowspec = resv_flow(k, flow)]]
      BY <1>8, <2>1 DEF handle_resv_blockaded
    <3>2. /\ rsb'[k] = [rsb[k] EXCEPT !.flowspec = resv_flow(k, flow)]
          /\ OtherRsbs(k)
      BY <1>t, <3>1, OneWrite
    <3>3. /\ EntryOf(rsb'[k]) = EntryOf(rsb[k]) /\ rsb'[k].label_in = rsb[k].label_in
          /\ rsb'[k].associated_psb = rsb[k].associated_psb
          /\ rsb'[k].refresh_timer = rsb[k].refresh_timer
          /\ rsb'[k].cleanup_timer = rsb[k].cleanup_timer
      BY <1>6, <1>t, <3>2, RsbFields
    <3>4. /\ rsb[k].associated_psb
          /\ is_egress(k) \/ rsb[k].cleanup_timer
          /\ psb[k].is_ingress \/ rsb[k].refresh_timer
      BY <2>1 DEF Inv, Linked, SoftState
    <3>. QED  BY <1>8, <2>1, <3>2, <3>3, <3>4
              DEF handle_resv_blockaded, ResvSet, LabelKept
  <2>2. CASE k \notin rsbs
    BY <1>8, <2>2 DEF handle_resv_blockaded, Quiet
  <2>. QED  BY <2>1, <2>2
<1>9. ASSUME rsb'[k].flowspec = new.flowspec,
             ~ rsvp_is_blockaded(k, resv_flow(k, flow))
      PROVE  Unblocked(k)
  BY <1>2, <1>9 DEF Unblocked, rsvp_is_blockaded
<1>10. CASE /\ resv_changes(k, new)
            /\ ~ rsvp_is_blockaded(k, resv_flow(k, flow))
            /\ handle_resv_transit(k, new)
  <2>1. PICK l \in label_in_or_alloc(k) \ {0} :
           /\ psb[k].prev_hop # 0
           /\ resv_installed(k, new, l, labels \cup {l},
                             swap_install(swap, l, EntryOf(new)), push,
                             resv_out(k, psb[k].prev_hop, l))
    BY <1>10 DEF handle_resv_transit
  <2>2. /\ l \in Labels
        /\ rsb[k].label_in # 0 => l = rsb[k].label_in
        /\ rsb[k].label_in = 0 => l \in Labels \ labels
    BY <1>t, LabelFound
  <2>. DEFINE q == [new EXCEPT !.label_in = l]
  <2>3. /\ q.label_in = l /\ EntryOf(q) = EntryOf(new)
        /\ q.flowspec = new.flowspec /\ q.associated_psb = new.associated_psb
        /\ q.refresh_timer = new.refresh_timer
        /\ q.cleanup_timer = new.cleanup_timer
    <3>1. l \in Labels \cup {0}
      BY <2>2
    <3>. QED  BY <1>n, <3>1, RsbFields
  <2>5. PICK D \in SUBSET psbs :
           InstalledParts(k, q, labels \cup {l},
                          swap_install(swap, l, EntryOf(new)), push, D)
    BY <1>2, <2>1, <2>2, InstalledDoes
  <2>. HIDE DEF q
  <2>6. rsb'[k] = q
    BY <2>5 DEF InstalledParts
  <2>7. Unblocked(k)
    BY <1>9, <1>10, <2>3, <2>6
  <2>8. \A m \in Labels : swap_install(swap, l, EntryOf(new))[m]
                             = IF m = l THEN EntryOf(q) ELSE swap[m]
    BY <1>t, <2>3 DEF swap_install, TypeOK
  <2>9. \A m \in Labels : swap'[m] = IF m \in Freed(D) THEN NoEntry
                                     ELSE IF m = l THEN EntryOf(q) ELSE swap[m]
    BY <2>5, <2>8 DEF InstalledParts
  <2>10. \/ rsb'[k].label_in = rsb[k].label_in /\ rsb[k].label_in # 0
         \/ rsb[k].label_in = 0 /\ rsb'[k].label_in \in Labels \ labels
    BY <2>2, <2>3, <2>6
  <2>11. /\ labels' = (labels \cup {l}) \ Freed(D)
         /\ \A d \in Dests : push'[d] = IF d \in FreedDests(D) THEN NoEntry
                                        ELSE push[d]
    BY <2>5 DEF InstalledParts
  <2>12. /\ rsb'[k].associated_psb /\ rsb'[k].cleanup_timer
         /\ psb[k].is_ingress \/ rsb'[k].refresh_timer
         /\ k \in rsbs => EntryOf(rsb'[k]) # EntryOf(rsb[k])
    BY <1>2, <1>3, <1>5, <1>10, <2>3, <2>6
  <2>13. Installed(k, D)
    BY <2>1, <2>3, <2>5, <2>6, <2>7, <2>9, <2>10, <2>11, <2>12
       DEF Installed, InstalledParts
  <2>. QED  BY <2>13
<1>11. CASE /\ resv_changes(k, new)
            /\ ~ rsvp_is_blockaded(k, resv_flow(k, flow))
            /\ handle_resv_ingress(k, new)
  <2>. DEFINE l == rsb[k].label_in
              q == [new EXCEPT !.label_in = l]
  <2>1. /\ psb[k].prev_hop = 0
        /\ resv_installed(k, new, l, labels, swap,
                          push_install(push, k.dest, EntryOf(new)), {})
    BY <1>11 DEF handle_resv_ingress
  <2>3. /\ q.label_in = l /\ EntryOf(q) = EntryOf(new)
        /\ q.flowspec = new.flowspec /\ q.associated_psb = new.associated_psb
        /\ q.refresh_timer = new.refresh_timer
        /\ q.cleanup_timer = new.cleanup_timer
    BY <1>6, <1>n, RsbFields
  <2>5. PICK D \in SUBSET psbs :
           InstalledParts(k, q, labels, swap,
                          push_install(push, k.dest, EntryOf(new)), D)
    BY <1>2, <1>6, <2>1, InstalledDoes
  <2>. HIDE DEF q
  <2>6. rsb'[k] = q
    BY <2>5 DEF InstalledParts
  <2>7. Unblocked(k)
    BY <1>9, <1>11, <2>3, <2>6
  <2>8. \A d \in Dests : d # k.dest =>
           push_install(push, k.dest, EntryOf(new))[d] = push[d]
    BY <1>t DEF push_install, TypeOK
  <2>9. \A d \in Dests : d # k.dest =>
           push'[d] = IF d \in FreedDests(D) THEN NoEntry ELSE push[d]
    BY <2>5, <2>8 DEF InstalledParts
  <2>11. /\ labels' = labels \ Freed(D)
         /\ \A m \in Labels : swap'[m] = IF m \in Freed(D) THEN NoEntry
                                         ELSE swap[m]
    BY <2>5 DEF InstalledParts
  <2>12. /\ rsb'[k].associated_psb /\ rsb'[k].cleanup_timer
         /\ psb[k].is_ingress \/ rsb'[k].refresh_timer
         /\ k \in rsbs => EntryOf(rsb'[k]) # EntryOf(rsb[k])
    BY <1>2, <1>3, <1>5, <1>11, <2>3, <2>6
  <2>13. Installed(k, D)
    BY <2>1, <2>3, <2>5, <2>6, <2>7, <2>9, <2>11, <2>12
       DEF Installed, InstalledParts
  <2>. QED  BY <2>13
<1>12. CASE /\ ~ rsvp_is_blockaded(k, resv_flow(k, flow))
            /\ handle_resv_no_label(k, new)
  <2>1. CASE k \in rsbs
    <3>1. rsb'[k] = new /\ OtherRsbs(k)
      BY <1>12, <1>t, <2>1, OneWrite DEF handle_resv_no_label
    <3>2. rsb[k].label_in = 0
      BY <1>12 DEF handle_resv_no_label, label_in_or_alloc
    <3>3. Unblocked(k) /\ LabelKept(k)
      BY <1>2, <1>9, <1>12, <3>1 DEF handle_resv_no_label, LabelKept
    <3>4. UNCHANGED <<psbs, psb, rsbs, swap, push>>
      BY <1>12, <2>1 DEF handle_resv_no_label
    <3>. QED  BY <1>2, <1>3, <1>12, <2>1, <3>1, <3>2, <3>3, <3>4
              DEF handle_resv_no_label, ResvSet
  <2>2. CASE k \notin rsbs
    <3>1. \A d \in Dests : push'[d] = push[d] \/ push'[d] = NoEntry
      BY <1>12, <1>t, <2>2 DEF handle_resv_no_label, TypeOK
    <3>. QED  BY <1>12, <2>2, <3>1 DEF handle_resv_no_label, Quiet
  <2>. QED  BY <2>1, <2>2
<1>13. CASE /\ ~ resv_changes(k, new)
            /\ handle_resv_refresh(k, new)
  <2>1. k \in rsbs /\ EntryOf(new) = EntryOf(rsb[k])
    BY <1>5, <1>13
  <2>2. CASE send_resv_upstream(k, new) /\ ~ psb[k].is_ingress
    BY <1>2, <1>3, <1>13, <2>1, <2>2, UpstreamDoes DEF handle_resv_refresh, ResvSet
  <2>3. CASE rsb' = [rsb EXCEPT ![k] = new] /\ UNCHANGED labels
    <3>1. rsb'[k] = new /\ OtherRsbs(k)
      BY <1>t, <2>3, OneWrite
    <3>. QED  BY <1>2, <1>3, <1>13, <2>1, <2>3, <3>1
              DEF handle_resv_refresh, ResvSet, LabelKept
  <2>. QED  BY <1>13, <2>2, <2>3 DEF handle_resv_refresh
<1>. QED  BY <1>3, <1>8, <1>10, <1>11, <1>12, <1>13 DEF AcceptedResv, new

\* rsvp_psb_cleanup takes PSBs down with their RSBs.
LEMMA PsbCleanupKind ==
    ASSUME Inv, NEW D \in SUBSET psbs, rsvp_psb_cleanup(D)
    PROVE  PathsGone(D)
<1>1. rsbs_of(D) = D \cap rsbs
  BY RsbsOf DEF Inv
<1>2. psb \in [Keys -> Psb] /\ D \subseteq Keys
  BY DEF Inv, TypeOK
<1>3. psbs' = psbs \ D /\ rsbs' = rsbs \ D
  BY <1>1 DEF rsvp_psb_cleanup
<1>4. ASSUME NEW j \in D PROVE psb'[j] = Psb0 /\ rsb'[j] = Rsb0
  <2>1. psb'[j] = Psb0
    BY <1>2, PsbDeleted DEF rsvp_psb_cleanup
  <2>2. j \notin rsbs => rsb[j] = Rsb0
    BY <1>2 DEF Inv, Blank
  <2>3. rsb'[j] = Rsb0
    BY <1>1, <1>2, <2>2 DEF rsvp_psb_cleanup, rsb_delete_all
  <2>. QED  BY <2>1, <2>3
<1>5. \A j \in Keys \ D : /\ SamePsb(psb'[j], psb[j]) /\ rsb'[j] = rsb[j]
                          /\ psb'[j].ifindex_out = psb[j].ifindex_out
                          /\ psb'[j].frr_active = psb[j].frr_active
  BY <1>1, <1>2, PsbDeleted DEF rsvp_psb_cleanup, rsb_delete_all
<1>6. /\ labels' = labels \ Freed(D)
      /\ \A l \in Labels : swap'[l] = IF l \in Freed(D) THEN NoEntry ELSE swap[l]
      /\ \A d \in Dests : push'[d] = IF d \in FreedDests(D) THEN NoEntry ELSE push[d]
  BY <1>1 DEF rsvp_psb_cleanup, labels_free, swap_remove, push_remove, Freed, FreedDests
<1>. QED  BY <1>3, <1>4, <1>5, <1>6 DEF PathsGone

\* rsvp_rsb_cleanup takes an RSB down, and the caller sends a ResvTear.
LEMMA RsbCleanupKind ==
    ASSUME Inv, NEW k \in rsbs, rsvp_rsb_cleanup(k), sent' = propagate_resv_tear(k)
    PROVE  ResvGone(k)
<1>1. k \in Keys /\ {k} \cap rsbs = {k} /\ rsb[k].associated_psb
  BY DEF Inv, TypeOK, Linked
<1>2. psb' = [psb EXCEPT ![k] = [psb[k] EXCEPT !.associated_rsb = FALSE]]
  BY <1>1 DEF rsvp_rsb_cleanup
<1>3. psb'[k] = [psb[k] EXCEPT !.associated_rsb = FALSE] /\ OtherPsbs(k)
  BY <1>1, <1>2, OneWrite DEF Inv
<1>4. rsbs' = rsbs \ {k} /\ rsb'[k] = Rsb0 /\ OtherRsbs(k)
  BY <1>1 DEF rsvp_rsb_cleanup, rsb_delete_all, OtherRsbs
<1>5. /\ labels' = labels \ Freed({k})
      /\ \A l \in Labels : swap'[l] = IF l \in Freed({k}) THEN NoEntry ELSE swap[l]
      /\ \A d \in Dests : push'[d] = IF d \in FreedDests({k}) THEN NoEntry ELSE push[d]
  BY <1>1 DEF rsvp_rsb_cleanup, labels_free, swap_remove, push_remove, Freed, FreedDests
<1>6. ~ psb[k].is_ingress /\ psb[k].prev_hop # 0 =>
         Msg("RESVTEAR", k, psb[k].prev_hop, 0) \in sent'
  BY <1>1 DEF propagate_resv_tear
<1>7. UNCHANGED psbs
  BY DEF rsvp_rsb_cleanup
<1>. QED  BY <1>3, <1>4, <1>5, <1>6, <1>7 DEF ResvGone

\* The tear and error messages remove blocks or leave them alone.
LEMMA TearKind ==
    ASSUME Inv, NEW k \in Keys,
           \/ handle_path_tear(k) \/ handle_resv_tear(k)
           \/ handle_path_err(k) \/ handle_resv_err(k)
    PROVE  Kind
<1>1. CASE handle_path_tear(k)
  <2>1. rsvp_psb_cleanup({k} \cap psbs)
    BY <1>1 DEF handle_path_tear
  <2>2. PathsGone({k} \cap psbs)
    BY <2>1, PsbCleanupKind
  <2>. QED  BY <2>2 DEF Kind
<1>2. CASE handle_resv_tear(k)
  <2>1. CASE k \in rsbs
    BY <1>2, <2>1, RsbCleanupKind DEF handle_resv_tear, Kind
  <2>2. CASE k \notin rsbs
    BY <1>2, <2>2 DEF handle_resv_tear, Kind, Quiet
  <2>. QED  BY <2>1, <2>2
<1>3. CASE handle_path_err(k)
  BY <1>3 DEF handle_path_err, Kind, Quiet
<1>4. CASE handle_resv_err(k)
  BY <1>4 DEF handle_resv_err, Kind, Quiet
<1>. QED  BY <1>1, <1>2, <1>3, <1>4

\* Writing a PSB that exists, where the properties do not look.
LEMMA SamePath ==
    ASSUME Inv, NEW k \in psbs, SamePsb(psb'[k], psb[k]),
           psb'[k].frr_active = psb[k].frr_active,
           OtherPsbs(k), psbs' = psbs,
           UNCHANGED <<rsbs, rsb, labels, swap, push>>
    PROVE  PathSet(k)
<1>1. psb[k].refresh_timer /\ (psb[k].is_ingress \/ psb[k].cleanup_timer)
  BY DEF Inv, SoftState
<1>2. PsbWritten(k)
  BY <1>1 DEF PsbWritten, SamePsb
<1>. QED  BY <1>2 DEF PathSet, SamePsb

\* The timer callbacks refresh, or remove blocks.
LEMMA TimerKind ==
    ASSUME Inv, NEW k \in Keys, TimerFires(k)
    PROVE  Kind
<1>t. TypeOK /\ psb[k] \in Psb /\ rsb[k] \in Rsb
  BY DEF Inv, TypeOK
<1>1. CASE bsb_cleanup_timer_cb(k)
  BY <1>1 DEF bsb_cleanup_timer_cb, Kind, Quiet
<1>2. CASE psb_refresh_timer_cb(k)
  <2>1. PICK r \in Routes :
           IF psb[k].is_ingress \/ ~ is_egress(k)
           THEN psb' = [psb EXCEPT ![k] = path_sent(psb[k], r)]
           ELSE UNCHANGED psb
    BY <1>2 DEF psb_refresh_timer_cb
  <2>2. CASE psb[k].is_ingress \/ ~ is_egress(k)
    <3>1. psb'[k] = path_sent(psb[k], r) /\ OtherPsbs(k)
      BY <1>t, <2>1, <2>2, OneWrite
    <3>2. SamePsb(psb'[k], psb[k]) /\ psb'[k].frr_active = psb[k].frr_active
      BY <1>t, <3>1, PathSent
    <3>3. k \in psbs /\ UNCHANGED <<psbs, rsbs, rsb, labels, swap, push>>
      BY <1>2 DEF psb_refresh_timer_cb
    <3>4. PathSet(k)
      BY <3>1, <3>2, <3>3, SamePath
    <3>. QED  BY <3>4 DEF Kind
  <2>3. CASE ~ (psb[k].is_ingress \/ ~ is_egress(k))
    BY <1>2, <2>1, <2>3 DEF psb_refresh_timer_cb, Kind, Quiet
  <2>. QED  BY <2>2, <2>3
<1>3. CASE psb_cleanup_timer_cb(k)
  <2>1. k \in psbs /\ rsvp_psb_cleanup({k})
    BY <1>3 DEF psb_cleanup_timer_cb
  <2>2. {k} \in SUBSET psbs
    BY <2>1
  <2>. QED  BY <2>1, <2>2, PsbCleanupKind DEF Kind
<1>4. CASE rsb_refresh_timer_cb(k)
  <2>1. k \in rsbs /\ UNCHANGED <<psbs, psb, rsbs, swap, push>>
    BY <1>4 DEF rsb_refresh_timer_cb
  <2>2. /\ rsb[k].associated_psb
        /\ is_egress(k) \/ rsb[k].cleanup_timer
        /\ psb[k].is_ingress \/ rsb[k].refresh_timer
    BY <2>1 DEF Inv, Linked, SoftState
  <2>3. CASE send_resv_upstream(k, rsb[k]) /\ ~ psb[k].is_ingress
    BY <1>t, <2>1, <2>2, <2>3, UpstreamDoes DEF ResvSet, Kind
  <2>4. CASE UNCHANGED <<rsb, labels>>
    BY <2>1, <2>4 DEF Kind, Quiet
  <2>. QED  BY <1>4, <2>3, <2>4 DEF rsb_refresh_timer_cb
<1>5. CASE rsb_cleanup_timer_cb(k)
  BY <1>5, RsbCleanupKind DEF rsb_cleanup_timer_cb, Kind
<1>. QED  BY <1>1, <1>2, <1>3, <1>4, <1>5 DEF TimerFires

\* A path that begins here.
LEMMA StartedKind ==
    ASSUME Inv, NEW k \in Keys \ psbs, NEW new \in Psb, OwnPsb(new), k.src \in OwnSrcs,
           new.mbb_old_lsp_id # NoLsp => new.mbb_old_lsp_id # k.lsp,
           NEW r \in Routes, psb_started(k, new, r)
    PROVE  PathSet(k)
<1>1. psb'[k] = path_sent(new, r) /\ OtherPsbs(k)
  BY OneWrite DEF psb_started, Inv
<1>2. SamePsb(psb'[k], new) /\ psb'[k].frr_active = new.frr_active
  BY <1>1, PathSent
<1>4. psb[k].frr_active = FALSE /\ psb[k].associated_rsb = FALSE /\ psb[k].prev_hop = 0
  BY DEF Inv, Blank, BlankPsb
<1>5. new.frr_active = FALSE /\ new.associated_rsb = FALSE
  BY DEF OwnPsb, Psb
<1>6. PsbWritten(k)
  BY <1>2, <1>4, <1>5 DEF PsbWritten, OwnPsb, SamePsb
<1>. QED  BY <1>1, <1>2, <1>4, <1>5, <1>6 DEF PathSet, psb_started, SamePsb

\* The commands of the CLI start an LSP or remove one.
LEMMA CommandKind ==
    ASSUME Inv, Command
    PROVE  Kind
<1>1. ASSUME NEW d \in Dests, NEW t \in Tids, NEW s \in OwnSrcs,
             rsvp_initiate_path(d, t, s)
      PROVE  Kind
  <2>. DEFINE k == [dest |-> d, tid |-> t, src |-> s, lsp |-> next_lsp_id]
  <2>1. PICK frr \in FrrRequests, r \in Routes :
          /\ k \in Keys
          /\ psb_started(k, IF k \in psbs THEN psb[k]
                            ELSE IngressPsb(frr = "facility"), r)
    BY <1>1 DEF rsvp_initiate_path, IngressPsb
  <2>2. k.src \in OwnSrcs
    OBVIOUS
  <2>. HIDE DEF k
  <2>3. CASE k \in psbs
    <3>1. psb_started(k, psb[k], r) /\ psb[k] \in Psb
      BY <2>1, <2>3 DEF Inv, TypeOK
    <3>2. psb'[k] = path_sent(psb[k], r) /\ OtherPsbs(k)
      BY <2>1, <3>1, OneWrite DEF psb_started, Inv
    <3>3. SamePsb(psb'[k], psb[k]) /\ psb'[k].frr_active = psb[k].frr_active
      BY <3>1, <3>2, PathSent
    <3>4. psbs' = psbs /\ UNCHANGED <<rsbs, rsb, labels, swap, push>>
      BY <2>3, <3>1 DEF psb_started
    <3>5. PathSet(k)
      BY <2>3, <3>2, <3>3, <3>4, SamePath
    <3>. QED  BY <2>1, <3>5 DEF Kind
  <2>4. CASE k \notin psbs
    <3>. DEFINE f == frr = "facility"
    <3>1. psb_started(k, IngressPsb(f), r)
      BY <2>1, <2>4
    <3>2. f \in BOOLEAN
      OBVIOUS
    <3>. HIDE DEF f
    <3>3. /\ IngressPsb(f) \in Psb /\ OwnPsb(IngressPsb(f))
          /\ IngressPsb(f).mbb_old_lsp_id = NoLsp
      BY <3>2, OwnPsbs
    <3>4. PathSet(k)
      BY <2>1, <2>2, <2>4, <3>1, <3>3, StartedKind
    <3>. QED  BY <2>1, <3>4 DEF Kind
  <2>. QED  BY <2>3, <2>4
<1>2. ASSUME NEW d \in Dests, NEW t \in BypassTids, NEW s \in OwnSrcs, NEW i \in Ifs,
             rsvp_initiate_bypass_tunnel(d, t, s, i)
      PROVE  Kind
  <2>. DEFINE k == [dest |-> d, tid |-> t, src |-> s, lsp |-> next_lsp_id]
  <2>1. CASE k \in psbs
    BY <1>2, <2>1 DEF rsvp_initiate_bypass_tunnel, Kind, Quiet
  <2>2. CASE k \notin psbs
    <3>1. PICK r \in Routes : k \in Keys /\ psb_started(k, BypassPsb(i), r)
      BY <1>2, <2>2 DEF rsvp_initiate_bypass_tunnel, BypassPsb
    <3>2. k.src \in OwnSrcs
      OBVIOUS
    <3>. HIDE DEF k
    <3>3. /\ BypassPsb(i) \in Psb /\ OwnPsb(BypassPsb(i))
          /\ BypassPsb(i).mbb_old_lsp_id = NoLsp
      BY OwnPsbs
    <3>4. PathSet(k)
      BY <2>2, <3>1, <3>2, <3>3, StartedKind
    <3>. QED  BY <3>1, <3>4 DEF Kind
  <2>. QED  BY <2>1, <2>2
<1>3. ASSUME NEW t \in Tids, NEW o \in LspIds, rsvp_teardown_path(t, o)
      PROVE  Kind
  <2>1. PICK k \in rsvp_psb_find_by_id(t, o) : rsvp_psb_cleanup({k})
    BY <1>3 DEF rsvp_teardown_path
  <2>2. {k} \in SUBSET psbs
    BY DEF rsvp_psb_find_by_id
  <2>. QED  BY <2>1, <2>2, PsbCleanupKind DEF Kind
<1>4. ASSUME NEW t \in Tids, NEW o \in LspIds, NEW n \in LspIds,
             rsvp_mbb_start(t, o, n)
      PROVE  Kind
  <2>1. PICK old \in rsvp_psb_find_by_id(t, o), r \in Routes :
           LET k == [old EXCEPT !.lsp = n] IN
           /\ psb[old].is_ingress
           /\ k \in Keys \ psbs
           /\ psb_started(k, MbbPsb(psb[old].facility, o), r)
    BY <1>4 DEF rsvp_mbb_start, MbbPsb
  <2>. DEFINE k == [old EXCEPT !.lsp = n]
  <2>2. old \in psbs /\ old \in Keys /\ old.lsp = o
    BY DEF rsvp_psb_find_by_id, Inv, TypeOK
  <2>3. old = [dest |-> old.dest, tid |-> old.tid, src |-> old.src, lsp |-> old.lsp]
    BY <2>2, DbAssumption
  <2>4. k.src = old.src /\ k.lsp = n
    BY <2>3
  <2>5. k.src \in OwnSrcs
    BY <2>1, <2>2, <2>4 DEF Inv, Origin
  <2>6. n # o
    <3>1. ASSUME n = o PROVE k = old
      BY <2>2, <2>3, <3>1
    <3>. QED  BY <2>1, <2>2, <3>1
  <2>7. psb[old].facility \in BOOLEAN
    BY <2>2 DEF Inv, TypeOK, Psb
  <2>8. /\ MbbPsb(psb[old].facility, o) \in Psb
        /\ OwnPsb(MbbPsb(psb[old].facility, o))
        /\ MbbPsb(psb[old].facility, o).mbb_old_lsp_id = o
    BY <2>7, OwnPsbs
  <2>9. k \in Keys \ psbs /\ psb_started(k, MbbPsb(psb[old].facility, o), r)
    BY <2>1
  <2>. HIDE DEF k
  <2>10. PathSet(k)
    BY <2>4, <2>5, <2>6, <2>8, <2>9, StartedKind
  <2>. QED  BY <2>9, <2>10 DEF Kind
<1>. QED  BY <1>1, <1>2, <1>3, <1>4 DEF Command

\* The fast-reroute operations switch LSPs to their bypass and back, or ask for
\* protection.
LEMMA FrrKind ==
    ASSUME Inv, Frr
    PROVE  Kind
<1>t. TypeOK
  BY DEF Inv
<1>1. ASSUME NEW i \in Ifs \cup {0}, rsvp_frr_trigger(i) PROVE Kind
  <2>1. PICK W \in SUBSET frr_protected(i) :
           /\ \A j \in Keys \ W : psb'[j] = psb[j]
           /\ \A j \in W : SamePsb(psb'[j], psb[j]) /\ psb'[j].frr_active = TRUE
           /\ \A l \in Labels :
                 (\A k \in W \cap rsbs : rsb[k].label_in # l) => swap'[l] = swap[l]
           /\ \A d \in Dests : push'[d] # push[d] =>
                 \E k \in W \cap rsbs : rsb[k].label_in = 0 /\ k.dest = d
           /\ UNCHANGED <<psbs, rsbs, rsb, bsbs, bsb, labels, next_lsp_id>>
    BY <1>1, <1>t, Triggered
  <2>2. W \subseteq psbs /\ \A j \in W : ~ psb[j].frr_active
    BY DEF frr_protected
  <2>3. \A j \in W : psb[j].frr_active = FALSE
    BY <1>t, <2>2 DEF TypeOK, Psb
  <2>4. Trigger(W)
    BY <2>1, <2>3 DEF Trigger, Switch
  <2>. QED  BY <2>2, <2>4 DEF Kind
<1>2. ASSUME NEW i \in Ifs \cup {0}, rsvp_frr_revert(i) PROVE Kind
  <2>1. PICK W \in SUBSET {k \in psbs \cap rsbs : psb[k].frr_active} :
           /\ \A j \in Keys \ W : psb'[j] = psb[j]
           /\ \A j \in W : SamePsb(psb'[j], psb[j]) /\ psb'[j].frr_active = FALSE
           /\ \A l \in Labels :
                 (\A k \in W : rsb[k].label_in # l) => swap'[l] = swap[l]
           /\ \A l \in Labels : (\E k \in W : rsb[k].label_in = l) =>
                 \E k \in W : rsb[k].label_in = l /\ swap'[l] = EntryOf(rsb[k])
           /\ \A d \in Dests : push'[d] # push[d] =>
                 \E k \in W : rsb[k].label_in = 0 /\ k.dest = d
           /\ UNCHANGED <<psbs, rsbs, rsb, bsbs, bsb, labels, next_lsp_id>>
    BY <1>2, <1>t, Reverted
  <2>2. W \subseteq psbs /\ W \subseteq rsbs /\ W \cap rsbs = W
    OBVIOUS
  <2>3. \A j \in W : psb[j].frr_active = TRUE
    BY <1>t, <2>1 DEF TypeOK, Psb
  <2>4. Switch(W, FALSE)
    BY <2>1, <2>2, <2>3 DEF Switch
  <2>5. Revert(W)
    BY <2>1, <2>2, <2>4 DEF Revert
  <2>. QED  BY <2>2, <2>5 DEF Kind
<1>3. ASSUME NEW t, NEW o, NEW mode, NEW b,
             rsvp_frr_enable_protection(t, o, mode, b)
      PROVE  Kind
  <2>1. PICK k \in psbs : /\ SamePsb(psb'[k], psb[k])
                          /\ psb'[k].ifindex_out = psb[k].ifindex_out
                          /\ psb'[k].frr_active = psb[k].frr_active
                          /\ \A j \in Keys \ {k} : psb'[j] = psb[j]
    BY <1>3, <1>t, Enabled
  <2>2. UNCHANGED <<psbs, rsbs, rsb, labels, swap, push>>
    BY <1>3, <1>t, Enabled
  <2>3. PathSet(k)
    BY <2>1, <2>2, SamePath DEF OtherPsbs
  <2>4. k \in Keys
    BY <1>t DEF TypeOK
  <2>. QED  BY <2>3, <2>4 DEF Kind
<1>. QED  BY <1>1, <1>2, <1>3 DEF Frr

\* Every step is of one of the kinds.
LEMMA StepKinds ==
    ASSUME Inv, [Next]_vars
    PROVE  Kind
<1>t. TypeOK /\ TypeOK'
  BY TypeStep DEF Inv
<1>1. ASSUME NEW k \in Keys, Receive(k) PROVE Kind
  <2>1. CASE handle_path_message(k)
    BY <1>t, <2>1, PathKind DEF Kind
  <2>2. CASE handle_resv_message(k)
    BY <2>2, ResvKind DEF Kind
  <2>. QED  BY <1>1, <2>1, <2>2, TearKind DEF Receive
<1>2. ASSUME NEW k \in Keys, TimerFires(k) PROVE Kind
  BY <1>2, TimerKind
<1>3. CASE rsvp_state_machine_shutdown
  BY <1>3, PsbCleanupKind DEF rsvp_state_machine_shutdown, shutdown_cleanup, Kind
<1>4. CASE UNCHANGED vars
  BY <1>4 DEF vars, Kind, Quiet
<1>. QED  BY <1>1, <1>2, <1>3, <1>4, CommandKind, FrrKind DEF Next

-----------------------------------------------------------------------------
(* The invariant, part by part and kind by kind.                           *)

\* A block that has been freed reads as a fresh one.
LEMMA Psb0Blank == BlankPsb(Psb0) /\ Rsb0.label_in = 0
BY DEF BlankPsb, Psb0, Rsb0

\* The node starts with empty tables, so it starts in the invariant.
LEMMA InitInv == Init => Inv
<1>. SUFFICES ASSUME Init PROVE Inv
  OBVIOUS
<1>1. TypeOK
  BY TypeInit
<1>2. /\ psbs = {} /\ rsbs = {} /\ bsbs = {} /\ labels = {}
      /\ psb = [k \in Keys |-> Psb0] /\ rsb = [k \in Keys |-> Rsb0]
      /\ swap = [l \in Labels |-> NoEntry]
  BY DEF Init, rsvp_state_db_init
<1>3. LabelsOwned
  BY <1>2 DEF LabelsOwned, in_labels
<1>4. Blank
  BY <1>2, Psb0Blank DEF Blank
<1>. QED
  BY <1>1, <1>2, <1>3, <1>4 DEF Inv, Linked, SwapOwned, Origin, MbbApart,
                                SoftState

\* No handler leaves a trace of a block it has freed.
LEMMA BlankKept ==
    ASSUME Inv, TypeOK', Kind
    PROVE  Blank'
<1>. USE DEF Blank, Inv
<1>1. CASE Quiet
  BY <1>1 DEF Quiet
<1>2. ASSUME NEW k \in Keys, PathSet(k) PROVE Blank'
  BY <1>2 DEF PathSet, OtherPsbs
<1>3. ASSUME NEW k \in Keys, EgressSet(k) PROVE Blank'
  BY <1>3 DEF EgressSet, OtherPsbs, OtherRsbs
<1>4. ASSUME NEW k \in Keys, ResvSet(k) PROVE Blank'
  BY <1>4 DEF ResvSet, OtherRsbs
<1>5. ASSUME NEW k \in Keys, ResvGone(k) PROVE Blank'
  BY <1>5 DEF ResvGone, OtherPsbs, OtherRsbs, Linked
<1>6. ASSUME NEW k \in Keys, NEW D \in SUBSET psbs, Installed(k, D) PROVE Blank'
  <2>1. ASSUME NEW j \in Keys, j \notin psbs' PROVE BlankPsb(psb'[j])
    <3>1. CASE j \in D
      BY <1>6, <3>1, Psb0Blank DEF Installed
    <3>2. CASE j \notin D
      <4>1. j \notin psbs /\ j # k
        BY <1>6, <2>1, <3>2 DEF Installed
      <4>2. /\ SamePsb(psb'[j], psb[j])
            /\ psb'[j].ifindex_out = psb[j].ifindex_out
            /\ psb'[j].frr_active = psb[j].frr_active
        BY <1>6, <3>2, <4>1 DEF Installed
      <4>. QED  BY <4>1, <4>2 DEF SamePsb, BlankPsb
    <3>. QED  BY <3>1, <3>2
  <2>2. ASSUME NEW j \in Keys, j \notin rsbs' PROVE rsb'[j] = Rsb0
    BY <1>6, <2>2 DEF Installed
  <2>. QED  BY <2>1, <2>2
<1>7. ASSUME NEW D \in SUBSET psbs, PathsGone(D) PROVE Blank'
  <2>1. ASSUME NEW j \in Keys, j \notin psbs' PROVE BlankPsb(psb'[j])
    BY <1>7, <2>1, Psb0Blank DEF PathsGone, SamePsb, BlankPsb
  <2>2. ASSUME NEW j \in Keys, j \notin rsbs' PROVE rsb'[j] = Rsb0
    BY <1>7, <2>2 DEF PathsGone
  <2>. QED  BY <2>1, <2>2
<1>8. ASSUME NEW W \in SUBSET psbs, NEW a, Switch(W, a) PROVE Blank'
  BY <1>8 DEF Switch
<1>. QED  BY <1>1, <1>2, <1>3, <1>4, <1>5, <1>6, <1>7, <1>8 DEF Kind, Trigger, Revert

\* A PSB and its RSB come, point at each other and go together.
LEMMA LinkedKept ==
    ASSUME Inv, TypeOK', Kind
    PROVE  Linked'
<1>. USE DEF Linked, Inv
<1>1. CASE Quiet
  BY <1>1 DEF Quiet
<1>2. ASSUME NEW k \in Keys, PathSet(k) PROVE Linked'
  BY <1>2 DEF PathSet, OtherPsbs, Blank, BlankPsb, TypeOK
<1>3. ASSUME NEW k \in Keys, EgressSet(k) PROVE Linked'
  BY <1>3 DEF EgressSet, OtherPsbs, OtherRsbs, TypeOK
<1>4. ASSUME NEW k \in Keys, ResvSet(k) PROVE Linked'
  BY <1>4 DEF ResvSet, OtherRsbs, TypeOK
<1>5. ASSUME NEW k \in Keys, ResvGone(k) PROVE Linked'
  <2>1. psb[k] \in Psb
    BY DEF TypeOK
  <2>2. psb'[k].associated_rsb = FALSE
    BY <1>5, <2>1, PsbFields DEF ResvGone
  <2>. QED  BY <1>5, <2>2 DEF ResvGone, OtherPsbs, OtherRsbs, TypeOK
<1>6. ASSUME NEW k \in Keys, NEW D \in SUBSET psbs, Installed(k, D) PROVE Linked'
  <2>1. ASSUME NEW j \in rsbs', j # k
        PROVE  j \in psbs' /\ rsb'[j].associated_psb /\ psb'[j].associated_rsb
    BY <1>6, <2>1 DEF Installed, SamePsb, TypeOK
  <2>2. k \in psbs' /\ rsb'[k].associated_psb /\ psb'[k].associated_rsb /\ k \in rsbs'
    BY <1>6 DEF Installed
  <2>3. ASSUME NEW j \in psbs', j # k, psb'[j].associated_rsb PROVE j \in rsbs'
    BY <1>6, <2>3 DEF Installed, SamePsb, TypeOK
  <2>. QED  BY <2>1, <2>2, <2>3
<1>7. ASSUME NEW D \in SUBSET psbs, PathsGone(D) PROVE Linked'
  BY <1>7 DEF PathsGone, SamePsb, TypeOK
<1>8. ASSUME NEW W \in SUBSET psbs, NEW a, Switch(W, a) PROVE Linked'
  BY <1>8 DEF Switch, SamePsb, TypeOK
<1>. QED  BY <1>1, <1>2, <1>3, <1>4, <1>5, <1>6, <1>7, <1>8 DEF Kind, Trigger, Revert

\* The labels that are given back when the PSBs D go, and the RSBs that keep
\* theirs: no RSB that stays loses its label.
LEMMA FreedLabels ==
    ASSUME Inv, NEW D
    PROVE  /\ \A l : l \in Freed(D) <=> l # 0 /\ \E j \in D \cap rsbs : rsb[j].label_in = l
           /\ \A j \in rsbs \ D : rsb[j].label_in \notin Freed(D)
           /\ \A j \in rsbs \ D : rsb[j].label_in # 0 => rsb[j].label_in \in labels
<1>1. \A l : l \in Freed(D) <=> l # 0 /\ \E j \in D \cap rsbs : rsb[j].label_in = l
  BY DEF Freed, in_labels
<1>2. \A j \in rsbs \ D : rsb[j].label_in \notin Freed(D)
  BY <1>1 DEF Inv, LabelsOwned
<1>. QED  BY <1>1, <1>2 DEF Inv, LabelsOwned, in_labels

\* How the tables of labels and RSBs decide LabelsOwned.
LEMMA LabelsOwnedBy ==
    ASSUME \A l : l \in labels' <=> l # 0 /\ \E j \in rsbs' : rsb'[j].label_in = l,
           \A i, j \in rsbs' : rsb'[i].label_in = rsb'[j].label_in /\ rsb'[i].label_in # 0
                                  => i = j
    PROVE  LabelsOwned'
<1>1. labels' = {rsb'[j].label_in : j \in rsbs'} \ {0}
  OBVIOUS
<1>. QED  BY <1>1 DEF LabelsOwned, in_labels

\* The labels in use are those of the RSBs, one each.
LEMMA LabelsKept ==
    ASSUME Inv, TypeOK', Kind
    PROVE  LabelsOwned'
<1>0. /\ \A l : l \in labels <=> l # 0 /\ \E j \in rsbs : rsb[j].label_in = l
      /\ \A i, j \in rsbs : rsb[i].label_in = rsb[j].label_in /\ rsb[i].label_in # 0
                               => i = j
  BY DEF Inv, LabelsOwned, in_labels
<1>t. /\ rsbs \subseteq Keys /\ psbs \subseteq Keys
      /\ rsbs' \subseteq Keys /\ 0 \notin Labels
  BY DbAssumption DEF Inv, TypeOK
<1>1. CASE UNCHANGED <<rsbs, rsb, labels>>
  BY <1>0, <1>1, LabelsOwnedBy
<1>2. ASSUME NEW k \in Keys, k \notin rsbs, rsbs' = rsbs \cup {k}, OtherRsbs(k),
             LabelKept(k) \/ LabelTaken(k)
      PROVE  LabelsOwned'
  <2>1. rsb[k].label_in = 0
    BY <1>2, Psb0Blank DEF Inv, Blank
  <2>2. \A j \in rsbs : rsb'[j] = rsb[j]
    BY <1>2, <1>t DEF OtherRsbs
  <2>. HIDE DEF OtherRsbs
  <2>3. CASE LabelKept(k)
    <3>. QED  BY <1>0, <1>2, <2>1, <2>2, <2>3, LabelsOwnedBy DEF LabelKept
  <2>4. CASE LabelTaken(k)
    <3>1. \A l : l \in labels' <=> l \in labels \/ l = rsb'[k].label_in
      BY <2>4 DEF LabelTaken
    <3>2. rsb'[k].label_in \notin labels /\ rsb'[k].label_in # 0
      BY <1>t, <2>4 DEF LabelTaken
    <3>3. \A j \in rsbs : rsb[j].label_in # rsb'[k].label_in
      BY <1>0, <3>2
    <3>. QED  BY <1>0, <1>2, <2>2, <3>1, <3>2, <3>3, LabelsOwnedBy
  <2>. QED  BY <1>2, <2>3, <2>4
<1>3. ASSUME NEW k \in Keys, ResvSet(k) PROVE LabelsOwned'
  <2>1. \A j \in rsbs \ {k} : rsb'[j] = rsb[j]
    BY <1>3, <1>t DEF ResvSet, OtherRsbs
  <2>2. k \in rsbs /\ rsbs' = rsbs
    BY <1>3 DEF ResvSet
  <2>3. CASE LabelKept(k)
    BY <1>0, <2>1, <2>2, <2>3, LabelsOwnedBy DEF LabelKept
  <2>4. CASE LabelTaken(k)
    <3>1. \A l : l \in labels' <=> l \in labels \/ l = rsb'[k].label_in
      BY <2>4 DEF LabelTaken
    <3>2. rsb'[k].label_in \notin labels /\ rsb'[k].label_in # 0 /\ rsb[k].label_in = 0
      BY <1>t, <2>4 DEF LabelTaken
    <3>3. \A j \in rsbs : rsb[j].label_in # rsb'[k].label_in
      BY <1>0, <3>2
    <3>. QED  BY <1>0, <2>1, <2>2, <3>1, <3>2, <3>3, LabelsOwnedBy
  <2>. QED  BY <1>3, <2>3, <2>4 DEF ResvSet
\* The RSBs D go.
<1>4. ASSUME NEW D, rsbs' = rsbs \ D, \A j \in rsbs \ D : rsb'[j] = rsb[j],
             labels' = labels \ Freed(D)
      PROVE  LabelsOwned'
  <2>1. \A l : l \in labels' <=> l \in labels /\ l \notin Freed(D)
    BY <1>4
  <2>2. \A j \in rsbs \ D : rsb[j].label_in \notin Freed(D)
    BY FreedLabels
  <2>3. \A l : l \in Freed(D) <=> l # 0 /\ \E j \in D \cap rsbs : rsb[j].label_in = l
    BY FreedLabels
  <2>4. \A l : l \in labels' <=> l # 0 /\ \E j \in rsbs' : rsb'[j].label_in = l
    BY <1>0, <1>4, <2>1, <2>2, <2>3
  <2>. QED  BY <1>0, <1>4, <2>4, LabelsOwnedBy
<1>5. ASSUME NEW k \in Keys, NEW D \in SUBSET psbs, Installed(k, D) PROVE LabelsOwned'
  <2>1. /\ k \notin D /\ rsbs' = (rsbs \cup {k}) \ D
        /\ \A j \in rsbs \ D : j # k => rsb'[j] = rsb[j]
    BY <1>5, <1>t DEF Installed
  <2>2. k \notin rsbs => rsb[k].label_in = 0
    BY <1>5, Psb0Blank DEF Inv, Blank
  <2>3. /\ \A l : l \in Freed(D) <=> l # 0 /\ \E j \in D \cap rsbs : rsb[j].label_in = l
        /\ \A j \in rsbs \ D : rsb[j].label_in \notin Freed(D)
    BY FreedLabels
  <2>. DEFINE m == rsb'[k].label_in
  <2>4. CASE m = rsb[k].label_in /\ labels' = labels \ Freed(D)
    <3>1. \A l : l \in labels' <=> l \in labels /\ l \notin Freed(D)
      BY <2>4
    <3>. HIDE DEF m
    <3>2. \A l : l \in labels' <=> l # 0 /\ \E j \in rsbs' : rsb'[j].label_in = l
      BY <1>0, <2>1, <2>2, <2>3, <2>4, <3>1 DEF m
    <3>3. \A i, j \in rsbs' : rsb'[i].label_in = rsb'[j].label_in /\ rsb'[i].label_in # 0
                               => i = j
      BY <1>0, <2>1, <2>2, <2>4 DEF m
    <3>. QED  BY <3>2, <3>3, LabelsOwnedBy
  <2>5. CASE /\ rsb[k].label_in = 0 /\ m \in Labels \ labels
             /\ labels' = (labels \cup {m}) \ Freed(D)
    <3>1. m # 0 /\ m \notin labels
      BY <1>t, <2>5
    <3>. HIDE DEF m
    <3>2. \A j \in rsbs : rsb[j].label_in # m
      BY <1>0, <3>1
    <3>3. \A l : l \in labels' <=> (l \in labels \/ l = m) /\ l \notin Freed(D)
      BY <2>5
    <3>4. \A l : l \in labels' <=> l # 0 /\ \E j \in rsbs' : rsb'[j].label_in = l
      BY <1>0, <2>1, <2>3, <2>5, <3>1, <3>2, <3>3 DEF m
    <3>5. \A i, j \in rsbs' : rsb'[i].label_in = rsb'[j].label_in /\ rsb'[i].label_in # 0
                               => i = j
      BY <1>0, <2>1, <3>2 DEF m
    <3>. QED  BY <3>4, <3>5, LabelsOwnedBy
  <2>6. CASE /\ m = rsb[k].label_in /\ m # 0
             /\ labels' = (labels \cup {m}) \ Freed(D)
    <3>1. labels' = labels \ Freed(D)
      BY <1>0, <2>2, <2>6
    <3>. QED  BY <2>4, <2>6, <3>1
  <2>. QED  BY <1>5, <2>4, <2>5, <2>6 DEF Installed
<1>6. ASSUME NEW k \in Keys, EgressSet(k) PROVE LabelsOwned'
  BY <1>2, <1>6 DEF EgressSet
<1>7. ASSUME NEW k \in Keys, ResvGone(k) PROVE LabelsOwned'
  BY <1>4, <1>7, <1>t DEF ResvGone, OtherRsbs
<1>8. ASSUME NEW D \in SUBSET psbs, PathsGone(D) PROVE LabelsOwned'
  BY <1>4, <1>8, <1>t DEF PathsGone
<1>. QED  BY <1>1, <1>3, <1>5, <1>6, <1>7, <1>8
             DEF Kind, Quiet, PathSet, Trigger, Revert, Switch

\* A route goes in the step that frees its label.
LEMMA SwapKept ==
    ASSUME Inv, TypeOK', Kind
    PROVE  SwapOwned'
<1>0. \A j \in rsbs : rsb[j].label_in # 0 => rsb[j].label_in \in labels
  BY DEF Inv, LabelsOwned, in_labels
<1>. USE DEF SwapOwned, Inv
<1>1. CASE swap' = swap /\ labels \subseteq labels'
  BY <1>1
<1>2. ASSUME NEW k \in Keys, ResvGone(k) PROVE SwapOwned'
  BY <1>2 DEF ResvGone
<1>3. ASSUME NEW k \in Keys, NEW D \in SUBSET psbs, Installed(k, D) PROVE SwapOwned'
  BY <1>3 DEF Installed
<1>4. ASSUME NEW D \in SUBSET psbs, PathsGone(D) PROVE SwapOwned'
  BY <1>4 DEF PathsGone
<1>5. ASSUME NEW W \in SUBSET psbs, NEW a, Switch(W, a) PROVE SwapOwned'
  <2>1. ASSUME NEW l \in Labels, swap'[l] # NoEntry PROVE l \in labels'
    <3>1. l # 0 /\ labels' = labels
      BY <1>5, DbAssumption DEF Switch
    <3>2. CASE \E j \in W \cap rsbs : rsb[j].label_in = l
      BY <1>0, <3>1, <3>2
    <3>3. CASE \A j \in W \cap rsbs : rsb[j].label_in # l
      BY <1>5, <2>1, <3>1, <3>3 DEF Switch
    <3>. QED  BY <3>2, <3>3
  <2>. QED  BY <2>1
<1>6. CASE Quiet \/ \E k \in Keys : PathSet(k) \/ EgressSet(k) \/ ResvSet(k)
  <2>1. swap' = swap /\ labels \subseteq labels'
    BY <1>6 DEF Quiet, PathSet, EgressSet, ResvSet, LabelKept, LabelTaken
  <2>. QED  BY <1>1, <2>1
<1>. QED  BY <1>2, <1>3, <1>4, <1>5, <1>6 DEF Kind, Trigger, Revert

\* Every step notes the strays it leaves behind, and forgets none.
StraysNoted ==
    strays \subseteq strays' /\ \A k \in psbs' : Strayed(k)' => k \in strays'

LEMMA StraysStep ==
    ASSUME Inv, [Next]_vars
    PROVE  StraysNoted
<1>1. CASE NoteStrays
  BY <1>1 DEF NoteStrays, StraysNoted
<1>2. CASE UNCHANGED vars
  <2>1. \A k \in psbs : Strayed(k) => k \in strays
    BY DEF Inv, Origin
  <2>. QED  BY <1>2, <2>1 DEF vars, StraysNoted, Strayed
<1>. QED  BY <1>1, <1>2 DEF Next

\* Where a path begins never changes.
LEMMA OriginKept ==
    ASSUME Inv, TypeOK', Kind, StraysNoted
    PROVE  Origin' /\ MbbApart'
<1>. USE DEF Origin, MbbApart, Inv
<1>t. psbs \subseteq Keys /\ psbs' \subseteq Keys
  BY DEF TypeOK
<1>n. (\A k \in psbs : Strayed(k) => k \in strays)'
  BY DEF StraysNoted
<1>1. ASSUME NEW k \in Keys, PsbWritten(k), OtherPsbs(k), psbs' = psbs \cup {k}
      PROVE  Origin' /\ MbbApart'
  <2>1. \A j \in psbs \ {k} : psb'[j] = psb[j]
    BY <1>1, <1>t DEF OtherPsbs
  <2>2. psb'[k].is_ingress => k.src \in OwnSrcs
    BY <1>1 DEF PsbWritten
  <2>3. psb'[k].mbb_old_lsp_id # NoLsp => psb'[k].mbb_old_lsp_id # k.lsp
    BY <1>1 DEF PsbWritten
  <2>. QED  BY <1>1, <1>n, <2>1, <2>2, <2>3
\* The PSBs that stay keep their role and their incumbent.
<1>2. ASSUME psbs' \subseteq psbs,
             \A j \in psbs' : /\ psb'[j].is_ingress = psb[j].is_ingress
                              /\ \/ psb'[j].mbb_old_lsp_id = psb[j].mbb_old_lsp_id
                                 \/ psb'[j].mbb_old_lsp_id = NoLsp
      PROVE  Origin' /\ MbbApart'
  BY <1>2, <1>n
<1>3. CASE UNCHANGED <<psbs, psb>>
  BY <1>2, <1>3
<1>4. ASSUME NEW k \in Keys, ResvGone(k) PROVE Origin' /\ MbbApart'
  <2>1. psb[k] \in Psb
    BY DEF TypeOK
  <2>2. /\ psb'[k].is_ingress = psb[k].is_ingress
        /\ psb'[k].mbb_old_lsp_id = psb[k].mbb_old_lsp_id
    BY <1>4, <2>1, PsbFields DEF ResvGone
  <2>. QED  BY <1>2, <1>4, <1>t, <2>2 DEF ResvGone, OtherPsbs
<1>5. ASSUME NEW k \in Keys, NEW D \in SUBSET psbs, Installed(k, D)
      PROVE  Origin' /\ MbbApart'
  <2>1. /\ psb'[k].is_ingress = psb[k].is_ingress
        /\ \/ psb'[k].mbb_old_lsp_id = psb[k].mbb_old_lsp_id
           \/ psb'[k].mbb_old_lsp_id = NoLsp
    BY <1>5 DEF Installed
  <2>2. psbs' = psbs \ D /\ \A j \in psbs' : j # k => SamePsb(psb'[j], psb[j])
    BY <1>5, <1>t DEF Installed
  <2>. QED  BY <1>2, <2>1, <2>2 DEF SamePsb
<1>6. ASSUME NEW D \in SUBSET psbs, PathsGone(D) PROVE Origin' /\ MbbApart'
  BY <1>2, <1>6, <1>t DEF PathsGone, SamePsb
<1>7. ASSUME NEW W \in SUBSET psbs, NEW a, Switch(W, a) PROVE Origin' /\ MbbApart'
  BY <1>2, <1>7, <1>t DEF Switch, SamePsb
<1>8. ASSUME NEW k \in Keys, PathSet(k) \/ EgressSet(k) PROVE Origin' /\ MbbApart'
  BY <1>1, <1>8 DEF PathSet, EgressSet
<1>. QED  BY <1>3, <1>4, <1>5, <1>6, <1>7, <1>8
             DEF Kind, Quiet, ResvSet, Trigger, Revert

\* Every block has the timers it needs, whichever handler wrote it last.
LEMMA SoftStateKept ==
    ASSUME Inv, TypeOK', Kind
    PROVE  SoftState'
<1>. USE DEF Inv
<1>t. /\ psbs \subseteq Keys /\ rsbs \subseteq psbs
      /\ \A j \in Keys : psb[j].is_ingress \in BOOLEAN /\ psb'[j].is_ingress \in BOOLEAN
  BY DEF TypeOK, Linked, Psb
<1>1. CASE UNCHANGED <<psbs, psb, rsbs, rsb>>
  BY <1>1 DEF SoftState
<1>2. ASSUME NEW k \in Keys, PathSet(k) PROVE SoftState'
  <2>1. k \in rsbs => psb'[k].is_ingress = psb[k].is_ingress
    BY <1>2, <1>t DEF PathSet, PsbWritten
  <2>. QED  BY <1>2, <1>t, <2>1 DEF PathSet, PsbWritten, OtherPsbs, SoftState
<1>3. ASSUME NEW k \in Keys, EgressSet(k) PROVE SoftState'
  BY <1>3, <1>t DEF EgressSet, PsbWritten, OtherPsbs, OtherRsbs, SoftState
<1>4. ASSUME NEW k \in Keys, ResvSet(k) PROVE SoftState'
  BY <1>4, <1>t DEF ResvSet, OtherRsbs, SoftState
<1>5. ASSUME NEW k \in Keys, ResvGone(k) PROVE SoftState'
  <2>1. psb[k] \in Psb
    BY DEF TypeOK
  <2>2. /\ psb'[k].refresh_timer = psb[k].refresh_timer
        /\ psb'[k].cleanup_timer = psb[k].cleanup_timer
        /\ psb'[k].is_ingress = psb[k].is_ingress
    BY <1>5, <2>1, PsbFields DEF ResvGone
  <2>3. \A j \in psbs : /\ psb'[j].refresh_timer = psb[j].refresh_timer
                        /\ psb'[j].cleanup_timer = psb[j].cleanup_timer
                        /\ psb'[j].is_ingress = psb[j].is_ingress
    BY <1>5, <1>t, <2>2 DEF ResvGone, OtherPsbs
  <2>. QED  BY <1>5, <1>t, <2>3 DEF ResvGone, OtherRsbs, SoftState
<1>6. ASSUME NEW k \in Keys, NEW D \in SUBSET psbs, Installed(k, D) PROVE SoftState'
  <2>1. ASSUME NEW j \in psbs \ D
        PROVE  /\ psb'[j].refresh_timer = psb[j].refresh_timer
               /\ psb'[j].cleanup_timer = psb[j].cleanup_timer
               /\ psb'[j].is_ingress = psb[j].is_ingress
    BY <1>6, <1>t DEF Installed, SamePsb
  <2>2. ASSUME NEW j \in rsbs \ D, j # k PROVE rsb'[j] = rsb[j]
    BY <1>6, <1>t, <2>2 DEF Installed
  <2>3. /\ psbs' = psbs \ D /\ rsbs' = (rsbs \cup {k}) \ D /\ k \in psbs \ D
        /\ rsb'[k].cleanup_timer
        /\ psb[k].is_ingress \/ rsb'[k].refresh_timer
    BY <1>6 DEF Installed
  <2>. QED  BY <1>t, <2>1, <2>2, <2>3 DEF SoftState
<1>7. ASSUME NEW D \in SUBSET psbs, PathsGone(D) PROVE SoftState'
  BY <1>7, <1>t DEF PathsGone, SamePsb, SoftState
<1>8. ASSUME NEW W \in SUBSET psbs, NEW a, Switch(W, a) PROVE SoftState'
  <2>1. \A j \in psbs : /\ psb'[j].refresh_timer = psb[j].refresh_timer
                        /\ psb'[j].cleanup_timer = psb[j].cleanup_timer
                        /\ psb'[j].is_ingress = psb[j].is_ingress
    BY <1>8, <1>t DEF Switch, SamePsb
  <2>. QED  BY <1>8, <1>t, <2>1 DEF Switch, SoftState
<1>. QED  BY <1>1, <1>2, <1>3, <1>4, <1>5, <1>6, <1>7, <1>8
             DEF Kind, Quiet, Trigger, Revert

\* Every handler, callback, command and the shutdown keeps the invariant.
LEMMA InvStep == Inv /\ [Next]_vars => Inv'
<1>. SUFFICES ASSUME Inv, [Next]_vars PROVE Inv'
  OBVIOUS
<1>1. Kind /\ TypeOK'
  BY StepKinds, TypeStep DEF Inv
<1>2. Blank' /\ Linked' /\ LabelsOwned' /\ SwapOwned'
  BY <1>1, BlankKept, LinkedKept, LabelsKept, SwapKept
<1>3. Origin' /\ MbbApart' /\ SoftState'
  BY <1>1, StraysStep, OriginKept, SoftStateKept
<1>. QED  BY <1>1, <1>2, <1>3 DEF Inv

\* The invariant holds in every state the node reaches.
THEOREM NodeInvariant == Spec => []Inv
BY InitInv, InvStep, PTL DEF Spec

\* Every RSB has its PSB and the two point at each other, after any sequence of
\* messages, timer callbacks, commands, reroutes and the shutdown: the cleanup
\* of a PSB finds the RSB it must free.
THEOREM BlocksLinked == Spec => []Linked
<1>1. Inv => Linked
  BY DEF Inv
<1>. QED  BY <1>1, NodeInvariant, PTL

\* The labels that are taken from the label manager are the in-labels of the
\* RSBs, each of one RSB: no error path, teardown or make-before-break leaks a
\* label or frees one that is in use.
THEOREM LabelsAreOwned == Spec => []LabelsOwned
<1>1. Inv => LabelsOwned
  BY DEF Inv
<1>. QED  BY <1>1, NodeInvariant, PTL

\* Everything that was learned from the network has its cleanup timer, and
\* everything this node must refresh its refresh timer, whichever handler wrote
\* the block last.
THEOREM SoftStateTimed == Spec => []SoftState
<1>1. Inv => SoftState
  BY DEF Inv
<1>. QED  BY <1>1, NodeInvariant, PTL

-----------------------------------------------------------------------------
(* What a step may not do.                                                 *)

\* A reservation whose path stays is never withdrawn silently: whichever of a
\* ResvTear, the cleanup timer or a teardown ends it, the upstream neighbour is
\* sent a ResvTear in that step.
THEOREM WithdrawalIsAnnounced == Spec => WithdrawalAnnounced
<1>1. ASSUME Inv, Kind
      PROVE  \A k \in rsbs \ rsbs' :
                k \in psbs' /\ ~ psb[k].is_ingress /\ psb[k].prev_hop # 0 =>
                   Msg("RESVTEAR", k, psb[k].prev_hop, 0) \in sent'
  <2>1. CASE rsbs \subseteq rsbs'
    BY <2>1
  <2>2. ASSUME NEW D, psbs' \cap D = {}, rsbs \subseteq rsbs' \cup D
        PROVE  \A k \in rsbs \ rsbs' : k \notin psbs'
    BY <2>2
  <2>3. CASE \E D : psbs' \cap D = {} /\ rsbs \subseteq rsbs' \cup D
    BY <2>2, <2>3
  <2>4. CASE \E k \in Keys, D \in SUBSET psbs : Installed(k, D)
    BY <2>3, <2>4 DEF Installed
  <2>5. CASE \E D \in SUBSET psbs : PathsGone(D)
    BY <2>3, <2>5 DEF PathsGone
  <2>6. ASSUME NEW j \in Keys, ResvGone(j)
        PROVE  \A k \in rsbs \ rsbs' :
                  ~ psb[k].is_ingress /\ psb[k].prev_hop # 0 =>
                     Msg("RESVTEAR", k, psb[k].prev_hop, 0) \in sent'
    BY <2>6 DEF ResvGone
  <2>. QED  BY <1>1, <2>1, <2>4, <2>5, <2>6
               DEF Kind, Quiet, PathSet, EgressSet, ResvSet, Trigger, Revert, Switch
<1>2. Inv /\ [Next]_vars =>
         [\A k \in rsbs \ rsbs' :
             k \in psbs' /\ ~ psb[k].is_ingress /\ psb[k].prev_hop # 0 =>
                Msg("RESVTEAR", k, psb[k].prev_hop, 0) \in sent']_vars
  BY <1>1, StepKinds
<1>. QED  BY <1>2, NodeInvariant, PTL DEF Spec, WithdrawalAnnounced

\* While a blockade lasts, no RESV for the rejected flowspec or more creates a
\* reservation or moves one; only an egress, which makes its own reservation
\* when the PATH arrives, gets one.
THEOREM BlockadeIsHeld == Spec => BlockadeHolds
<1>. DEFINE Held(k) == /\ k \in rsbs \/ is_egress(k)
                       /\ k \in rsbs => EntryOf(rsb'[k]) = EntryOf(rsb[k])
<1>1. ASSUME Inv, Kind
      PROVE  \A k \in bsbs \cap bsbs' :
                k \in rsbs' /\ rsb'[k].flowspec >= bsb[k] => Held(k)
  <2>t. bsbs \subseteq Keys
    BY <1>1 DEF Inv, TypeOK
  <2>1. CASE rsbs' \subseteq rsbs /\ \A j \in rsbs' : rsb'[j] = rsb[j]
    BY <2>1
  <2>2. ASSUME NEW k \in Keys, rsbs' \subseteq rsbs \cup {k},
               \A j \in rsbs' : j # k => rsb'[j] = rsb[j],
               Unblocked(k) \/ Held(k)
        PROVE  \A j \in bsbs \cap bsbs' :
                  j \in rsbs' /\ rsb'[j].flowspec >= bsb[j] => Held(j)
    BY <2>2 DEF Unblocked
  <2>u. rsbs \subseteq Keys
    BY <1>1 DEF Inv, TypeOK
  <2>3. ASSUME NEW k \in Keys, EgressSet(k)
        PROVE  /\ rsbs' \subseteq rsbs \cup {k} /\ Held(k)
               /\ \A j \in rsbs' : j # k => rsb'[j] = rsb[j]
    BY <2>3, <2>u DEF EgressSet, OtherRsbs
  <2>4. ASSUME NEW k \in Keys, ResvSet(k)
        PROVE  /\ rsbs' \subseteq rsbs \cup {k}
               /\ Unblocked(k) \/ Held(k)
               /\ \A j \in rsbs' : j # k => rsb'[j] = rsb[j]
    BY <2>4, <2>u DEF ResvSet, OtherRsbs
  <2>5. ASSUME NEW k \in Keys, NEW D \in SUBSET psbs, Installed(k, D)
        PROVE  /\ rsbs' \subseteq rsbs \cup {k} /\ Unblocked(k)
               /\ \A j \in rsbs' : j # k => rsb'[j] = rsb[j]
    BY <2>5, <2>u DEF Installed
  <2>6. CASE \E k \in Keys : ResvGone(k)
    BY <2>1, <2>6, <2>u DEF ResvGone, OtherRsbs
  <2>7. CASE \E D \in SUBSET psbs : PathsGone(D)
    BY <2>1, <2>7, <2>u DEF PathsGone
  <2>8. CASE UNCHANGED <<rsbs, rsb>>
    BY <2>1, <2>8
  <2>9. CASE \E k \in Keys : EgressSet(k)
    BY <2>2, <2>3, <2>9
  <2>10. CASE \E k \in Keys : ResvSet(k)
    BY <2>2, <2>4, <2>10
  <2>11. CASE \E k \in Keys, D \in SUBSET psbs : Installed(k, D)
    BY <2>2, <2>5, <2>11
  <2>. QED  BY <1>1, <2>6, <2>7, <2>8, <2>9, <2>10, <2>11
               DEF Kind, Quiet, PathSet, Trigger, Revert, Switch
<1>2. Inv /\ [Next]_vars =>
         [\A k \in bsbs \cap bsbs' :
             k \in rsbs' /\ rsb'[k].flowspec >= bsb[k] =>
                /\ k \in rsbs \/ is_egress(k)
                /\ k \in rsbs => EntryOf(rsb'[k]) = EntryOf(rsb[k])]_vars
  BY <1>1, StepKinds
<1>. QED  BY <1>2, NodeInvariant, PTL DEF Spec, BlockadeHolds

\* The step that brings a reservation takes no path down, unless it completes a
\* make-before-break: then one path that has the numbers of the LSP it was
\* started to replace goes, and that one only.
THEOREM MbbTakesOnlyOne == Spec => MbbTakesOne
<1>. DEFINE Found(k)   == rsvp_psb_find_by_id(k.tid, psb[k].mbb_old_lsp_id)
            Pending(k) == psb[k].mbb_old_lsp_id # NoLsp
            Taken(k) ==
               \/ /\ psbs \subseteq psbs'
                  /\ Pending(k) => Found(k) = {} \/ is_egress(k)
               \/ Pending(k) /\ \E o \in Found(k) : psbs' = psbs \ {o}
<1>1. ASSUME Inv, Kind
      PROVE  \A k \in rsbs' \ rsbs : Taken(k)
  <2>1. CASE rsbs' \subseteq rsbs
    BY <2>1
  <2>2. ASSUME NEW k \in Keys, NEW D \in SUBSET psbs, Installed(k, D)
        PROVE  \A j \in rsbs' \ rsbs : Taken(j)
    <3>1. /\ psbs' = psbs \ D /\ MbbTaken(k, D)
          /\ \A j \in rsbs' \ rsbs : j = k
      BY <2>2 DEF Installed
    <3>2. ASSUME k \notin rsbs PROVE Taken(k)
      <4>1. CASE D = {} /\ (Pending(k) => Found(k) = {})
        BY <3>1, <4>1
      <4>2. CASE Pending(k) /\ \E o \in Found(k) : D = {o}
        BY <3>1, <4>2
      <4>. QED  BY <3>1, <3>2, <4>1, <4>2 DEF MbbTaken
    <3>. QED  BY <3>1, <3>2
  <2>3. ASSUME NEW k \in Keys, EgressSet(k)
        PROVE  \A j \in rsbs' \ rsbs : Taken(j)
    BY <2>3 DEF EgressSet
  <2>. QED  BY <1>1, <2>1, <2>2, <2>3
               DEF Kind, Quiet, PathSet, ResvSet, ResvGone, PathsGone,
                   Trigger, Revert, Switch
<1>2. Inv /\ [Next]_vars =>
         [\A k \in rsbs' \ rsbs :
             LET old     == psb[k].mbb_old_lsp_id
                 found   == rsvp_psb_find_by_id(k.tid, old)
                 pending == old # NoLsp
             IN  \/ psbs \subseteq psbs' /\ (pending => found = {} \/ is_egress(k))
                 \/ pending /\ \E o \in found : psbs' = psbs \ {o}]_vars
  BY <1>1, StepKinds
<1>. QED  BY <1>2, NodeInvariant, PTL DEF Spec, MbbTakesOne

\* While an LSP is rerouted and its reservation says the same, its traffic stays
\* where fast reroute put it: no refresh, second trigger, revert of another LSP,
\* teardown or make-before-break touches its route, because no other RSB has
\* its label.
THEOREM FrrIsSticky == Spec => FrrSticks
<1>1. ASSUME Inv, Kind, NEW k \in rsbs, k \in rsbs',
             psb[k].frr_active, psb'[k].frr_active, rsb[k].label_in # 0,
             EntryOf(rsb'[k]) = EntryOf(rsb[k])
      PROVE  /\ rsb'[k].label_in = rsb[k].label_in
             /\ swap'[rsb[k].label_in] = swap[rsb[k].label_in]
  <2>t. /\ k \in Keys /\ k \in psbs /\ rsb[k].label_in \in Labels
        /\ psb[k].frr_active = TRUE
    BY <1>1 DEF Inv, TypeOK, Linked, Rsb, Psb
  <2>l. /\ \A j \in rsbs : rsb[j].label_in = rsb[k].label_in => j = k
        /\ rsb[k].label_in \in labels
    BY <1>1 DEF Inv, LabelsOwned, in_labels
  <2>1. CASE UNCHANGED <<rsb, swap>>
    BY <2>1
  <2>2. ASSUME NEW j \in Keys, EgressSet(j) \/ ResvSet(j)
        PROVE  rsb'[k].label_in = rsb[k].label_in /\ swap' = swap
    <3>1. CASE j = k
      BY <1>1, <2>2, <3>1 DEF EgressSet, ResvSet, LabelKept, LabelTaken
    <3>2. CASE j # k
      BY <2>2, <2>t, <3>2 DEF EgressSet, ResvSet, OtherRsbs
    <3>. QED  BY <3>1, <3>2
  <2>3. ASSUME NEW j \in Keys, NEW D \in SUBSET psbs, Installed(j, D)
        PROVE  /\ rsb'[k].label_in = rsb[k].label_in
               /\ swap'[rsb[k].label_in] = swap[rsb[k].label_in]
    <3>1. j # k
      BY <1>1, <2>3 DEF Installed
    <3>2. k \notin D /\ rsb'[k] = rsb[k]
      BY <1>1, <2>3, <2>t, <3>1 DEF Installed
    <3>3. rsb[k].label_in \notin Freed(D)
      BY <1>1, <3>2, FreedLabels
    <3>4. rsb[j].label_in # 0 => rsb[j].label_in # rsb[k].label_in
      BY <1>1, <2>l, <3>1, Psb0Blank DEF Inv, Blank
    <3>5. CASE psb[j].prev_hop # 0
      BY <2>3, <2>l, <2>t, <3>2, <3>3, <3>4, <3>5 DEF Installed
    <3>6. CASE psb[j].prev_hop = 0
      BY <2>3, <2>t, <3>2, <3>3, <3>6 DEF Installed
    <3>. QED  BY <3>5, <3>6
  <2>4. ASSUME NEW j \in Keys, ResvGone(j)
        PROVE  /\ rsb'[k].label_in = rsb[k].label_in
               /\ swap'[rsb[k].label_in] = swap[rsb[k].label_in]
    <3>1. k # j /\ k \notin {j}
      BY <1>1, <2>4 DEF ResvGone
    <3>2. rsb[k].label_in \notin Freed({j})
      BY <1>1, <3>1, FreedLabels
    <3>. QED  BY <2>4, <2>t, <3>1, <3>2 DEF ResvGone, OtherRsbs
  <2>5. ASSUME NEW D \in SUBSET psbs, PathsGone(D)
        PROVE  /\ rsb'[k].label_in = rsb[k].label_in
               /\ swap'[rsb[k].label_in] = swap[rsb[k].label_in]
    <3>1. k \notin D
      BY <1>1, <2>5 DEF PathsGone
    <3>2. rsb[k].label_in \notin Freed(D)
      BY <1>1, <3>1, FreedLabels
    <3>. QED  BY <2>5, <2>t, <3>1, <3>2 DEF PathsGone
  <2>6. ASSUME NEW W \in SUBSET psbs, NEW a \in BOOLEAN, Switch(W, a)
        PROVE  /\ rsb'[k].label_in = rsb[k].label_in
               /\ swap'[rsb[k].label_in] = swap[rsb[k].label_in]
    <3>1. k \notin W
      BY <1>1, <2>6, <2>t DEF Switch
    <3>2. \A j \in W \cap rsbs : rsb[j].label_in # rsb[k].label_in
      BY <2>l, <3>1
    <3>. QED  BY <2>6, <2>t, <3>2 DEF Switch
  <2>. QED  BY <1>1, <2>1, <2>2, <2>3, <2>4, <2>5, <2>6
               DEF Kind, Quiet, PathSet, Trigger, Revert
<1>2. Inv /\ [Next]_vars =>
         [\A k \in rsbs \cap rsbs' :
             /\ psb[k].frr_active /\ psb'[k].frr_active
             /\ rsb[k].label_in # 0
             /\ EntryOf(rsb'[k]) = EntryOf(rsb[k])
             => /\ rsb'[k].label_in = rsb[k].label_in
                /\ swap'[rsb[k].label_in] = swap[rsb[k].label_in]]_vars
  BY <1>1, StepKinds
<1>. QED  BY <1>2, NodeInvariant, PTL DEF Spec, FrrSticks

-----------------------------------------------------------------------------
(* What also needs that no PATH of this node comes back to it and that its *)
(* operator starts LSPs from its own addresses: a PATH that comes back     *)
(* gives an LSP that begins here a previous hop, and from then on its      *)
(* RESVs are taken for those of a transit LSP.                             *)

NoLoops == ~ OwnPathLoops /\ OwnSrcs \subseteq LocalAddrs

\* Where a path begins decides what its blocks say.
Roles ==
    /\ \A k \in psbs : psb[k].is_ingress => psb[k].prev_hop = 0
    /\ \A k \in rsbs :
          /\ psb[k].is_ingress => rsb[k].label_in = 0
          /\ rsb[k].label_in = 0 => psb[k].is_ingress \/ is_egress(k) \/ k \in strays

LoopFree == NoLoops => Roles /\ RoutesOwned /\ TransitForwards

\* A PATH that is accepted is not of an LSP that begins here.
LEMMA PathIsForeign ==
    ASSUME NoLoops, NEW k, PathAccepted(k)
    PROVE  k.src \notin OwnSrcs
BY DEF NoLoops, PathAccepted, is_local

\* Nothing that happens to a block changes the role of its LSP.
LEMMA RolesKept ==
    ASSUME Inv, TypeOK', Kind, StraysNoted, NoLoops, Roles
    PROVE  Roles'
<1>. USE DEF Roles, Inv
<1>t. /\ psbs \subseteq Keys /\ rsbs \subseteq psbs
      /\ \A j \in Keys : psb[j].is_ingress \in BOOLEAN /\ psb'[j].is_ingress \in BOOLEAN
      /\ 0 \notin Labels
  BY DbAssumption DEF TypeOK, Linked, Psb
<1>o. \A k \in psbs : psb[k].is_ingress => k.src \in OwnSrcs
  BY DEF Origin
<1>n. strays \subseteq strays'
  BY DEF StraysNoted
<1>1. CASE UNCHANGED <<psbs, psb, rsbs, rsb>>
  BY <1>1, <1>n
<1>2. ASSUME NEW k \in Keys, PsbWritten(k)
      PROVE  psb'[k].is_ingress => psb'[k].prev_hop = 0
  <2>1. CASE k \in psbs
    <3>1. psb'[k].is_ingress = psb[k].is_ingress
      BY <1>2, <2>1 DEF PsbWritten
    <3>2. psb[k].is_ingress => psb'[k].prev_hop = psb[k].prev_hop
      BY <1>2, <1>o, <2>1, PathIsForeign DEF PsbWritten
    <3>. QED  BY <2>1, <3>1, <3>2
  <2>2. CASE k \notin psbs
    BY <1>2, <2>2 DEF PsbWritten
  <2>. QED  BY <2>1, <2>2
<1>3. ASSUME NEW k \in Keys, PathSet(k) PROVE Roles'
  <2>1. k \in rsbs => psb'[k].is_ingress = psb[k].is_ingress
    BY <1>3, <1>t DEF PathSet, PsbWritten
  <2>2. PsbWritten(k) /\ \A j \in psbs : j # k => psb'[j] = psb[j]
    BY <1>3, <1>t DEF PathSet, OtherPsbs
  <2>. QED  BY <1>2, <1>3, <1>n, <1>t, <2>1, <2>2 DEF PathSet
<1>4. ASSUME NEW k \in Keys, EgressSet(k) PROVE Roles'
  <2>1. /\ PsbWritten(k) /\ \A j \in psbs : j # k => psb'[j] = psb[j]
        /\ \A j \in rsbs : rsb'[j] = rsb[j]
    BY <1>4, <1>t DEF EgressSet, OtherPsbs, OtherRsbs
  <2>2. ~ psb'[k].is_ingress
    BY <1>4, <1>o, <1>t, <2>1, PathIsForeign DEF EgressSet, PsbWritten
  <2>3. k \notin rsbs /\ is_egress(k) /\ psbs' = psbs \cup {k} /\ rsbs' = rsbs \cup {k}
    BY <1>4 DEF EgressSet
  <2>. QED  BY <1>n, <1>t, <2>1, <2>2, <2>3
<1>5. ASSUME NEW k \in Keys, ResvSet(k) PROVE Roles'
  <2>1. k \in rsbs /\ UNCHANGED <<psbs, psb, rsbs>> /\ \A j \in rsbs : j # k => rsb'[j] = rsb[j]
    BY <1>5, <1>t DEF ResvSet, OtherRsbs
  <2>2. \/ rsb'[k].label_in = rsb[k].label_in
        \/ ~ psb[k].is_ingress /\ rsb'[k].label_in # 0
    BY <1>5, <1>t DEF ResvSet, LabelKept, LabelTaken
  <2>. QED  BY <1>n, <2>1, <2>2
<1>6. ASSUME NEW k \in Keys, ResvGone(k) PROVE Roles'
  <2>1. psb[k] \in Psb
    BY DEF TypeOK
  <2>2. /\ psb'[k].is_ingress = psb[k].is_ingress
        /\ psb'[k].prev_hop = psb[k].prev_hop
    BY <1>6, <2>1, PsbFields DEF ResvGone
  <2>3. \A j \in psbs : j # k => psb'[j] = psb[j]
    BY <1>6, <1>t DEF ResvGone, OtherPsbs
  <2>4. \A j \in rsbs' : j \in rsbs /\ j # k /\ rsb'[j] = rsb[j]
    BY <1>6, <1>t DEF ResvGone, OtherRsbs
  <2>5. psbs' = psbs
    BY <1>6 DEF ResvGone
  <2>. QED  BY <1>n, <1>t, <2>2, <2>3, <2>4, <2>5
<1>7. ASSUME NEW k \in Keys, NEW D \in SUBSET psbs, Installed(k, D) PROVE Roles'
  <2>1. ASSUME NEW j \in psbs \ D
        PROVE  /\ psb'[j].is_ingress = psb[j].is_ingress
               /\ psb'[j].prev_hop = psb[j].prev_hop
    BY <1>7, <1>t DEF Installed, SamePsb
  <2>2. /\ psbs' = psbs \ D /\ rsbs' = (rsbs \cup {k}) \ D /\ k \in psbs \ D
        /\ \A j \in rsbs \ D : j # k => rsb'[j] = rsb[j]
    BY <1>7, <1>t DEF Installed
  <2>3. k \notin rsbs => rsb[k].label_in = 0
    BY Psb0Blank DEF Blank
  <2>4. CASE psb[k].prev_hop # 0
    <3>1. rsb'[k].label_in # 0
      BY <1>7, <1>t, <2>4 DEF Installed
    <3>2. ~ psb[k].is_ingress
      BY <2>2, <2>4
    <3>. QED  BY <1>n, <1>t, <2>1, <2>2, <3>1, <3>2
  <2>5. CASE psb[k].prev_hop = 0
    <3>1. rsb'[k].label_in = rsb[k].label_in
      BY <1>7, <2>5 DEF Installed
    <3>2. psb[k].is_ingress \/ k \in strays
      BY <2>2, <2>5 DEF Origin, Strayed
    <3>. QED  BY <1>n, <1>t, <2>1, <2>2, <2>3, <3>1, <3>2
  <2>. QED  BY <2>4, <2>5
<1>8. ASSUME NEW D \in SUBSET psbs, PathsGone(D) PROVE Roles'
  <2>1. ASSUME NEW j \in psbs \ D
        PROVE  /\ psb'[j].is_ingress = psb[j].is_ingress
               /\ psb'[j].prev_hop = psb[j].prev_hop
    BY <1>8, <1>t DEF PathsGone, SamePsb
  <2>2. /\ psbs' = psbs \ D /\ rsbs' = rsbs \ D
        /\ \A j \in rsbs \ D : rsb'[j] = rsb[j]
    BY <1>8, <1>t DEF PathsGone
  <2>. QED  BY <1>n, <1>t, <2>1, <2>2
<1>9. ASSUME NEW W \in SUBSET psbs, Trigger(W) \/ Revert(W) PROVE Roles'
  <2>1. \A j \in psbs : /\ psb'[j].is_ingress = psb[j].is_ingress
                        /\ psb'[j].prev_hop = psb[j].prev_hop
    BY <1>9, <1>t DEF Trigger, Revert, Switch, SamePsb
  <2>2. UNCHANGED <<psbs, rsbs, rsb>>
    BY <1>9 DEF Trigger, Revert, Switch
  <2>. QED  BY <1>n, <1>t, <2>1, <2>2
<1>. QED  BY <1>1, <1>3, <1>4, <1>5, <1>6, <1>7, <1>8, <1>9 DEF Kind, Quiet

\* Only a label that an RSB has carries a route, whatever comes back.
LEMMA SwapRoutes ==
    ASSUME Inv
    PROVE  \A l \in Labels : swap[l] # NoEntry => l \in in_labels(rsbs)
BY DEF Inv, SwapOwned, LabelsOwned

\* The destinations that are given back with the PSBs D are those of the
\* reservations of D that begin here.
LEMMA FreedRoutes ==
    ASSUME Inv, Roles, NEW D
    PROVE  \A k \in D \cap rsbs : psb[k].is_ingress => k.dest \in FreedDests(D)
BY DEF FreedDests, push_dests, Inv, Linked, Roles

\* The route of a destination goes with the last reservation that begins here,
\* unless an LSP to it has been a stray.
LEMMA RoutesKept ==
    ASSUME Inv, Inv', Kind, StraysNoted, Roles, RoutesOwned
    PROVE  RoutesOwned'
<1>. DEFINE Owned(d) == \/ \E k \in rsbs : k.dest = d /\ psb[k].is_ingress
                        \/ \E k \in strays : k.dest = d
            Pushed == \A d \in Dests : push[d] # NoEntry => Owned(d)
<1>a. SUFFICES Pushed'
  <2>1. (\A l \in Labels : swap[l] # NoEntry => l \in in_labels(rsbs))'
    BY SwapRoutes, PTL
  <2>. QED  BY <2>1 DEF RoutesOwned
<1>b. Pushed
  BY DEF RoutesOwned
<1>t. psbs \subseteq Keys /\ rsbs \subseteq psbs
  BY DEF Inv, TypeOK, Linked
<1>n. strays \subseteq strays' /\ \A k \in psbs' : Strayed(k)' => k \in strays'
  BY DEF StraysNoted
\* The reservations that begin here stay, or their destinations are given back.
<1>1. ASSUME NEW D,
             \A k \in rsbs \ D : k \in rsbs' /\ psb'[k].is_ingress = psb[k].is_ingress,
             \A d \in Dests : \/ push'[d] = NoEntry
                              \/ d \notin FreedDests(D) /\ push'[d] = push[d]
                              \/ Owned(d)'
      PROVE  Pushed'
  <2>1. ASSUME NEW d \in Dests, push'[d] # NoEntry
        PROVE  Owned(d)'
    <3>1. CASE d \notin FreedDests(D) /\ push'[d] = push[d]
      <4>1. CASE \E k \in strays : k.dest = d
        BY <1>n, <4>1
      <4>2. ASSUME NEW k \in rsbs, k.dest = d, psb[k].is_ingress
            PROVE  Owned(d)'
        <5>1. k \notin D
          BY <3>1, <4>2, FreedRoutes
        <5>. QED  BY <1>1, <4>2, <5>1
      <4>. QED  BY <1>b, <2>1, <3>1, <4>1, <4>2
    <3>. QED  BY <1>1, <2>1, <3>1
  <2>. QED  BY <2>1
<1>. HIDE DEF Pushed
<1>e. FreedDests({}) = {}
  BY DEF FreedDests, push_dests
<1>2. CASE Quiet
  BY <1>1, <1>2, <1>e DEF Quiet
<1>3. ASSUME NEW k \in Keys, PathSet(k) PROVE Pushed'
  <2>1. \A j \in rsbs : psb'[j].is_ingress = psb[j].is_ingress
    BY <1>3, <1>t DEF PathSet, PsbWritten, OtherPsbs
  <2>. QED  BY <1>1, <1>3, <1>e, <2>1 DEF PathSet
<1>4. ASSUME NEW k \in Keys, EgressSet(k) PROVE Pushed'
  <2>1. \A j \in rsbs : j \in rsbs' /\ psb'[j].is_ingress = psb[j].is_ingress
    BY <1>4, <1>t DEF EgressSet, OtherPsbs
  <2>. QED  BY <1>1, <1>4, <1>e, <2>1 DEF EgressSet
<1>5. ASSUME NEW k \in Keys, ResvSet(k) PROVE Pushed'
  BY <1>1, <1>5, <1>e DEF ResvSet
<1>6. ASSUME NEW k \in Keys, ResvGone(k) PROVE Pushed'
  <2>1. \A j \in rsbs \ {k} : j \in rsbs' /\ psb'[j].is_ingress = psb[j].is_ingress
    BY <1>6, <1>t DEF ResvGone, OtherPsbs
  <2>. QED  BY <1>1, <1>6, <2>1 DEF ResvGone
<1>7. ASSUME NEW k \in Keys, NEW D \in SUBSET psbs, Installed(k, D) PROVE Pushed'
  <2>1. \A j \in rsbs \ D : j \in rsbs' /\ psb'[j].is_ingress = psb[j].is_ingress
    BY <1>7, <1>t DEF Installed, SamePsb
  <2>2. CASE psb[k].prev_hop # 0
    <3>1. \A d \in Dests : push'[d] = IF d \in FreedDests(D) THEN NoEntry ELSE push[d]
      BY <1>7, <2>2 DEF Installed
    <3>. QED  BY <1>1, <2>1, <3>1
  <2>3. CASE psb[k].prev_hop = 0
    <3>1. \A d \in Dests : d # k.dest =>
             push'[d] = IF d \in FreedDests(D) THEN NoEntry ELSE push[d]
      BY <1>7, <2>3 DEF Installed
    <3>2. k \in rsbs' /\ psb'[k].is_ingress = psb[k].is_ingress
      BY <1>7 DEF Installed
    <3>3. psb[k].is_ingress \/ k \in strays
      BY <1>7, <2>3 DEF Installed, Inv, Origin, Strayed
    <3>4. Owned(k.dest)'
      BY <1>n, <3>2, <3>3
    <3>. QED  BY <1>1, <2>1, <3>1, <3>4
  <2>. QED  BY <2>2, <2>3
<1>8. ASSUME NEW D \in SUBSET psbs, PathsGone(D) PROVE Pushed'
  <2>1. \A j \in rsbs \ D : j \in rsbs' /\ psb'[j].is_ingress = psb[j].is_ingress
    BY <1>8, <1>t DEF PathsGone, SamePsb
  <2>. QED  BY <1>1, <1>8, <2>1 DEF PathsGone
\* An egress that is rerouted is a stray, before the step or after it.
<1>9. ASSUME NEW W \in SUBSET psbs, Trigger(W) \/ Revert(W) PROVE Pushed'
  <2>1. \A j \in W : psb[j].frr_active = TRUE \/ psb'[j].frr_active = TRUE
    BY <1>9 DEF Trigger, Revert, Switch
  <2>2. ASSUME NEW j \in W, is_egress(j), ~ psb[j].is_ingress
        PROVE  j \in strays'
    <3>1. j \in psbs' /\ psb'[j].is_ingress = psb[j].is_ingress
      BY <1>9, <1>t DEF Trigger, Revert, Switch, SamePsb
    <3>2. CASE psb[j].frr_active = TRUE
      BY <1>n, <2>2, <3>2 DEF Inv, Origin, Strayed
    <3>3. CASE psb'[j].frr_active = TRUE
      <4>1. Strayed(j)'
        BY <2>2, <3>1, <3>3 DEF Strayed, is_egress
      <4>. QED  BY <1>n, <3>1, <4>1
    <3>. QED  BY <2>1, <3>2, <3>3
  <2>3. rsbs' = rsbs /\ \A j \in rsbs : psb'[j].is_ingress = psb[j].is_ingress
    BY <1>9, <1>t DEF Trigger, Revert, Switch, SamePsb
  <2>4. \A d \in Dests : push'[d] # push[d] =>
           \E j \in W \cap rsbs : rsb[j].label_in = 0 /\ j.dest = d
    BY <1>9 DEF Trigger, Revert, Switch
  <2>5. \A d \in Dests : push'[d] # push[d] => Owned(d)'
    <3>1. ASSUME NEW j \in W \cap rsbs, rsb[j].label_in = 0 PROVE Owned(j.dest)'
      <4>1. psb[j].is_ingress \/ is_egress(j) \/ j \in strays
        BY <3>1 DEF Roles
      <4>2. CASE psb[j].is_ingress
        BY <2>3, <4>2
      <4>3. CASE ~ psb[j].is_ingress /\ (is_egress(j) \/ j \in strays)
        <5>1. j \in strays'
          BY <1>n, <2>2, <4>3
        <5>. QED  BY <5>1
      <4>. QED  BY <4>1, <4>2, <4>3
    <3>. QED  BY <2>4, <3>1
  <2>. QED  BY <1>1, <1>e, <2>3, <2>5
<1>. QED  BY <1>2, <1>3, <1>4, <1>5, <1>6, <1>7, <1>8, <1>9 DEF Kind

\* The label a transit LSP has advertised is programmed as its reservation says.
LEMMA TransitKept ==
    ASSUME Inv, TypeOK', Kind, StraysNoted, NoLoops, Roles, TransitForwards
    PROVE  TransitForwards'
<1>t. /\ psbs \subseteq Keys /\ rsbs \subseteq psbs /\ 0 \notin Labels
      /\ \A k \in rsbs : rsb[k].label_in \in Labels \cup {0}
      /\ \A k \in Keys : psb[k].frr_active \in BOOLEAN
  BY DbAssumption DEF Inv, TypeOK, Linked, Rsb, Psb
<1>l. /\ \A i, j \in rsbs : rsb[i].label_in = rsb[j].label_in /\ rsb[i].label_in # 0
                               => i = j
      /\ \A j \in rsbs : rsb[j].label_in # 0 => rsb[j].label_in \in labels
  BY DEF Inv, LabelsOwned, in_labels
<1>. DEFINE F(k) == /\ rsb[k].label_in # 0
                    /\ swap[rsb[k].label_in] = EntryOf(rsb[k])
            Transit(k) == psb[k].prev_hop # 0 /\ ~ is_egress(k)
<1>0. \A k \in rsbs \ strays : Transit(k) /\ ~ psb[k].frr_active => F(k)
  BY DEF TransitForwards
<1>r. \A k \in rsbs \ strays : Transit(k) =>
         rsb[k].label_in # 0 /\ rsb[k].label_in \in Labels
  BY <1>t DEF Roles
\* An LSP whose RSB, route and role are left alone goes on forwarding.
<1>1. ASSUME NEW k \in rsbs, k \notin strays, rsb'[k] = rsb[k],
             psb'[k].prev_hop # 0 => psb[k].prev_hop # 0,
             psb[k].frr_active => psb'[k].frr_active,
             rsb[k].label_in # 0 => swap'[rsb[k].label_in] = swap[rsb[k].label_in],
             psb'[k].prev_hop # 0, ~ is_egress(k), ~ psb'[k].frr_active
      PROVE  rsb'[k].label_in # 0 /\ swap'[rsb'[k].label_in] = EntryOf(rsb'[k])
  BY <1>0, <1>1
<1>s. SUFFICES ASSUME NEW k \in rsbs', k \notin strays', psb'[k].prev_hop # 0,
                      ~ is_egress(k), ~ psb'[k].frr_active
               PROVE  rsb'[k].label_in # 0 /\ swap'[rsb'[k].label_in] = EntryOf(rsb'[k])
  BY DEF TransitForwards, is_egress
<1>k. k \in Keys
  BY DEF TypeOK
<1>n. k \notin strays
  BY <1>s DEF StraysNoted
<1>. HIDE DEF F, Transit
<1>2. CASE Quiet
  BY <1>1, <1>2, <1>n, <1>s DEF Quiet
<1>3. ASSUME NEW j \in Keys, PathSet(j)
      PROVE  rsb'[k].label_in # 0 /\ swap'[rsb'[k].label_in] = EntryOf(rsb'[k])
  <2>1. k \in rsbs /\ k \in psbs /\ UNCHANGED <<rsb, swap>>
    BY <1>3, <1>s, <1>t DEF PathSet
  <2>2. CASE j = k
    <3>1. PsbWritten(k)
      BY <1>3, <2>2 DEF PathSet
    <3>2. psb'[k].frr_active = psb[k].frr_active
      BY <3>1 DEF PsbWritten
    <3>3. psb'[k].prev_hop # 0 => psb[k].prev_hop # 0
      <4>1. ASSUME psb[k].prev_hop = 0 PROVE k.src \in OwnSrcs
        BY <1>n, <2>1, <4>1 DEF Inv, Origin, Strayed
      <4>. QED  BY <2>1, <3>1, <4>1, PathIsForeign DEF PsbWritten
    <3>. QED  BY <1>1, <1>n, <1>s, <2>1, <3>2, <3>3
  <2>3. CASE j # k
    <3>1. psb'[k] = psb[k]
      BY <1>3, <1>k, <2>3 DEF PathSet, OtherPsbs
    <3>. QED  BY <1>1, <1>n, <1>s, <2>1, <3>1
  <2>. QED  BY <2>2, <2>3
<1>4. ASSUME NEW j \in Keys, EgressSet(j)
      PROVE  rsb'[k].label_in # 0 /\ swap'[rsb'[k].label_in] = EntryOf(rsb'[k])
  <2>1. j # k
    BY <1>4, <1>s DEF EgressSet
  <2>2. k \in rsbs /\ rsb'[k] = rsb[k] /\ psb'[k] = psb[k] /\ swap' = swap
    BY <1>4, <1>k, <1>s, <2>1 DEF EgressSet, OtherPsbs, OtherRsbs
  <2>. QED  BY <1>1, <1>n, <1>s, <2>2
<1>5. ASSUME NEW j \in Keys, ResvSet(j)
      PROVE  rsb'[k].label_in # 0 /\ swap'[rsb'[k].label_in] = EntryOf(rsb'[k])
  <2>1. k \in rsbs /\ psb' = psb /\ swap' = swap
    BY <1>5, <1>s DEF ResvSet
  <2>2. CASE j = k
    <3>1. rsb[k].label_in # 0
      BY <1>n, <1>r, <1>s, <2>1 DEF Transit
    <3>2. rsb'[k].label_in = rsb[k].label_in /\ EntryOf(rsb'[k]) = EntryOf(rsb[k])
      BY <1>5, <2>2, <3>1 DEF ResvSet, LabelKept, LabelTaken
    <3>. QED  BY <1>0, <1>n, <1>s, <2>1, <3>2 DEF Transit, F
  <2>3. CASE j # k
    <3>1. rsb'[k] = rsb[k]
      BY <1>5, <1>k, <2>3 DEF ResvSet, OtherRsbs
    <3>. QED  BY <1>1, <1>n, <1>s, <2>1, <3>1
  <2>. QED  BY <2>2, <2>3
<1>6. ASSUME NEW j \in Keys, ResvGone(j)
      PROVE  rsb'[k].label_in # 0 /\ swap'[rsb'[k].label_in] = EntryOf(rsb'[k])
  <2>1. k \in rsbs /\ k # j /\ k \notin {j}
    BY <1>6, <1>s DEF ResvGone
  <2>2. rsb'[k] = rsb[k] /\ psb'[k] = psb[k]
    BY <1>6, <1>k, <2>1 DEF ResvGone, OtherPsbs, OtherRsbs
  <2>3. rsb[k].label_in \notin Freed({j})
    BY <2>1, FreedLabels
  <2>4. rsb[k].label_in # 0 => swap'[rsb[k].label_in] = swap[rsb[k].label_in]
    BY <1>6, <1>t, <2>1, <2>3 DEF ResvGone
  <2>. QED  BY <1>1, <1>n, <1>s, <2>1, <2>2, <2>4
<1>7. ASSUME NEW j \in Keys, NEW D \in SUBSET psbs, Installed(j, D)
      PROVE  rsb'[k].label_in # 0 /\ swap'[rsb'[k].label_in] = EntryOf(rsb'[k])
  <2>1. k \notin D /\ (k = j \/ k \in rsbs)
    BY <1>7, <1>s DEF Installed
  <2>2. CASE j = k
    <3>1. psb[k].prev_hop # 0
      BY <1>7, <1>s, <2>2 DEF Installed
    <3>2. \/ rsb'[k].label_in = rsb[k].label_in /\ rsb[k].label_in # 0
          \/ rsb[k].label_in = 0 /\ rsb'[k].label_in \in Labels \ labels
      BY <1>7, <2>2, <3>1 DEF Installed
    <3>3. k \notin rsbs => rsb[k].label_in = 0
      BY <1>k, Psb0Blank DEF Inv, Blank
    <3>4. rsb'[k].label_in # 0 /\ rsb'[k].label_in \in Labels
      BY <1>t, <3>2, <3>3
    <3>5. rsb'[k].label_in \notin Freed(D)
      <4>1. \A l \in Freed(D) : l \in labels
        BY <1>l, FreedLabels
      <4>. QED  BY <2>1, <3>2, <3>3, <4>1, FreedLabels
    <3>. QED  BY <1>7, <2>2, <3>1, <3>4, <3>5 DEF Installed
  <2>3. CASE j # k
    <3>1. /\ rsb'[k] = rsb[k] /\ psb'[k].prev_hop = psb[k].prev_hop
          /\ psb'[k].frr_active = psb[k].frr_active
      BY <1>7, <1>k, <2>1, <2>3 DEF Installed, SamePsb
    <3>2. rsb[k].label_in \notin Freed(D)
      BY <2>1, <2>3, FreedLabels
    <3>3. rsb[j].label_in # 0 => rsb[j].label_in # rsb[k].label_in
      BY <1>l, <2>1, <2>3, Psb0Blank DEF Inv, Blank
    <3>4. ASSUME rsb[k].label_in # 0
          PROVE  swap'[rsb[k].label_in] = swap[rsb[k].label_in]
      <4>1. rsb[k].label_in \in Labels /\ rsb[k].label_in \in labels
        BY <1>l, <1>t, <2>1, <2>3, <3>4
      <4>2. CASE psb[j].prev_hop # 0
        BY <1>7, <3>2, <3>3, <4>1, <4>2 DEF Installed
      <4>3. CASE psb[j].prev_hop = 0
        BY <1>7, <3>2, <4>1, <4>3 DEF Installed
      <4>. QED  BY <4>2, <4>3
    <3>. QED  BY <1>1, <1>n, <1>s, <2>1, <2>3, <3>1, <3>4
  <2>. QED  BY <2>2, <2>3
<1>8. ASSUME NEW D \in SUBSET psbs, PathsGone(D)
      PROVE  rsb'[k].label_in # 0 /\ swap'[rsb'[k].label_in] = EntryOf(rsb'[k])
  <2>1. k \in rsbs /\ k \notin D
    BY <1>8, <1>s DEF PathsGone
  <2>2. /\ rsb'[k] = rsb[k] /\ psb'[k].prev_hop = psb[k].prev_hop
        /\ psb'[k].frr_active = psb[k].frr_active
    BY <1>8, <1>k, <2>1 DEF PathsGone, SamePsb
  <2>3. rsb[k].label_in \notin Freed(D)
    BY <2>1, FreedLabels
  <2>4. rsb[k].label_in # 0 => swap'[rsb[k].label_in] = swap[rsb[k].label_in]
    BY <1>8, <1>t, <2>1, <2>3 DEF PathsGone
  <2>. QED  BY <1>1, <1>n, <1>s, <2>1, <2>2, <2>4
<1>9. ASSUME NEW W \in SUBSET psbs, Trigger(W) \/ Revert(W)
      PROVE  rsb'[k].label_in # 0 /\ swap'[rsb'[k].label_in] = EntryOf(rsb'[k])
  <2>1. k \in rsbs /\ rsb' = rsb
    BY <1>9, <1>s DEF Trigger, Revert, Switch
  <2>2. psb'[k].prev_hop = psb[k].prev_hop
    BY <1>9, <1>k DEF Trigger, Revert, Switch, SamePsb
  <2>3. rsb[k].label_in # 0 /\ rsb[k].label_in \in Labels
    BY <1>n, <1>r, <1>s, <2>1, <2>2 DEF Transit
  <2>4. \A i \in rsbs : rsb[i].label_in = rsb[k].label_in => i = k
    BY <1>l, <2>1, <2>3
  <2>5. CASE k \in W
    <3>1. Revert(W)
      BY <1>9, <1>s, <2>5 DEF Trigger, Switch
    <3>2. W \subseteq rsbs
      BY <3>1 DEF Revert
    <3>3. PICK i \in W : /\ rsb[i].label_in = rsb[k].label_in
                         /\ swap'[rsb[k].label_in] = EntryOf(rsb[i])
      BY <2>3, <2>5, <3>1 DEF Revert
    <3>4. i = k
      BY <2>4, <3>2, <3>3
    <3>. QED  BY <2>1, <2>3, <3>3, <3>4
  <2>6. CASE k \notin W
    <3>1. psb'[k] = psb[k]
      BY <1>9, <1>k, <2>6 DEF Trigger, Revert, Switch
    <3>2. \A i \in W \cap rsbs : rsb[i].label_in # rsb[k].label_in
      BY <2>4, <2>6
    <3>3. swap'[rsb[k].label_in] = swap[rsb[k].label_in]
      BY <1>9, <2>3, <3>2 DEF Trigger, Revert, Switch
    <3>. QED  BY <1>1, <1>n, <1>s, <2>1, <3>1, <3>3
  <2>. QED  BY <2>5, <2>6
<1>. QED  BY <1>2, <1>3, <1>4, <1>5, <1>6, <1>7, <1>8, <1>9 DEF Kind

\* The strengthening holds at the start and every step keeps it.
LEMMA LoopFreeInv == Spec => []LoopFree
<1>1. Init => LoopFree
  BY DEF Init, rsvp_state_db_init, LoopFree, Roles, RoutesOwned, TransitForwards
<1>2. Inv /\ LoopFree /\ [Next]_vars => LoopFree'
  <2>. SUFFICES ASSUME Inv, LoopFree, [Next]_vars, NoLoops
                PROVE  Roles' /\ RoutesOwned' /\ TransitForwards'
    BY DEF LoopFree, NoLoops
  <2>1. Kind /\ Inv' /\ TypeOK' /\ StraysNoted
    BY StepKinds, InvStep, StraysStep DEF Inv
  <2>2. Roles /\ RoutesOwned /\ TransitForwards
    BY DEF LoopFree
  <2>. QED  BY <2>1, <2>2, RolesKept, RoutesKept, TransitKept
<1>. QED  BY <1>1, <1>2, NodeInvariant, PTL DEF Spec

\* No forwarding entry outlives its reservation: neither the SWAP route of a
\* label that may be allocated again, nor the PUSH route of a destination whose
\* LSPs that begin here are gone and of which no LSP was a stray, as long as no
\* PATH of this node comes back.
THEOREM RoutesAreOwned == Spec => [](NoLoops => RoutesOwned)
<1>1. LoopFree => (NoLoops => RoutesOwned)
  BY DEF LoopFree
<1>. QED  BY <1>1, LoopFreeInv, PTL

\* A transit LSP that is not rerouted forwards to the neighbour and with the
\* label its latest RESV named, unless it has been a stray, as long as no PATH
\* of this node comes back.
THEOREM TransitIsProgrammed == Spec => [](NoLoops => TransitForwards)
<1>1. LoopFree => (NoLoops => TransitForwards)
  BY DEF LoopFree
<1>. QED  BY <1>1, LoopFreeInv, PTL

\* Once the node has been shut down no PSB is left, and nothing is done any
\* more.
LEMMA Stopped == Spec => [](~ running => psbs = {})
<1>1. Init => (~ running => psbs = {})
  BY DEF Init
<1>2. (~ running => psbs = {}) /\ [Next]_vars => (~ running => psbs = {})'
  <2>1. CASE UNCHANGED vars
    BY <2>1 DEF vars
  <2>2. CASE Next /\ running' = running
    BY <2>2 DEF Next
  <2>3. CASE rsvp_state_machine_shutdown
    BY <2>3 DEF rsvp_state_machine_shutdown, shutdown_cleanup, rsvp_psb_cleanup
  <2>. QED  BY <2>1, <2>2, <2>3 DEF Next
<1>. QED  BY <1>1, <1>2, PTL DEF Spec

\* After shutdown the node holds no block, no label and no forwarding entry but
\* the PUSH routes strays have left: as every RSB has its PSB, every label its
\* RSB and every other route its reservation, walking the PSBs releases them.
THEOREM ShutdownReleasesAll == Spec => [](NoLoops => ShutdownClean)
<1>1. ASSUME Inv, LoopFree, ~ running => psbs = {}, NoLoops
      PROVE  ShutdownClean
  <2>. SUFFICES ASSUME ~ running
                PROVE  /\ psbs = {} /\ rsbs = {} /\ labels = {}
                       /\ \A l \in Labels : swap[l] = NoEntry
                       /\ \A d \in Dests \ {k.dest : k \in strays} : push[d] = NoEntry
    BY DEF ShutdownClean
  <2>1. psbs = {} /\ rsbs = {}
    BY <1>1 DEF Inv, Linked
  <2>2. labels = {}
    BY <1>1, <2>1 DEF Inv, LabelsOwned, in_labels
  <2>3. \A l \in Labels : swap[l] = NoEntry
    BY <1>1, <2>2 DEF Inv, SwapOwned
  <2>4. \A d \in Dests \ {k.dest : k \in strays} : push[d] = NoEntry
    BY <1>1, <2>1 DEF LoopFree, RoutesOwned
  <2>. QED  BY <2>1, <2>2, <2>3, <2>4
<1>2. Inv /\ LoopFree /\ (~ running => psbs = {}) => (NoLoops => ShutdownClean)
  BY <1>1
<1>. QED  BY <1>2, NodeInvariant, LoopFreeInv, Stopped, PTL

\* Make-before-break is pending at most until the new LSP has its reservation.
\* The one way around is an LSP that begins here and ends here, and whose PATH
\* is accepted as that of another node: the egress creates the reservation
\* without completing anything.
THEOREM MbbIsPending ==
    Spec => []((\A k \in Keys : k.src \in OwnSrcs /\ is_egress(k) =>
                                    is_local(k.src) /\ ~ OwnPathLoops)
                  => MbbPending)
<1>. DEFINE Apart == \A k \in Keys : k.src \in OwnSrcs /\ is_egress(k) =>
                                         is_local(k.src) /\ ~ OwnPathLoops
<1>1. Init => MbbPending
  BY DEF Init, rsvp_state_db_init, MbbPending
<1>2. ASSUME Inv, TypeOK', Kind, MbbPending, Apart PROVE MbbPending'
  <2>t. /\ psbs \subseteq Keys /\ rsbs \subseteq psbs
        /\ \A j \in Keys : psb[j].is_ingress \in BOOLEAN
    BY <1>2 DEF Inv, TypeOK, Linked, Psb
  <2>0. \A k \in psbs : psb[k].mbb_old_lsp_id # NoLsp => psb[k].is_ingress /\ k \notin rsbs
    BY <1>2 DEF MbbPending
  <2>1. ASSUME psbs' \subseteq psbs, rsbs' \subseteq rsbs,
               \A j \in psbs' : /\ psb'[j].is_ingress = psb[j].is_ingress
                                /\ psb'[j].mbb_old_lsp_id = psb[j].mbb_old_lsp_id
        PROVE  MbbPending'
    BY <2>0, <2>1 DEF MbbPending
  <2>2. ASSUME NEW k \in Keys, PathSet(k) PROVE MbbPending'
    <3>1. \A j \in psbs : j # k => psb'[j] = psb[j]
      BY <2>2, <2>t DEF PathSet, OtherPsbs
    <3>2. psb'[k].mbb_old_lsp_id # NoLsp => psb'[k].is_ingress /\ k \notin rsbs
      BY <2>0, <2>2, <2>t DEF PathSet, PsbWritten
    <3>. QED  BY <2>0, <2>2, <3>1, <3>2 DEF PathSet, MbbPending
  <2>3. ASSUME NEW k \in Keys, EgressSet(k) PROVE MbbPending'
    <3>1. \A j \in psbs : j # k => psb'[j] = psb[j]
      BY <2>3, <2>t DEF EgressSet, OtherPsbs
    <3>2. k.src \notin OwnSrcs
      BY <1>2, <2>3 DEF EgressSet, PathAccepted
    <3>3. psb'[k].mbb_old_lsp_id = NoLsp
      <4>1. CASE k \in psbs
        <5>1. ~ psb[k].is_ingress
          BY <1>2, <3>2, <4>1 DEF Inv, Origin
        <5>. QED  BY <2>0, <2>3, <4>1, <5>1 DEF EgressSet, PsbWritten
      <4>2. CASE k \notin psbs
        BY <2>3, <3>2, <4>2 DEF EgressSet, PsbWritten
      <4>. QED  BY <4>1, <4>2
    <3>. QED  BY <2>0, <2>3, <3>1, <3>3 DEF EgressSet, MbbPending
  <2>4. ASSUME NEW k \in Keys, ResvGone(k) PROVE MbbPending'
    <3>1. psb[k] \in Psb
      BY <1>2 DEF Inv, TypeOK
    <3>2. /\ psb'[k].is_ingress = psb[k].is_ingress
          /\ psb'[k].mbb_old_lsp_id = psb[k].mbb_old_lsp_id
      BY <2>4, <3>1, PsbFields DEF ResvGone
    <3>. QED  BY <2>1, <2>4, <2>t, <3>2 DEF ResvGone, OtherPsbs
  <2>5. ASSUME NEW k \in Keys, NEW D \in SUBSET psbs, Installed(k, D) PROVE MbbPending'
    <3>1. /\ psbs' = psbs \ D /\ rsbs' = (rsbs \cup {k}) \ D /\ k \in psbs \ D
          /\ \A j \in psbs \ D : j # k => SamePsb(psb'[j], psb[j])
      BY <2>5, <2>t DEF Installed
    <3>2. psb'[k].mbb_old_lsp_id = NoLsp
      BY <2>0, <2>5, <3>1 DEF Installed
    <3>. QED  BY <2>0, <3>1, <3>2 DEF SamePsb, MbbPending
  <2>6. ASSUME NEW D \in SUBSET psbs, PathsGone(D) PROVE MbbPending'
    BY <2>1, <2>6, <2>t DEF PathsGone, SamePsb
  <2>7. ASSUME NEW W \in SUBSET psbs, NEW a, Switch(W, a) PROVE MbbPending'
    BY <2>1, <2>7, <2>t DEF Switch, SamePsb
  <2>8. CASE UNCHANGED <<psbs, psb, rsbs>>
    BY <2>1, <2>8
  <2>. QED  BY <1>2, <2>2, <2>3, <2>4, <2>5, <2>6, <2>7, <2>8
               DEF Kind, Quiet, ResvSet, Trigger, Revert
<1>3. Inv /\ (Apart => MbbPending) /\ [Next]_vars => (Apart => MbbPending)'
  <2>. SUFFICES ASSUME Inv, Apart => MbbPending, [Next]_vars
                PROVE  (Apart => MbbPending)'
    OBVIOUS
  <2>1. Kind /\ TypeOK'
    BY StepKinds, TypeStep DEF Inv
  <2>2. Apart' => Apart
    BY DEF is_local, is_egress
  <2>. QED  BY <1>2, <2>1, <2>2
<1>. QED  BY <1>1, <1>3, NodeInvariant, PTL DEF Spec
=============================================================================
