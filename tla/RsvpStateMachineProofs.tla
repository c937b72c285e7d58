----------------------- MODULE RsvpStateMachineProofs -----------------------
(***************************************************************************)
(* Proofs about the state machine of one node, for every set of keys,      *)
(* labels, neighbours and interfaces.                                      *)
(***************************************************************************)
EXTENDS RsvpProperties, TLAPS

-----------------------------------------------------------------------------
(* What the operators of the model return.                                 *)

\* label_mgr_alloc returns 0 or a label nobody has.
LEMMA AllocResult ==
    ASSUME NEW l \in label_mgr_alloc
    PROVE  l = 0 \/ l \in Labels \ labels
BY DEF label_mgr_alloc, FreeLabels

\* A PSB that is created empty, an RSB that is created empty, and no route.
LEMMA BlankTypes == Psb0 \in Psb /\ Rsb0 \in Rsb /\ NoEntry \in Entry
BY DEF Psb0, Psb, Rsb0, Rsb, NoEntry, Entry

\* What the properties read of a PSB, apart from its interface, its bypass and
\* whether it is rerouted.
SamePsb(q, p) ==
    /\ q.prev_hop = p.prev_hop /\ q.is_ingress = p.is_ingress
    /\ q.refresh_timer = p.refresh_timer /\ q.cleanup_timer = p.cleanup_timer
    /\ q.mbb_old_lsp_id = p.mbb_old_lsp_id
    /\ q.associated_rsb = p.associated_rsb

\* A PATH stores its hop and starts both timers, and leaves the rest alone.
LEMMA PathUpdated ==
    ASSUME NEW k \in Keys, psb[k] \in Psb, NEW hop \in Hops \cup {0}, NEW frr
    PROVE  LET p == psb[k]
               q == path_updated(k, hop, frr) IN
           /\ q \in Psb
           /\ q.prev_hop = hop /\ q.is_ingress = p.is_ingress
           /\ q.refresh_timer /\ q.cleanup_timer
           /\ q.ifindex_out = p.ifindex_out /\ q.frr_active = p.frr_active
           /\ q.mbb_old_lsp_id = p.mbb_old_lsp_id
           /\ q.associated_rsb = p.associated_rsb
<1>. DEFINE p == psb[k]
            f == facility_after(p, frr)
            q == [p EXCEPT !.prev_hop = hop, !.facility = f,
                           !.cleanup_timer = TRUE, !.refresh_timer = TRUE]
<1>1. f \in BOOLEAN
  BY DEF facility_after, Psb
<1>2. p \in Psb /\ q = path_updated(k, hop, frr)
  BY DEF path_updated
<1>. HIDE DEF p, f
<1>3. q \in Psb
  BY <1>1, <1>2 DEF Psb
<1>4. q.prev_hop = hop /\ q.is_ingress = p.is_ingress
  BY <1>1, <1>2 DEF Psb
<1>5. q.refresh_timer /\ q.cleanup_timer
  BY <1>1, <1>2 DEF Psb
<1>6. q.ifindex_out = p.ifindex_out /\ q.frr_active = p.frr_active
  BY <1>1, <1>2 DEF Psb
<1>7. q.mbb_old_lsp_id = p.mbb_old_lsp_id /\ q.associated_rsb = p.associated_rsb
  BY <1>1, <1>2 DEF Psb
<1>. HIDE DEF q
<1>. QED  BY <1>2, <1>3, <1>4, <1>5, <1>6, <1>7 DEF p

\* send_path_downstream writes the interface only.
LEMMA PathSent ==
    ASSUME NEW p \in Psb, NEW r \in Routes
    PROVE  LET q == path_sent(p, r) IN
           /\ q \in Psb
           /\ SamePsb(q, p)
           /\ q.frr_active = p.frr_active
<1>1. CASE r = NoRoute
  BY <1>1 DEF path_sent, SamePsb
<1>2. CASE r # NoRoute
  <2>. DEFINE q == [p EXCEPT !.ifindex_out = r]
  <2>1. r \in Ifs /\ q = path_sent(p, r)
    BY <1>2 DEF Routes, path_sent
  <2>2. q \in Psb
    BY <2>1 DEF Psb
  <2>3. SamePsb(q, p)
    BY <2>1 DEF Psb, SamePsb
  <2>4. q.frr_active = p.frr_active
    BY <2>1 DEF Psb
  <2>. QED  BY <2>1, <2>2, <2>3, <2>4
<1>. QED  BY <1>1, <1>2

\* Fields of a PSB written one at a time.
LEMMA PsbFields ==
    ASSUME NEW p \in Psb
    PROVE  /\ \A a \in BOOLEAN : LET q == [p EXCEPT !.associated_rsb = a] IN
                 /\ q \in Psb /\ q.associated_rsb = a
                 /\ q.prev_hop = p.prev_hop /\ q.is_ingress = p.is_ingress
                 /\ q.refresh_timer = p.refresh_timer
                 /\ q.cleanup_timer = p.cleanup_timer
                 /\ q.mbb_old_lsp_id = p.mbb_old_lsp_id
                 /\ q.ifindex_out = p.ifindex_out /\ q.frr_active = p.frr_active
           /\ \A b \in Keys \cup {Null, Dangling} :
                 LET q == [p EXCEPT !.bypass_psb = b] IN
                 /\ q \in Psb /\ SamePsb(q, p)
                 /\ q.ifindex_out = p.ifindex_out /\ q.frr_active = p.frr_active
           /\ \A o \in LspIds \cup {NoLsp} :
                 LET q == [p EXCEPT !.mbb_old_lsp_id = o] IN
                 /\ q \in Psb /\ q.mbb_old_lsp_id = o
                 /\ q.prev_hop = p.prev_hop /\ q.is_ingress = p.is_ingress
                 /\ q.refresh_timer = p.refresh_timer
                 /\ q.cleanup_timer = p.cleanup_timer
                 /\ q.associated_rsb = p.associated_rsb
                 /\ q.ifindex_out = p.ifindex_out /\ q.frr_active = p.frr_active
<1>1. ASSUME NEW a \in BOOLEAN
      PROVE  LET q == [p EXCEPT !.associated_rsb = a] IN
                 /\ q \in Psb /\ q.associated_rsb = a
                 /\ q.prev_hop = p.prev_hop /\ q.is_ingress = p.is_ingress
                 /\ q.refresh_timer = p.refresh_timer
                 /\ q.cleanup_timer = p.cleanup_timer
                 /\ q.mbb_old_lsp_id = p.mbb_old_lsp_id
                 /\ q.ifindex_out = p.ifindex_out /\ q.frr_active = p.frr_active
  BY DEF Psb
<1>2. ASSUME NEW b \in Keys \cup {Null, Dangling}
      PROVE  LET q == [p EXCEPT !.bypass_psb = b] IN
                 /\ q \in Psb /\ SamePsb(q, p)
                 /\ q.ifindex_out = p.ifindex_out /\ q.frr_active = p.frr_active
  BY DEF Psb, SamePsb
<1>3. ASSUME NEW o \in LspIds \cup {NoLsp}
      PROVE  LET q == [p EXCEPT !.mbb_old_lsp_id = o] IN
                 /\ q \in Psb /\ q.mbb_old_lsp_id = o
                 /\ q.prev_hop = p.prev_hop /\ q.is_ingress = p.is_ingress
                 /\ q.refresh_timer = p.refresh_timer
                 /\ q.cleanup_timer = p.cleanup_timer
                 /\ q.associated_rsb = p.associated_rsb
                 /\ q.ifindex_out = p.ifindex_out /\ q.frr_active = p.frr_active
  BY DEF Psb
<1>. QED  BY <1>1, <1>2, <1>3

\* Fields of an RSB written one at a time.
LEMMA RsbFields ==
    ASSUME NEW p \in Rsb
    PROVE  /\ \A l \in Labels \cup {0} : LET q == [p EXCEPT !.label_in = l] IN
                 /\ q \in Rsb /\ q.label_in = l
                 /\ EntryOf(q) = EntryOf(p) /\ q.flowspec = p.flowspec
                 /\ q.associated_psb = p.associated_psb
                 /\ q.refresh_timer = p.refresh_timer
                 /\ q.cleanup_timer = p.cleanup_timer
           /\ \A f \in Flows \cup {0} : LET q == [p EXCEPT !.flowspec = f] IN
                 /\ q \in Rsb /\ q.flowspec = f
                 /\ EntryOf(q) = EntryOf(p) /\ q.label_in = p.label_in
                 /\ q.associated_psb = p.associated_psb
                 /\ q.refresh_timer = p.refresh_timer
                 /\ q.cleanup_timer = p.cleanup_timer
           /\ EntryOf(p) \in Entry
<1>1. ASSUME NEW l \in Labels \cup {0}
      PROVE  LET q == [p EXCEPT !.label_in = l] IN
                 /\ q \in Rsb /\ q.label_in = l
                 /\ EntryOf(q) = EntryOf(p) /\ q.flowspec = p.flowspec
                 /\ q.associated_psb = p.associated_psb
                 /\ q.refresh_timer = p.refresh_timer
                 /\ q.cleanup_timer = p.cleanup_timer
  BY DEF Rsb, EntryOf
<1>2. ASSUME NEW f \in Flows \cup {0}
      PROVE  LET q == [p EXCEPT !.flowspec = f] IN
                 /\ q \in Rsb /\ q.flowspec = f
                 /\ EntryOf(q) = EntryOf(p) /\ q.label_in = p.label_in
                 /\ q.associated_psb = p.associated_psb
                 /\ q.refresh_timer = p.refresh_timer
                 /\ q.cleanup_timer = p.cleanup_timer
  BY DEF Rsb, EntryOf
<1>3. EntryOf(p) \in Entry
  BY DEF Rsb, EntryOf, Entry
<1>. QED  BY <1>1, <1>2, <1>3

\* The RSB that a valid RESV leaves behind.
LEMMA ResvUpdated ==
    ASSUME NEW k \in Keys, psb[k] \in Psb, rsb[k] \in Rsb,
           NEW hop \in Hops \cup {0}, NEW label \in OutLabels \cup {0},
           NEW flow \in Flows \cup {Absent}
    PROVE  LET p == rsb[k]
               q == resv_updated(k, hop, label, flow) IN
           /\ q \in Rsb
           /\ q.label_in = p.label_in
           /\ q.label_out = label /\ q.next_hop = hop
           /\ q.flowspec = resv_flow(k, flow)
           /\ q.associated_psb <=> (p.associated_psb \/ k \notin rsbs)
           /\ q.cleanup_timer
           /\ q.refresh_timer <=> ~ psb[k].is_ingress
<1>. DEFINE p == rsb[k]
            a == p.associated_psb \/ k \notin rsbs
            f == resv_flow(k, flow)
            t == ~ psb[k].is_ingress
            q == [p EXCEPT !.associated_psb = a, !.flowspec = f,
                           !.cleanup_timer = TRUE, !.refresh_timer = t,
                           !.label_out = label, !.next_hop = hop]
<1>1. a \in BOOLEAN /\ t \in BOOLEAN /\ p \in Rsb
  OBVIOUS
<1>2. f \in Flows \cup {0}
  BY DEF resv_flow, Rsb
<1>3. q = resv_updated(k, hop, label, flow)
  BY DEF resv_updated
<1>. HIDE DEF p, a, f, t
<1>4. q \in Rsb
  BY <1>1, <1>2 DEF Rsb
<1>5. q.label_in = p.label_in /\ q.label_out = label /\ q.next_hop = hop
  BY <1>1, <1>2 DEF Rsb
<1>6. q.flowspec = f
  BY <1>1, <1>2 DEF Rsb
<1>7. q.associated_psb = a /\ q.cleanup_timer /\ q.refresh_timer = t
  BY <1>1, <1>2 DEF Rsb
<1>. HIDE DEF q
<1>. QED  BY <1>3, <1>4, <1>5, <1>6, <1>7 DEF p, a, f, t

\* The tables after blocks have been deleted and their labels and routes freed.
LEMMA DeleteTypes ==
    ASSUME NEW D
    PROVE  /\ \A t \in [Keys -> Psb] : psb_delete_all(t, D) \in [Keys -> Psb]
           /\ \A t \in [Keys -> Rsb] : rsb_delete_all(t, D) \in [Keys -> Rsb]
           /\ \A t \in [Labels -> Entry] : swap_remove(t, D) \in [Labels -> Entry]
           /\ \A t \in [Dests -> Entry] : push_remove(t, D) \in [Dests -> Entry]
           /\ \A s \in SUBSET Labels : labels_free(s, D) \in SUBSET Labels
<1>1. \A p \in Psb : forget_bypass(p, D) \in Psb
  BY PsbFields DEF forget_bypass
<1>2. QED
  BY <1>1, BlankTypes
     DEF psb_delete_all, rsb_delete_all, swap_remove, push_remove, labels_free

\* A deleted PSB is blank, and the others lose at most their bypass.
LEMMA PsbDeleted ==
    ASSUME NEW t \in [Keys -> Psb], NEW D, NEW j \in Keys
    PROVE  LET q == psb_delete_all(t, D)[j] IN
           /\ j \in D => q = Psb0
           /\ j \notin D => /\ SamePsb(q, t[j])
                            /\ q.ifindex_out = t[j].ifindex_out
                            /\ q.frr_active = t[j].frr_active
<1>1. j \in D => psb_delete_all(t, D)[j] = Psb0
  BY DEF psb_delete_all
<1>2. j \notin D => psb_delete_all(t, D)[j] = forget_bypass(t[j], D)
  BY DEF psb_delete_all
<1>3. LET q == forget_bypass(t[j], D) IN
      /\ SamePsb(q, t[j])
      /\ q.ifindex_out = t[j].ifindex_out
      /\ q.frr_active = t[j].frr_active
  <2>1. CASE t[j].bypass_psb \in D
    BY <2>1, PsbFields DEF forget_bypass
  <2>2. CASE t[j].bypass_psb \notin D
    BY <2>2 DEF forget_bypass, SamePsb
  <2>. QED  BY <2>1, <2>2
<1>. QED  BY <1>1, <1>2, <1>3

-----------------------------------------------------------------------------
(* Types.                                                                  *)

SentOK(S) == \A m \in S : m.type \in MsgTypes /\ m.key \in Keys

\* Every sender sends messages of the right kind.
LEMMA Senders ==
    ASSUME NEW k \in Keys
    PROVE  /\ \A p, r : SentOK(path_out(k, p, r))
           /\ \A h, l : SentOK(resv_out(k, h, l))
           /\ SentOK(send_path_err(k)) /\ SentOK(send_resv_err(k))
           /\ \A r : SentOK(propagate_resv_err(k, r))
           /\ \A r : SentOK(propagate_path_tear(k, r))
           /\ SentOK(propagate_resv_tear(k))
           /\ \A h : SentOK({Msg("PATHERR", k, h, 0)})
           /\ SentOK({})
<1>. USE DEF SentOK, Msg, MsgTypes
<1>1. \A p, r : SentOK(path_out(k, p, r))
  BY DEF path_out
<1>2. \A h, l : SentOK(resv_out(k, h, l))
  BY DEF resv_out
<1>3. SentOK(send_path_err(k)) /\ SentOK(send_resv_err(k))
  BY DEF send_path_err, send_resv_err
<1>4. \A r : SentOK(propagate_resv_err(k, r))
  BY DEF propagate_resv_err
<1>5. \A r : SentOK(propagate_path_tear(k, r))
  BY DEF propagate_path_tear
<1>6. SentOK(propagate_resv_tear(k))
  BY DEF propagate_resv_tear
<1>7. \A h : SentOK({Msg("PATHERR", k, h, 0)}) /\ SentOK({})
  OBVIOUS
<1>. QED  BY <1>1, <1>2, <1>3, <1>4, <1>5, <1>6, <1>7

\* rsvp_frr_auto_associate gives a PSB a bypass, or leaves it its own.
LEMMA AutoAssociate ==
    ASSUME psbs \subseteq Keys, NEW p \in Psb, NEW t, NEW have, NEW r,
           NEW b \in rsvp_frr_auto_associate(p, t, have, r)
    PROVE  b \in Keys \cup {Null, Dangling}
<1>1. p.bypass_psb \in Keys \cup {Null, Dangling}
  BY DEF Psb
<1>. QED  BY <1>1 DEF rsvp_frr_auto_associate, ready_bypasses

\* rsvp_frr_auto_associate_all writes no field but bypass_psb.
LEMMA AutoAssociateAll ==
    ASSUME NEW k, NEW t \in [Keys -> Psb], NEW have, NEW r,
           NEW u \in rsvp_frr_auto_associate_all(k, t, have, r)
    PROVE  /\ u \in [Keys -> Psb]
           /\ \A j \in Keys : /\ SamePsb(u[j], t[j])
                              /\ u[j].ifindex_out = t[j].ifindex_out
                              /\ u[j].frr_active = t[j].frr_active
<1>. DEFINE waiting == {c \in psbs :
                           /\ ~ t[c].is_bypass_tunnel /\ t[c].facility
                           /\ t[c].ifindex_out = t[k].frr_protected_ifindex
                           /\ t[c].bypass_psb = Null}
<1>1. PICK pick \in [waiting -> Keys \cup {Null}] :
         u = [c \in Keys |-> IF c \in waiting
                             THEN [t[c] EXCEPT !.bypass_psb = pick[c]] ELSE t[c]]
  BY DEF rsvp_frr_auto_associate_all
<1>. HIDE DEF waiting
<1>2. ASSUME NEW j \in Keys
      PROVE  /\ u[j] \in Psb /\ SamePsb(u[j], t[j])
             /\ u[j].ifindex_out = t[j].ifindex_out
             /\ u[j].frr_active = t[j].frr_active
  <2>1. CASE j \in waiting
    <3>1. pick[j] \in Keys \cup {Null, Dangling} /\ t[j] \in Psb
      BY <2>1
    <3>2. u[j] = [t[j] EXCEPT !.bypass_psb = pick[j]]
      BY <1>1, <2>1
    <3>. QED  BY <3>1, <3>2, PsbFields
  <2>2. CASE j \notin waiting
    BY <1>1, <2>2 DEF SamePsb
  <2>. QED  BY <2>1, <2>2
<1>3. u \in [Keys -> Psb]
  BY <1>1, <1>2
<1>. QED  BY <1>2, <1>3

\* The incumbents make-before-break may find.
LEMMA Victims ==
    ASSUME NEW k, NEW D \in mbb_victims(k)
    PROVE  \A o \in D : o \in psbs /\ o.tid = k.tid /\ o.lsp = psb[k].mbb_old_lsp_id
BY DEF mbb_victims, rsvp_psb_find_by_id

\* Programming entries of RSBs changes the routes of their labels and, for
\* those without a label, of their destinations, and nothing else.
LEMMA InstallAll ==
    ASSUME TypeOK, NEW V, NEW e \in [V -> Entry], NEW W \in SUBSET (V \cap Keys),
           NEW last \in last_visited(W), mpls_install_all(W, e, last)
    PROVE  /\ swap' \in [Labels -> Entry] /\ push' \in [Dests -> Entry]
           /\ \A l \in Labels : (\A k \in W : rsb[k].label_in # l) => swap'[l] = swap[l]
           /\ \A l \in Labels : (\E k \in W : rsb[k].label_in = l) =>
                 \E k \in W : rsb[k].label_in = l /\ swap'[l] = e[k]
           /\ \A d \in Dests : push'[d] # push[d] =>
                 \E k \in W : rsb[k].label_in = 0 /\ k.dest = d
<1>1. ASSUME NEW l \in Labels
      PROVE  /\ (\A k \in W : rsb[k].label_in # l) => swap'[l] = swap[l]
             /\ (\E k \in W : rsb[k].label_in = l) =>
                   \E k \in W : rsb[k].label_in = l /\ swap'[l] = e[k]
             /\ swap'[l] \in Entry
  <2>1. CASE \E k \in W : rsb[k].label_in = l
    <3>. DEFINE c == CHOOSE k \in W : rsb[k].label_in = l
    <3>1. c \in W /\ rsb[c].label_in = l
      BY <2>1
    <3>2. swap'[l] = e[c]
      BY <2>1 DEF mpls_install_all
    <3>. HIDE DEF c
    <3>. QED  BY <2>1, <3>1, <3>2
  <2>2. CASE ~ \E k \in W : rsb[k].label_in = l
    <3>1. swap'[l] = swap[l]
      BY <2>2 DEF mpls_install_all
    <3>. QED  BY <2>2, <3>1 DEF TypeOK
  <2>. QED  BY <2>1, <2>2
<1>2. ASSUME NEW d \in Dests
      PROVE  /\ push'[d] # push[d] =>
                   \E k \in W : rsb[k].label_in = 0 /\ k.dest = d
             /\ push'[d] \in Entry
  <2>1. CASE d \in DOMAIN last
    <3>1. last[d] \in W /\ rsb[last[d]].label_in = 0 /\ last[d].dest = d
      BY <2>1 DEF last_visited
    <3>2. push'[d] = e[last[d]]
      BY <2>1 DEF mpls_install_all
    <3>. QED  BY <3>1, <3>2
  <2>2. CASE d \notin DOMAIN last
    BY <2>2 DEF mpls_install_all, TypeOK
  <2>. QED  BY <2>1, <2>2
<1>3. swap' \in [Labels -> Entry] /\ push' \in [Dests -> Entry]
  BY <1>1, <1>2 DEF mpls_install_all
<1>. QED  BY <1>1, <1>2, <1>3

\* What rsvp_frr_trigger and rsvp_frr_revert do to a PSB.
LEMMA Switched ==
    ASSUME NEW k \in Keys, psb[k] \in Psb, NEW i \in Ifs \cup {0},
           NEW r \in Routes
    PROVE  /\ LET q == switched(k, i, r) IN
              /\ q \in Psb /\ SamePsb(q, psb[k]) /\ q.frr_active = TRUE
           /\ LET q == reverted(k, i, r) IN
              /\ q \in Psb /\ SamePsb(q, psb[k]) /\ q.frr_active = FALSE
<1>1. ASSUME NEW p \in Psb, NEW f \in BOOLEAN
      PROVE  LET q == [p EXCEPT !.frr_active = f, !.ifindex_out = i] IN
             q \in Psb /\ SamePsb(q, p) /\ q.frr_active = f
  <2>. DEFINE q == [p EXCEPT !.frr_active = f, !.ifindex_out = i]
  <2>1. q \in Psb
    BY DEF Psb
  <2>2. q.prev_hop = p.prev_hop /\ q.is_ingress = p.is_ingress
    BY DEF Psb
  <2>3. q.refresh_timer = p.refresh_timer /\ q.cleanup_timer = p.cleanup_timer
    BY DEF Psb
  <2>4. q.mbb_old_lsp_id = p.mbb_old_lsp_id /\ q.associated_rsb = p.associated_rsb
    BY DEF Psb
  <2>5. q.frr_active = f
    BY DEF Psb
  <2>. QED  BY <2>1, <2>2, <2>3, <2>4, <2>5 DEF SamePsb
<1>2. LET q == [psb[k] EXCEPT !.frr_active = TRUE, !.ifindex_out = i] IN
      q \in Psb /\ SamePsb(q, psb[k]) /\ q.frr_active = TRUE
  BY <1>1
<1>3. LET q == [psb[k] EXCEPT !.frr_active = FALSE, !.ifindex_out = i] IN
      q \in Psb /\ SamePsb(q, psb[k]) /\ q.frr_active = FALSE
  BY <1>1
<1>. QED  BY <1>2, <1>3, PathSent DEF switched, reverted, SamePsb

\* The RSB that an egress creates for a PATH.
EgressRsb(k, l) ==
    [[[rsb[k] EXCEPT !.associated_psb = TRUE] EXCEPT !.refresh_timer = TRUE]
        EXCEPT !.label_in = l]

\* It is a reservation of its label.
LEMMA EgressRsbFields ==
    ASSUME NEW k \in Keys, rsb[k] \in Rsb, NEW l \in Labels \cup {0}
    PROVE  LET q == EgressRsb(k, l) IN
           /\ q \in Rsb /\ q.label_in = l
           /\ q.associated_psb /\ q.refresh_timer
           /\ q.flowspec = rsb[k].flowspec
<1>1. ASSUME NEW p \in Rsb
      PROVE  LET q == [[[p EXCEPT !.associated_psb = TRUE] EXCEPT !.refresh_timer = TRUE]
                          EXCEPT !.label_in = l] IN
             /\ q \in Rsb /\ q.label_in = l
             /\ q.associated_psb /\ q.refresh_timer
             /\ q.flowspec = p.flowspec
  <2>. DEFINE q == [[[p EXCEPT !.associated_psb = TRUE] EXCEPT !.refresh_timer = TRUE]
                          EXCEPT !.label_in = l]
  <2>1. q \in Rsb
    BY DEF Rsb
  <2>2. q.label_in = l /\ q.flowspec = p.flowspec
    BY DEF Rsb
  <2>3. q.associated_psb /\ q.refresh_timer
    BY DEF Rsb
  <2>. QED  BY <2>1, <2>2, <2>3
<1>. QED  BY <1>1 DEF EgressRsb

\* rsvp_state_db_init leaves everything typed.
LEMMA TypeInit == Init => TypeOK
BY BlankTypes DEF Init, rsvp_state_db_init, TypeOK

\* What a PATH that passes validation does, by role.
AcceptedPath(k, hop, frr) ==
    \/ handle_path_egress_new(k, hop, frr)
    \/ handle_path_egress_refresh(k, hop, frr)
    \/ handle_path_own(k, hop, frr)
    \/ handle_path_no_route(k, hop, frr)
    \/ \E r \in Routes : handle_path_transit(k, hop, frr, r)

\* A PATH is refused, or its HOP is an address, which may be 0.0.0.0.
LEMMA PathCases ==
    ASSUME NEW k, handle_path_message(k)
    PROVE  \/ \E hop, label_req : handle_path_invalid(k, hop, label_req)
           \/ \E hop \in Hops \cup {0}, frr \in FrrRequests :
                 AcceptedPath(k, hop, frr)
BY DEF handle_path_message, path_valid, AcceptedPath

\* What a RESV that passes validation does.
AcceptedResv(k, flow, new) ==
    \/ handle_resv_blockaded(k, flow)
    \/ /\ ~ rsvp_is_blockaded(k, resv_flow(k, flow))
       /\ IF resv_changes(k, new) /\ new.associated_psb
          THEN \/ handle_resv_transit(k, new)
               \/ handle_resv_no_label(k, new)
               \/ handle_resv_ingress(k, new)
          ELSE handle_resv_refresh(k, new)

\* A RESV is refused, or it is for a path and has a HOP and a label.
LEMMA ResvCases ==
    ASSUME NEW k, handle_resv_message(k)
    PROVE  \/ \E hop, label : handle_resv_invalid(k, hop, label)
           \/ /\ k \in psbs
              /\ \E hop \in Hops \cup {0}, label \in OutLabels \cup {0},
                    flow \in Flows \cup {Absent} :
                    AcceptedResv(k, flow, resv_updated(k, hop, label, flow))
BY DEF handle_resv_message, resv_valid, AcceptedResv

\* PATH messages keep the types.
LEMMA PathType ==
    ASSUME TypeOK, NEW k \in Keys, handle_path_message(k)
    PROVE  TypeOK'
<1>. USE DEF TypeOK
<1>. USE Senders DEF SentOK
<1>3. ASSUME NEW hop, NEW label_req, handle_path_invalid(k, hop, label_req)
      PROVE  TypeOK'
  BY <1>3 DEF handle_path_invalid
<1>. SUFFICES ASSUME NEW hop \in Hops \cup {0}, NEW frr \in FrrRequests,
                     AcceptedPath(k, hop, frr)
              PROVE  TypeOK'
  BY <1>3, PathCases
<1>. DEFINE q == path_updated(k, hop, frr)
<1>2. q \in Psb /\ psb[k] \in Psb
  BY PathUpdated
<1>4. CASE handle_path_egress_new(k, hop, frr)
  <2>1. PICK l \in label_mgr_alloc :
           /\ rsb' = [rsb EXCEPT ![k].associated_psb = TRUE,
                                 ![k].refresh_timer = TRUE,
                                 ![k].label_in = l]
           /\ labels' = labels \cup ({l} \ {0})
           /\ sent' = IF l = 0 THEN {} ELSE resv_out(k, hop, l)
    BY <1>4 DEF handle_path_egress_new
  <2>2. l = 0 \/ l \in Labels
    BY AllocResult
  <2>3. rsb' = [rsb EXCEPT ![k] = EgressRsb(k, l)]
    BY <2>1 DEF EgressRsb
  <2>4. rsb' \in [Keys -> Rsb]
    BY <2>2, <2>3, EgressRsbFields
  <2>5. [q EXCEPT !.associated_rsb = TRUE] \in Psb
    BY <1>2, PsbFields
  <2>6. psb' \in [Keys -> Psb] /\ psbs' \subseteq Keys /\ rsbs' \subseteq Keys
    BY <1>4, <2>5 DEF handle_path_egress_new
  <2>7. labels' \subseteq Labels /\ SentOK(sent')
    BY <2>1, <2>2
  <2>. QED  BY <1>4, <2>4, <2>6, <2>7 DEF handle_path_egress_new
<1>5. CASE handle_path_egress_refresh(k, hop, frr)
  BY <1>2, <1>5 DEF handle_path_egress_refresh
<1>6. CASE handle_path_own(k, hop, frr)
  BY <1>2, <1>6 DEF handle_path_own
<1>7. CASE handle_path_no_route(k, hop, frr)
  BY <1>2, <1>7 DEF handle_path_no_route
<1>8. ASSUME NEW r \in Routes, handle_path_transit(k, hop, frr, r)
      PROVE  TypeOK'
  <2>. DEFINE p == path_sent(q, r)
  <2>1. p \in Psb
    BY <1>2, PathSent
  <2>2. PICK b \in rsvp_frr_auto_associate(p, psb, rsbs, rsb) :
           psb' = [psb EXCEPT ![k] = [p EXCEPT !.bypass_psb = b]]
    BY <1>8 DEF handle_path_transit
  <2>. HIDE DEF p
  <2>3. [p EXCEPT !.bypass_psb = b] \in Psb
    BY <2>1, AutoAssociate, PsbFields
  <2>4. psb' \in [Keys -> Psb]
    BY <2>2, <2>3
  <2>. QED  BY <1>8, <2>4 DEF handle_path_transit
<1>. QED  BY <1>4, <1>5, <1>6, <1>7, <1>8 DEF AcceptedPath

\* So does what follows the programming of a route.
LEMMA InstalledType ==
    ASSUME TypeOK, NEW k \in Keys, NEW new \in Rsb, NEW in_label \in Labels \cup {0},
           NEW labels1 \in SUBSET Labels, NEW swap1 \in [Labels -> Entry],
           NEW push1 \in [Dests -> Entry], NEW out, SentOK(out),
           resv_installed(k, new, in_label, labels1, swap1, push1, out),
           UNCHANGED <<bsbs, bsb>>
    PROVE  TypeOK'
<1>. USE DEF TypeOK
<1>. DEFINE is_new == k \notin rsbs
            have   == rsbs \cup {k}
            rsb1   == [rsb EXCEPT ![k] = [new EXCEPT !.label_in = in_label]]
            psb1   == [psb EXCEPT ![k].associated_rsb = @ \/ is_new]
            arms   == /\ psb[k].is_bypass_tunnel
                      /\ is_new \/ new.label_out # rsb[k].label_out
<1>1. rsb1 \in [Keys -> Rsb]
  BY RsbFields
<1>2. psb1 \in [Keys -> Psb]
  <2>1. psb1 = [psb EXCEPT ![k] = [psb[k] EXCEPT !.associated_rsb = @ \/ is_new]]
    OBVIOUS
  <2>2. (psb[k].associated_rsb \/ is_new) \in BOOLEAN /\ psb[k] \in Psb
    OBVIOUS
  <2>3. [psb[k] EXCEPT !.associated_rsb = psb[k].associated_rsb \/ is_new] \in Psb
    BY <2>2, PsbFields
  <2>. QED  BY <2>1, <2>3
<1>3. PICK t \in IF arms THEN rsvp_frr_auto_associate_all(k, psb1, have, rsb1)
                 ELSE {psb1},
           D \in IF is_new /\ psb[k].mbb_old_lsp_id # NoLsp
                 THEN mbb_victims(k) ELSE {{}},
           r \in Routes :
           LET R == rsbs_of(D) IN
           /\ psbs' = psbs \ D
           /\ psb' = psb_delete_all(
                        [t EXCEPT ![k].mbb_old_lsp_id = mbb_flag_after(k)], D)
           /\ rsbs' = have \ R
           /\ rsb' = rsb_delete_all(rsb1, R)
           /\ labels' = labels_free(labels1, R)
           /\ swap' = swap_remove(swap1, R)
           /\ push' = push_remove(push1, R)
           /\ sent' = out \cup UNION {propagate_path_tear(o, r) : o \in D}
  BY DEF resv_installed
<1>4. t \in [Keys -> Psb]
  BY <1>2, <1>3, AutoAssociateAll
<1>5. [t EXCEPT ![k].mbb_old_lsp_id = mbb_flag_after(k)] \in [Keys -> Psb]
  <2>1. mbb_flag_after(k) \in LspIds \cup {NoLsp}
    BY DEF mbb_flag_after, Psb
  <2>2. [t[k] EXCEPT !.mbb_old_lsp_id = mbb_flag_after(k)] \in Psb
    BY <1>4, <2>1, PsbFields
  <2>. QED  BY <1>4, <2>2
<1>6. D \subseteq psbs
  BY <1>3, Victims
<1>. HIDE DEF rsb1, psb1, arms
<1>7. psb' \in [Keys -> Psb] /\ psbs' \subseteq Keys
  BY <1>3, <1>5, DeleteTypes
<1>8. rsb' \in [Keys -> Rsb] /\ rsbs' \subseteq Keys
  BY <1>1, <1>3, DeleteTypes
<1>9. /\ labels' \subseteq Labels
      /\ swap' \in [Labels -> Entry] /\ push' \in [Dests -> Entry]
  BY <1>3, DeleteTypes
<1>10. SentOK(sent')
  BY <1>3, <1>6, Senders DEF SentOK
<1>. QED  BY <1>7, <1>8, <1>9, <1>10 DEF SentOK

\* label_in_or_alloc finds the RSB's label, a free one or none.
LEMMA LabelFound ==
    ASSUME TypeOK, NEW k \in Keys, NEW l \in label_in_or_alloc(k)
    PROVE  /\ l \in Labels \cup {0}
           /\ rsb[k].label_in # 0 => l = rsb[k].label_in
           /\ rsb[k].label_in = 0 => l = 0 \/ l \in Labels \ labels
<1>1. rsb[k].label_in \in Labels \cup {0}
  BY DEF TypeOK, Rsb
<1>. QED  BY <1>1, AllocResult DEF label_in_or_alloc

\* RESV messages keep the types.
LEMMA ResvType ==
    ASSUME TypeOK, NEW k \in Keys, handle_resv_message(k)
    PROVE  TypeOK'
<1>5. ASSUME NEW hop, NEW label, handle_resv_invalid(k, hop, label)
      PROVE  TypeOK'
  BY <1>5, Senders DEF handle_resv_invalid, TypeOK, SentOK
<1>. SUFFICES ASSUME NEW hop \in Hops \cup {0}, NEW label \in OutLabels \cup {0},
                     NEW flow \in Flows \cup {Absent},
                     AcceptedResv(k, flow, resv_updated(k, hop, label, flow))
              PROVE  TypeOK'
  BY <1>5, ResvCases
<1>. DEFINE new == resv_updated(k, hop, label, flow)
<1>r. psb[k] \in Psb /\ rsb[k] \in Rsb
  BY DEF TypeOK
<1>2. new \in Rsb /\ new.label_in = rsb[k].label_in
  BY <1>r, ResvUpdated
<1>. USE DEF TypeOK, SentOK
<1>3. rsb[k] \in Rsb /\ resv_flow(k, flow) \in Flows \cup {0}
  BY DEF resv_flow, Rsb
<1>4. EntryOf(new) \in Entry /\ rsb[k].label_in \in Labels \cup {0}
  BY <1>2, <1>3, RsbFields DEF Rsb
<1>. HIDE DEF new
<1>6. CASE handle_resv_blockaded(k, flow)
  <2>1. [rsb[k] EXCEPT !.flowspec = resv_flow(k, flow)] \in Rsb
    BY <1>3, RsbFields
  <2>2. rsb' \in [Keys -> Rsb]
    BY <1>6, <2>1 DEF handle_resv_blockaded
  <2>. QED  BY <1>6, <2>2, Senders DEF handle_resv_blockaded
<1>7. CASE handle_resv_transit(k, new)
  <2>1. PICK l \in label_in_or_alloc(k) \ {0} :
           resv_installed(k, new, l, labels \cup {l},
                          swap_install(swap, l, EntryOf(new)), push,
                          resv_out(k, psb[k].prev_hop, l))
    BY <1>7 DEF handle_resv_transit
  <2>2. l \in Labels
    BY LabelFound
  <2>3. swap_install(swap, l, EntryOf(new)) \in [Labels -> Entry]
    BY <1>4, <2>2 DEF swap_install
  <2>4. UNCHANGED <<bsbs, bsb>>
    BY <1>7 DEF handle_resv_transit
  <2>. QED  BY <1>2, <2>1, <2>2, <2>3, <2>4, InstalledType, Senders
<1>8. CASE handle_resv_no_label(k, new)
  <2>1. k.dest \in Dests
    BY DEF Dests
  <2>2. push' \in [Dests -> Entry]
    BY <1>8, <2>1, BlankTypes DEF handle_resv_no_label
  <2>. QED  BY <1>2, <1>8, <2>2, Senders DEF handle_resv_no_label
<1>9. CASE handle_resv_ingress(k, new)
  <2>1. push_install(push, k.dest, EntryOf(new)) \in [Dests -> Entry]
    BY <1>4 DEF push_install, Dests
  <2>2. /\ resv_installed(k, new, rsb[k].label_in, labels, swap,
                          push_install(push, k.dest, EntryOf(new)), {})
        /\ UNCHANGED <<bsbs, bsb>>
    BY <1>9 DEF handle_resv_ingress
  <2>3. labels \in SUBSET Labels /\ swap \in [Labels -> Entry] /\ SentOK({})
    OBVIOUS
  <2>. HIDE DEF TypeOK, SentOK
  <2>. QED  BY <1>2, <1>4, <2>1, <2>2, <2>3, InstalledType
<1>10. CASE handle_resv_refresh(k, new)
  <2>1. CASE send_resv_upstream(k, new)
    <3>1. PICK l \in label_in_or_alloc(k) :
             /\ rsb' = [rsb EXCEPT ![k] = [new EXCEPT !.label_in = l]]
             /\ labels' = labels \cup ({l} \ {0})
             /\ sent' = IF l = 0 THEN {} ELSE resv_out(k, psb[k].prev_hop, l)
      BY <2>1 DEF send_resv_upstream
    <3>2. rsb' \in [Keys -> Rsb] /\ labels' \subseteq Labels
      BY <1>2, <3>1, LabelFound, RsbFields
    <3>. QED  BY <1>10, <3>1, <3>2, Senders DEF handle_resv_refresh
  <2>2. CASE /\ rsb' = [rsb EXCEPT ![k] = new]
             /\ sent' = {}
             /\ UNCHANGED labels
    BY <1>2, <1>10, <2>2 DEF handle_resv_refresh
  <2>. QED  BY <1>10, <2>1, <2>2 DEF handle_resv_refresh
<1>. QED  BY <1>6, <1>7, <1>8, <1>9, <1>10 DEF new, AcceptedResv

\* The cleanup of PSBs and of an RSB.
LEMMA CleanupType ==
    ASSUME TypeOK
    PROVE  /\ \A D : rsvp_psb_cleanup(D) =>
                 /\ psbs' \subseteq Keys /\ psb' \in [Keys -> Psb]
                 /\ rsbs' \subseteq Keys /\ rsb' \in [Keys -> Rsb]
                 /\ labels' \subseteq Labels
                 /\ swap' \in [Labels -> Entry] /\ push' \in [Dests -> Entry]
           /\ \A k \in Keys : rsvp_rsb_cleanup(k) =>
                 /\ psbs' \subseteq Keys /\ psb' \in [Keys -> Psb]
                 /\ rsbs' \subseteq Keys /\ rsb' \in [Keys -> Rsb]
                 /\ labels' \subseteq Labels
                 /\ swap' \in [Labels -> Entry] /\ push' \in [Dests -> Entry]
<1>1. ASSUME NEW D, rsvp_psb_cleanup(D)
      PROVE  /\ psbs' \subseteq Keys /\ psb' \in [Keys -> Psb]
             /\ rsbs' \subseteq Keys /\ rsb' \in [Keys -> Rsb]
             /\ labels' \subseteq Labels
             /\ swap' \in [Labels -> Entry] /\ push' \in [Dests -> Entry]
  BY <1>1, DeleteTypes DEF TypeOK, rsvp_psb_cleanup
<1>2. ASSUME NEW k \in Keys, rsvp_rsb_cleanup(k)
      PROVE  /\ psbs' \subseteq Keys /\ psb' \in [Keys -> Psb]
             /\ rsbs' \subseteq Keys /\ rsb' \in [Keys -> Rsb]
             /\ labels' \subseteq Labels
             /\ swap' \in [Labels -> Entry] /\ push' \in [Dests -> Entry]
  <2>1. [psb[k] EXCEPT !.associated_rsb = FALSE] \in Psb
    BY PsbFields DEF TypeOK
  <2>2. psb' \in [Keys -> Psb]
    BY <1>2, <2>1 DEF rsvp_rsb_cleanup, TypeOK
  <2>. QED  BY <1>2, <2>2, DeleteTypes DEF TypeOK, rsvp_rsb_cleanup
<1>. QED  BY <1>1, <1>2

\* Tear and error messages keep the types.
LEMMA TearType ==
    ASSUME TypeOK, NEW k \in Keys,
           \/ handle_path_tear(k) \/ handle_resv_tear(k)
           \/ handle_path_err(k) \/ handle_resv_err(k)
    PROVE  TypeOK'
<1>. USE Senders DEF SentOK
<1>1. CASE handle_path_tear(k)
  BY <1>1, CleanupType DEF TypeOK, handle_path_tear, bsb_delete
<1>2. CASE handle_resv_tear(k)
  <2>1. CASE k \in rsbs
    BY <1>2, <2>1, CleanupType DEF TypeOK, handle_resv_tear, bsb_delete
  <2>2. CASE k \notin rsbs
    BY <1>2, <2>2 DEF TypeOK, handle_resv_tear, bsb_delete
  <2>. QED  BY <2>1, <2>2
<1>3. CASE handle_path_err(k)
  BY <1>3 DEF TypeOK, handle_path_err
<1>4. CASE handle_resv_err(k)
  BY <1>4 DEF TypeOK, handle_resv_err, bsb_create
<1>. QED  BY <1>1, <1>2, <1>3, <1>4

\* Timer callbacks keep the types.
LEMMA TimerType ==
    ASSUME TypeOK, NEW k \in Keys, TimerFires(k)
    PROVE  TypeOK'
<1>. USE Senders DEF SentOK
<1>p. psb[k] \in Psb /\ rsb[k] \in Rsb
  BY DEF TypeOK
<1>1. CASE bsb_cleanup_timer_cb(k)
  BY <1>1 DEF TypeOK, bsb_cleanup_timer_cb, bsb_delete
<1>2. CASE psb_refresh_timer_cb(k)
  <2>1. PICK r \in Routes :
           IF psb[k].is_ingress \/ ~ is_egress(k)
           THEN /\ psb' = [psb EXCEPT ![k] = path_sent(psb[k], r)]
                /\ sent' = path_out(k, psb[k], r)
           ELSE sent' = {} /\ UNCHANGED psb
    BY <1>2 DEF psb_refresh_timer_cb
  <2>2. path_sent(psb[k], r) \in Psb
    BY <1>p, PathSent
  <2>3. psb' \in [Keys -> Psb]
    BY <2>1, <2>2 DEF TypeOK
  <2>4. SentOK(sent')
    BY <2>1
  <2>. QED  BY <1>2, <2>3, <2>4 DEF TypeOK, psb_refresh_timer_cb
<1>3. CASE psb_cleanup_timer_cb(k)
  BY <1>3, CleanupType DEF TypeOK, psb_cleanup_timer_cb
<1>4. CASE rsb_refresh_timer_cb(k)
  <2>1. CASE send_resv_upstream(k, rsb[k])
    <3>1. PICK l \in label_in_or_alloc(k) :
             /\ rsb' = [rsb EXCEPT ![k] = [rsb[k] EXCEPT !.label_in = l]]
             /\ labels' = labels \cup ({l} \ {0})
             /\ sent' = IF l = 0 THEN {} ELSE resv_out(k, psb[k].prev_hop, l)
      BY <2>1 DEF send_resv_upstream
    <3>2. l \in Labels \cup {0}
      BY LabelFound
    <3>3. [rsb[k] EXCEPT !.label_in = l] \in Rsb
      BY <1>p, <3>2, RsbFields
    <3>4. rsb' \in [Keys -> Rsb] /\ labels' \subseteq Labels
      BY <3>1, <3>2, <3>3 DEF TypeOK
    <3>5. SentOK(sent')
      BY <3>1
    <3>. QED  BY <1>4, <3>4, <3>5 DEF TypeOK, rsb_refresh_timer_cb
  <2>2. CASE sent' = {} /\ UNCHANGED <<rsb, labels>>
    BY <1>4, <2>2 DEF TypeOK, rsb_refresh_timer_cb
  <2>. QED  BY <1>4, <2>1, <2>2 DEF rsb_refresh_timer_cb
<1>5. CASE rsb_cleanup_timer_cb(k)
  BY <1>5, CleanupType DEF TypeOK, rsb_cleanup_timer_cb
<1>. QED  BY <1>1, <1>2, <1>3, <1>4, <1>5 DEF TimerFires

\* The PSBs this node creates for itself.
IngressPsb(f) == [Psb0 EXCEPT !.is_ingress = TRUE, !.facility = f,
                              !.refresh_timer = TRUE]
BypassPsb(i) == [Psb0 EXCEPT !.is_ingress = TRUE, !.is_bypass_tunnel = TRUE,
                             !.frr_protected_ifindex = i,
                             !.refresh_timer = TRUE]
MbbPsb(f, o) == [Psb0 EXCEPT !.is_ingress = TRUE, !.facility = f,
                             !.mbb_old_lsp_id = o, !.refresh_timer = TRUE]

\* A PSB that begins here.
OwnPsb(q) ==
    /\ q.prev_hop = 0 /\ q.is_ingress /\ q.refresh_timer
    /\ ~ q.frr_active /\ ~ q.associated_rsb

\* The PSBs that the node makes itself, for an LSP, a bypass or the new LSP of a
\* make-before-break.
LEMMA OwnPsbs ==
    /\ \A f \in BOOLEAN : /\ IngressPsb(f) \in Psb /\ OwnPsb(IngressPsb(f))
                          /\ IngressPsb(f).mbb_old_lsp_id = NoLsp
    /\ \A i \in Ifs : /\ BypassPsb(i) \in Psb /\ OwnPsb(BypassPsb(i))
                      /\ BypassPsb(i).mbb_old_lsp_id = NoLsp
    /\ \A f \in BOOLEAN, o \in LspIds :
          /\ MbbPsb(f, o) \in Psb /\ OwnPsb(MbbPsb(f, o))
          /\ MbbPsb(f, o).mbb_old_lsp_id = o
<1>. USE DEF Psb0, Psb, OwnPsb
<1>1. ASSUME NEW f \in BOOLEAN
      PROVE  /\ IngressPsb(f) \in Psb /\ OwnPsb(IngressPsb(f))
             /\ IngressPsb(f).mbb_old_lsp_id = NoLsp
  BY DEF IngressPsb
<1>2. ASSUME NEW i \in Ifs
      PROVE  /\ BypassPsb(i) \in Psb /\ OwnPsb(BypassPsb(i))
             /\ BypassPsb(i).mbb_old_lsp_id = NoLsp
  BY DEF BypassPsb
<1>3. ASSUME NEW f \in BOOLEAN, NEW o \in LspIds
      PROVE  /\ MbbPsb(f, o) \in Psb /\ OwnPsb(MbbPsb(f, o))
             /\ MbbPsb(f, o).mbb_old_lsp_id = o
  BY DEF MbbPsb
<1>. QED  BY <1>1, <1>2, <1>3

\* An LSP that the node starts itself keeps the types.
LEMMA StartedType ==
    ASSUME TypeOK, NEW k \in Keys, NEW new \in Psb, NEW r \in Routes,
           psb_started(k, new, r)
    PROVE  TypeOK'
<1>1. path_sent(new, r) \in Psb
  BY PathSent
<1>2. psb' \in [Keys -> Psb] /\ psbs' \subseteq Keys
  BY <1>1 DEF psb_started, TypeOK
<1>3. SentOK(sent')
  BY Senders DEF psb_started
<1>. QED  BY <1>2, <1>3 DEF psb_started, TypeOK, SentOK

\* Commands keep the types.
LEMMA CommandType ==
    ASSUME TypeOK, Command
    PROVE  TypeOK'
<1>1. ASSUME NEW d \in Dests, NEW t \in Tids, NEW s \in OwnSrcs,
             rsvp_initiate_path(d, t, s)
      PROVE  TypeOK'
  <2>. DEFINE k == [dest |-> d, tid |-> t, src |-> s, lsp |-> next_lsp_id]
  <2>1. PICK frr \in FrrRequests, r \in Routes :
          /\ k \in Keys
          /\ psb_started(k, IF k \in psbs THEN psb[k]
                            ELSE IngressPsb(frr = "facility"), r)
    BY <1>1 DEF rsvp_initiate_path, IngressPsb
  <2>. HIDE DEF k
  <2>2. psb[k] \in Psb /\ IngressPsb(frr = "facility") \in Psb
    BY <2>1, OwnPsbs DEF TypeOK
  <2>. QED  BY <2>1, <2>2, StartedType
<1>2. ASSUME NEW d \in Dests, NEW t \in BypassTids, NEW s \in OwnSrcs,
             NEW i \in Ifs, rsvp_initiate_bypass_tunnel(d, t, s, i)
      PROVE  TypeOK'
  <2>. DEFINE k == [dest |-> d, tid |-> t, src |-> s, lsp |-> next_lsp_id]
  <2>1. CASE k \in psbs
    BY <1>2, <2>1 DEF rsvp_initiate_bypass_tunnel, TypeOK
  <2>2. CASE k \notin psbs
    <3>1. PICK r \in Routes : k \in Keys /\ psb_started(k, BypassPsb(i), r)
      BY <1>2, <2>2 DEF rsvp_initiate_bypass_tunnel, BypassPsb
    <3>. QED  BY <3>1, OwnPsbs, StartedType
  <2>. QED  BY <2>1, <2>2
<1>3. ASSUME NEW t \in Tids, NEW o \in LspIds, rsvp_teardown_path(t, o)
      PROVE  TypeOK'
  <2>1. PICK k \in rsvp_psb_find_by_id(t, o), r \in Routes :
           /\ rsvp_psb_cleanup({k})
           /\ sent' = propagate_path_tear(k, r)
           /\ UNCHANGED <<bsbs, bsb, next_lsp_id>>
    BY <1>3 DEF rsvp_teardown_path
  <2>2. k \in Keys
    BY DEF rsvp_psb_find_by_id, TypeOK
  <2>. QED  BY <2>1, <2>2, CleanupType, Senders DEF TypeOK, SentOK
<1>4. ASSUME NEW t \in Tids, NEW o \in LspIds, NEW n \in LspIds,
             rsvp_mbb_start(t, o, n)
      PROVE  TypeOK'
  <2>1. PICK old \in rsvp_psb_find_by_id(t, o), r \in Routes :
           LET k == [old EXCEPT !.lsp = n] IN
           /\ k \in Keys
           /\ psb_started(k, MbbPsb(psb[old].facility, o), r)
    BY <1>4 DEF rsvp_mbb_start, MbbPsb
  <2>2. psb[old].facility \in BOOLEAN
    BY DEF rsvp_psb_find_by_id, TypeOK, Psb
  <2>3. MbbPsb(psb[old].facility, o) \in Psb
    BY <2>2, OwnPsbs
  <2>. QED  BY <2>1, <2>3, StartedType
<1>. QED  BY <1>1, <1>2, <1>3, <1>4 DEF Command

\* What a fast-reroute trigger does: the LSPs W are switched to their bypass.
LEMMA Triggered ==
    ASSUME TypeOK, NEW ifindex \in Ifs \cup {0}, rsvp_frr_trigger(ifindex)
    PROVE  \E W \in SUBSET frr_protected(ifindex) :
           /\ swap' \in [Labels -> Entry] /\ push' \in [Dests -> Entry]
           /\ psb' \in [Keys -> Psb]
           /\ \A j \in Keys \ W : psb'[j] = psb[j]
           /\ \A j \in W : SamePsb(psb'[j], psb[j]) /\ psb'[j].frr_active = TRUE
           /\ \A l \in Labels :
                 (\A k \in W \cap rsbs : rsb[k].label_in # l) => swap'[l] = swap[l]
           /\ \A d \in Dests : push'[d] # push[d] =>
                 \E k \in W \cap rsbs : rsb[k].label_in = 0 /\ k.dest = d
           /\ SentOK(sent')
           /\ UNCHANGED <<psbs, rsbs, rsb, bsbs, bsb, labels, next_lsp_id>>
<1>1. PICK via \in [frr_protected(ifindex) -> rsbs \cup {Null}] :
       LET W == {k \in DOMAIN via : via[k] \in rsbs /\ rsb[via[k]].label_out # 0}
           e == [k \in W |-> EntryOf(rsb[via[k]])]
       IN  /\ W # {}
           /\ \A k \in DOMAIN via : via[k] \in bypass_rsb(k)
           /\ \E last \in last_visited(W \cap rsbs) :
                 mpls_install_all(W \cap rsbs, e, last)
           /\ \E i \in [W -> Ifs \cup {0}], r \in [W -> Routes] :
                 /\ \A k \in W : i[k] \in bypass_ifindexes(k)
                 /\ psb' = [k \in Keys |-> IF k \in W
                              THEN switched(k, i[k], r[k]) ELSE psb[k]]
                 /\ sent' = UNION {path_out(k, switched(k, i[k], r[k]), r[k]) :
                                     k \in W}
           /\ UNCHANGED <<psbs, rsbs, rsb, bsbs, bsb, labels, next_lsp_id>>
  BY DEF rsvp_frr_trigger
<1>. DEFINE W == {k \in DOMAIN via : via[k] \in rsbs /\ rsb[via[k]].label_out # 0}
            e == [k \in W |-> EntryOf(rsb[via[k]])]
<1>2. W \subseteq frr_protected(ifindex) /\ W \subseteq Keys
  BY DEF frr_protected, TypeOK
<1>3. \A k \in W : via[k] \in rsbs /\ rsb[via[k]] \in Rsb
  BY DEF TypeOK
<1>4. e \in [W -> Entry]
  BY <1>3, RsbFields
<1>5. PICK last \in last_visited(W \cap rsbs) : mpls_install_all(W \cap rsbs, e, last)
  BY <1>1
<1>6. PICK i \in [W -> Ifs \cup {0}], r \in [W -> Routes] :
         /\ psb' = [k \in Keys |-> IF k \in W
                              THEN switched(k, i[k], r[k]) ELSE psb[k]]
         /\ sent' = UNION {path_out(k, switched(k, i[k], r[k]), r[k]) : k \in W}
  BY <1>1
<1>7. UNCHANGED <<psbs, rsbs, rsb, bsbs, bsb, labels, next_lsp_id>>
  BY <1>1
<1>. HIDE DEF W, e
<1>8. W \cap rsbs \in SUBSET (W \cap Keys)
  BY <1>2
<1>9. /\ swap' \in [Labels -> Entry] /\ push' \in [Dests -> Entry]
      /\ \A l \in Labels :
            (\A k \in W \cap rsbs : rsb[k].label_in # l) => swap'[l] = swap[l]
      /\ \A d \in Dests : push'[d] # push[d] =>
            \E k \in W \cap rsbs : rsb[k].label_in = 0 /\ k.dest = d
  BY <1>4, <1>5, <1>8, InstallAll
<1>10. ASSUME NEW j \in W
       PROVE  /\ switched(j, i[j], r[j]) \in Psb
              /\ SamePsb(psb'[j], psb[j]) /\ psb'[j].frr_active = TRUE
  <2>1. psb[j] \in Psb /\ j \in Keys
    BY <1>2 DEF TypeOK
  <2>. QED  BY <1>6, <2>1, Switched
<1>11. psb' \in [Keys -> Psb] /\ \A j \in Keys \ W : psb'[j] = psb[j]
  BY <1>6, <1>10 DEF TypeOK
<1>12. SentOK(sent')
  BY <1>2, <1>6, Senders DEF SentOK
<1>. QED  BY <1>2, <1>7, <1>9, <1>10, <1>11, <1>12

\* What a revert does: the LSPs W are programmed as their reservations say.
LEMMA Reverted ==
    ASSUME TypeOK, NEW ifindex \in Ifs \cup {0}, rsvp_frr_revert(ifindex)
    PROVE  \E W \in SUBSET {k \in psbs \cap rsbs : psb[k].frr_active} :
           /\ swap' \in [Labels -> Entry] /\ push' \in [Dests -> Entry]
           /\ psb' \in [Keys -> Psb]
           /\ \A j \in Keys \ W : psb'[j] = psb[j]
           /\ \A j \in W : SamePsb(psb'[j], psb[j]) /\ psb'[j].frr_active = FALSE
           /\ \A l \in Labels :
                 (\A k \in W : rsb[k].label_in # l) => swap'[l] = swap[l]
           /\ \A l \in Labels : (\E k \in W : rsb[k].label_in = l) =>
                 \E k \in W : rsb[k].label_in = l /\ swap'[l] = EntryOf(rsb[k])
           /\ \A d \in Dests : push'[d] # push[d] =>
                 \E k \in W : rsb[k].label_in = 0 /\ k.dest = d
           /\ SentOK(sent')
           /\ UNCHANGED <<psbs, rsbs, rsb, bsbs, bsb, labels, next_lsp_id>>
<1>1. PICK W \in SUBSET {k \in psbs \cap rsbs : psb[k].frr_active} :
       /\ revert_routes(W)
       /\ \E r \in [W -> Routes] :
             /\ psb' = [k \in Keys |-> IF k \in W
                          THEN reverted(k, ifindex, r[k]) ELSE psb[k]]
             /\ sent' = UNION {path_out(k, reverted(k, ifindex, r[k]), r[k]) :
                                 k \in W}
       /\ UNCHANGED <<psbs, rsbs, rsb, bsbs, bsb, labels, next_lsp_id>>
  <2>1. SUBSET {k \in psbs \cap rsbs : psb[k].frr_active /\ psb[k].bypass_psb # Null}
           \subseteq SUBSET {k \in psbs \cap rsbs : psb[k].frr_active}
    OBVIOUS
  <2>. QED  BY <2>1 DEF rsvp_frr_revert
<1>. DEFINE e == [k \in W |-> EntryOf(rsb[k])]
<1>2. W \subseteq Keys
  BY DEF TypeOK
<1>3. PICK last \in last_visited(W) : mpls_install_all(W, e, last)
  BY <1>1 DEF revert_routes
<1>4. PICK r \in [W -> Routes] :
         /\ psb' = [k \in Keys |-> IF k \in W
                      THEN reverted(k, ifindex, r[k]) ELSE psb[k]]
         /\ sent' = UNION {path_out(k, reverted(k, ifindex, r[k]), r[k]) : k \in W}
  BY <1>1
<1>5. \A k \in W : rsb[k] \in Rsb
  BY <1>2 DEF TypeOK
<1>6. e \in [W -> Entry] /\ \A k \in W : e[k] = EntryOf(rsb[k])
  BY <1>5, RsbFields
<1>. HIDE DEF e
<1>7. W \in SUBSET (W \cap Keys)
  BY <1>2
<1>8. /\ swap' \in [Labels -> Entry] /\ push' \in [Dests -> Entry]
      /\ \A l \in Labels :
            (\A k \in W : rsb[k].label_in # l) => swap'[l] = swap[l]
      /\ \A l \in Labels : (\E k \in W : rsb[k].label_in = l) =>
            \E k \in W : rsb[k].label_in = l /\ swap'[l] = e[k]
      /\ \A d \in Dests : push'[d] # push[d] =>
            \E k \in W : rsb[k].label_in = 0 /\ k.dest = d
  BY <1>3, <1>6, <1>7, InstallAll
<1>9. ASSUME NEW j \in W
      PROVE  /\ reverted(j, ifindex, r[j]) \in Psb
             /\ SamePsb(psb'[j], psb[j]) /\ psb'[j].frr_active = FALSE
  <2>1. psb[j] \in Psb /\ j \in Keys
    BY <1>2 DEF TypeOK
  <2>. QED  BY <1>4, <2>1, Switched
<1>10. psb' \in [Keys -> Psb] /\ \A j \in Keys \ W : psb'[j] = psb[j]
  BY <1>4, <1>9 DEF TypeOK
<1>11. SentOK(sent')
  BY <1>2, <1>4, Senders DEF SentOK
<1>12. UNCHANGED <<psbs, rsbs, rsb, bsbs, bsb, labels, next_lsp_id>>
  BY <1>1
<1>13. \A l \in Labels : (\E k \in W : rsb[k].label_in = l) =>
            \E k \in W : rsb[k].label_in = l /\ swap'[l] = EntryOf(rsb[k])
  BY <1>6, <1>8
<1>. WITNESS W \in SUBSET {k \in psbs \cap rsbs : psb[k].frr_active}
<1>. QED  BY <1>8, <1>9, <1>10, <1>11, <1>12, <1>13

\* rsvp_frr_enable_protection writes the mode and the bypass of one PSB.
LEMMA Enabled ==
    ASSUME TypeOK, NEW t, NEW o, NEW mode, NEW b,
           rsvp_frr_enable_protection(t, o, mode, b)
    PROVE  /\ psb' \in [Keys -> Psb]
           /\ \E k \in psbs : /\ SamePsb(psb'[k], psb[k])
                              /\ psb'[k].ifindex_out = psb[k].ifindex_out
                              /\ psb'[k].frr_active = psb[k].frr_active
                              /\ \A j \in Keys \ {k} : psb'[j] = psb[j]
           /\ sent' = {}
           /\ UNCHANGED <<psbs, rsbs, rsb, bsbs, bsb, labels, swap, push>>
<1>1. PICK k \in psbs, c \in psbs :
       /\ psb' = [psb EXCEPT ![k].facility = mode = "facility",
                             ![k].bypass_psb = c]
       /\ sent' = {}
       /\ UNCHANGED <<psbs, rsbs, rsb, bsbs, bsb, labels, swap, push, next_lsp_id>>
  BY DEF rsvp_frr_enable_protection, rsvp_psb_find_by_id
<1>. DEFINE f == mode = "facility"
            p == psb[k]
            q == [p EXCEPT !.facility = f, !.bypass_psb = c]
<1>2. k \in Keys /\ c \in Keys /\ p \in Psb /\ f \in BOOLEAN
  BY DEF TypeOK
<1>3. psb' = [psb EXCEPT ![k] = q]
  BY <1>1
<1>. HIDE DEF f, p
<1>4. q \in Psb
  BY <1>2 DEF Psb
<1>5. q.prev_hop = p.prev_hop /\ q.is_ingress = p.is_ingress
  BY <1>2 DEF Psb
<1>6. q.refresh_timer = p.refresh_timer /\ q.cleanup_timer = p.cleanup_timer
  BY <1>2 DEF Psb
<1>7. q.mbb_old_lsp_id = p.mbb_old_lsp_id /\ q.associated_rsb = p.associated_rsb
  BY <1>2 DEF Psb
<1>8. q.ifindex_out = p.ifindex_out /\ q.frr_active = p.frr_active
  BY <1>2 DEF Psb
<1>. HIDE DEF q
<1>9. psb' \in [Keys -> Psb] /\ psb'[k] = q /\ \A j \in Keys \ {k} : psb'[j] = psb[j]
  BY <1>2, <1>3, <1>4 DEF TypeOK
<1>. QED  BY <1>1, <1>5, <1>6, <1>7, <1>8, <1>9 DEF SamePsb, p

\* Every step of the node keeps the types.
LEMMA TypeStep == TypeOK /\ [Next]_vars => TypeOK'
<1>. SUFFICES ASSUME TypeOK, [Next]_vars PROVE TypeOK'
  OBVIOUS
<1>1. ASSUME NEW k \in Keys, Receive(k) PROVE TypeOK'
  BY <1>1, PathType, ResvType, TearType DEF Receive
<1>2. ASSUME NEW k \in Keys, TimerFires(k) PROVE TypeOK'
  BY <1>2, TimerType
<1>3. CASE Command
  BY <1>3, CommandType
<1>4. CASE Frr
  <2>1. ASSUME NEW i \in Ifs \cup {0}, rsvp_frr_trigger(i) PROVE TypeOK'
    BY <2>1, Triggered DEF TypeOK, SentOK
  <2>2. ASSUME NEW i \in Ifs \cup {0}, rsvp_frr_revert(i) PROVE TypeOK'
    BY <2>2, Reverted DEF TypeOK, SentOK
  <2>3. ASSUME NEW t, NEW o, NEW mode, NEW b,
               rsvp_frr_enable_protection(t, o, mode, b)
        PROVE  TypeOK'
    BY <2>3, Enabled DEF TypeOK
  <2>. QED  BY <1>4, <2>1, <2>2, <2>3 DEF Frr
<1>5. CASE rsvp_state_machine_shutdown
  <2>1. PICK r \in [psbs -> Routes] :
           sent' = UNION {propagate_path_tear(k, r[k]) : k \in psbs}
    BY <1>5 DEF rsvp_state_machine_shutdown
  <2>2. SentOK(sent')
    BY <2>1, Senders DEF SentOK, TypeOK
  <2>3. rsvp_psb_cleanup(psbs) /\ rsvp_state_db_cleanup
    BY <1>5 DEF rsvp_state_machine_shutdown, shutdown_cleanup
  <2>. QED  BY <2>2, <2>3, CleanupType DEF TypeOK, SentOK, rsvp_state_db_cleanup
<1>6. CASE UNCHANGED vars
  BY <1>6 DEF vars, TypeOK
<1>. QED  BY <1>1, <1>2, <1>3, <1>4, <1>5, <1>6 DEF Next

\* The types hold in every reachable state, for every instance.
THEOREM NodeTypeCorrect == Spec => []TypeOK
BY TypeInit, TypeStep, PTL DEF Spec
=============================================================================
