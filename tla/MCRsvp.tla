------------------------------- MODULE MCRsvp -------------------------------
(***************************************************************************)
(* Small instances of the state machine.  Address 1 is this node; 2 and 3  *)
(* are other end points.                                                   *)
(***************************************************************************)
EXTENDS RsvpProperties

Key(d, t, s, l) == [dest |-> d, tid |-> t, src |-> s, lsp |-> l]

\* One LSP that crosses this node and one that ends here.
TransitKeys == {Key(2, 1, 3, 1), Key(1, 3, 3, 1)}

\* One tunnel that starts here, with two LSPs (for make-before-break), and an
\* LSP with the source of another node and the same tunnel and LSP numbers as
\* one of them: it crosses this node, or the operator starts it here.
IngressKeys == {Key(2, 1, 1, 0), Key(2, 1, 1, 1), Key(2, 1, 3, 0)}

\* One tunnel that starts here, with two LSPs.
HeadKeys == {Key(2, 1, 1, 0), Key(2, 1, 1, 1)}

\* A bypass tunnel that starts here (tunnel 9) and a protected LSP that
\* crosses this node.
FrrKeys == {Key(4, 9, 1, 1), Key(2, 1, 3, 1)}
\* What the runs tell states apart by: no guard reads the latest step's messages,
\* and the properties about them are checked on every step.
AllButSent == <<psbs, psb, rsbs, rsb, bsbs, bsb, labels, swap, push,
                next_lsp_id, running, strays>>
=============================================================================
