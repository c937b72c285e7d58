------------------------------ MODULE MCSilence ------------------------------
(***************************************************************************)
(* One LSP that starts at this node, one that crosses it and one that ends *)
(* here; address 1 is this node.                                           *)
(***************************************************************************)
EXTENDS RsvpSilence

SilenceKeys ==
    {[dest |-> 2, tid |-> 1, src |-> 1, lsp |-> 1],
     [dest |-> 2, tid |-> 2, src |-> 3, lsp |-> 1],
     [dest |-> 1, tid |-> 3, src |-> 3, lsp |-> 1]}

\* No guard and no property of this module reads the latest step's messages.
AllButSent == <<psbs, psb, rsbs, rsb, bsbs, bsb, labels, swap, push,
                next_lsp_id, running, strays, silent>>
=============================================================================
