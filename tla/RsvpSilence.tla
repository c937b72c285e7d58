----------------------------- MODULE RsvpSilence -----------------------------
(***************************************************************************)
(* Soft state when the network goes silent: from some moment on no message *)
(* arrives and no command is given, so only the node's own timers run.     *)
(*                                                                         *)
(* Fairness: a cleanup timer that stays armed expires, because the wheel's *)
(* tick thread never stops and the main loop drains the timer pipe.  A     *)
(* refresh callback only sends and re-arms; it needs none.                 *)
(***************************************************************************)
EXTENDS RsvpProperties

VARIABLE silent

silenceVars == <<vars, silent>>

SilenceInit == Init /\ silent = FALSE

\* The last message has been received.
FallSilent ==
    /\ running /\ ~ silent
    /\ silent' = TRUE
    /\ UNCHANGED vars

OnlyTimers ==
    /\ running /\ silent
    /\ \E k \in Keys : TimerFires(k)
    /\ UNCHANGED <<next_lsp_id, running, silent>>
    /\ NoteStrays

SilenceNext ==
    \/ ~ silent /\ Next /\ UNCHANGED silent
    \/ FallSilent
    \/ OnlyTimers

Expires(k) ==
    /\ running /\ silent
    /\ psb_cleanup_timer_cb(k) \/ rsb_cleanup_timer_cb(k)
    /\ UNCHANGED <<next_lsp_id, running, silent>>
    /\ NoteStrays

SilenceSpec ==
    /\ SilenceInit
    /\ [][SilenceNext]_silenceVars
    /\ \A k \in Keys : WF_silenceVars(Expires(k))

\* Soft state dies: once the neighbours are silent, whatever was received or
\* commanded before, the node ends up with no reservation, label or SWAP route,
\* with no path but the ones it originates and no PUSH route but those of strays
\* (see RoutesOwned).
SilenceClears ==
    silent ~> /\ rsbs = {} /\ labels = {}
              /\ \A l \in Labels : swap[l] = NoEntry
              /\ \A d \in Dests \ {k.dest : k \in strays} : push[d] = NoEntry
              /\ \A k \in psbs : psb[k].is_ingress
=============================================================================
