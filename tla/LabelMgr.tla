------------------------------ MODULE LabelMgr ------------------------------
(***************************************************************************)
(* The MPLS label manager, src/pi/label_mgr.c: a bitmap over               *)
(* [label_min, label_max] and a cursor label_next where the next search    *)
(* starts.  All calls come from the single main thread, so each call is    *)
(* one action.                                                             *)
(***************************************************************************)
EXTENDS Integers

CONSTANTS label_min, label_max   \* the range given to label_mgr_init

ASSUME LabelRange ==
    /\ label_min \in Nat \ {0}
    /\ label_max \in Nat
    /\ label_min <= label_max

VARIABLES bitmap,      \* bit label - label_min: 1 when the label is allocated
          label_next,  \* where the next search starts
          ret          \* the value the latest label_mgr_alloc returned

vars == <<bitmap, label_next, ret>>

-----------------------------------------------------------------------------
Range == label_max - label_min + 1
Offsets == 0 .. Range - 1

label_in_range(label) == label >= label_min /\ label <= label_max

label_is_allocated(label) ==
    label_in_range(label) /\ bitmap[label - label_min] = 1

\* Writes bit b for a label; out of range labels are ignored.
label_set_bit(label, b) ==
    bitmap' = IF label_in_range(label)
              THEN [bitmap EXCEPT ![label - label_min] = b]
              ELSE bitmap

label_mgr_init ==
    /\ bitmap = [i \in Offsets |-> 0]
    /\ label_next = label_min
    /\ ret = 0

\* Mutant of Probe: the wrapped label is computed one too low.
ProbeWrapLow(offset) ==
    LET label == label_next + offset
    IN  IF label > label_max THEN label_min + (label - label_max) - 2 ELSE label

\* The label examined at position offset of the search, wrapping around.
Probe(offset) ==
    LET label == label_next + offset
    IN  IF label > label_max THEN label_min + (label - label_max - 1) ELSE label

\* The cursor after label has been handed out.
NextCursor(label) == IF label + 1 > label_max THEN label_min ELSE label + 1

\* The search stops at the first offset whose label is free ...
label_mgr_alloc_found ==
    \E offset \in Offsets :
        /\ ~ label_is_allocated(Probe(offset))
        /\ \A o \in 0 .. offset - 1 : label_is_allocated(Probe(o))
        /\ label_set_bit(Probe(offset), 1)
        /\ label_next' = NextCursor(Probe(offset))
        /\ ret' = Probe(offset)

\* ... and returns 0 when it has looked at all of them.
label_mgr_alloc_none ==
    /\ \A offset \in Offsets : label_is_allocated(Probe(offset))
    /\ ret' = 0
    /\ UNCHANGED <<bitmap, label_next>>

label_mgr_alloc == label_mgr_alloc_found \/ label_mgr_alloc_none

\* Mutant of CursorAfterFree: the cursor is not pulled back.
CursorNotReset(label) == label_next

\* The cursor after label has been released.
CursorAfterFree(label) == IF label < label_next THEN label ELSE label_next

label_mgr_free(label) ==
    /\ label_is_allocated(label)
    /\ label_set_bit(label, 0)
    /\ label_next' = CursorAfterFree(label)
    /\ UNCHANGED ret

\* The early returns: a label out of the range, or one that is not allocated.
label_mgr_free_ignored(label) ==
    /\ ~ label_is_allocated(label)
    /\ UNCHANGED vars

\* Callers may free any value; one below and one above the range stand for
\* all the values outside it.
Next ==
    \/ label_mgr_alloc
    \/ \E label \in label_min - 1 .. label_max + 1 :
          label_mgr_free(label) \/ label_mgr_free_ignored(label)

Spec == label_mgr_init /\ [][Next]_vars

-----------------------------------------------------------------------------
TypeOK ==
    /\ bitmap \in [Offsets -> {0, 1}]
    /\ label_next \in label_min .. label_max
    /\ ret \in {0} \cup label_min .. label_max

\* No free label lies below the cursor: label_mgr_free pulls label_next back
\* ("to prioritize lower labels") and label_mgr_alloc never runs past a free
\* label, so the wrap-around half of the search can only meet allocated ones.
NoFreeBelowCursor ==
    \A label \in label_min .. label_next - 1 : label_is_allocated(label)

Inv == TypeOK /\ NoFreeBelowCursor

\* The manager implements the label pool: it never hands out a label that is
\* outstanding, always the lowest free one, and label_mgr_alloc returns 0 only
\* when the whole range is outstanding.
Outstanding == {l \in label_min .. label_max : bitmap[l - label_min] = 1}

Pool == INSTANCE LabelPool WITH
            Labels <- label_min .. label_max, NoLabel <- 0,
            outstanding <- Outstanding, granted <- ret

ImplementsPool == Pool!PoolSpec

=============================================================================
