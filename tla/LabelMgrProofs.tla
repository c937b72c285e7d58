--------------------------- MODULE LabelMgrProofs ---------------------------
(***************************************************************************)
(* For every range [label_min, label_max]: the label manager keeps its     *)
(* type, keeps no free label below its cursor, and implements LabelPool.   *)
(***************************************************************************)
EXTENDS LabelMgr, TLAPS

\* The wrapped search position is always a label of the range.
LEMMA ProbeInRange ==
    ASSUME TypeOK, NEW o \in Offsets
    PROVE  Probe(o) \in label_min .. label_max
BY LabelRange DEF TypeOK, Probe, Offsets, Range

\* Every label of the range is examined at some position of the search, and
\* the ones at or above the cursor before any below it.
LEMMA ProbeCovers ==
    ASSUME TypeOK, NEW l \in label_min .. label_max
    PROVE  \E o \in Offsets : Probe(o) = l
<1>1. CASE l >= label_next
  <2>1. l - label_next \in Offsets /\ Probe(l - label_next) = l
    BY <1>1, LabelRange DEF TypeOK, Probe, Offsets, Range
  <2>2. QED BY <2>1
<1>2. CASE l < label_next
  <2> DEFINE o == (label_max - label_next + 1) + (l - label_min)
  <2>1. o \in Offsets /\ Probe(o) = l
    BY <1>2, LabelRange DEF TypeOK, Probe, Offsets, Range
  <2>2. QED BY <2>1
<1>3. QED BY <1>1, <1>2, LabelRange DEF TypeOK

\* With no free label below the cursor, the search finds the lowest free
\* label: it cannot have wrapped, and everything below it is allocated.
LEMMA FoundIsLowest ==
    ASSUME Inv, NEW o \in Offsets,
           ~ label_is_allocated(Probe(o)),
           \A p \in 0 .. o - 1 : label_is_allocated(Probe(p))
    PROVE  /\ Probe(o) = label_next + o
           /\ \A m \in label_min .. Probe(o) - 1 : label_is_allocated(m)
<1>1. Probe(o) \in label_min .. label_max
  BY ProbeInRange DEF Inv
<1>2. Probe(o) = label_next + o
  BY <1>1, LabelRange DEF Inv, TypeOK, NoFreeBelowCursor, Probe, Offsets, Range
<1>3. ASSUME NEW m \in label_min .. Probe(o) - 1
      PROVE  label_is_allocated(m)
  <2>1. CASE m < label_next
    BY <2>1, LabelRange DEF Inv, TypeOK, NoFreeBelowCursor
  <2>2. CASE m >= label_next
    <3>1. m - label_next \in 0 .. o - 1 /\ Probe(m - label_next) = m
      BY <1>1, <1>2, <2>2, LabelRange DEF Inv, TypeOK, Probe, Offsets, Range
    <3>2. QED BY <3>1
  <2>3. QED BY <2>1, <2>2, <1>1, LabelRange DEF Inv, TypeOK
<1>4. QED BY <1>2, <1>3

\* After label_mgr_init the cursor stands at label_min, below which nothing is.
LEMMA InitInv == label_mgr_init => Inv
BY LabelRange DEF label_mgr_init, Inv, TypeOK, NoFreeBelowCursor, Offsets, Range

\* label_mgr_alloc and label_mgr_free keep the types and leave no free label
\* below the cursor.
LEMMA NextInv == Inv /\ [Next]_vars => Inv'
<1> SUFFICES ASSUME Inv, [Next]_vars PROVE Inv'
  OBVIOUS
<1> USE LabelRange DEF Inv, label_in_range
<1>1. CASE label_mgr_alloc_found
  <2>1. PICK o \in Offsets :
            /\ ~ label_is_allocated(Probe(o))
            /\ \A p \in 0 .. o - 1 : label_is_allocated(Probe(p))
            /\ label_set_bit(Probe(o), 1)
            /\ label_next' = NextCursor(Probe(o))
            /\ ret' = Probe(o)
    BY <1>1 DEF label_mgr_alloc_found
  <2>2. Probe(o) \in label_min .. label_max
    BY ProbeInRange
  <2>3. \A m \in label_min .. Probe(o) - 1 : label_is_allocated(m)
    BY <2>1, FoundIsLowest
  <2>4. bitmap' = [bitmap EXCEPT ![Probe(o) - label_min] = 1]
    BY <2>1, <2>2 DEF label_set_bit
  <2>5. TypeOK'
    BY <2>1, <2>2, <2>4 DEF TypeOK, NextCursor, Offsets, Range
  <2>6. NoFreeBelowCursor'
    BY <2>1, <2>2, <2>3, <2>4 DEF TypeOK, NoFreeBelowCursor, NextCursor,
       label_is_allocated, Offsets, Range
  <2>7. QED BY <2>5, <2>6
<1>2. CASE label_mgr_alloc_none
  BY <1>2 DEF label_mgr_alloc_none, TypeOK, NoFreeBelowCursor,
     label_is_allocated
<1>3. ASSUME NEW l \in label_min - 1 .. label_max + 1, label_mgr_free(l)
      PROVE  Inv'
  <2>1. l \in label_min .. label_max
    BY <1>3 DEF label_mgr_free, label_is_allocated
  <2>2. bitmap' = [bitmap EXCEPT ![l - label_min] = 0]
    BY <1>3, <2>1 DEF label_mgr_free, label_set_bit
  <2>3. TypeOK'
    BY <1>3, <2>1, <2>2 DEF TypeOK, label_mgr_free, CursorAfterFree,
       Offsets, Range
  <2>4. NoFreeBelowCursor'
    BY <1>3, <2>1, <2>2 DEF TypeOK, NoFreeBelowCursor, label_mgr_free,
       CursorAfterFree, label_is_allocated, Offsets, Range
  <2>5. QED BY <2>3, <2>4
<1>4. CASE UNCHANGED vars
  BY <1>4 DEF vars, TypeOK, NoFreeBelowCursor, label_is_allocated
<1>5. QED
  BY <1>1, <1>2, <1>3, <1>4 DEF Next, label_mgr_alloc, label_mgr_free_ignored

\* The bitmap, the cursor and the result of every reachable state have their
\* types; in particular label_next never leaves the range, so the search never
\* starts outside the bitmap.
THEOREM TypeCorrect == Spec => []TypeOK
BY InitInv, NextInv, PTL DEF Spec, Inv

\* label_mgr_free and label_mgr_alloc leave no free label below label_next.
THEOREM CursorCorrect == Spec => []NoFreeBelowCursor
BY InitInv, NextInv, PTL DEF Spec, Inv

-----------------------------------------------------------------------------
\* The cleared bitmap is the pool with no label handed out.
LEMMA InitRefines == label_mgr_init => Pool!PoolInit
BY LabelRange DEF label_mgr_init, Pool!PoolInit, Outstanding, Offsets, Range

\* A label is free in the pool when its bit is clear.
LEMMA FreeDef ==
    ASSUME TypeOK
    PROVE  Pool!Free = {l \in label_min .. label_max : ~ label_is_allocated(l)}
BY LabelRange DEF Pool!Free, Outstanding, label_is_allocated, label_in_range,
   TypeOK

\* A successful search is a Grant, a failed one Exhausted, a free a Return.
LEMMA NextRefines == Inv /\ [Next]_vars => [Pool!PoolNext]_(Pool!poolVars)
<1> SUFFICES ASSUME Inv, [Next]_vars
             PROVE  Pool!PoolNext \/ UNCHANGED Pool!poolVars
  BY DEF Pool!poolVars
<1> USE LabelRange DEF Inv, label_in_range
<1>1. CASE label_mgr_alloc_found
  <2>1. PICK o \in Offsets :
            /\ ~ label_is_allocated(Probe(o))
            /\ \A p \in 0 .. o - 1 : label_is_allocated(Probe(p))
            /\ label_set_bit(Probe(o), 1)
            /\ ret' = Probe(o)
    BY <1>1 DEF label_mgr_alloc_found
  <2>2. Probe(o) \in label_min .. label_max
    BY ProbeInRange
  <2>3. \A m \in label_min .. Probe(o) - 1 : label_is_allocated(m)
    BY <2>1, FoundIsLowest
  <2>4. bitmap' = [bitmap EXCEPT ![Probe(o) - label_min] = 1]
    BY <2>1, <2>2 DEF label_set_bit
  <2>5. Probe(o) \in Pool!Free /\ \A m \in Pool!Free : Probe(o) <= m
    BY <2>1, <2>2, <2>3, FreeDef
  <2>6. Outstanding' = Outstanding \cup {Probe(o)}
    BY <2>2, <2>4 DEF Outstanding, TypeOK, Offsets, Range
  <2>7. Pool!Grant(Probe(o))
    BY <2>1, <2>5, <2>6 DEF Pool!Grant
  <2>8. QED BY <2>2, <2>7 DEF Pool!PoolNext
<1>2. CASE label_mgr_alloc_none
  <2>1. \A l \in label_min .. label_max : label_is_allocated(l)
    BY <1>2, ProbeCovers DEF label_mgr_alloc_none
  <2>2. Pool!Free = {}
    BY <2>1, FreeDef
  <2>3. Pool!Exhausted
    BY <1>2, <2>2 DEF label_mgr_alloc_none, Pool!Exhausted, Outstanding
  <2>4. QED BY <2>3 DEF Pool!PoolNext
<1>3. ASSUME NEW l \in label_min - 1 .. label_max + 1, label_mgr_free(l)
      PROVE  Pool!PoolNext
  <2>1. l \in label_min .. label_max
    BY <1>3 DEF label_mgr_free, label_is_allocated
  <2>2. bitmap' = [bitmap EXCEPT ![l - label_min] = 0]
    BY <1>3, <2>1 DEF label_mgr_free, label_set_bit
  <2>3. Outstanding' = Outstanding \ {l}
    BY <2>1, <2>2 DEF Outstanding, TypeOK, Offsets, Range
  <2>4. Pool!Return(l)
    BY <1>3, <2>3 DEF Pool!Return, label_mgr_free
  <2>5. QED BY <2>1, <2>4 DEF Pool!PoolNext
<1>4. CASE UNCHANGED vars
  BY <1>4 DEF vars, Pool!poolVars, Outstanding
<1>5. QED
  BY <1>1, <1>2, <1>3, <1>4 DEF Next, label_mgr_alloc, label_mgr_free_ignored

\* label_mgr.c implements the label pool, whatever the configured range: the
\* bitmap search hands out exactly the lowest label that nobody holds and
\* fails only when the range is used up.
THEOREM Refinement == Spec => ImplementsPool
<1>1. label_mgr_init => Pool!PoolInit
  BY InitRefines
<1>2. Inv /\ [Next]_vars => [Pool!PoolNext]_(Pool!poolVars)
  BY NextRefines
<1>3. QED
  BY <1>1, <1>2, InitInv, NextInv, PTL
     DEF Spec, ImplementsPool, Pool!PoolSpec
=============================================================================
