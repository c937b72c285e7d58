------------------------ MODULE RsvpDispatcherProofs -------------------------
(***************************************************************************)
(* Proofs about RsvpMessages and RsvpDispatcher: what the builder makes of *)
(* a sequence of objects, and what the parser makes of a packet.           *)
(***************************************************************************)
EXTENDS RsvpDispatcher, WellFoundedInduction, TLAPS

-----------------------------------------------------------------------------
(* Induction.                                                              *)

\* A non-empty set of naturals has a least element.
LEMMA Least ==
    ASSUME NEW T, T \subseteq Nat, T # {}
    PROVE  \E x \in T : \A y \in T : x <= y
<1>. DEFINE R == OpToRel(<, Nat)
<1>1. IsWellFoundedOn(R, Nat)
  BY NatLessThanWellFounded, Zenon
<1>2. \A y, x \in Nat : y < x => <<y, x>> \in R
  BY DEF OpToRel
<1>. HIDE DEF R
<1>3. PICK x \in T : \A y \in T : ~ (<<y, x>> \in R)
  BY <1>1, WFMin
<1>4. ASSUME NEW y \in T PROVE x <= y
  <2>1. x \in Nat /\ y \in Nat
    OBVIOUS
  <2>2. ~ (y < x)
    BY <1>2, <1>3, <2>1
  <2>. QED  BY <2>1, <2>2
<1>. QED  BY <1>3, <1>4

\* A set that has 0 and every successor up to m has every number up to m.
LEMMA Induction ==
    ASSUME NEW S, NEW m \in Nat, 0 \in S,
           \A i \in Nat : i < m /\ i \in S => i + 1 \in S
    PROVE  0 .. m \subseteq S
<1>. DEFINE T == (0 .. m) \ S
<1>. SUFFICES ASSUME T # {} PROVE FALSE
  OBVIOUS
<1>1. PICK x \in T : \A y \in T : x <= y
  <2>1. T \subseteq Nat
    OBVIOUS
  <2>. QED  BY <2>1, Least
<1>. DEFINE z == x - 1
<1>2. x \in Nat /\ x # 0 /\ x <= m
  OBVIOUS
<1>3. z \in Nat /\ z + 1 = x /\ z < m /\ z \in 0 .. m /\ ~ (x <= z)
  BY <1>2
<1>. HIDE DEF z
<1>4. z \in S
  BY <1>1, <1>3
<1>5. z + 1 \in S
  BY <1>3, <1>4
<1>. QED  BY <1>3, <1>5

-----------------------------------------------------------------------------
(* The builder.                                                            *)

\* What the builder holds after each of the objects.
Stages(b, type, size, objects) ==
    b = [i \in 0 .. Len(objects) |->
            IF i = 0 THEN rsvp_builder_init(type, size)
            ELSE rsvp_builder_add_obj(b[i - 1], objects[i])]

\* build goes through such stages: its recursive function exists.
LEMMA BuildStages ==
    ASSUME NEW type, NEW size, NEW S, NEW objects \in Seq(S)
    PROVE  \E b : /\ Stages(b, type, size, objects)
                  /\ build(type, size, objects) = b[Len(objects)]
<1>. DEFINE n == Len(objects)
            Init0 == rsvp_builder_init(type, size)
            Add(x, i) == rsvp_builder_add_obj(x, objects[i])
            Upto(g, m) == g = [i \in 0 .. m |-> IF i = 0 THEN Init0 ELSE Add(g[i - 1], i)]
            Good == {m \in Nat : \E g : Upto(g, m)}
<1>n. n \in Nat
  OBVIOUS
<1>1. \E b : Upto(b, n)
  <2>. HIDE DEF n, Init0, Add
  <2>1. 0 \in Good
    <3>. DEFINE g == [i \in 0 .. 0 |-> Init0]
    <3>1. Upto(g, 0)
      OBVIOUS
    <3>. QED  BY <3>1
  <2>2. ASSUME NEW m \in Nat, m \in Good PROVE m + 1 \in Good
    <3>1. PICK g : Upto(g, m)
      BY <2>2
    <3>. DEFINE h == [i \in 0 .. m + 1 |-> IF i = m + 1 THEN Add(g[m], m + 1) ELSE g[i]]
    <3>2. ASSUME NEW i \in 0 .. m + 1
          PROVE  h[i] = IF i = 0 THEN Init0 ELSE Add(h[i - 1], i)
      <4>1. CASE i = 0
        BY <3>1, <4>1
      <4>2. CASE i = m + 1
        <5>1. h[i - 1] = g[m] /\ m \in 0 .. m
          BY <4>2
        <5>2. h[i] = Add(g[m], m + 1)
          BY <4>2
        <5>3. i - 1 = m
          BY <4>2
        <5>. QED  BY <4>2, <5>1, <5>2
      <4>3. CASE i # 0 /\ i # m + 1
        <5>1. i \in 0 .. m /\ i - 1 \in 0 .. m + 1 /\ i - 1 # m + 1
          BY <4>3
        <5>2. h[i] = g[i] /\ h[i - 1] = g[i - 1]
          BY <4>3, <5>1
        <5>3. g[i] = Add(g[i - 1], i)
          BY <3>1, <4>3, <5>1
        <5>. QED  BY <4>3, <5>2, <5>3
      <4>. QED  BY <4>1, <4>2, <4>3
    <3>3. Upto(h, m + 1)
      <4>. DEFINE f == [i \in 0 .. m + 1 |-> IF i = 0 THEN Init0 ELSE Add(h[i - 1], i)]
      <4>1. h = [i \in 0 .. m + 1 |-> h[i]]
        OBVIOUS
      <4>. HIDE DEF h
      <4>2. \A i \in 0 .. m + 1 : h[i] = f[i]
        BY <3>2
      <4>3. f = [i \in 0 .. m + 1 |-> f[i]]
        OBVIOUS
      <4>. HIDE DEF f
      <4>4. h = f
        BY <4>1, <4>2, <4>3
      <4>. QED  BY <4>4 DEF f
    <3>. HIDE DEF h, Upto
    <3>4. \E x : Upto(x, m + 1)
      BY <3>3
    <3>. QED  BY <3>4
  <2>3. n \in Good
    <3>. HIDE DEF Good
    <3>1. 0 .. n \subseteq Good
      BY <1>n, <2>1, <2>2, Induction
    <3>. QED  BY <1>n, <3>1
  <2>. QED  BY <2>3
<1>. DEFINE b == CHOOSE b : Upto(b, n)
<1>2. Upto(b, n)
  BY <1>1
<1>3. build(type, size, objects) = b[n]
  BY DEF build
<1>. QED  BY <1>2, <1>3 DEF Stages

-----------------------------------------------------------------------------
(* What the senders add.                                                   *)

\* Padding: an aligned length is the least multiple of 4 that holds the length.
LEMMA Aligned ==
    ASSUME NEW len \in Nat
    PROVE  /\ RSVP_ALIGN(len) \in Nat
           /\ len <= RSVP_ALIGN(len)
           /\ \A k \in Nat : len <= 4 * k => RSVP_ALIGN(len) <= 4 * k
BY DEF RSVP_ALIGN

\* An object to add.
Adds == [class : Classes, c_type : Nat, size : Nat, name : 0 .. NameMax]

\* The part of a message that an object of a kind stays in, whatever optional
\* objects come before it: in every message the kinds come in this order, and
\* none needs more than its part.
Part(kind) ==
    CASE kind = "HELLO"           -> [start |-> 8,   end |-> 20]
      [] kind = "SESSION"         -> [start |-> 20,  end |-> 36]
      [] kind = "HOP"             -> [start |-> 36,  end |-> 48]
      [] kind = "TIME_VALUES"     -> [start |-> 48,  end |-> 56]
      [] kind = "ERROR_SPEC"      -> [start |-> 56,  end |-> 68]
      [] kind = "EXPLICIT_ROUTE"  -> [start |-> 68,  end |-> 328]
      [] kind = "LABEL_REQUEST"   -> [start |-> 328, end |-> 336]
      [] kind = "SESSION_ATTRIB"  -> [start |-> 336, end |-> 600]
      [] kind = "FAST_REROUTE"    -> [start |-> 600, end |-> 624]
      [] kind = "STYLE"           -> [start |-> 624, end |-> 632]
      [] kind = "FLOWSPEC"        -> [start |-> 632, end |-> 668]
      [] kind = "SENDER_TEMPLATE" -> [start |-> 668, end |-> 680]
      [] kind = "SENDER_TSPEC"    -> [start |-> 680, end |-> 716]
      [] kind = "RECORD_ROUTE"    -> [start |-> 716, end |-> 976]
      [] kind = "LABEL"           -> [start |-> 976, end |-> 984]
      [] OTHER                    -> [start |-> 0,   end |-> 0]

Start(o) == Part(slot(o.class)).start
End(o)   == Part(slot(o.class)).end

\* An object the parser keeps, of the size its part has room for.
WellMade(o) ==
    /\ o \in Adds
    /\ Body(o.class).c_types \cap {0, o.c_type} # {}
    /\ o.class # "OTHER_LOW"
    /\ Body(o.class).size \in Nat /\ Body(o.class).size <= o.size
    /\ o.name = IF o.class = "SESSION_ATTRIB" THEN o.size - 4 ELSE 0
    /\ Start(o) \in Nat /\ End(o) \in Nat
    /\ Start(o) + RSVP_ALIGN(ObjHdrLen + o.size) <= End(o)

\* Objects in the order of their parts, between two offsets.
Made(s, a, z) ==
    /\ s \in Seq(Adds)
    /\ \A i \in 1 .. Len(s) : WellMade(s[i]) /\ a <= Start(s[i]) /\ End(s[i]) <= z
    /\ \A i, j \in 1 .. Len(s) : i < j => End(s[i]) <= Start(s[j])

Has(s, kind) == \E i \in 1 .. Len(s) : slot(s[i].class) = kind

\* The length of an object is a number.
LEMMA SizeType ==
    ASSUME NEW s \in Seq(Adds), NEW i \in 1 .. Len(s)
    PROVE  s[i] \in Adds /\ s[i].size \in Nat /\ ObjHdrLen + s[i].size \in Nat
<1>1. s[i] \in Adds
  OBVIOUS
<1>2. s[i].size \in Nat
  BY <1>1 DEF Adds
<1>. QED  BY <1>1, <1>2 DEF ObjHdrLen

\* Nothing, one object, and one sequence after another.
LEMMA MadeNone ==
    ASSUME NEW a, NEW z PROVE Made(<<>>, a, z)
BY DEF Made

\* One object.
LEMMA MadeOne ==
    ASSUME NEW o, WellMade(o)
    PROVE  Made(<<o>>, Start(o), End(o)) /\ Has(<<o>>, slot(o.class))
<1>1. o \in Adds /\ Start(o) \in Nat /\ End(o) \in Nat
  BY DEF WellMade
<1>2. Len(<<o>>) = 1 /\ <<o>>[1] = o /\ <<o>> \in Seq(Adds)
  BY <1>1
<1>3. \A i \in 1 .. Len(<<o>>) : <<o>>[i] = o
  BY <1>2
<1>4. \A i, j \in 1 .. Len(<<o>>) : ~ (i < j)
  BY <1>2
<1>5. Made(<<o>>, Start(o), End(o))
  BY <1>1, <1>2, <1>3, <1>4 DEF Made
<1>6. Has(<<o>>, slot(o.class))
  BY <1>2 DEF Has
<1>. QED  BY <1>5, <1>6

\* Bounds may be widened.
LEMMA MadeWider ==
    ASSUME NEW a \in Nat, NEW z \in Nat, NEW b \in Nat, NEW y \in Nat, b <= a, z <= y,
           NEW s, Made(s, a, z)
    PROVE  Made(s, b, y)
<1>1. \A i \in 1 .. Len(s) : Start(s[i]) \in Nat /\ End(s[i]) \in Nat
  BY DEF Made, WellMade
<1>2. \A i \in 1 .. Len(s) : b <= Start(s[i]) /\ End(s[i]) <= y
  BY <1>1 DEF Made
<1>. QED  BY <1>2 DEF Made

\* Objects that follow one another: the parts of the first come before those
\* of the second.
LEMMA MadeConcat ==
    ASSUME NEW a \in Nat, NEW m \in Nat, NEW z \in Nat, a <= m, m <= z,
           NEW s, Made(s, a, m), NEW t, Made(t, m, z)
    PROVE  /\ Made(s \o t, a, z)
           /\ \A kind : Has(s, kind) \/ Has(t, kind) => Has(s \o t, kind)
<1>1. s \in Seq(Adds) /\ t \in Seq(Adds)
  BY DEF Made
<1>. DEFINE u == s \o t
<1>2. /\ u \in Seq(Adds) /\ Len(u) = Len(s) + Len(t)
      /\ Len(s) \in Nat /\ Len(t) \in Nat
      /\ \A i \in 1 .. Len(s) : u[i] = s[i]
      /\ \A i \in 1 .. Len(t) : u[Len(s) + i] = t[i]
  BY <1>1
<1>. HIDE DEF u
<1>3. ASSUME NEW i \in 1 .. Len(u)
      PROVE  \/ i \in 1 .. Len(s) /\ u[i] = s[i]
             \/ i - Len(s) \in 1 .. Len(t) /\ u[i] = t[i - Len(s)]
  <2>1. CASE i <= Len(s)
    BY <1>2, <2>1
  <2>2. CASE i > Len(s)
    <3>1. i - Len(s) \in 1 .. Len(t) /\ Len(s) + (i - Len(s)) = i
      BY <1>2, <2>2
    <3>. QED  BY <1>2, <3>1
  <2>. QED  BY <1>2, <2>1, <2>2
<1>4. ASSUME NEW i \in 1 .. Len(s)
      PROVE  /\ WellMade(s[i]) /\ Start(s[i]) \in Nat /\ End(s[i]) \in Nat
             /\ a <= Start(s[i]) /\ End(s[i]) <= m /\ End(s[i]) <= z
  <2>1. WellMade(s[i]) /\ a <= Start(s[i]) /\ End(s[i]) <= m
    BY DEF Made
  <2>2. Start(s[i]) \in Nat /\ End(s[i]) \in Nat
    BY <2>1 DEF WellMade
  <2>. QED  BY <2>1, <2>2
<1>5. ASSUME NEW i \in 1 .. Len(t)
      PROVE  /\ WellMade(t[i]) /\ Start(t[i]) \in Nat /\ End(t[i]) \in Nat
             /\ a <= Start(t[i]) /\ m <= Start(t[i]) /\ End(t[i]) <= z
  <2>1. WellMade(t[i]) /\ m <= Start(t[i]) /\ End(t[i]) <= z
    BY DEF Made
  <2>2. Start(t[i]) \in Nat /\ End(t[i]) \in Nat
    BY <2>1 DEF WellMade
  <2>. QED  BY <2>1, <2>2
<1>6. \A i \in 1 .. Len(u) : WellMade(u[i]) /\ a <= Start(u[i]) /\ End(u[i]) <= z
  BY <1>3, <1>4, <1>5
<1>7. ASSUME NEW i \in 1 .. Len(u), NEW j \in 1 .. Len(u), i < j
      PROVE  End(u[i]) <= Start(u[j])
  <2>0. i \in Int /\ j \in Int /\ Len(s) \in Int
    BY <1>2
  <2>1. CASE i \in 1 .. Len(s) /\ u[i] = s[i] /\ j \in 1 .. Len(s) /\ u[j] = s[j]
    BY <1>7, <2>1 DEF Made
  <2>2. CASE /\ i \in 1 .. Len(s) /\ u[i] = s[i]
             /\ j - Len(s) \in 1 .. Len(t) /\ u[j] = t[j - Len(s)]
    <3>1. End(u[i]) \in Nat /\ End(u[i]) <= m
      BY <1>4, <2>2
    <3>2. Start(u[j]) \in Nat /\ m <= Start(u[j])
      BY <1>5, <2>2
    <3>. QED  BY <3>1, <3>2
  <2>3. CASE /\ i - Len(s) \in 1 .. Len(t) /\ u[i] = t[i - Len(s)]
             /\ j - Len(s) \in 1 .. Len(t) /\ u[j] = t[j - Len(s)]
    <3>1. i - Len(s) < j - Len(s)
      BY <1>7, <2>0
    <3>. QED  BY <2>3, <3>1 DEF Made
  <2>4. CASE i - Len(s) \in 1 .. Len(t) /\ j \in 1 .. Len(s)
    BY <1>7, <2>0, <2>4
  <2>. QED  BY <1>3, <2>1, <2>2, <2>3, <2>4
<1>8. Made(u, a, z)
  BY <1>2, <1>6, <1>7 DEF Made
<1>9. ASSUME NEW kind, Has(s, kind) \/ Has(t, kind) PROVE Has(u, kind)
  <2>1. \A i \in 1 .. Len(s) : i \in 1 .. Len(u)
    BY <1>2
  <2>2. \A i \in 1 .. Len(t) : Len(s) + i \in 1 .. Len(u)
    BY <1>2
  <2>. QED  BY <1>2, <1>9, <2>1, <2>2 DEF Has
<1>. QED  BY <1>8, <1>9 DEF u

\* An object of a fixed size that the parser takes and its part has room for.
Fixed(class, c_type, size) ==
    /\ class \in Classes \ {"SESSION_ATTRIB", "OTHER_LOW"}
    /\ Body(class).c_types \cap {0, c_type} # {}
    /\ Body(class).size \in Nat /\ Body(class).size <= size
    /\ Part(slot(class)).start \in Nat /\ Part(slot(class)).end \in Nat
    /\ Part(slot(class)).start + RSVP_ALIGN(ObjHdrLen + size) <= Part(slot(class)).end

\* Such an object is well made.
LEMMA ObjMade ==
    ASSUME NEW class, NEW c_type \in Nat, NEW size \in Nat, Fixed(class, c_type, size)
    PROVE  /\ WellMade(Obj(class, c_type, size))
           /\ Obj(class, c_type, size).class = class
           /\ Start(Obj(class, c_type, size)) = Part(slot(class)).start
           /\ End(Obj(class, c_type, size)) = Part(slot(class)).end
<1>. DEFINE o == Obj(class, c_type, size)
<1>1. o = [class |-> class, c_type |-> c_type, size |-> size, name |-> 0]
  BY DEF Obj
<1>. HIDE DEF o
<1>2. o \in Adds
  BY <1>1 DEF Adds, NameMax, Fixed
<1>3. o.class = class /\ o.c_type = c_type /\ o.size = size /\ o.name = 0
  BY <1>1
<1>4. Start(o) = Part(slot(class)).start /\ End(o) = Part(slot(class)).end
  BY <1>3 DEF Start, End
<1>5. WellMade(o)
  BY <1>2, <1>3, <1>4 DEF WellMade, Fixed
<1>. QED  BY <1>3, <1>4, <1>5 DEF o

\* The objects the senders use fit, and their C-Types are ones the parser takes.
LEMMA FixedObjects ==
    /\ WellMade(Session) /\ Session.class = "SESSION" /\ Start(Session) = 20 /\ End(Session) = 36
    /\ WellMade(Hop) /\ Hop.class = "HOP" /\ Start(Hop) = 36 /\ End(Hop) = 48
    /\ WellMade(Time) /\ Time.class = "TIME_VALUES" /\ Start(Time) = 48 /\ End(Time) = 56
    /\ WellMade(Error) /\ Error.class = "ERROR_SPEC" /\ Start(Error) = 56 /\ End(Error) = 68
    /\ WellMade(Style) /\ Style.class = "STYLE" /\ Start(Style) = 624 /\ End(Style) = 632
    /\ WellMade(Sender) /\ Sender.class = "SENDER_TEMPLATE" /\ Start(Sender) = 668 /\ End(Sender) = 680
    /\ WellMade(Filter) /\ Filter.class = "FILTER_SPEC" /\ Start(Filter) = 668 /\ End(Filter) = 680
<1>1. WellMade(Session) /\ Session.class = "SESSION" /\ Start(Session) = 20 /\ End(Session) = 36
  <2>1. Part(slot("SESSION")).start = 20 /\ Part(slot("SESSION")).end = 36
    BY DEF Part, slot
  <2>2. Fixed("SESSION", 7, 12)
    BY <2>1 DEF Fixed, Body, RSVP_ALIGN, ObjHdrLen, Classes
  <2>. QED  BY <2>1, <2>2, ObjMade DEF Session
<1>2. WellMade(Hop) /\ Hop.class = "HOP" /\ Start(Hop) = 36 /\ End(Hop) = 48
  <2>1. Part(slot("HOP")).start = 36 /\ Part(slot("HOP")).end = 48
    BY DEF Part, slot
  <2>2. Fixed("HOP", 1, 8)
    BY <2>1 DEF Fixed, Body, RSVP_ALIGN, ObjHdrLen, Classes
  <2>. QED  BY <2>1, <2>2, ObjMade DEF Hop
<1>3. WellMade(Time) /\ Time.class = "TIME_VALUES" /\ Start(Time) = 48 /\ End(Time) = 56
  <2>1. Part(slot("TIME_VALUES")).start = 48 /\ Part(slot("TIME_VALUES")).end = 56
    BY DEF Part, slot
  <2>2. Fixed("TIME_VALUES", 1, 4)
    BY <2>1 DEF Fixed, Body, RSVP_ALIGN, ObjHdrLen, Classes
  <2>. QED  BY <2>1, <2>2, ObjMade DEF Time
<1>4. WellMade(Error) /\ Error.class = "ERROR_SPEC" /\ Start(Error) = 56 /\ End(Error) = 68
  <2>1. Part(slot("ERROR_SPEC")).start = 56 /\ Part(slot("ERROR_SPEC")).end = 68
    BY DEF Part, slot
  <2>2. Fixed("ERROR_SPEC", 1, 8)
    BY <2>1 DEF Fixed, Body, RSVP_ALIGN, ObjHdrLen, Classes
  <2>. QED  BY <2>1, <2>2, ObjMade DEF Error
<1>5. WellMade(Style) /\ Style.class = "STYLE" /\ Start(Style) = 624 /\ End(Style) = 632
  <2>1. Part(slot("STYLE")).start = 624 /\ Part(slot("STYLE")).end = 632
    BY DEF Part, slot
  <2>2. Fixed("STYLE", 1, 4)
    BY <2>1 DEF Fixed, Body, RSVP_ALIGN, ObjHdrLen, Classes
  <2>. QED  BY <2>1, <2>2, ObjMade DEF Style
<1>6. WellMade(Sender) /\ Sender.class = "SENDER_TEMPLATE" /\ Start(Sender) = 668 /\ End(Sender) = 680
  <2>1. Part(slot("SENDER_TEMPLATE")).start = 668 /\ Part(slot("SENDER_TEMPLATE")).end = 680
    BY DEF Part, slot
  <2>2. Fixed("SENDER_TEMPLATE", 7, 8)
    BY <2>1 DEF Fixed, Body, RSVP_ALIGN, ObjHdrLen, Classes
  <2>. QED  BY <2>1, <2>2, ObjMade DEF Sender
<1>7. WellMade(Filter) /\ Filter.class = "FILTER_SPEC" /\ Start(Filter) = 668 /\ End(Filter) = 680
  <2>1. Part(slot("FILTER_SPEC")).start = 668 /\ Part(slot("FILTER_SPEC")).end = 680
    BY DEF Part, slot
  <2>2. Fixed("FILTER_SPEC", 7, 8)
    BY <2>1 DEF Fixed, Body, RSVP_ALIGN, ObjHdrLen, Classes
  <2>. QED  BY <2>1, <2>2, ObjMade DEF Filter
<1>. QED  BY <1>1, <1>2, <1>3, <1>4, <1>5, <1>6, <1>7

\* The objects that only one of the senders uses.
LEMMA OtherObjects ==
    /\ WellMade(Obj("LABEL_REQUEST", 1, 4))
    /\ Start(Obj("LABEL_REQUEST", 1, 4)) = 328 /\ End(Obj("LABEL_REQUEST", 1, 4)) = 336
    /\ WellMade(Obj("FAST_REROUTE", 1, 20))
    /\ Start(Obj("FAST_REROUTE", 1, 20)) = 600 /\ End(Obj("FAST_REROUTE", 1, 20)) = 624
    /\ WellMade(Obj("SENDER_TSPEC", 2, 32))
    /\ Start(Obj("SENDER_TSPEC", 2, 32)) = 680 /\ End(Obj("SENDER_TSPEC", 2, 32)) = 716
    /\ WellMade(Obj("FLOWSPEC", 2, 32))
    /\ Start(Obj("FLOWSPEC", 2, 32)) = 632 /\ End(Obj("FLOWSPEC", 2, 32)) = 668
    /\ WellMade(Obj("LABEL", 1, 4))
    /\ Start(Obj("LABEL", 1, 4)) = 976 /\ End(Obj("LABEL", 1, 4)) = 984
    /\ WellMade(Obj("HELLO", 1, 8))
    /\ Start(Obj("HELLO", 1, 8)) = 8 /\ End(Obj("HELLO", 1, 8)) = 20
    /\ WellMade(Obj("HELLO", 2, 8))
    /\ Start(Obj("HELLO", 2, 8)) = 8 /\ End(Obj("HELLO", 2, 8)) = 20
<1>1. /\ WellMade(Obj("LABEL_REQUEST", 1, 4))
      /\ Start(Obj("LABEL_REQUEST", 1, 4)) = 328 /\ End(Obj("LABEL_REQUEST", 1, 4)) = 336
  <2>1. Part(slot("LABEL_REQUEST")).start = 328 /\ Part(slot("LABEL_REQUEST")).end = 336
    BY DEF Part, slot
  <2>2. Fixed("LABEL_REQUEST", 1, 4)
    BY <2>1 DEF Fixed, Body, RSVP_ALIGN, ObjHdrLen, Classes
  <2>. QED  BY <2>1, <2>2, ObjMade
<1>2. /\ WellMade(Obj("FAST_REROUTE", 1, 20))
      /\ Start(Obj("FAST_REROUTE", 1, 20)) = 600 /\ End(Obj("FAST_REROUTE", 1, 20)) = 624
  <2>1. Part(slot("FAST_REROUTE")).start = 600 /\ Part(slot("FAST_REROUTE")).end = 624
    BY DEF Part, slot
  <2>2. Fixed("FAST_REROUTE", 1, 20)
    BY <2>1 DEF Fixed, Body, RSVP_ALIGN, ObjHdrLen, Classes
  <2>. QED  BY <2>1, <2>2, ObjMade
<1>3. /\ WellMade(Obj("SENDER_TSPEC", 2, 32))
      /\ Start(Obj("SENDER_TSPEC", 2, 32)) = 680 /\ End(Obj("SENDER_TSPEC", 2, 32)) = 716
  <2>1. Part(slot("SENDER_TSPEC")).start = 680 /\ Part(slot("SENDER_TSPEC")).end = 716
    BY DEF Part, slot
  <2>2. Fixed("SENDER_TSPEC", 2, 32)
    BY <2>1 DEF Fixed, Body, RSVP_ALIGN, ObjHdrLen, Classes
  <2>. QED  BY <2>1, <2>2, ObjMade
<1>4. /\ WellMade(Obj("FLOWSPEC", 2, 32))
      /\ Start(Obj("FLOWSPEC", 2, 32)) = 632 /\ End(Obj("FLOWSPEC", 2, 32)) = 668
  <2>1. Part(slot("FLOWSPEC")).start = 632 /\ Part(slot("FLOWSPEC")).end = 668
    BY DEF Part, slot
  <2>2. Fixed("FLOWSPEC", 2, 32)
    BY <2>1 DEF Fixed, Body, RSVP_ALIGN, ObjHdrLen, Classes
  <2>. QED  BY <2>1, <2>2, ObjMade
<1>5. /\ WellMade(Obj("LABEL", 1, 4))
      /\ Start(Obj("LABEL", 1, 4)) = 976 /\ End(Obj("LABEL", 1, 4)) = 984
  <2>1. Part(slot("LABEL")).start = 976 /\ Part(slot("LABEL")).end = 984
    BY DEF Part, slot
  <2>2. Fixed("LABEL", 1, 4)
    BY <2>1 DEF Fixed, Body, RSVP_ALIGN, ObjHdrLen, Classes
  <2>. QED  BY <2>1, <2>2, ObjMade
<1>6. /\ WellMade(Obj("HELLO", 1, 8))
      /\ Start(Obj("HELLO", 1, 8)) = 8 /\ End(Obj("HELLO", 1, 8)) = 20
  <2>1. Part(slot("HELLO")).start = 8 /\ Part(slot("HELLO")).end = 20
    BY DEF Part, slot
  <2>2. Fixed("HELLO", 1, 8)
    BY <2>1 DEF Fixed, Body, RSVP_ALIGN, ObjHdrLen, Classes
  <2>. QED  BY <2>1, <2>2, ObjMade
<1>7. /\ WellMade(Obj("HELLO", 2, 8))
      /\ Start(Obj("HELLO", 2, 8)) = 8 /\ End(Obj("HELLO", 2, 8)) = 20
  <2>1. Part(slot("HELLO")).start = 8 /\ Part(slot("HELLO")).end = 20
    BY DEF Part, slot
  <2>2. Fixed("HELLO", 2, 8)
    BY <2>1 DEF Fixed, Body, RSVP_ALIGN, ObjHdrLen, Classes
  <2>. QED  BY <2>1, <2>2, ObjMade
<1>. QED  BY <1>1, <1>2, <1>3, <1>4, <1>5, <1>6, <1>7

\* A SESSION_ATTRIBUTE with any name, and a route with any number of hops.
LEMMA AttributeMade ==
    ASSUME NEW n \in 0 .. NameMax
    PROVE  /\ WellMade(Attribute(n))
           /\ Start(Attribute(n)) = 336 /\ End(Attribute(n)) = 600
<1>. DEFINE o == Attribute(n)
<1>1. o = [class |-> "SESSION_ATTRIB", c_type |-> 7, size |-> 4 + n, name |-> n]
  BY DEF Attribute, Obj, NameMax
<1>. HIDE DEF o
<1>2. RSVP_ALIGN(ObjHdrLen + (4 + n)) <= 4 * 66
  BY Aligned DEF ObjHdrLen, NameMax
<1>3. o \in Adds /\ o.class = "SESSION_ATTRIB" /\ o.c_type = 7 /\ o.size = 4 + n /\ o.name = n
  BY <1>1 DEF Adds, NameMax, Classes
<1>4. Body("SESSION_ATTRIB") = [size |-> 4,  c_types |-> {7}]
  BY DEF Body
<1>5. Start(o) = 336 /\ End(o) = 600
  BY <1>3 DEF Start, End, slot, Part
<1>6. RSVP_ALIGN(ObjHdrLen + (4 + n)) \in Nat
  BY Aligned DEF ObjHdrLen, NameMax
<1>. QED  BY <1>2, <1>3, <1>4, <1>5, <1>6 DEF WellMade, o, NameMax

\* A route with any number of hops; none is added for an empty one.
LEMMA RouteMade ==
    ASSUME NEW class \in {"EXPLICIT_ROUTE", "RECORD_ROUTE"}, NEW hops \in 0 .. 32
    PROVE  Made(Route(class, hops), Part(class).start, Part(class).end)
<1>1. CASE hops = 0
  BY <1>1, MadeNone DEF Route
<1>2. CASE hops # 0
  <2>. DEFINE o == Obj(class, 1, hops * SubobjLen)
  <2>1. hops * SubobjLen \in Nat /\ 8 <= hops * SubobjLen /\ hops * SubobjLen <= 256
    BY <1>2 DEF SubobjLen
  <2>2. /\ o.class = class /\ o.c_type = 1 /\ o.size = hops * SubobjLen /\ o.name = 0
        /\ o \in Adds
    BY <2>1 DEF Obj, Adds, NameMax, Classes
  <2>. HIDE DEF o
  <2>3. RSVP_ALIGN(ObjHdrLen + o.size) <= 4 * 65 /\ RSVP_ALIGN(ObjHdrLen + o.size) \in Nat
    <3>1. ObjHdrLen + o.size \in Nat /\ ObjHdrLen + o.size <= 4 * 65
      BY <2>1, <2>2 DEF ObjHdrLen
    <3>. QED  BY <3>1, Aligned
  <2>4. Body(class) = [size |-> 1, c_types |-> {0}]
    BY DEF Body
  <2>5. slot(class) = class /\ class # "SESSION_ATTRIB" /\ class # "OTHER_LOW"
    BY DEF slot
  <2>6. /\ Part(class).start \in Nat /\ Part(class).end \in Nat
        /\ Part(class).end = Part(class).start + 260
    BY DEF Part
  <2>7. WellMade(o)
    BY <2>1, <2>2, <2>3, <2>4, <2>5, <2>6 DEF WellMade, Start, End
  <2>8. Start(o) = Part(class).start /\ End(o) = Part(class).end
    BY <2>2, <2>5 DEF Start, End
  <2>9. Route(class, hops) = <<o>>
    BY <1>2 DEF Route, o
  <2>. QED  BY <2>7, <2>8, <2>9, MadeOne
<1>. QED  BY <1>1, <1>2

\* Objects that follow each other in the order of their parts.
LEMMA MadeInOrder ==
    ASSUME NEW s \in Seq(Adds), NEW a \in Nat, NEW z \in Nat,
           \A i \in 1 .. Len(s) : WellMade(s[i]) /\ a <= Start(s[i]) /\ End(s[i]) <= z,
           \A i \in 1 .. Len(s) : i + 1 \in 1 .. Len(s) => End(s[i]) <= Start(s[i + 1])
    PROVE  Made(s, a, z)
<1>. DEFINE n == Len(s)
            Good == {j \in Nat : \A i \in 1 .. n : i < j /\ j <= n => End(s[i]) <= Start(s[j])}
<1>1. n \in Nat /\ \A i \in 1 .. n : Start(s[i]) \in Nat /\ End(s[i]) \in Nat
                                     /\ Start(s[i]) <= End(s[i])
  <2>1. ASSUME NEW i \in 1 .. n
        PROVE  Start(s[i]) \in Nat /\ End(s[i]) \in Nat /\ Start(s[i]) <= End(s[i])
    <3>1. WellMade(s[i])
      OBVIOUS
    <3>2. ObjHdrLen + s[i].size \in Nat
      BY SizeType
    <3>3. RSVP_ALIGN(ObjHdrLen + s[i].size) \in Nat
      BY <3>2, Aligned
    <3>. QED  BY <3>1, <3>3 DEF WellMade
  <2>. QED  BY <2>1
<1>. HIDE DEF n
<1>2. 0 \in Good
  BY <1>1
<1>3. ASSUME NEW j \in Nat, j < n, j \in Good PROVE j + 1 \in Good
  <2>. SUFFICES ASSUME NEW i \in 1 .. n, i < j + 1, j + 1 <= n
                PROVE  End(s[i]) <= Start(s[j + 1])
    OBVIOUS
  <2>1. j \in 1 .. n /\ j + 1 \in 1 .. n
    BY <1>1
  <2>2. End(s[j]) <= Start(s[j + 1])
    BY <2>1 DEF n
  <2>3. CASE i = j
    BY <2>2, <2>3
  <2>4. CASE i # j
    <3>1. i < j /\ j <= n
      BY <1>1, <2>4
    <3>2. End(s[i]) <= Start(s[j])
      BY <1>3, <3>1
    <3>. QED  BY <1>1, <2>1, <2>2, <3>2
  <2>. QED  BY <2>3, <2>4
<1>4. 0 .. n \subseteq Good
  <2>. HIDE DEF Good
  <2>. QED  BY <1>1, <1>2, <1>3, Induction
<1>5. \A i, j \in 1 .. n : i < j => End(s[i]) <= Start(s[j])
  <2>1. \A j \in 1 .. n : j \in 0 .. n /\ j <= n
    BY <1>1
  <2>. QED  BY <1>4, <2>1
<1>. QED  BY <1>5 DEF Made, n

\* The messages of fixed form.
LEMMA ResvMade ==
    /\ Made(resv_objects, HdrLen, 984)
    /\ \A kind \in {"SESSION", "HOP", "STYLE"} : Has(resv_objects, kind)
<1>. DEFINE s == resv_objects
            f == Obj("FLOWSPEC", 2, 32)
            l == Obj("LABEL", 1, 4)
<1>0. s = <<Session, Hop, Time, Style, f, Filter, l>>
  BY DEF resv_objects
<1>1. /\ WellMade(f) /\ Start(f) = 632 /\ End(f) = 668
      /\ WellMade(l) /\ Start(l) = 976 /\ End(l) = 984
  BY OtherObjects
<1>. HIDE DEF s, f, l
<1>2. /\ s \in Seq(Adds) /\ Len(s) = 7 /\ HdrLen = 8
      /\ s[1] = Session /\ s[2] = Hop /\ s[3] = Time /\ s[4] = Style
      /\ s[5] = f /\ s[6] = Filter /\ s[7] = l
  BY <1>0, <1>1, FixedObjects DEF WellMade, HdrLen
<1>3. \A i \in 1 .. Len(s) : WellMade(s[i]) /\ HdrLen <= Start(s[i]) /\ End(s[i]) <= 984
  BY <1>2, <1>1, FixedObjects
<1>4. \A i \in 1 .. Len(s) : i + 1 \in 1 .. Len(s) => End(s[i]) <= Start(s[i + 1])
  BY <1>2, <1>1, FixedObjects
<1>5. s \in Seq(Adds) /\ HdrLen \in Nat
  BY <1>2
<1>6. Made(s, HdrLen, 984)
  BY <1>3, <1>4, <1>5, MadeInOrder
<1>7. \A kind \in {"SESSION", "HOP", "STYLE"} : Has(s, kind)
  BY <1>2, <1>1, FixedObjects DEF Has, slot
<1>. QED  BY <1>6, <1>7 DEF s

\* PATHTEAR.
LEMMA PathTearMade ==
    /\ Made(path_tear_objects, HdrLen, 984)
    /\ \A kind \in {"SESSION", "SENDER_TEMPLATE"} : Has(path_tear_objects, kind)
<1>. DEFINE s == path_tear_objects
<1>0. s = <<Session, Hop, Sender>>
  BY DEF path_tear_objects
<1>. HIDE DEF s
<1>2. /\ s \in Seq(Adds) /\ Len(s) = 3 /\ HdrLen = 8
      /\ s[1] = Session /\ s[2] = Hop /\ s[3] = Sender
  BY <1>0, FixedObjects DEF WellMade, HdrLen
<1>3. \A i \in 1 .. Len(s) : WellMade(s[i]) /\ HdrLen <= Start(s[i]) /\ End(s[i]) <= 984
  BY <1>2, FixedObjects
<1>4. \A i \in 1 .. Len(s) : i + 1 \in 1 .. Len(s) => End(s[i]) <= Start(s[i + 1])
  BY <1>2, FixedObjects
<1>5. s \in Seq(Adds) /\ HdrLen \in Nat
  BY <1>2
<1>6. Made(s, HdrLen, 984)
  BY <1>3, <1>4, <1>5, MadeInOrder
<1>7. \A kind \in {"SESSION", "SENDER_TEMPLATE"} : Has(s, kind)
  BY <1>2, FixedObjects DEF Has, slot
<1>. QED  BY <1>6, <1>7 DEF s

\* RESVTEAR.
LEMMA ResvTearMade ==
    /\ Made(resv_tear_objects, HdrLen, 984)
    /\ \A kind \in {"SESSION", "HOP"} : Has(resv_tear_objects, kind)
<1>. DEFINE s == resv_tear_objects
<1>0. s = <<Session, Hop, Style, Filter>>
  BY DEF resv_tear_objects
<1>. HIDE DEF s
<1>2. /\ s \in Seq(Adds) /\ Len(s) = 4 /\ HdrLen = 8
      /\ s[1] = Session /\ s[2] = Hop /\ s[3] = Style /\ s[4] = Filter
  BY <1>0, FixedObjects DEF WellMade, HdrLen
<1>3. \A i \in 1 .. Len(s) : WellMade(s[i]) /\ HdrLen <= Start(s[i]) /\ End(s[i]) <= 984
  BY <1>2, FixedObjects
<1>4. \A i \in 1 .. Len(s) : i + 1 \in 1 .. Len(s) => End(s[i]) <= Start(s[i + 1])
  BY <1>2, FixedObjects
<1>5. s \in Seq(Adds) /\ HdrLen \in Nat
  BY <1>2
<1>6. Made(s, HdrLen, 984)
  BY <1>3, <1>4, <1>5, MadeInOrder
<1>7. \A kind \in {"SESSION", "HOP"} : Has(s, kind)
  BY <1>2, FixedObjects DEF Has, slot
<1>. QED  BY <1>6, <1>7 DEF s

\* PATHERR, of an error that starts here.
LEMMA PathErrMade ==
    /\ Made(<<Session, Error, Sender>>, HdrLen, 984)
    /\ \A kind \in {"SESSION", "ERROR_SPEC"} : Has(<<Session, Error, Sender>>, kind)
<1>. DEFINE s == <<Session, Error, Sender>>
<1>0. s = <<Session, Error, Sender>>
  OBVIOUS
<1>. HIDE DEF s
<1>2. /\ s \in Seq(Adds) /\ Len(s) = 3 /\ HdrLen = 8
      /\ s[1] = Session /\ s[2] = Error /\ s[3] = Sender
  BY <1>0, FixedObjects DEF WellMade, HdrLen
<1>3. \A i \in 1 .. Len(s) : WellMade(s[i]) /\ HdrLen <= Start(s[i]) /\ End(s[i]) <= 984
  BY <1>2, FixedObjects
<1>4. \A i \in 1 .. Len(s) : i + 1 \in 1 .. Len(s) => End(s[i]) <= Start(s[i + 1])
  BY <1>2, FixedObjects
<1>5. s \in Seq(Adds) /\ HdrLen \in Nat
  BY <1>2
<1>6. Made(s, HdrLen, 984)
  BY <1>3, <1>4, <1>5, MadeInOrder
<1>7. \A kind \in {"SESSION", "ERROR_SPEC"} : Has(s, kind)
  BY <1>2, FixedObjects DEF Has, slot
<1>. QED  BY <1>6, <1>7 DEF s

\* PATHERR, of an error that is passed on.
LEMMA PathErrHopMade ==
    /\ Made(<<Session, Hop, Error, Sender>>, HdrLen, 984)
    /\ \A kind \in {"SESSION", "ERROR_SPEC"} : Has(<<Session, Hop, Error, Sender>>, kind)
<1>. DEFINE s == <<Session, Hop, Error, Sender>>
<1>0. s = <<Session, Hop, Error, Sender>>
  OBVIOUS
<1>. HIDE DEF s
<1>2. /\ s \in Seq(Adds) /\ Len(s) = 4 /\ HdrLen = 8
      /\ s[1] = Session /\ s[2] = Hop /\ s[3] = Error /\ s[4] = Sender
  BY <1>0, FixedObjects DEF WellMade, HdrLen
<1>3. \A i \in 1 .. Len(s) : WellMade(s[i]) /\ HdrLen <= Start(s[i]) /\ End(s[i]) <= 984
  BY <1>2, FixedObjects
<1>4. \A i \in 1 .. Len(s) : i + 1 \in 1 .. Len(s) => End(s[i]) <= Start(s[i + 1])
  BY <1>2, FixedObjects
<1>5. s \in Seq(Adds) /\ HdrLen \in Nat
  BY <1>2
<1>6. Made(s, HdrLen, 984)
  BY <1>3, <1>4, <1>5, MadeInOrder
<1>7. \A kind \in {"SESSION", "ERROR_SPEC"} : Has(s, kind)
  BY <1>2, FixedObjects DEF Has, slot
<1>. QED  BY <1>6, <1>7 DEF s

\* RESVERR, of an error that starts here.
LEMMA ResvErrMade ==
    /\ Made(<<Session, Error, Style, Filter>>, HdrLen, 984)
    /\ \A kind \in {"SESSION", "ERROR_SPEC"} : Has(<<Session, Error, Style, Filter>>, kind)
<1>. DEFINE s == <<Session, Error, Style, Filter>>
<1>0. s = <<Session, Error, Style, Filter>>
  OBVIOUS
<1>. HIDE DEF s
<1>2. /\ s \in Seq(Adds) /\ Len(s) = 4 /\ HdrLen = 8
      /\ s[1] = Session /\ s[2] = Error /\ s[3] = Style /\ s[4] = Filter
  BY <1>0, FixedObjects DEF WellMade, HdrLen
<1>3. \A i \in 1 .. Len(s) : WellMade(s[i]) /\ HdrLen <= Start(s[i]) /\ End(s[i]) <= 984
  BY <1>2, FixedObjects
<1>4. \A i \in 1 .. Len(s) : i + 1 \in 1 .. Len(s) => End(s[i]) <= Start(s[i + 1])
  BY <1>2, FixedObjects
<1>5. s \in Seq(Adds) /\ HdrLen \in Nat
  BY <1>2
<1>6. Made(s, HdrLen, 984)
  BY <1>3, <1>4, <1>5, MadeInOrder
<1>7. \A kind \in {"SESSION", "ERROR_SPEC"} : Has(s, kind)
  BY <1>2, FixedObjects DEF Has, slot
<1>. QED  BY <1>6, <1>7 DEF s

\* RESVERR, of an error that is passed on.
LEMMA ResvErrHopMade ==
    /\ Made(<<Session, Hop, Error, Style, Filter>>, HdrLen, 984)
    /\ \A kind \in {"SESSION", "ERROR_SPEC"} : Has(<<Session, Hop, Error, Style, Filter>>, kind)
<1>. DEFINE s == <<Session, Hop, Error, Style, Filter>>
<1>0. s = <<Session, Hop, Error, Style, Filter>>
  OBVIOUS
<1>. HIDE DEF s
<1>2. /\ s \in Seq(Adds) /\ Len(s) = 5 /\ HdrLen = 8
      /\ s[1] = Session /\ s[2] = Hop /\ s[3] = Error /\ s[4] = Style
      /\ s[5] = Filter
  BY <1>0, FixedObjects DEF WellMade, HdrLen
<1>3. \A i \in 1 .. Len(s) : WellMade(s[i]) /\ HdrLen <= Start(s[i]) /\ End(s[i]) <= 984
  BY <1>2, FixedObjects
<1>4. \A i \in 1 .. Len(s) : i + 1 \in 1 .. Len(s) => End(s[i]) <= Start(s[i + 1])
  BY <1>2, FixedObjects
<1>5. s \in Seq(Adds) /\ HdrLen \in Nat
  BY <1>2
<1>6. Made(s, HdrLen, 984)
  BY <1>3, <1>4, <1>5, MadeInOrder
<1>7. \A kind \in {"SESSION", "ERROR_SPEC"} : Has(s, kind)
  BY <1>2, FixedObjects DEF Has, slot
<1>. QED  BY <1>6, <1>7 DEF s

\* A PATH begins with three objects of fixed form.
LEMMA PathHeadMade ==
    /\ Made(<<Session, Hop, Time>>, HdrLen, 56)
    /\ \A kind \in {"SESSION"} : Has(<<Session, Hop, Time>>, kind)
<1>. DEFINE s == <<Session, Hop, Time>>
<1>0. s = <<Session, Hop, Time>>
  OBVIOUS
<1>. HIDE DEF s
<1>2. /\ s \in Seq(Adds) /\ Len(s) = 3 /\ HdrLen = 8
      /\ s[1] = Session /\ s[2] = Hop /\ s[3] = Time
  BY <1>0, FixedObjects DEF WellMade, HdrLen
<1>3. \A i \in 1 .. Len(s) : WellMade(s[i]) /\ HdrLen <= Start(s[i]) /\ End(s[i]) <= 56
  BY <1>2, FixedObjects
<1>4. \A i \in 1 .. Len(s) : i + 1 \in 1 .. Len(s) => End(s[i]) <= Start(s[i + 1])
  BY <1>2, FixedObjects
<1>5. s \in Seq(Adds) /\ HdrLen \in Nat
  BY <1>2
<1>6. Made(s, HdrLen, 56)
  BY <1>3, <1>4, <1>5, MadeInOrder
<1>7. \A kind \in {"SESSION"} : Has(s, kind)
  BY <1>2, FixedObjects DEF Has, slot
<1>. QED  BY <1>6, <1>7 DEF s

\* Two objects in the order of their parts.
LEMMA MadeTwo ==
    ASSUME NEW x, WellMade(x), NEW y, WellMade(y), End(x) <= Start(y),
           Start(x) <= Start(y), End(x) <= End(y)
    PROVE  Made(<<x, y>>, Start(x), End(y)) /\ Has(<<x, y>>, slot(x.class))
<1>. DEFINE s == <<x, y>>
<1>1. /\ x \in Adds /\ y \in Adds
      /\ Start(x) \in Nat /\ Start(y) \in Nat /\ End(x) \in Nat /\ End(y) \in Nat
  BY DEF WellMade
<1>2. s \in Seq(Adds) /\ Len(s) = 2 /\ s[1] = x /\ s[2] = y
  BY <1>1
<1>. HIDE DEF s
<1>3. \A i \in 1 .. Len(s) : WellMade(s[i]) /\ Start(x) <= Start(s[i]) /\ End(s[i]) <= End(y)
  BY <1>1, <1>2
<1>4. \A i \in 1 .. Len(s) : i + 1 \in 1 .. Len(s) => End(s[i]) <= Start(s[i + 1])
  BY <1>1, <1>2
<1>5. s \in Seq(Adds)
  BY <1>2
<1>6. Made(s, Start(x), End(y))
  BY <1>1, <1>3, <1>4, <1>5, MadeInOrder
<1>7. Has(s, slot(x.class))
  BY <1>2 DEF Has
<1>. QED  BY <1>6, <1>7 DEF s

\* A PATH with any route, name and record, rerouting requested or not.
LEMMA PathMade ==
    ASSUME NEW e \in 0 .. MAX_ERO_HOPS, NEW n \in 0 .. NameMax, NEW f \in BOOLEAN,
           NEW r \in 0 .. MAX_RRO_HOPS
    PROVE  /\ Made(path_objects(e, n, f, r), HdrLen, 984)
           /\ \A kind \in {"SESSION", "SENDER_TEMPLATE"} : Has(path_objects(e, n, f, r), kind)
<1>. DEFINE q == Obj("LABEL_REQUEST", 1, 4)
            t == Obj("SENDER_TSPEC", 2, 32)
            o == Obj("FAST_REROUTE", 1, 20)
            s1 == <<Session, Hop, Time>>
            s2 == Route("EXPLICIT_ROUTE", e)
            s3 == <<q, Attribute(n)>>
            s4 == IF f THEN <<o>> ELSE <<>>
            s5 == <<Sender, t>>
            s6 == IF r < MAX_RRO_HOPS THEN Route("RECORD_ROUTE", r + 1) ELSE <<>>
<1>0. path_objects(e, n, f, r) = ((((s1 \o s2) \o s3) \o s4) \o s5) \o s6
  BY DEF path_objects
<1>p. /\ Part("EXPLICIT_ROUTE").start = 68 /\ Part("EXPLICIT_ROUTE").end = 328
      /\ Part("RECORD_ROUTE").start = 716 /\ Part("RECORD_ROUTE").end = 976
  BY DEF Part
<1>1. Made(s1, 8, 56) /\ Has(s1, "SESSION")
  BY PathHeadMade DEF HdrLen
<1>2. Made(s2, 68, 328)
  BY <1>p, RouteMade DEF MAX_ERO_HOPS
<1>3. Made(s3, 328, 600)
  BY OtherObjects, AttributeMade, MadeTwo
<1>4. Made(s4, 600, 624)
  <2>1. Made(<<o>>, 600, 624)
    BY OtherObjects, MadeOne
  <2>. QED  BY <2>1, MadeNone
<1>5. Made(s5, 668, 716) /\ Has(s5, "SENDER_TEMPLATE")
  <2>1. slot(Sender.class) = "SENDER_TEMPLATE"
    BY FixedObjects DEF slot
  <2>. QED  BY <2>1, FixedObjects, OtherObjects, MadeTwo
<1>6. Made(s6, 716, 976)
  <2>1. CASE r < MAX_RRO_HOPS
    <3>1. r + 1 \in 0 .. 32
      BY <2>1 DEF MAX_RRO_HOPS
    <3>. QED  BY <2>1, <3>1, <1>p, RouteMade
  <2>2. CASE ~ (r < MAX_RRO_HOPS)
    BY <2>2, MadeNone
  <2>. QED  BY <2>1, <2>2
<1>. HIDE DEF s1, s2, s3, s4, s5, s6
<1>7. Made(s1, 8, 68)
  BY <1>1, MadeWider
<1>8. Made(s1 \o s2, 8, 328) /\ Has(s1 \o s2, "SESSION")
  BY <1>1, <1>2, <1>7, MadeConcat
<1>9. Made((s1 \o s2) \o s3, 8, 600) /\ Has((s1 \o s2) \o s3, "SESSION")
  BY <1>3, <1>8, MadeConcat
<1>10. Made(((s1 \o s2) \o s3) \o s4, 8, 624) /\ Has(((s1 \o s2) \o s3) \o s4, "SESSION")
  BY <1>4, <1>9, MadeConcat
<1>. DEFINE u == ((s1 \o s2) \o s3) \o s4
<1>11. Made(u, 8, 624) /\ Has(u, "SESSION")
  BY <1>10
<1>. HIDE DEF u
<1>12. Made(u, 8, 668)
  BY <1>11, MadeWider
<1>13. /\ Made(u \o s5, 8, 716) /\ Has(u \o s5, "SESSION") /\ Has(u \o s5, "SENDER_TEMPLATE")
  BY <1>5, <1>11, <1>12, MadeConcat
<1>. DEFINE v == u \o s5
<1>14. Made(v, 8, 716) /\ Has(v, "SESSION") /\ Has(v, "SENDER_TEMPLATE")
  BY <1>13
<1>. HIDE DEF v
<1>15. /\ Made(v \o s6, 8, 976) /\ Has(v \o s6, "SESSION") /\ Has(v \o s6, "SENDER_TEMPLATE")
  BY <1>6, <1>14, MadeConcat
<1>16. Made(v \o s6, 8, 984)
  BY <1>15, MadeWider
<1>17. path_objects(e, n, f, r) = v \o s6 /\ HdrLen = 8
  BY <1>0 DEF u, v, HdrLen
<1>. QED  BY <1>15, <1>16, <1>17

-----------------------------------------------------------------------------
(* What the builder writes.                                                *)

\* The offsets of the objects of s, one after the other, each at a multiple of 4.
Laid(s, off) ==
    /\ off \in [0 .. Len(s) -> Nat]
    /\ off[0] = HdrLen
    /\ \A i \in 1 .. Len(s) : off[i] = off[i - 1] + RSVP_ALIGN(ObjHdrLen + s[i].size)

Written(s, off, i) ==
    [at |-> off[i - 1], length |-> ObjHdrLen + s[i].size, class |-> s[i].class,
     c_type |-> s[i].c_type, name |-> s[i].name]

\* rsvp_builder_add_obj writes an object for which there is room.
LEMMA AddFits ==
    ASSUME NEW type, NEW size, NEW offset, NEW objs, NEW o,
           ~ (offset + RSVP_ALIGN(ObjHdrLen + o.size) > size)
    PROVE  rsvp_builder_add_obj([type |-> type, size |-> size, offset |-> offset,
                                 objs |-> objs], o) =
           [type |-> type, size |-> size,
            offset |-> offset + RSVP_ALIGN(ObjHdrLen + o.size),
            objs |-> objs \cup {[at |-> offset, length |-> ObjHdrLen + o.size,
                                 class |-> o.class, c_type |-> o.c_type,
                                 name |-> o.name]}]
<1>. DEFINE L == RSVP_ALIGN(ObjHdrLen + o.size)
            W == [at |-> offset, length |-> ObjHdrLen + o.size, class |-> o.class,
                  c_type |-> o.c_type, name |-> o.name]
            b == [type |-> type, size |-> size, offset |-> offset, objs |-> objs]
<1>1. b.offset = offset /\ b.size = size /\ b.objs = objs
  OBVIOUS
<1>2. rsvp_builder_add_obj(b, o) = [b EXCEPT !.offset = @ + L, !.objs = @ \cup {W}]
  BY <1>1 DEF rsvp_builder_add_obj
<1>3. rsvp_builder_add_obj(b, o) = [b EXCEPT !.offset = offset + L, !.objs = objs \cup {W}]
  BY <1>1, <1>2, Zenon
<1>. DEFINE M == offset + L
            N == objs \cup {W}
<1>4. [b EXCEPT !.offset = M, !.objs = N] =
         [type |-> type, size |-> size, offset |-> M, objs |-> N]
  <2>. DEFINE R == [type : {type}, size : {size}, offset : {offset, M}, objs : {objs, N}]
              x == [b EXCEPT !.offset = M, !.objs = N]
              y == [type |-> type, size |-> size, offset |-> M, objs |-> N]
  <2>. HIDE DEF L, W, M, N
  <2>1. b \in R /\ b.type = type /\ b.size = size
    OBVIOUS
  <2>. HIDE DEF b
  <2>2. x \in R /\ x.type = type /\ x.size = size /\ x.offset = M /\ x.objs = N
    BY <2>1
  <2>3. y \in R /\ y.type = type /\ y.size = size /\ y.offset = M /\ y.objs = N
    OBVIOUS
  <2>. HIDE DEF x, y
  <2>4. x = y
    BY <2>2, <2>3
  <2>. QED  BY <2>4 DEF x, y
<1>. QED  BY <1>3, <1>4, Zenon

\* The message that the builder makes of s holds every object at its offset.
Builds(type, size, s, off) ==
    /\ Laid(s, off)
    /\ build(type, size, s).objs = {Written(s, off, i) : i \in 1 .. Len(s)}
    /\ build(type, size, s).offset = off[Len(s)]
    /\ build(type, size, s).type = type

\* Every object of a message of ours is written, one after the other: none is
\* left out because the buffer is full.
LEMMA BuildLaid ==
    ASSUME NEW s, NEW z \in Nat, Made(s, HdrLen, z), NEW size \in Nat, z <= size, NEW type
    PROVE  \E off : Builds(type, size, s, off)
<1>0. s \in Seq(Adds) /\ Len(s) \in Nat
  BY DEF Made
<1>1. PICK b : Stages(b, type, size, s) /\ build(type, size, s) = b[Len(s)]
  BY <1>0, BuildStages
<1>. DEFINE n == Len(s)
            off == [i \in 0 .. n |-> b[i].offset]
            A(i) == RSVP_ALIGN(ObjHdrLen + s[i].size)
            Objs(i) == {Written(s, off, j) : j \in 1 .. i}
            Good == {i \in Nat : i <= n =>
                       /\ b[i] = [type |-> type, size |-> size, offset |-> off[i],
                                  objs |-> Objs(i)]
                       /\ off[i] \in Nat
                       /\ i = 0 => off[i] = HdrLen
                       /\ i # 0 => off[i] = off[i - 1] + A(i) /\ off[i] <= End(s[i])}
<1>2. /\ b[0] = rsvp_builder_init(type, size)
      /\ \A i \in 1 .. n : b[i] = rsvp_builder_add_obj(b[i - 1], s[i])
  BY <1>0, <1>1 DEF Stages
<1>3. \A i \in 0 .. n : off[i] = b[i].offset
  OBVIOUS
<1>4. ASSUME NEW i \in 1 .. n
      PROVE  /\ A(i) \in Nat /\ Start(s[i]) \in Nat /\ End(s[i]) \in Nat
             /\ Start(s[i]) + A(i) <= End(s[i]) /\ HdrLen <= Start(s[i])
             /\ End(s[i]) <= size
  <2>1. WellMade(s[i]) /\ HdrLen <= Start(s[i]) /\ End(s[i]) <= z
    BY DEF Made
  <2>2. A(i) \in Nat
    BY <1>0, SizeType, Aligned
  <2>3. Start(s[i]) \in Nat /\ End(s[i]) \in Nat /\ Start(s[i]) + A(i) <= End(s[i])
    BY <2>1 DEF WellMade
  <2>. QED  BY <2>1, <2>2, <2>3
<1>. HIDE DEF n, off, A
<1>n. n \in Nat
  BY <1>0 DEF n
<1>5. 0 \in Good
  <2>1. off[0] = HdrLen /\ HdrLen \in Nat
    BY <1>2, <1>3, <1>n DEF rsvp_builder_init, HdrLen
  <2>2. Objs(0) = {}
    OBVIOUS
  <2>. QED  BY <1>2, <2>1, <2>2 DEF rsvp_builder_init
<1>6. ASSUME NEW i \in Nat, i < n, i \in Good PROVE i + 1 \in Good
  <2>. DEFINE o == s[i + 1]
  <2>1. /\ b[i] = [type |-> type, size |-> size, offset |-> off[i], objs |-> Objs(i)]
        /\ off[i] \in Nat
        /\ i = 0 => off[i] = HdrLen
        /\ i # 0 => off[i] <= End(s[i])
    BY <1>6, <1>n
  <2>2. i + 1 \in 1 .. n /\ i + 1 \in 0 .. n /\ (i + 1) - 1 = i
    BY <1>6, <1>n
  <2>3. off[i] <= Start(o)
    <3>1. CASE i = 0
      BY <1>4, <2>1, <2>2, <3>1
    <3>2. CASE i # 0
      <4>1. i \in 1 .. n /\ i < i + 1
        BY <1>6, <1>n, <3>2
      <4>2. End(s[i]) <= Start(o)
        BY <2>2, <4>1 DEF Made, n
      <4>. QED  BY <1>4, <2>1, <2>2, <3>2, <4>1, <4>2
    <3>. QED  BY <3>1, <3>2
  <2>4. /\ off[i] + A(i + 1) \in Nat /\ off[i] + A(i + 1) <= End(o)
        /\ ~ (off[i] + A(i + 1) > size)
    BY <1>4, <2>1, <2>2, <2>3
  <2>5. b[i + 1] = rsvp_builder_add_obj(b[i], o)
    BY <1>2, <2>2
  <2>6. b[i + 1] = [type |-> type, size |-> size, offset |-> off[i] + A(i + 1),
                    objs |-> Objs(i) \cup {Written(s, off, i + 1)}]
    <3>1. ~ (off[i] + RSVP_ALIGN(ObjHdrLen + o.size) > size)
      BY <2>4 DEF A
    <3>2. Written(s, off, i + 1) =
             [at |-> off[i], length |-> ObjHdrLen + o.size, class |-> o.class,
              c_type |-> o.c_type, name |-> o.name]
      BY <2>2 DEF Written
    <3>. HIDE DEF o, Objs
    <3>. QED  BY <2>1, <2>5, <3>1, <3>2, AddFits DEF A, o
  <2>7. off[i + 1] = off[i] + A(i + 1)
    BY <1>3, <2>2, <2>6
  <2>8. Objs(i + 1) = Objs(i) \cup {Written(s, off, i + 1)}
    <3>1. 1 .. (i + 1) = (1 .. i) \cup {i + 1}
      OBVIOUS
    <3>. QED  BY <3>1
  <2>. HIDE DEF Objs
  <2>9. i + 1 \in Nat /\ i + 1 # 0
    OBVIOUS
  <2>. QED  BY <2>2, <2>4, <2>6, <2>7, <2>8, <2>9
<1>7. 0 .. n \subseteq Good
  <2>. HIDE DEF Good
  <2>. QED  BY <1>5, <1>6, <1>n, Induction
<1>8. /\ \A i \in 0 .. n : off[i] \in Nat
      /\ off[0] = HdrLen
      /\ \A i \in 1 .. n : off[i] = off[i - 1] + A(i)
      /\ b[n] = [type |-> type, size |-> size, offset |-> off[n], objs |-> Objs(n)]
  <2>1. \A i \in 1 .. n : i \in 0 .. n /\ i # 0
    BY <1>n
  <2>2. 0 \in 0 .. n /\ n \in 0 .. n
    BY <1>n
  <2>3. \A i \in 0 .. n : i \in Good /\ i <= n
    BY <1>7, <1>n
  <2>. HIDE DEF Objs
  <2>. QED  BY <2>1, <2>2, <2>3
<1>9. Laid(s, off)
  <2>1. off \in [0 .. n -> Nat]
    BY <1>8 DEF off
  <2>. QED  BY <1>8, <2>1 DEF Laid, A, n
<1>10. /\ build(type, size, s).objs = {Written(s, off, i) : i \in 1 .. Len(s)}
       /\ build(type, size, s).offset = off[Len(s)]
       /\ build(type, size, s).type = type
  BY <1>1, <1>8 DEF n
<1>11. Builds(type, size, s, off)
  BY <1>9, <1>10 DEF Builds
<1>. QED  BY <1>11

\* Later objects lie behind earlier ones, and every object lies before the next
\* one.
LEMMA LaidGrows ==
    ASSUME NEW s \in Seq(Adds), NEW off, Laid(s, off)
    PROVE  /\ \A i, j \in 0 .. Len(s) : i < j => off[i] + ObjHdrLen <= off[j]
           /\ \A i \in 1 .. Len(s) : off[i - 1] + (ObjHdrLen + s[i].size) <= off[i]
<1>. DEFINE n == Len(s)
            Good == {j \in Nat : \A i \in 0 .. n : i < j /\ j <= n => off[i] + ObjHdrLen <= off[j]}
<1>1. n \in Nat /\ \A i \in 0 .. n : off[i] \in Nat
  BY DEF Laid
<1>2. ASSUME NEW i \in 1 .. n
      PROVE  /\ off[i - 1] + (ObjHdrLen + s[i].size) <= off[i]
             /\ off[i - 1] + ObjHdrLen <= off[i]
  <2>. DEFINE l == ObjHdrLen + s[i].size
              A == RSVP_ALIGN(l)
              x == off[i - 1]
  <2>1. l \in Nat /\ ObjHdrLen <= l /\ ObjHdrLen \in Nat
    <3>1. s[i].size \in Nat
      BY SizeType
    <3>. QED  BY <3>1 DEF ObjHdrLen
  <2>2. A \in Nat /\ l <= A
    BY <2>1, Aligned
  <2>3. off[i] = x + A /\ x \in Nat
    <3>1. i - 1 \in 0 .. n
      BY <1>1
    <3>. QED  BY <1>1, <3>1 DEF Laid
  <2>. HIDE DEF l, A, x
  <2>4. x + l <= off[i] /\ x + ObjHdrLen <= off[i]
    BY <2>1, <2>2, <2>3
  <2>. QED  BY <2>4 DEF l, x
<1>. HIDE DEF n
<1>3. 0 \in Good
  BY <1>1
<1>4. ASSUME NEW j \in Nat, j < n, j \in Good PROVE j + 1 \in Good
  <2>. SUFFICES ASSUME NEW i \in 0 .. n, i < j + 1, j + 1 <= n
                PROVE  off[i] + ObjHdrLen <= off[j + 1]
    OBVIOUS
  <2>1. j + 1 \in 1 .. n /\ (j + 1) - 1 = j /\ j \in 0 .. n /\ j + 1 \in 0 .. n
    BY <1>1
  <2>2. off[j] + ObjHdrLen <= off[j + 1]
    BY <1>2, <2>1
  <2>3. CASE i = j
    BY <2>2, <2>3
  <2>4. CASE i # j
    <3>1. i < j /\ j <= n
      BY <1>1, <2>4
    <3>2. off[i] + ObjHdrLen <= off[j]
      BY <1>4, <3>1
    <3>. QED  BY <1>1, <2>1, <2>2, <3>2 DEF ObjHdrLen
  <2>. QED  BY <2>3, <2>4
<1>5. 0 .. n \subseteq Good
  <2>. HIDE DEF Good
  <2>. QED  BY <1>1, <1>3, <1>4, Induction
<1>6. \A i, j \in 0 .. n : i < j => off[i] + ObjHdrLen <= off[j]
  <2>1. \A j \in 0 .. n : j <= n
    BY <1>1
  <2>. QED  BY <1>5, <2>1
<1>. QED  BY <1>2, <1>6 DEF n

-----------------------------------------------------------------------------
(* Packets.                                                                *)

Header == [at : Nat, length : Nat, class : Classes, c_type : Nat, name : 0 .. NameMax]

\* A packet that holds the objects its sender added at these offsets.
Mine(p, off) ==
    /\ p.wants # <<>> /\ Made(p.wants, HdrLen, 984) /\ Laid(p.wants, off)
    /\ p.objs = {Written(p.wants, off, i) : i \in 1 .. Len(p.wants)}
    /\ p.length = off[Len(p.wants)] /\ p.len = p.length /\ p.version = 1
    /\ \A kind \in Mandatory(p.type) : Has(p.wants, kind)

PacketOK(p) ==
    /\ p.length \in Nat
    /\ p.objs \subseteq Header
    /\ p.wants # <<>> => \E off : Mine(p, off)

\* What the builder writes has the fields of a header.
LEMMA WrittenType ==
    ASSUME NEW s \in Seq(Adds), NEW off, Laid(s, off), NEW i \in 1 .. Len(s)
    PROVE  Written(s, off, i) \in Header
<1>1. s[i] \in Adds /\ ObjHdrLen + s[i].size \in Nat
  BY SizeType
<1>2. i - 1 \in 0 .. Len(s)
  OBVIOUS
<1>3. off[i - 1] \in Nat
  BY <1>2 DEF Laid
<1>4. s[i].class \in Classes /\ s[i].c_type \in Nat /\ s[i].name \in 0 .. NameMax
  BY <1>1 DEF Adds
<1>. QED  BY <1>1, <1>3, <1>4 DEF Written, Header

\* A message that one of the senders of this code has built.
LEMMA SentMine ==
    ASSUME NEW s, NEW z \in Nat, Made(s, HdrLen, z), z <= 984, s # <<>>,
           NEW size \in Nat, z <= size, NEW type,
           \A kind \in Mandatory(type) : Has(s, kind),
           NEW p \in Sent(type, size, s)
    PROVE  \E off : Mine(p, off)
<1>. DEFINE b == build(type, size, s)
<1>0. PICK off : Builds(type, size, s, off)
  BY BuildLaid
<1>1. /\ Laid(s, off)
      /\ b.objs = {Written(s, off, i) : i \in 1 .. Len(s)}
      /\ b.offset = off[Len(s)]
      /\ b.type = type
  BY <1>0 DEF Builds
<1>2. \E src, sum : p = Packet(src, s, b, b.offset, sum)
  BY DEF Sent
<1>. HIDE DEF b
<1>3. /\ p.wants = s /\ p.objs = b.objs /\ p.length = b.offset /\ p.len = b.offset
      /\ p.version = 1 /\ p.type = b.type
  BY <1>2 DEF Packet
<1>4. HdrLen \in Nat /\ HdrLen <= HdrLen
  BY DEF HdrLen
<1>5. Made(s, HdrLen, 984)
  BY <1>4, MadeWider
<1>6. Mine(p, off)
  BY <1>1, <1>3, <1>5 DEF Mine
<1>. QED  BY <1>6

\* What each type of message must carry.
LEMMA MandatoryKinds ==
    /\ Mandatory("PATH") = {"SESSION", "SENDER_TEMPLATE"}
    /\ Mandatory("PATHTEAR") = {"SESSION", "SENDER_TEMPLATE"}
    /\ Mandatory("RESV") = {"SESSION", "HOP", "STYLE"}
    /\ Mandatory("PATHERR") = {"SESSION", "ERROR_SPEC"}
    /\ Mandatory("RESVERR") = {"SESSION", "ERROR_SPEC"}
    /\ Mandatory("RESVTEAR") = {"SESSION", "HOP"}
    /\ Mandatory("HELLO") = {}
BY DEF Mandatory

\* HELLO, request and acknowledgement.
LEMMA HelloMade ==
    ASSUME NEW c \in {1, 2}
    PROVE  Made(<<Obj("HELLO", c, 8)>>, HdrLen, 20)
<1>1. /\ WellMade(Obj("HELLO", c, 8))
      /\ Start(Obj("HELLO", c, 8)) = 8 /\ End(Obj("HELLO", c, 8)) = 20
  BY OtherObjects
<1>. QED  BY <1>1, MadeOne DEF HdrLen

\* A sequence that has an object of some kind is not empty.
LEMMA HasSome ==
    ASSUME NEW s, NEW kind, Has(s, kind) PROVE s # <<>>
BY DEF Has

\* Every packet of this code holds what its sender added.
LEMMA OwnMine ==
    ASSUME NEW p \in OwnPackets
    PROVE  \E off : Mine(p, off)
<1>1. \/ \E e \in EroHops, n \in NameLengths, f \in BOOLEAN, r \in RroHops :
            p \in Sent("PATH", 1500, path_objects(e, n, f, r))
      \/ \E o \in path_err_objects : p \in Sent("PATHERR", 1024, o)
      \/ \E o \in resv_err_objects : p \in Sent("RESVERR", 1024, o)
      \/ \E o \in hello_objects : p \in Sent("HELLO", 128, o)
      \/ p \in Sent("RESV", 1024, resv_objects)
      \/ p \in Sent("PATHTEAR", 1024, path_tear_objects)
      \/ p \in Sent("RESVTEAR", 1024, resv_tear_objects)
  BY DEF OwnPackets
<1>2. ASSUME NEW e \in EroHops, NEW n \in NameLengths, NEW f \in BOOLEAN, NEW r \in RroHops,
             p \in Sent("PATH", 1500, path_objects(e, n, f, r))
      PROVE  \E off : Mine(p, off)
  <2>. DEFINE s == path_objects(e, n, f, r)
  <2>1. e \in 0 .. MAX_ERO_HOPS /\ n \in 0 .. NameMax /\ r \in 0 .. MAX_RRO_HOPS
    BY DispatcherAssumption
  <2>2. Made(s, HdrLen, 984) /\ \A kind \in Mandatory("PATH") : Has(s, kind)
    BY <2>1, PathMade, MandatoryKinds
  <2>3. s # <<>>
    BY <2>1, PathMade, HasSome
  <2>4. p \in Sent("PATH", 1500, s)
    BY <1>2
  <2>. HIDE DEF s
  <2>. QED  BY <2>2, <2>3, <2>4, SentMine
<1>3. ASSUME NEW o \in path_err_objects, p \in Sent("PATHERR", 1024, o)
      PROVE  \E off : Mine(p, off)
  <2>1. /\ Made(o, HdrLen, 984) /\ \A kind \in Mandatory("PATHERR") : Has(o, kind)
        /\ Has(o, "SESSION")
    BY PathErrMade, PathErrHopMade, MandatoryKinds DEF path_err_objects
  <2>2. o # <<>>
    BY <2>1, HasSome
  <2>. QED  BY <1>3, <2>1, <2>2, SentMine
<1>4. ASSUME NEW o \in resv_err_objects, p \in Sent("RESVERR", 1024, o)
      PROVE  \E off : Mine(p, off)
  <2>1. /\ Made(o, HdrLen, 984) /\ \A kind \in Mandatory("RESVERR") : Has(o, kind)
        /\ Has(o, "SESSION")
    BY ResvErrMade, ResvErrHopMade, MandatoryKinds DEF resv_err_objects
  <2>2. o # <<>>
    BY <2>1, HasSome
  <2>. QED  BY <1>4, <2>1, <2>2, SentMine
<1>5. ASSUME NEW o \in hello_objects, p \in Sent("HELLO", 128, o)
      PROVE  \E off : Mine(p, off)
  <2>1. Made(o, HdrLen, 20) /\ o # <<>>
    BY HelloMade DEF hello_objects
  <2>2. \A kind \in Mandatory("HELLO") : Has(o, kind)
    BY MandatoryKinds
  <2>. QED  BY <1>5, <2>1, <2>2, SentMine
<1>6. CASE p \in Sent("RESV", 1024, resv_objects)
  <2>1. /\ Made(resv_objects, HdrLen, 984) /\ Has(resv_objects, "SESSION")
        /\ \A kind \in Mandatory("RESV") : Has(resv_objects, kind)
    BY ResvMade, MandatoryKinds
  <2>2. resv_objects # <<>>
    BY <2>1, HasSome
  <2>. QED  BY <1>6, <2>1, <2>2, SentMine
<1>7. CASE p \in Sent("PATHTEAR", 1024, path_tear_objects)
  <2>1. /\ Made(path_tear_objects, HdrLen, 984) /\ Has(path_tear_objects, "SESSION")
        /\ \A kind \in Mandatory("PATHTEAR") : Has(path_tear_objects, kind)
    BY PathTearMade, MandatoryKinds
  <2>2. path_tear_objects # <<>>
    BY <2>1, HasSome
  <2>. QED  BY <1>7, <2>1, <2>2, SentMine
<1>8. CASE p \in Sent("RESVTEAR", 1024, resv_tear_objects)
  <2>1. /\ Made(resv_tear_objects, HdrLen, 984) /\ Has(resv_tear_objects, "SESSION")
        /\ \A kind \in Mandatory("RESVTEAR") : Has(resv_tear_objects, kind)
    BY ResvTearMade, MandatoryKinds
  <2>2. resv_tear_objects # <<>>
    BY <2>1, HasSome
  <2>. QED  BY <1>8, <2>1, <2>2, SentMine
<1>. QED  BY <1>1, <1>2, <1>3, <1>4, <1>5, <1>6, <1>7, <1>8

\* Every packet the loop reads is one of ours, or has no objects of ours.
LEMMA PacketsOK ==
    ASSUME NEW p \in OwnPackets \cup ForeignPackets
    PROVE  PacketOK(p)
<1>1. CASE p \in OwnPackets
  <2>1. PICK off : Mine(p, off)
    BY <1>1, OwnMine
  <2>2. p.wants \in Seq(Adds) /\ Len(p.wants) \in Nat /\ Laid(p.wants, off)
    BY <2>1 DEF Mine, Made
  <2>3. off[Len(p.wants)] \in Nat
    BY <2>2 DEF Laid
  <2>4. p.length \in Nat /\ p.objs = {Written(p.wants, off, i) : i \in 1 .. Len(p.wants)}
    BY <2>1, <2>3 DEF Mine
  <2>5. p.objs \subseteq Header
    BY <2>2, <2>4, WrittenType
  <2>. QED  BY <2>1, <2>4, <2>5 DEF PacketOK
<1>2. CASE p \in ForeignPackets
  <2>1. p.wants = <<>> /\ p.objs = {} /\ p.length \in ForeignLens
    BY <1>2 DEF ForeignPackets
  <2>. QED  BY <2>1, DispatcherAssumption DEF PacketOK
<1>. QED  BY <1>1, <1>2

-----------------------------------------------------------------------------
(* The parser, on any packet.                                              *)

\* The least of three numbers.
LEMMA MinimumOf ==
    ASSUME NEW a \in Int, NEW b \in Int, NEW c \in Int
    PROVE  /\ Minimum({a, b, c}) \in {a, b, c}
           /\ Minimum({a, b, c}) <= a /\ Minimum({a, b, c}) <= b /\ Minimum({a, b, c}) <= c
<1>. DEFINE S == {a, b, c}
<1>1. \E x \in S : \A y \in S : x <= y
  <2>1. CASE a <= b /\ a <= c
    BY <2>1
  <2>2. CASE b <= a /\ b <= c
    BY <2>2
  <2>3. CASE c <= a /\ c <= b
    BY <2>3
  <2>. QED  BY <2>1, <2>2, <2>3
<1>2. Minimum(S) \in S /\ \A y \in S : Minimum(S) <= y
  BY <1>1 DEF Minimum
<1>. QED  BY <1>2

\* A name that is kept is cut to what the object holds.
LEMMA NameInside ==
    ASSUME NEW o \in Header, Kept(o)
    PROVE  /\ lsp_name(o) \in 0 .. NameMax
           /\ slot(o.class) = "SESSION_ATTRIB" => lsp_name(o) <= o.length - ObjHdrLen - 4
<1>1. o.length \in Nat /\ o.name \in 0 .. NameMax
  BY DEF Header
<1>2. CASE o.class = "SESSION_ATTRIB"
  <2>. DEFINE a == o.name
              b == o.length - ObjHdrLen - 4
  <2>1. Body("SESSION_ATTRIB").size = 4
    BY DEF Body
  <2>2. o.length >= ObjHdrLen + 4
    BY <1>2, <2>1 DEF Kept
  <2>3. a \in Int /\ b \in Int /\ 0 <= a /\ 0 <= b /\ NameMax \in Int /\ 0 <= NameMax
    BY <1>1, <2>2 DEF ObjHdrLen, NameMax
  <2>4. lsp_name(o) = Minimum({a, b, NameMax})
    BY <1>2 DEF lsp_name
  <2>. HIDE DEF a, b
  <2>5. a \in Int /\ b \in Int /\ NameMax \in Int
    BY <2>3
  <2>6. /\ Minimum({a, b, NameMax}) \in {a, b, NameMax}
        /\ Minimum({a, b, NameMax}) <= b /\ Minimum({a, b, NameMax}) <= NameMax
    BY <2>5, MinimumOf, Zenon
  <2>7. lsp_name(o) \in {a, b, NameMax} /\ lsp_name(o) <= b /\ lsp_name(o) <= NameMax
    BY <2>4, <2>6, Zenon
  <2>. QED  BY <2>3, <2>7 DEF b
<1>3. CASE o.class # "SESSION_ATTRIB"
  BY <1>3 DEF lsp_name, slot, NameMax
<1>. QED  BY <1>2, <1>3

\* A header the parser reads is one at its place.
LEMMA HeaderAtType ==
    ASSUME NEW p, PacketOK(p), NEW at \in Nat, NEW o \in HeaderAt(p, at)
    PROVE  o \in Header /\ o.at = at
<1>1. CASE {x \in p.objs : x.at = at} # {}
  BY <1>1 DEF HeaderAt, PacketOK
<1>2. CASE {x \in p.objs : x.at = at} = {}
  <2>1. PICK h \in ForeignObjs : o = [at |-> at, length |-> h.length, class |-> h.class,
                                      c_type |-> h.c_type, name |-> h.name]
    BY <1>2 DEF HeaderAt
  <2>2. /\ h.class \in Classes /\ h.c_type \in Nat /\ h.length \in Nat
        /\ h.name \in 0 .. NameMax
    BY DispatcherAssumption
  <2>. QED  BY <2>1, <2>2 DEF Header
<1>. QED  BY <1>1, <1>2

\* Outside the handling of a packet nothing of a packet is left.
Busy == {"parse", "handle", "rejected"}
Idle == pc \notin Busy => pkt = NoPacket /\ info = {} /\ steps = 0

\* The parser stays inside the message and comes nearer to its end.
Bounds ==
    pc = "parse" =>
       /\ obj_ptr + remaining <= pkt.length
       /\ ObjHdrLen * steps + remaining <= pkt.length - HdrLen

ParserInv == TypeOK /\ PacketOK(pkt) /\ Idle /\ Bounds /\ Inside

\* What the parser does with one object, whatever its header says.
LEMMA ObjectStep ==
    ASSUME ParserInv, parse_object
    PROVE  ParserInv'
<1>. USE DEF ParserInv
<1>0. pc = "parse" /\ pkt' = pkt /\ remaining >= ObjHdrLen
  BY DEF parse_object, OnlyParse
<1>1. PICK o \in HeaderAt(pkt, obj_ptr) :
         IF malformed(o) \/ o.class = "OTHER_LOW"
         THEN pc' = "rejected" /\ NoParse
         ELSE /\ info' = Keep(o) /\ next_object(o)
              /\ steps' = steps + 1
              /\ UNCHANGED pc
  BY DEF parse_object
<1>2. /\ obj_ptr \in Nat /\ remaining \in Nat /\ steps \in Nat /\ pkt.length \in Nat
      /\ HdrLen = 8 /\ ObjHdrLen = 4
  BY DEF TypeOK, PacketOK, HdrLen, ObjHdrLen
<1>3. o \in Header /\ o.at = obj_ptr
  BY <1>2, HeaderAtType
<1>4. UNCHANGED <<g_running, poll_stdin, ready, failed, fds>>
  BY DEF parse_object, OnlyParse
<1>5. CASE malformed(o) \/ o.class = "OTHER_LOW"
  <2>1. pc' = "rejected" /\ UNCHANGED <<obj_ptr, remaining, info, steps>>
    BY <1>1, <1>5 DEF NoParse
  <2>. QED  BY <1>0, <1>4, <2>1 DEF TypeOK, Idle, Bounds, Inside, Busy
<1>6. CASE ~ (malformed(o) \/ o.class = "OTHER_LOW")
  <2>1. info' = Keep(o) /\ next_object(o) /\ steps' = steps + 1 /\ pc' = pc
    BY <1>1, <1>6
  <2>2. o.length \in Nat /\ ObjHdrLen <= o.length /\ o.length <= remaining
    BY <1>2, <1>3, <1>6 DEF malformed, Header
  <2>. DEFINE A == RSVP_ALIGN(o.length)
  <2>3. A \in Nat /\ o.length <= A
    BY <2>2, Aligned
  <2>4. \/ A > remaining /\ remaining' = 0 /\ obj_ptr' = obj_ptr
        \/ A <= remaining /\ obj_ptr' = obj_ptr + A /\ remaining' = remaining - A
    BY <1>2, <2>1, <2>3 DEF next_object
  <2>. HIDE DEF A
  <2>5. obj_ptr' \in Nat /\ remaining' \in Nat /\ steps' \in Nat
    BY <1>2, <2>1, <2>3, <2>4
  <2>6. /\ obj_ptr + remaining <= pkt.length
        /\ ObjHdrLen * steps + remaining <= pkt.length - HdrLen
    BY <1>0 DEF Bounds
  <2>7. Bounds'
    <3>1. obj_ptr' + remaining' <= pkt.length
      BY <1>2, <2>3, <2>4, <2>6
    <3>2. 4 * (steps + 1) + remaining' <= pkt.length - 8
      BY <1>2, <2>2, <2>3, <2>4, <2>6
    <3>3. ObjHdrLen * steps' + remaining' <= pkt.length - HdrLen
      BY <1>2, <2>1, <3>2
    <3>. QED  BY <1>0, <3>1, <3>3 DEF Bounds, HdrLen, ObjHdrLen
  <2>8. CASE ~ Kept(o)
    <3>1. info' = info
      BY <2>1, <2>8 DEF Keep
    <3>. QED  BY <1>0, <1>4, <2>1, <2>5, <2>7, <3>1 DEF TypeOK, Idle, Inside, Busy
  <2>9. CASE Kept(o)
    <3>. DEFINE x == [slot |-> slot(o.class), at |-> o.at, length |-> o.length,
                      name |-> lsp_name(o)]
    <3>1. info' = info \cup {x}
      BY <2>1, <2>9 DEF Keep
    <3>2. slot(o.class) \in Classes
      BY <1>3 DEF slot, Header, Classes
    <3>3. /\ lsp_name(o) \in 0 .. NameMax
          /\ slot(o.class) = "SESSION_ATTRIB" => lsp_name(o) <= o.length - ObjHdrLen - 4
      BY <1>3, <2>9, NameInside
    <3>4. x \in Found
      BY <1>2, <1>3, <2>2, <3>2, <3>3 DEF Found
    <3>5. x.at + x.length <= pkt.length
      BY <1>2, <1>3, <2>2, <2>6
    <3>6. x.slot = "SESSION_ATTRIB" => x.name <= x.length - ObjHdrLen - 4
      BY <3>3
    <3>. HIDE DEF x
    <3>7. Inside'
      BY <1>0, <3>1, <3>5, <3>6 DEF Inside
    <3>8. \A y \in info' : y \in Found
      BY <3>1, <3>4 DEF TypeOK
    <3>. QED  BY <1>0, <1>4, <2>1, <2>5, <2>7, <3>7, <3>8 DEF TypeOK, Idle, Busy
  <2>. QED  BY <2>8, <2>9
<1>. QED  BY <1>5, <1>6

\* The rest of the loop, and what happens outside it, does not touch a packet.
LEMMA QuietStep ==
    ASSUME ParserInv, TypeOK', pc \notin Busy, pc' \notin Busy,
           UNCHANGED <<pkt, obj_ptr, remaining, info, steps>>
    PROVE  ParserInv'
BY DEF ParserInv, PacketOK, Idle, Bounds, Inside, Busy

\* The steps that are neither those of the parser nor the arrival of a packet.
Quiet ==
    \/ test_running \/ poll \/ round_ends
    \/ \E fd \in Fds : event_fails(fd) \/ event_read(fd)
    \/ rsvp_dispatcher_stop \/ stop_before_poll
    \/ \E fd \in Fds : input(fd) \/ fails(fd)

\* They keep the types and leave the parser alone.
LEMMA QuietSteps ==
    ASSUME TypeOK, Quiet
    PROVE  /\ TypeOK' /\ pc \notin Busy /\ pc' \notin Busy
           /\ UNCHANGED <<pkt, obj_ptr, remaining, info, steps>>
<1>. USE DEF TypeOK, NoParse, Busy, Between
<1>1. CASE test_running
  BY <1>1 DEF test_running
<1>2. CASE poll
  BY <1>2 DEF poll, Polled, Fds
<1>3. CASE round_ends
  BY <1>3 DEF round_ends
<1>4. ASSUME NEW fd \in Fds, event_fails(fd)
      PROVE  /\ TypeOK' /\ pc \notin Busy /\ pc' \notin Busy
             /\ UNCHANGED <<pkt, obj_ptr, remaining, info, steps>>
  BY <1>4 DEF event_fails, Current, handled
<1>5. ASSUME NEW fd \in Fds, event_read(fd)
      PROVE  /\ TypeOK' /\ pc \notin Busy /\ pc' \notin Busy
             /\ UNCHANGED <<pkt, obj_ptr, remaining, info, steps>>
  BY <1>5 DEF event_read, Current, handled
<1>6. CASE rsvp_dispatcher_stop
  BY <1>6 DEF rsvp_dispatcher_stop
<1>7. CASE stop_before_poll
  BY <1>7 DEF stop_before_poll
<1>8. ASSUME NEW fd \in Fds, input(fd) \/ fails(fd)
      PROVE  /\ TypeOK' /\ pc \notin Busy /\ pc' \notin Busy
             /\ UNCHANGED <<pkt, obj_ptr, remaining, info, steps>>
  BY <1>8 DEF input, fails
<1>. QED  BY <1>1, <1>2, <1>3, <1>4, <1>5, <1>6, <1>7, <1>8 DEF Quiet

\* A packet arrives.
LEMMA PacketStep ==
    ASSUME ParserInv, NEW p \in OwnPackets \cup ForeignPackets, event_packet(p)
    PROVE  ParserInv'
<1>. USE DEF ParserInv
<1>1. /\ pc = "events" /\ ready' = ready \ {"raw"} /\ fds' = fds \ {"raw"}
      /\ UNCHANGED <<g_running, poll_stdin, failed>>
  BY DEF event_packet, Current, handled
<1>2. info = {} /\ steps = 0 /\ pkt = NoPacket
  BY <1>1 DEF Idle, Busy
<1>3. PacketOK(p) /\ p.length \in Nat /\ HdrLen = 8
  BY PacketsOK DEF PacketOK, HdrLen
<1>4. CASE UNCHANGED <<pc, pkt>> /\ NoParse
  <2>1. TypeOK'
    BY <1>1, <1>4 DEF TypeOK, NoParse
  <2>. QED  BY <1>1, <1>4, <2>1, QuietStep DEF NoParse, Busy
<1>5. CASE /\ HeaderOK(p) /\ pc' = "parse" /\ pkt' = p
           /\ obj_ptr' = HdrLen /\ remaining' = p.length - HdrLen
           /\ UNCHANGED <<info, steps>>
  <2>1. p.length >= HdrLen
    BY <1>5 DEF HeaderOK
  <2>2. obj_ptr' \in Nat /\ remaining' \in Nat /\ steps' = 0 /\ info' = {}
    BY <1>2, <1>3, <1>5, <2>1
  <2>3. TypeOK'
    BY <1>1, <1>5, <2>2 DEF TypeOK
  <2>4. Bounds'
    BY <1>3, <1>5, <2>1, <2>2 DEF Bounds, HdrLen, ObjHdrLen
  <2>. QED  BY <1>3, <1>5, <2>2, <2>3, <2>4 DEF Idle, Inside, Busy
<1>6. CASE pc' = "rejected" /\ pkt' = p /\ NoParse
  <2>1. TypeOK'
    BY <1>1, <1>6 DEF TypeOK, NoParse
  <2>. QED  BY <1>2, <1>3, <1>6, <2>1 DEF NoParse, Idle, Inside, Busy, Bounds
<1>. QED  BY <1>4, <1>5, <1>6 DEF event_packet

\* The parser ends, and the message has been handled.
LEMMA EndSteps ==
    ASSUME ParserInv, parse_ends \/ packet_done
    PROVE  ParserInv'
<1>. USE DEF ParserInv
<1>1. CASE parse_ends
  <2>1. /\ pc' \in {"handle", "rejected"} /\ pkt' = pkt
        /\ UNCHANGED <<obj_ptr, remaining, info, steps>>
    BY <1>1 DEF parse_ends, NoParse, OnlyParse
  <2>2. TypeOK'
    BY <1>1, <2>1 DEF parse_ends, OnlyParse, TypeOK
  <2>. QED  BY <2>1, <2>2 DEF PacketOK, Idle, Bounds, Inside, Busy
<1>2. CASE packet_done
  <2>1. TypeOK'
    BY <1>2 DEF packet_done, TypeOK
  <2>2. PacketOK(NoPacket)
    BY DEF PacketOK, NoPacket
  <2>. QED  BY <1>2, <2>1, <2>2 DEF packet_done, Idle, Bounds, Inside, Busy
<1>. QED  BY <1>1, <1>2

\* The loop starts with no packet.
LEMMA InitParser == rsvp_dispatcher_init => ParserInv
<1>. SUFFICES ASSUME rsvp_dispatcher_init PROVE ParserInv
  OBVIOUS
<1>1. TypeOK
  BY DEF rsvp_dispatcher_init, TypeOK
<1>2. PacketOK(pkt)
  BY DEF rsvp_dispatcher_init, PacketOK, NoPacket
<1>. QED  BY <1>1, <1>2 DEF rsvp_dispatcher_init, ParserInv, Idle, Bounds, Inside, Busy

\* Every step keeps the invariant.
LEMMA ParserStep == ParserInv /\ [Next]_vars => ParserInv'
<1>. SUFFICES ASSUME ParserInv, [Next]_vars PROVE ParserInv'
  OBVIOUS
<1>1. CASE Quiet
  <2>1. TypeOK
    BY DEF ParserInv
  <2>. QED  BY <1>1, <2>1, QuietSteps, QuietStep
<1>2. CASE UNCHANGED vars
  BY <1>2 DEF vars, ParserInv, TypeOK, PacketOK, Idle, Bounds, Inside
<1>. QED  BY <1>1, <1>2, ObjectStep, PacketStep, EndSteps DEF Next, Loop, Quiet

\* The loop and the parser keep their types: offsets and lengths never become
\* negative, whatever lengths the headers carry.
THEOREM DispatcherTypeCorrect == Spec => []TypeOK
<1>1. ParserInv => TypeOK
  BY DEF ParserInv
<1>. QED  BY <1>1, InitParser, ParserStep, PTL DEF Spec

\* Whatever the headers of a packet say, the objects and the name that
\* rsvp_parse_packet points to lie inside the message.
THEOREM ParserStaysInside == Spec => []Inside
<1>1. ParserInv => Inside
  BY DEF ParserInv
<1>. QED  BY <1>1, InitParser, ParserStep, PTL DEF Spec

\* Whatever the headers of a packet say, the loop of rsvp_parse_packet passes no
\* more objects than fit into the message: it ends.
THEOREM ParserIsBounded == Spec => []ParseBounded
<1>1. ParserInv => ParseBounded
  BY DEF ParserInv, Bounds, ParseBounded
<1>. QED  BY <1>1, InitParser, ParserStep, PTL DEF Spec

-----------------------------------------------------------------------------
(* The parser, on a packet of this code.                                   *)

\* What the parser notes of the i-th object that was added.
Seen(s, off, i) ==
    [slot |-> slot(s[i].class), at |-> off[i - 1], length |-> ObjHdrLen + s[i].size,
     name |-> s[i].name]

\* The parser has passed the first objects and stands before the next one.
Reading(off) ==
    /\ steps \in 0 .. Len(pkt.wants)
    /\ obj_ptr = off[steps]
    /\ remaining = off[Len(pkt.wants)] - off[steps]
    /\ info = {Seen(pkt.wants, off, i) : i \in 1 .. steps}

\* A packet of another daemon that arrived undamaged.
Sound(p) == p.wants # <<>> /\ p.src = "peer" /\ p.checksum = "good"

\* A packet is read from these offsets, and nothing of it is missing when it is
\* handed on.
Understood(off) ==
    /\ Mine(pkt, off)
    /\ pc = "parse" => Reading(off)
    /\ pc = "handle" => info = {Seen(pkt.wants, off, i) : i \in 1 .. Len(pkt.wants)}

ReadBack ==
    Sound(pkt) =>
       /\ pc # "rejected"
       /\ pc \in {"parse", "handle"} => \E off : Understood(off)

\* Two objects of a message are not of the same kind.
LEMMA KindsDiffer ==
    ASSUME NEW s, NEW z, NEW a, Made(s, a, z), NEW i \in 1 .. Len(s), NEW j \in 1 .. Len(s), i < j
    PROVE  slot(s[i].class) # slot(s[j].class)
<1>1. s \in Seq(Adds) /\ WellMade(s[i]) /\ End(s[i]) <= Start(s[j])
  BY DEF Made
<1>. DEFINE l == ObjHdrLen + s[i].size
            A == RSVP_ALIGN(l)
<1>2. l \in Nat /\ l # 0
  <2>1. s[i].size \in Nat
    BY <1>1, SizeType
  <2>. QED  BY <2>1 DEF ObjHdrLen
<1>3. A \in Nat /\ l <= A
  BY <1>2, Aligned
<1>4. Start(s[i]) \in Nat /\ End(s[i]) \in Nat /\ Start(s[i]) + A <= End(s[i])
  BY <1>1 DEF WellMade
<1>. HIDE DEF l, A
<1>5. Start(s[i]) < End(s[i])
  BY <1>2, <1>3, <1>4
<1>6. slot(s[i].class) = slot(s[j].class) => Start(s[i]) = Start(s[j])
  BY DEF Start
<1>. QED  BY <1>1, <1>4, <1>5, <1>6

\* At the offset of an object the parser finds that object.
LEMMA FindsWritten ==
    ASSUME NEW p, NEW off, Mine(p, off), NEW i \in 1 .. Len(p.wants),
           NEW o \in HeaderAt(p, off[i - 1])
    PROVE  o = Written(p.wants, off, i)
<1>. DEFINE s == p.wants
            there == {x \in p.objs : x.at = off[i - 1]}
<1>1. s \in Seq(Adds) /\ Laid(s, off) /\ Len(s) \in Nat
  BY DEF Mine, Made
<1>2. p.objs = {Written(s, off, j) : j \in 1 .. Len(s)}
  BY DEF Mine
<1>3. \A j \in 1 .. Len(s) : Written(s, off, j).at = off[j - 1]
  BY DEF Written
<1>4. Written(s, off, i) \in there
  BY <1>2, <1>3
<1>5. o \in there
  BY <1>4 DEF HeaderAt
<1>6. PICK j \in 1 .. Len(s) : o = Written(s, off, j)
  BY <1>2, <1>5
<1>7. off[j - 1] = off[i - 1]
  BY <1>3, <1>5, <1>6
<1>8. i - 1 \in 0 .. Len(s) /\ j - 1 \in 0 .. Len(s)
  BY <1>1
<1>9. off[i - 1] \in Nat
  BY <1>1, <1>8 DEF Laid
<1>10. ~ (i - 1 < j - 1) /\ ~ (j - 1 < i - 1)
  <2>1. \A a, b \in 0 .. Len(s) : a < b => off[a] + ObjHdrLen <= off[b]
    BY <1>1, LaidGrows
  <2>2. ~ (off[i - 1] + ObjHdrLen <= off[i - 1])
    BY <1>9 DEF ObjHdrLen
  <2>. QED  BY <1>7, <1>8, <2>1, <2>2
<1>11. i = j
  BY <1>1, <1>10
<1>. QED  BY <1>6, <1>11

\* The parser copies the whole name.
LEMMA WholeName ==
    ASSUME NEW s, NEW off, NEW i \in 1 .. Len(s), s \in Seq(Adds), WellMade(s[i])
    PROVE  lsp_name(Written(s, off, i)) = s[i].name
<1>. DEFINE o == Written(s, off, i)
            k == s[i].name
<1>1. o.class = s[i].class /\ o.name = k /\ o.length = ObjHdrLen + s[i].size
  BY DEF Written
<1>. HIDE DEF o
<1>2. s[i].size \in Nat /\ k \in 0 .. NameMax
  BY SizeType DEF Adds
<1>3. CASE s[i].class = "SESSION_ATTRIB"
  <2>1. k = s[i].size - 4
    BY <1>3 DEF WellMade
  <2>2. o.length - ObjHdrLen - 4 = k
    BY <1>1, <1>2, <2>1 DEF ObjHdrLen
  <2>3. lsp_name(o) = Minimum({k, k, NameMax})
    BY <1>1, <1>3, <2>2 DEF lsp_name
  <2>. HIDE DEF k
  <2>. DEFINE m == NameMax
  <2>4. m \in Nat /\ k \in 0 .. m
    BY <1>2 DEF NameMax
  <2>. HIDE DEF m
  <2>5. k \in Int /\ m \in Int /\ k <= m
    BY <2>4
  <2>6. k \in Int /\ NameMax \in Int /\ k <= NameMax
    BY <2>5, Zenon DEF m
  <2>7. /\ Minimum({k, k, NameMax}) \in {k, k, NameMax}
        /\ Minimum({k, k, NameMax}) <= k
    BY <2>6, MinimumOf, Zenon
  <2>8. Minimum({k, k, NameMax}) = k
    BY <2>6, <2>7
  <2>. QED  BY <2>3, <2>8 DEF k, o
<1>4. CASE s[i].class # "SESSION_ATTRIB"
  BY <1>1, <1>4 DEF lsp_name, WellMade, o
<1>. QED  BY <1>3, <1>4

\* The parser keeps the next object: its length is right, no object of its kind
\* came before, and its C-Type and size are ones the parser takes.
LEMMA TakesWritten ==
    ASSUME NEW off, Mine(pkt, off), Reading(off),
           NEW i \in 1 .. Len(pkt.wants), i = steps + 1
    PROVE  LET o == Written(pkt.wants, off, i) IN
           ~ malformed(o) /\ o.class # "OTHER_LOW" /\ Kept(o)
<1>. DEFINE s == pkt.wants
            n == Len(s)
            o == Written(s, off, i)
            c == s[i].class
<1>1. s \in Seq(Adds) /\ Laid(s, off) /\ n \in Nat /\ Made(s, HdrLen, 984) /\ WellMade(s[i])
  BY DEF Mine, Made
<1>2. /\ o.class = c /\ o.length = ObjHdrLen + s[i].size /\ o.c_type = s[i].c_type
  BY DEF Written
<1>3. s[i].size \in Nat /\ ObjHdrLen + s[i].size \in Nat
  BY <1>1, SizeType
<1>4. ~ malformed(o)
  <2>1. steps \in 0 .. n /\ i \in 0 .. n /\ i - 1 = steps /\ n \in 0 .. n
    BY <1>1 DEF Reading
  <2>2. off[steps] \in Nat /\ off[i] \in Nat /\ off[n] \in Nat
    BY <1>1, <2>1 DEF Laid
  <2>3. off[steps] + (ObjHdrLen + s[i].size) <= off[i]
    BY <1>1, <2>1, LaidGrows
  <2>4. off[i] <= off[n]
    <3>1. CASE i = n
      BY <2>2, <3>1
    <3>2. CASE i # n
      <4>1. i < n
        BY <1>1, <2>1, <3>2
      <4>2. off[i] + ObjHdrLen <= off[n]
        BY <1>1, <2>1, <4>1, LaidGrows
      <4>. QED  BY <2>2, <4>2 DEF ObjHdrLen
    <3>. QED  BY <3>1, <3>2
  <2>5. remaining = off[n] - off[steps]
    BY DEF Reading
  <2>. DEFINE l == ObjHdrLen + s[i].size
  <2>6. l \in Nat /\ ObjHdrLen <= l /\ o.length = l
    BY <1>2, <1>3 DEF ObjHdrLen
  <2>. HIDE DEF l, o, n
  <2>7. off[steps] + l <= off[i]
    BY <2>3 DEF l
  <2>8. l <= remaining /\ ~ (l < ObjHdrLen) /\ ~ (l > remaining)
    BY <2>2, <2>4, <2>5, <2>6, <2>7 DEF ObjHdrLen
  <2>. QED  BY <2>6, <2>8 DEF malformed
<1>5. /\ Body(c).c_types \cap {0, s[i].c_type} # {} /\ c # "OTHER_LOW"
      /\ Body(c).size \in Nat /\ Body(c).size <= s[i].size
  BY <1>1 DEF WellMade
<1>6. ~ \E x \in info : x.slot = slot(c)
  <2>. SUFFICES ASSUME NEW x \in info, x.slot = slot(c) PROVE FALSE
    OBVIOUS
  <2>1. PICK j \in 1 .. steps : x = Seen(s, off, j)
    BY DEF Reading
  <2>2. slot(s[j].class) = slot(c)
    BY <2>1 DEF Seen
  <2>3. j \in 1 .. n /\ j < i
    BY <1>1 DEF Reading
  <2>4. slot(s[j].class) # slot(s[i].class)
    BY <1>1, <2>3, KindsDiffer
  <2>. QED  BY <2>2, <2>4
<1>7. o.length >= ObjHdrLen + Body(o.class).size
  BY <1>2, <1>3, <1>5 DEF ObjHdrLen
<1>8. Kept(o)
  BY <1>2, <1>5, <1>6, <1>7 DEF Kept, Known
<1>. QED  BY <1>2, <1>4, <1>5, <1>8

\* One step of the parser passes one object.
LEMMA ReadStep ==
    ASSUME ParserInv, NEW off, Mine(pkt, off), Reading(off), parse_object
    PROVE  pc' = "parse" /\ pkt' = pkt /\ Reading(off)'
<1>. DEFINE s == pkt.wants
            n == Len(s)
            i == steps + 1
            o == Written(s, off, i)
<1>1. /\ s \in Seq(Adds) /\ Laid(s, off) /\ n \in Nat /\ steps \in 0 .. n
      /\ remaining = off[n] - off[steps] /\ obj_ptr = off[steps]
      /\ info = {Seen(s, off, j) : j \in 1 .. steps}
  BY DEF Mine, Made, Reading
<1>2. pc = "parse" /\ pkt' = pkt /\ remaining >= ObjHdrLen
  BY DEF parse_object, OnlyParse
<1>3. \A j \in 0 .. n : off[j] \in Nat
  BY <1>1 DEF Laid
<1>4. i \in 1 .. n /\ i \in 0 .. n /\ i - 1 = steps
  <2>1. steps # n
    <3>1. off[n] \in Nat
      BY <1>1, <1>3
    <3>. QED  BY <1>1, <1>2, <3>1 DEF ObjHdrLen
  <2>. QED  BY <1>1, <2>1
<1>5. PICK x \in HeaderAt(pkt, obj_ptr) :
         IF malformed(x) \/ x.class = "OTHER_LOW"
         THEN pc' = "rejected" /\ NoParse
         ELSE /\ info' = Keep(x) /\ next_object(x)
              /\ steps' = steps + 1
              /\ UNCHANGED pc
  BY DEF parse_object
<1>6. x = o
  <2>1. x \in HeaderAt(pkt, off[i - 1])
    BY <1>1, <1>4, <1>5
  <2>. HIDE DEF i
  <2>. QED  BY <1>4, <2>1, FindsWritten
<1>7. ~ malformed(o) /\ o.class # "OTHER_LOW" /\ Kept(o)
  BY <1>4, TakesWritten
<1>. HIDE DEF o
<1>8. info' = Keep(o) /\ next_object(o) /\ steps' = steps + 1 /\ pc' = pc
  BY <1>5, <1>6, <1>7
<1>9. info' = {Seen(s, off, j) : j \in 1 .. i}
  <2>1. lsp_name(o) = s[i].name
    <3>1. WellMade(s[i])
      BY <1>4 DEF Mine, Made
    <3>. HIDE DEF i
    <3>. QED  BY <1>1, <1>4, <3>1, WholeName DEF o
  <2>2. o.at = off[i - 1] /\ o.length = ObjHdrLen + s[i].size /\ o.class = s[i].class
    BY DEF o, Written
  <2>3. [slot |-> slot(o.class), at |-> o.at, length |-> o.length, name |-> lsp_name(o)] =
        Seen(s, off, i)
    BY <2>1, <2>2 DEF Seen
  <2>4. info' = info \cup {Seen(s, off, i)}
    BY <1>7, <1>8, <2>3 DEF Keep
  <2>5. 1 .. i = (1 .. steps) \cup {i}
    BY <1>1
  <2>. HIDE DEF i
  <2>. QED  BY <1>1, <2>4, <2>5
<1>10. obj_ptr' = off[i] /\ remaining' = off[n] - off[i]
  <2>. DEFINE l == ObjHdrLen + s[i].size
              A == RSVP_ALIGN(l)
  <2>1. o.length = l
    BY DEF o, Written
  <2>2. l \in Nat
    BY <1>1, <1>4, SizeType
  <2>3. A \in Nat
    BY <2>2, Aligned
  <2>4. off[i] = off[steps] + A /\ off[i] \in Nat /\ off[steps] \in Nat /\ off[n] \in Nat
    <3>1. off[i] = off[i - 1] + A
      BY <1>1, <1>4 DEF Laid
    <3>2. n \in 0 .. n
      BY <1>1
    <3>. QED  BY <1>1, <1>3, <1>4, <3>1, <3>2
  <2>5. off[i] <= off[n]
    <3>1. CASE i = n
      BY <2>4, <3>1
    <3>2. CASE i # n
      <4>1. i < n /\ n \in 0 .. n
        BY <1>1, <1>4, <3>2
      <4>2. off[i] + ObjHdrLen <= off[n]
        BY <1>1, <1>4, <4>1, LaidGrows
      <4>. QED  BY <2>4, <4>2 DEF ObjHdrLen
    <3>. QED  BY <3>1, <3>2
  <2>6. IF A > remaining THEN remaining' = 0 /\ UNCHANGED obj_ptr
        ELSE obj_ptr' = obj_ptr + A /\ remaining' = remaining - A
    BY <1>8, <2>1 DEF next_object
  <2>. HIDE DEF A, l, i, n
  <2>7. ~ (A > remaining)
    BY <1>1, <2>3, <2>4, <2>5
  <2>8. obj_ptr' = obj_ptr + A /\ remaining' = remaining - A
    BY <2>6, <2>7
  <2>. QED  BY <1>1, <2>3, <2>4, <2>8
<1>11. Reading(off)'
  BY <1>2, <1>4, <1>8, <1>9, <1>10 DEF Reading
<1>. QED  BY <1>2, <1>8, <1>11

\* When the parser ends, it has passed all objects, the mandatory ones included.
LEMMA ReadEnds ==
    ASSUME NEW off, Mine(pkt, off), Reading(off), parse_ends
    PROVE  /\ pc' = "handle" /\ pkt' = pkt
           /\ info' = {Seen(pkt.wants, off, i) : i \in 1 .. Len(pkt.wants)}
<1>. DEFINE s == pkt.wants
            n == Len(s)
<1>1. /\ s \in Seq(Adds) /\ Laid(s, off) /\ n \in Nat /\ steps \in 0 .. n
      /\ remaining = off[n] - off[steps]
      /\ info = {Seen(s, off, j) : j \in 1 .. steps}
  BY DEF Mine, Made, Reading
<1>2. /\ remaining < ObjHdrLen /\ pkt' = pkt /\ info' = info
      /\ pc' = IF Mandatory(pkt.type) \subseteq Slots THEN "handle" ELSE "rejected"
  BY DEF parse_ends, NoParse, OnlyParse
<1>3. steps = n
  <2>. SUFFICES ASSUME steps # n PROVE FALSE
    OBVIOUS
  <2>1. steps < n /\ n \in 0 .. n
    BY <1>1
  <2>2. off[n] \in Nat /\ off[steps] \in Nat
    BY <1>1, <2>1 DEF Laid
  <2>3. off[steps] + ObjHdrLen <= off[n]
    BY <1>1, <2>1, LaidGrows
  <2>. QED  BY <1>1, <1>2, <2>2, <2>3 DEF ObjHdrLen
<1>4. info = {Seen(s, off, j) : j \in 1 .. n}
  BY <1>1, <1>3
<1>5. Mandatory(pkt.type) \subseteq Slots
  <2>. SUFFICES ASSUME NEW kind \in Mandatory(pkt.type) PROVE kind \in Slots
    OBVIOUS
  <2>1. PICK j \in 1 .. n : slot(s[j].class) = kind
    BY DEF Mine, Has
  <2>2. Seen(s, off, j) \in info /\ Seen(s, off, j).slot = kind
    BY <1>4, <2>1 DEF Seen
  <2>. QED  BY <2>2 DEF Slots
<1>. QED  BY <1>2, <1>4, <1>5

\* A sound packet passes the tests of the header, and its first object is read
\* next.
LEMMA ReadStarts ==
    ASSUME ParserInv, NEW p \in OwnPackets \cup ForeignPackets, event_packet(p), Sound(pkt')
    PROVE  pc' = "parse" /\ \E off : Understood(off)'
<1>1. pkt = NoPacket /\ info = {} /\ steps = 0
  BY DEF event_packet, Current, ParserInv, Idle, Busy
<1>2. ~ Sound(NoPacket)
  BY DEF Sound, NoPacket
<1>3. pkt' # pkt
  BY <1>1, <1>2
<1>4. pkt' = p /\ Sound(p)
  BY <1>3 DEF event_packet
<1>5. PICK off : Mine(p, off)
  BY <1>4, PacketsOK DEF PacketOK, Sound
<1>. DEFINE n == Len(p.wants)
<1>6. /\ p.wants \in Seq(Adds) /\ Laid(p.wants, off) /\ n \in Nat
      /\ p.length = off[n] /\ p.len = p.length /\ p.version = 1
  BY <1>5 DEF Mine, Made
<1>7. off[0] = HdrLen /\ off[n] \in Nat /\ HdrLen <= off[n]
  <2>1. off[0] = HdrLen /\ n \in 0 .. n /\ 0 \in 0 .. n
    BY <1>6 DEF Laid
  <2>2. off[n] \in Nat
    BY <1>6, <2>1 DEF Laid
  <2>3. CASE n = 0
    BY <2>1, <2>2, <2>3
  <2>4. CASE n # 0
    <3>1. off[0] + ObjHdrLen <= off[n]
      BY <1>6, <2>1, <2>4, LaidGrows
    <3>. QED  BY <2>1, <2>2, <3>1 DEF ObjHdrLen, HdrLen
  <2>. QED  BY <2>1, <2>2, <2>3, <2>4
<1>8. HeaderOK(p)
  BY <1>4, <1>6, <1>7 DEF HeaderOK, Sound, HdrLen
<1>9. /\ pc' = "parse" /\ obj_ptr' = HdrLen /\ remaining' = p.length - HdrLen
      /\ info' = info /\ steps' = steps
  BY <1>3, <1>8 DEF event_packet
<1>10. Reading(off)'
  <2>1. info' = {Seen(p.wants, off, i) : i \in 1 .. 0}
    BY <1>1, <1>9
  <2>2. steps' = 0 /\ 0 \in 0 .. n
    BY <1>1, <1>6, <1>9
  <2>. QED  BY <1>4, <1>6, <1>7, <1>9, <2>1, <2>2 DEF Reading
<1>11. Understood(off)'
  BY <1>4, <1>5, <1>9, <1>10 DEF Understood
<1>. QED  BY <1>9, <1>11

\* Every step keeps a sound packet on its way to the handler.
LEMMA ReadBackStep == ParserInv /\ ReadBack /\ [Next]_vars => ReadBack'
<1>. SUFFICES ASSUME ParserInv, ReadBack, [Next]_vars, Sound(pkt')
              PROVE  /\ pc' # "rejected"
                     /\ pc' \in {"parse", "handle"} => \E off : Understood(off)'
  BY DEF ReadBack
<1>0. ~ Sound(NoPacket)
  BY DEF Sound, NoPacket
<1>1. CASE Quiet
  <2>1. pc' \notin Busy
    BY <1>1, QuietSteps DEF ParserInv
  <2>. QED  BY <2>1 DEF Busy
<1>2. CASE UNCHANGED vars
  BY <1>2 DEF vars, ReadBack, Understood, Reading
<1>3. CASE packet_done
  BY <1>0, <1>3 DEF packet_done
<1>4. ASSUME NEW p \in OwnPackets \cup ForeignPackets, event_packet(p)
      PROVE  pc' = "parse" /\ \E off : Understood(off)'
  BY <1>4, ReadStarts
<1>5. CASE parse_object
  <2>1. pkt' = pkt /\ pc = "parse"
    BY <1>5 DEF parse_object, OnlyParse
  <2>2. PICK off : Understood(off)
    BY <2>1 DEF ReadBack
  <2>3. Mine(pkt, off) /\ Reading(off)
    BY <2>1, <2>2 DEF Understood
  <2>4. pc' = "parse" /\ Reading(off)'
    BY <1>5, <2>3, ReadStep
  <2>5. Understood(off)'
    BY <2>1, <2>3, <2>4 DEF Understood
  <2>. QED  BY <2>4, <2>5
<1>6. CASE parse_ends
  <2>1. pkt' = pkt /\ pc = "parse"
    BY <1>6 DEF parse_ends, OnlyParse
  <2>2. PICK off : Understood(off)
    BY <2>1 DEF ReadBack
  <2>3. Mine(pkt, off) /\ Reading(off)
    BY <2>1, <2>2 DEF Understood
  <2>4. pc' = "handle" /\ info' = {Seen(pkt.wants, off, i) : i \in 1 .. Len(pkt.wants)}
    BY <1>6, <2>3, ReadEnds
  <2>5. Understood(off)'
    BY <2>1, <2>3, <2>4 DEF Understood
  <2>. QED  BY <2>4, <2>5
<1>. QED  BY <1>1, <1>2, <1>3, <1>4, <1>5, <1>6 DEF Next, Loop, Quiet

\* What the parser has noted of a packet that it understood is what was added.
LEMMA UnderstoodAll ==
    ASSUME NEW off, Understood(off), pc = "handle"
    PROVE  {[slot |-> o.slot, length |-> o.length, name |-> o.name] : o \in info} =
           {[slot |-> slot(o.class), length |-> ObjHdrLen + o.size, name |-> o.name] :
               o \in Range(pkt.wants)}
<1>. DEFINE s == pkt.wants
            Noted(o) == [slot |-> o.slot, length |-> o.length, name |-> o.name]
            Added(o) == [slot |-> slot(o.class), length |-> ObjHdrLen + o.size,
                         name |-> o.name]
<1>1. s \in Seq(Adds) /\ info = {Seen(s, off, i) : i \in 1 .. Len(s)}
  BY DEF Understood, Mine, Made
<1>2. \A i \in 1 .. Len(s) : Noted(Seen(s, off, i)) = Added(s[i])
  BY DEF Seen
<1>3. Range(s) = {s[i] : i \in 1 .. Len(s)}
  BY <1>1 DEF Range
<1>. HIDE DEF Noted, Added
<1>4. {Noted(o) : o \in info} = {Added(o) : o \in Range(s)}
  BY <1>1, <1>2, <1>3
<1>. QED  BY <1>4 DEF Noted, Added

\* What a daemon of this code sends is understood by another one, for every
\* length of name and of route that the code allows: the message is accepted, and
\* rsvp_parse_packet finds each object that the sender added with
\* rsvp_builder_add_obj, at its length and with its whole name.
THEOREM MessagesRoundTrip == Spec => []RoundTrip
<1>1. rsvp_dispatcher_init => ReadBack
  BY DEF rsvp_dispatcher_init, ReadBack
<1>2. ReadBack => RoundTrip
  <2>. SUFFICES ASSUME ReadBack, Sound(pkt)
                PROVE  /\ pc # "rejected"
                       /\ pc = "handle" =>
                            {[slot |-> o.slot, length |-> o.length, name |-> o.name] :
                                o \in info} =
                            {[slot |-> slot(o.class), length |-> ObjHdrLen + o.size,
                              name |-> o.name] : o \in Range(pkt.wants)}
    BY DEF RoundTrip, Sound
  <2>. QED  BY UnderstoodAll DEF ReadBack
<1>. QED  BY <1>1, <1>2, InitParser, ParserStep, ReadBackStep, PTL DEF Spec

=============================================================================
