---------------------------- MODULE RsvpMessages -----------------------------
(***************************************************************************)
(* RSVP messages: the objects, the builder (src/pi/rsvp_builder.c) and     *)
(* what each sender of the daemon puts into a message (rsvp_state_machine.c*)
(* and rsvp_hello.c).  An object is its class, C-Type and sizes; offsets   *)
(* and lengths are those of the wire, in bytes.                            *)
(***************************************************************************)
EXTENDS Integers, Sequences

MAX_ERO_HOPS == 32
MAX_RRO_HOPS == 32
SubobjLen    == 8      \* sizeof(struct rsvp_ero_ipv4_subobj)
HdrLen       == 8      \* sizeof(struct rsvp_common_hdr)
ObjHdrLen    == 4      \* sizeof(struct rsvp_obj_hdr)
NameMax      == 255

RSVP_ALIGN(len) == ((len + 3) \div 4) * 4

\* The classes of objects.  OTHER_LOW and OTHER_HIGH are classes the parser does
\* not know.
Classes ==
    {"SESSION", "HOP", "INTEGRITY", "TIME_VALUES", "ERROR_SPEC", "STYLE", "FLOWSPEC",
     "FILTER_SPEC", "SENDER_TEMPLATE", "SENDER_TSPEC", "ADSPEC", "LABEL",
     "LABEL_REQUEST", "EXPLICIT_ROUTE", "RECORD_ROUTE", "SESSION_ATTRIB",
     "FAST_REROUTE", "DETOUR", "HELLO", "OTHER_LOW", "OTHER_HIGH"}

\* The body of every class: its least size, and the C-Types the parser takes
\* (0 stands for "any").
Body(class) ==
    CASE class = "SESSION"         -> [size |-> 12, c_types |-> {7}]
      [] class = "HOP"             -> [size |-> 8,  c_types |-> {1}]
      [] class = "INTEGRITY"       -> [size |-> 16, c_types |-> {0}]
      [] class = "TIME_VALUES"     -> [size |-> 4,  c_types |-> {0}]
      [] class = "ERROR_SPEC"      -> [size |-> 8,  c_types |-> {0}]
      [] class = "STYLE"           -> [size |-> 4,  c_types |-> {0}]
      [] class = "FLOWSPEC"        -> [size |-> 32, c_types |-> {0}]
      [] class = "FILTER_SPEC"     -> [size |-> 8,  c_types |-> {1, 7}]
      [] class = "SENDER_TEMPLATE" -> [size |-> 8,  c_types |-> {1, 7}]
      [] class = "SENDER_TSPEC"    -> [size |-> 32, c_types |-> {0}]
      [] class = "ADSPEC"          -> [size |-> 4,  c_types |-> {0}]
      [] class = "LABEL"           -> [size |-> 4,  c_types |-> {0}]
      [] class = "LABEL_REQUEST"   -> [size |-> 4,  c_types |-> {0}]
      [] class = "EXPLICIT_ROUTE"  -> [size |-> 1,  c_types |-> {0}]
      [] class = "RECORD_ROUTE"    -> [size |-> 1,  c_types |-> {0}]
      [] class = "SESSION_ATTRIB"  -> [size |-> 4,  c_types |-> {7}]
      [] class = "FAST_REROUTE"    -> [size |-> 20, c_types |-> {1}]
      [] class = "DETOUR"          -> [size |-> 8,  c_types |-> {7}]
      [] class = "HELLO"           -> [size |-> 8,  c_types |-> {1, 2}]
      [] OTHER                     -> [size |-> 0,  c_types |-> {}]

\* The field of struct rsvp_message_info for a class: one for sender and filter.
slot(class) == IF class = "FILTER_SPEC" THEN "SENDER_TEMPLATE" ELSE class

-----------------------------------------------------------------------------
(* What the senders add.  An object to add: class, C-Type, size of the body *)
(* and, for SESSION_ATTRIBUTE, the length of the name.                      *)

Obj(class, c_type, size) == [class |-> class, c_type |-> c_type, size |-> size, name |-> 0]

Session == Obj("SESSION", 7, 12)
Hop     == Obj("HOP", 1, 8)
Time    == Obj("TIME_VALUES", 1, 4)
Style   == Obj("STYLE", 1, 4)
Error   == Obj("ERROR_SPEC", 1, 8)
Sender  == Obj("SENDER_TEMPLATE", 7, 8)
Filter  == Obj("FILTER_SPEC", 7, 8)

\* SESSION_ATTRIBUTE with a name of n bytes, cut at 255.
Attribute(n) ==
    LET k == IF n > NameMax THEN NameMax ELSE n IN
    [Obj("SESSION_ATTRIB", 7, 4 + k) EXCEPT !.name = k]

Route(class, hops) ==
    IF hops = 0 THEN <<>> ELSE <<Obj(class, 1, hops * SubobjLen)>>

\* send_path_downstream: ero hops left, a name of n bytes, frr requested or not,
\* rro hops recorded before this router, which appends itself if there is room.
path_objects(ero, n, frr, rro) ==
    <<Session, Hop, Time>> \o Route("EXPLICIT_ROUTE", ero)
    \o <<Obj("LABEL_REQUEST", 1, 4), Attribute(n)>>
    \o (IF frr THEN <<Obj("FAST_REROUTE", 1, 20)>> ELSE <<>>)
    \o <<Sender, Obj("SENDER_TSPEC", 2, 32)>>
    \o (IF rro < MAX_RRO_HOPS THEN Route("RECORD_ROUTE", rro + 1) ELSE <<>>)

resv_objects == <<Session, Hop, Time, Style, Obj("FLOWSPEC", 2, 32), Filter,
                  Obj("LABEL", 1, 4)>>

\* An error that starts here (no HOP), or one that is passed on.
path_err_objects == {<<Session, Error, Sender>>, <<Session, Hop, Error, Sender>>}
resv_err_objects == {<<Session, Error, Style, Filter>>,
                     <<Session, Hop, Error, Style, Filter>>}
path_tear_objects == <<Session, Hop, Sender>>
resv_tear_objects == <<Session, Hop, Style, Filter>>
hello_objects     == {<<Obj("HELLO", c, 8)>> : c \in {1, 2}}

-----------------------------------------------------------------------------
(* The builder.  What it has written: the objects by offset.               *)

rsvp_builder_init(type, size) ==
    [type |-> type, size |-> size, offset |-> HdrLen, objs |-> {}]

\* Mutant: the length field carries the padding.
add_obj_padded(b, o) ==
    LET len == ObjHdrLen + o.size IN
    IF b.offset + RSVP_ALIGN(len) > b.size THEN b
    ELSE [b EXCEPT !.offset = @ + RSVP_ALIGN(len),
                   !.objs = @ \cup {[at |-> b.offset, length |-> RSVP_ALIGN(len),
                                     class |-> o.class, c_type |-> o.c_type,
                                     name |-> o.name]}]

\* An object that does not fit is left out, and the senders do not look.  The
\* length field is that of the object without its padding.
rsvp_builder_add_obj(b, o) ==
    LET len == ObjHdrLen + o.size IN
    IF b.offset + RSVP_ALIGN(len) > b.size THEN b
    ELSE [b EXCEPT !.offset = @ + RSVP_ALIGN(len),
                   !.objs = @ \cup {[at |-> b.offset, length |-> len,
                                     class |-> o.class, c_type |-> o.c_type,
                                     name |-> o.name]}]

\* A message with these objects, in a buffer of this size; rsvp_builder_finalize
\* sets its length, and a checksum that the receiver's computation confirms.
build(type, size, objects) ==
    LET b[i \in 0 .. Len(objects)] ==
           IF i = 0 THEN rsvp_builder_init(type, size)
           ELSE rsvp_builder_add_obj(b[i - 1], objects[i])
    IN  b[Len(objects)]
=============================================================================
