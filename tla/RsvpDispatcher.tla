--------------------------- MODULE RsvpDispatcher ----------------------------
(***************************************************************************)
(* The daemon's main loop, src/pi/rsvp_dispatcher.c: one poll() over the   *)
(* CLI, the raw RSVP socket, the netlink socket and the timer pipe, with   *)
(* the parser (src/pi/rsvp_parser.c) run on every packet, one object per   *)
(* step.                                                                   *)
(*                                                                         *)
(* Packets come from daemons that run this code, or from other             *)
(* implementations, whose objects are read as arbitrary headers.  Input    *)
(* and signals arrive while the loop is at its test or in poll(); what     *)
(* comes later in a round is seen in the next one.                         *)
(***************************************************************************)
EXTENDS RsvpMessages, Functions

CONSTANTS
    NameLengths,   \* lengths of LSP names in PATHs
    EroHops,       \* hops left in the explicit route
    RroHops,       \* hops recorded upstream
    ForeignLens,   \* lengths of messages of other implementations
    ForeignTypes,  \* and their types
    ForeignObjs    \* headers their objects may have

ASSUME DispatcherAssumption ==
    /\ NameLengths \subseteq 0 .. NameMax
    /\ EroHops \subseteq 0 .. MAX_ERO_HOPS /\ RroHops \subseteq 0 .. MAX_RRO_HOPS
    /\ ForeignLens \subseteq Nat
    /\ ForeignObjs \subseteq [class : Classes, c_type : Nat, length : Nat, name : 0 .. NameMax]

VARIABLES
    g_running,     \* cleared by the signal handler
    pc,            \* where the loop is
    poll_stdin,    \* the CLI is still polled
    ready,         \* descriptors with input
    failed,        \* descriptors with a pending error or hang-up
    fds,           \* descriptors poll() returned, not yet handled
    pkt,           \* the packet that is being read
    obj_ptr,       \* offset of the next object
    remaining,     \* bytes left
    info,          \* objects found
    steps          \* objects passed in this packet (not in the code)

vars == <<g_running, pc, poll_stdin, ready, failed, fds, pkt, obj_ptr, remaining, info,
          steps>>

-----------------------------------------------------------------------------
(* Packets.                                                                *)

\* wants: what the sender added, empty for other implementations.  A packet
\* that was damaged has a bad checksum; zero means that none was computed.
Packet(src, wants, b, len, checksum) ==
    [src |-> src, wants |-> wants, type |-> b.type, objs |-> b.objs,
     len |-> len, length |-> b.offset, version |-> 1, checksum |-> checksum]

Sent(type, size, objects) ==
    LET b == build(type, size, objects) IN
    {Packet(src, objects, b, b.offset, "good") : src \in {"peer", "self"}}
    \cup {Packet("peer", objects, b, b.offset, "bad")}

OwnPackets ==
    UNION
    ({Sent("PATH", 1500, path_objects(e, n, f, r)) :
         e \in EroHops, n \in NameLengths, f \in BOOLEAN, r \in RroHops}
     \cup {Sent("PATHERR", 1024, o) : o \in path_err_objects}
     \cup {Sent("RESVERR", 1024, o) : o \in resv_err_objects}
     \cup {Sent("HELLO", 128, o) : o \in hello_objects}
     \cup {Sent("RESV", 1024, resv_objects), Sent("PATHTEAR", 1024, path_tear_objects),
           Sent("RESVTEAR", 1024, resv_tear_objects)})

ForeignPackets ==
    {[src |-> "peer", wants |-> <<>>, type |-> t, objs |-> {}, len |-> n,
      length |-> l, version |-> v, checksum |-> "zero"] :
        t \in ForeignTypes, n \in ForeignLens, l \in ForeignLens, v \in {1, 2}}

NoPacket == [src |-> "none", wants |-> <<>>, type |-> "none", objs |-> {}, len |-> 0,
             length |-> 0, version |-> 0, checksum |-> "none"]

Fds == {"stdin", "raw", "netlink", "timer"}

Found == [slot : Classes, at : Nat, length : Nat, name : 0 .. NameMax]

TypeOK ==
    /\ g_running \in BOOLEAN
    /\ pc \in {"test", "poll", "events", "parse", "handle", "rejected", "exited"}
    /\ poll_stdin \in BOOLEAN
    /\ ready \subseteq Fds /\ failed \subseteq {"stdin", "netlink"} /\ fds \subseteq Fds
    /\ obj_ptr \in Nat /\ remaining \in Nat /\ steps \in Nat
    /\ \A o \in info : o \in Found

rsvp_dispatcher_init ==
    /\ g_running = TRUE
    /\ pc = "test"
    /\ poll_stdin = TRUE
    /\ ready = {} /\ failed = {} /\ fds = {}
    /\ pkt = NoPacket
    /\ obj_ptr = 0 /\ remaining = 0 /\ info = {} /\ steps = 0

-----------------------------------------------------------------------------
(* What happens outside the loop.                                          *)

NoParse == UNCHANGED <<obj_ptr, remaining, info, steps>>
Between == pc \in {"test", "poll"}

input(fd) ==
    /\ Between /\ fd \in Fds \ ready
    /\ ready' = ready \cup {fd}
    /\ UNCHANGED <<g_running, pc, poll_stdin, failed, fds, pkt>> /\ NoParse

\* The terminal hangs up, or the kernel drops netlink messages and leaves an
\* error on the socket.
fails(fd) ==
    /\ Between /\ fd \in {"stdin", "netlink"} \ failed
    /\ failed' = failed \cup {fd}
    /\ UNCHANGED <<g_running, pc, poll_stdin, ready, fds, pkt>> /\ NoParse

\* rsvp_dispatcher_stop in a signal handler; poll() is interrupted if the loop
\* is in it.
rsvp_dispatcher_stop ==
    /\ Between /\ g_running
    /\ g_running' = FALSE
    /\ pc' = "test"
    /\ UNCHANGED <<poll_stdin, ready, failed, fds, pkt>> /\ NoParse

-----------------------------------------------------------------------------
(* The loop.                                                               *)

\* Mutant: the flag is not looked at.
test_never ==
    /\ pc = "test"
    /\ pc' = "poll"
    /\ UNCHANGED <<g_running, poll_stdin, ready, failed, fds, pkt>> /\ NoParse
test_running ==
    /\ pc = "test"
    /\ pc' = IF g_running THEN "poll" ELSE "exited"
    /\ UNCHANGED <<g_running, poll_stdin, ready, failed, fds, pkt>> /\ NoParse

\* A signal that arrives between the test and poll() interrupts nothing.
stop_before_poll ==
    /\ pc = "poll" /\ g_running
    /\ g_running' = FALSE
    /\ UNCHANGED <<pc, poll_stdin, ready, failed, fds, pkt>> /\ NoParse

Polled == IF poll_stdin THEN Fds ELSE Fds \ {"stdin"}

poll ==
    /\ pc = "poll" /\ (ready \cup failed) \cap Polled # {}
    /\ fds' = (ready \cup failed) \cap Polled
    /\ pc' = "events"
    /\ UNCHANGED <<g_running, poll_stdin, ready, failed, pkt>> /\ NoParse

\* The descriptors are handled in the order in which they were added.
Order == <<"stdin", "raw", "netlink", "timer">>
Current(fd) ==
    /\ pc = "events" /\ fd \in fds
    /\ \A i, j \in 1 .. 4 : (Order[i] = fd /\ j < i) => Order[j] \notin fds

\* Mutant: one descriptor per round.
handled_one(fd) == fds' = {}
handled(fd) == fds' = fds \ {fd}

\* An error: the CLI is given up, any other descriptor is passed over.
event_fails(fd) ==
    /\ Current(fd) /\ fd \in failed
    /\ handled(fd)
    /\ poll_stdin' = (poll_stdin /\ fd # "stdin")
    /\ UNCHANGED <<g_running, pc, ready, failed, pkt>> /\ NoParse

\* rsvp_cli_handle_input, hal_netlink_process and rsvp_timer_handle_exp take
\* what there is to read; at the end of its input the CLI is given up.
event_read(fd) ==
    /\ Current(fd) /\ fd \notin failed /\ fd # "raw"
    /\ handled(fd)
    /\ ready' = ready \ {fd}
    /\ \/ UNCHANGED poll_stdin
       \/ fd = "stdin" /\ poll_stdin' = FALSE
    /\ UNCHANGED <<g_running, pc, failed, pkt>> /\ NoParse

\* The headers, in rsvp_parse_packet: lengths, version and checksum.
HeaderOK(p) ==
    /\ p.len >= HdrLen /\ p.length >= HdrLen /\ p.length <= p.len
    /\ p.version = 1
    /\ p.checksum # "bad"

\* One packet is read; one of our own is dropped.
event_packet(p) ==
    /\ Current("raw")
    /\ handled("raw")
    /\ ready' = ready \ {"raw"}
    /\ \/ /\ p.src = "self"
          /\ UNCHANGED <<pc, pkt>> /\ NoParse
       \/ /\ p.src # "self" /\ HeaderOK(p)
          /\ pc' = "parse" /\ pkt' = p
          /\ obj_ptr' = HdrLen /\ remaining' = p.length - HdrLen
          /\ UNCHANGED <<info, steps>>
       \/ /\ p.src # "self" /\ ~ HeaderOK(p)
          /\ pc' = "rejected" /\ pkt' = p
          /\ NoParse
    /\ UNCHANGED <<g_running, poll_stdin, failed>>

round_ends ==
    /\ pc = "events" /\ fds = {}
    /\ pc' = "test"
    /\ UNCHANGED <<g_running, poll_stdin, ready, failed, fds, pkt>> /\ NoParse

-----------------------------------------------------------------------------
(* rsvp_parse_packet.                                                      *)

OnlyParse == UNCHANGED <<g_running, poll_stdin, ready, failed, fds, pkt>>

\* The header at an offset: the object the builder put there, or anything.
HeaderAt(p, at) ==
    LET there == {o \in p.objs : o.at = at} IN
    IF there # {} THEN there
    ELSE {[at |-> at, length |-> h.length, class |-> h.class,
           c_type |-> h.c_type, name |-> h.name] : h \in ForeignObjs}

Minimum(S) == CHOOSE x \in S : \A y \in S : x <= y

\* The bytes of the name that are copied.
lsp_name(o) ==
    IF o.class = "SESSION_ATTRIB"
    THEN Minimum({o.name, o.length - ObjHdrLen - 4, NameMax}) ELSE 0

Known(o) == Body(o.class).c_types # {}

\* The first object of a kind with a C-Type and a size that fit is kept.
Kept(o) ==
    /\ Known(o)
    /\ ~ \E x \in info : x.slot = slot(o.class)
    /\ Body(o.class).c_types \cap {0, o.c_type} # {}
    /\ o.length >= ObjHdrLen + Body(o.class).size

Keep(o) ==
    IF Kept(o) THEN info \cup {[slot |-> slot(o.class), at |-> o.at,
                                length |-> o.length, name |-> lsp_name(o)]}
    ELSE info

\* Mutants: a length is not compared with what is left; a length of zero passes.
malformed_within(o) == o.length < ObjHdrLen
malformed_zero(o)   == o.length > remaining
\* A length that leaves no header or exceeds what is left; that the aligned length
\* is not zero, which is tested after the object, follows from the first.
malformed(o)        == o.length < ObjHdrLen \/ o.length > remaining

\* Mutant: the padding of the last object is skipped too.
next_past_end(o) ==
    /\ obj_ptr' = obj_ptr + RSVP_ALIGN(o.length)
    /\ remaining' = remaining - RSVP_ALIGN(o.length)
\* When the padding of the last object lies beyond the end, the loop ends.
next_object(o) ==
    IF RSVP_ALIGN(o.length) > remaining
    THEN remaining' = 0 /\ UNCHANGED obj_ptr
    ELSE /\ obj_ptr' = obj_ptr + RSVP_ALIGN(o.length)
         /\ remaining' = remaining - RSVP_ALIGN(o.length)

parse_object ==
    /\ pc = "parse" /\ remaining >= ObjHdrLen
    /\ \E o \in HeaderAt(pkt, obj_ptr) :
          IF malformed(o) \/ o.class = "OTHER_LOW"
          THEN pc' = "rejected" /\ NoParse
          ELSE /\ info' = Keep(o) /\ next_object(o)
               /\ steps' = steps + 1
               /\ UNCHANGED pc
    /\ OnlyParse

Mandatory(type) ==
    CASE type \in {"PATH", "PATHTEAR"}    -> {"SESSION", "SENDER_TEMPLATE"}
      [] type = "RESV"                    -> {"SESSION", "HOP", "STYLE"}
      [] type \in {"PATHERR", "RESVERR"}  -> {"SESSION", "ERROR_SPEC"}
      [] type = "RESVTEAR"                -> {"SESSION", "HOP"}
      [] OTHER                            -> {}

Slots == {o.slot : o \in info}

parse_ends ==
    /\ pc = "parse" /\ remaining < ObjHdrLen
    /\ pc' = IF Mandatory(pkt.type) \subseteq Slots THEN "handle" ELSE "rejected"
    /\ NoParse /\ OnlyParse

\* rsvp_handle_message, or a line in the log, and back to the round.
packet_done ==
    /\ pc \in {"handle", "rejected"}
    /\ pc' = "events"
    /\ pkt' = NoPacket
    /\ obj_ptr' = 0 /\ remaining' = 0 /\ info' = {} /\ steps' = 0
    /\ UNCHANGED <<g_running, poll_stdin, ready, failed, fds>>

Loop ==
    \/ test_running \/ poll \/ round_ends
    \/ \E fd \in Fds : event_fails(fd) \/ event_read(fd)
    \/ \E p \in OwnPackets \cup ForeignPackets : event_packet(p)
    \/ parse_object \/ parse_ends \/ packet_done

Next ==
    \/ Loop
    \/ rsvp_dispatcher_stop \/ stop_before_poll
    \/ \E fd \in Fds : input(fd) \/ fails(fd)

Spec == rsvp_dispatcher_init /\ [][Next]_vars

\* The loop goes on; nothing is assumed of its input.
FairSpec == Spec /\ WF_vars(Loop)

-----------------------------------------------------------------------------
(* Properties.                                                             *)

\* What a daemon of this code sends, another one understands: every message
\* that arrives undamaged is accepted, with each object its sender added, at its
\* true length and with the whole name, so that the buffers of the senders hold
\* the longest of them and padding confuses nobody.
RoundTrip ==
    pkt.wants # <<>> /\ pkt.src = "peer" /\ pkt.checksum = "good"
    => /\ pc # "rejected"
       /\ pc = "handle" =>
             {[slot |-> o.slot, length |-> o.length, name |-> o.name] : o \in info} =
             {[slot |-> slot(o.class), length |-> ObjHdrLen + o.size, name |-> o.name] :
                 o \in Range(pkt.wants)}

\* Whatever the headers say, the objects and the name that the parser points
\* into the buffer lie inside the message.
Inside ==
    \A o \in info :
       /\ o.at + o.length <= pkt.length
       /\ o.slot = "SESSION_ATTRIB" => o.name <= o.length - ObjHdrLen - 4

\* Whatever the headers say, each object that is passed uses up at least its
\* header, so that the parser passes no more objects than fit into the message.
ParseBounded == pc = "parse" => ObjHdrLen * steps + remaining <= pkt.length - HdrLen

\* No input keeps the loop from other input: a packet and an expired timer are
\* taken although the CLI, the network or an error that stays on the netlink
\* socket make every poll() return at once.  So is netlink, unless its socket
\* has an error, which is logged and passed over, and which nothing clears.
Served ==
    /\ \A fd \in {"raw", "timer"} :
          (fd \in ready) ~> (fd \notin ready \/ pc = "exited")
    /\ ("netlink" \in ready) ~>
          ("netlink" \notin ready \/ "netlink" \in failed \/ pc = "exited")

\* A stop is acted upon, at the latest with the next event: the loop leaves, or
\* it waits in poll() because the signal came just before and nothing is there.
StopActs ==
    (~ g_running) ~> (pc = "exited" \/ (pc = "poll" /\ (ready \cup failed) \cap Polled = {}))
=============================================================================
