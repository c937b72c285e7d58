# TLA+ verification of the RSVP-TE daemon

This directory holds a TLA+ model of the RSVP-TE daemon in `src/`, TLC
configurations that check it on small instances, and TLAPS proofs of results
that hold for every instance. File names below are relative to `src/src/`
unless they start with `wheel_timer/`.

## 1. The system

| component | state | operations | used by |
|---|---|---|---|
| `pi/label_mgr.c` | bitmap of labels, search cursor `label_next` | init, alloc, free | state machine |
| `pi/rsvp_state_db.c`, `pi/rsvp_state.h` | hash tables of path (PSB), reservation (RSB) and blockade (BSB) blocks, with cross pointers `associated_psb`, `associated_rsb`, `bypass_psb` | find, create, delete | state machine |
| `pi/rsvp_state_machine.c` | the tables, `next_lsp_id` | six message handlers, five timer callbacks, set-up, teardown, make-before-break, fast reroute, shutdown | dispatcher, timers, CLI, hello |
| `pi/rsvp_timers.c` | registry of armed timers, generation numbers, a pipe | start, stop, reset, handle_exp | state machine, hello |
| `wheel_timer/` | timer wheel, `expired_list`; a tick thread and two worker threads | add, add periodic, mod, del, destroy | `rsvp_timers.c` |
| `pd/hal_netlink_linux.c` | kernel routes, the cache of `show mpls routes`, an interface cache that nothing reads | route look-up, MPLS install / remove, link events | state machine, dispatcher |
| `pi/rsvp_hello.c` | neighbours, instance numbers, dead timers | add, receive, timers | dispatcher; calls `rsvp_frr_trigger` |
| `pi/rsvp_if.c` | per-interface bandwidth | enable, reserve, release | CLI |
| `pi/rsvp_dispatcher.c`, `main.c` | poll set, `g_running` | poll loop, send, shutdown | signals |
| `pi/rsvp_parser.c`, `pi/rsvp_builder.c` | none between calls | decode, encode | dispatcher, state machine |
| `pi/rsvp_cli.c`, `common/rsvp_log.c`, `pd/hal_timer_linux.c` | none of interest | commands, logging, an unused timerfd wrapper | operator |

**Interaction.** The dispatcher's poll loop calls the parser and then
`rsvp_handle_message` for each packet, `rsvp_cli_handle_input` for each
command, and `rsvp_timer_handle_exp` for expiries. All of these run on the main
thread. The wheel's threads only move timer nodes and write to the pipe.
Handlers call the database, the label manager, the HAL and the timers
synchronously; messages leave through `rsvp_send_packet` and may be lost.

**What is hard.**

* A node's state is refreshed and torn down by messages, timers and commands in
  any order; labels, routes, RSBs and PSBs must stay consistent on every path,
  early returns and an exhausted label pool included.
* Make-before-break and fast reroute change routes that other LSPs share.
* The timers are shared by four threads without a lock around their life cycle.
* Blocks are freed while pointers to them exist.
* Hellos are lost, come late or race with the dead timer; neighbours restart.
* Lengths come from the wire; padding is written and skipped by two pieces of
  code that must agree.
* The route cache and the kernel's table are two copies that nothing compares.

The hazards are listed with their lines in `PROJECT.json`.

**What makes each component correct.**

* Label manager: a label is held by one owner; allocation fails only when
  nothing is free.
* Database and state machine: RSB and PSB point at each other; labels and
  routes belong to exactly one reservation and go with it; forwarding follows
  the latest RESV; all learned state dies without refreshes; withdrawals are
  announced; blockades hold; make-before-break takes down one LSP, with the numbers of
  the incumbent; shutdown leaves nothing.
* Timers: an arming fires at most once, not after it was stopped, and no thread
  touches a freed timer.
* Hello: a neighbour that is alive is not declared dead, one that is gone is;
  every loss of an adjacency triggers reroute for the interface of its entry;
  two routers that can hear each other end up with each other's instance.
* Wheel: a node expires in its tick, whatever bucket it passed through; a
  periodic node is not forgotten and a deleted one does not come back; no
  thread sleeps through a wake-up.
* Parser and builder: what one daemon builds the other reads back; no header
  leads the parser out of the message or makes it loop.
* Dispatcher: every descriptor is served, a stop is acted upon.
* MPLS cache: it shows the kernel's routes.

## 2. Modules

| module | models | proved in |
|---|---|---|
| `LabelPool` | what a label allocator promises | |
| `LabelMgr` | `pi/label_mgr.c` | `LabelMgrProofs` |
| `RsvpStateDb` | the tables, the labels in use, the MPLS routes in the kernel | `RsvpStateMachineProofs` |
| `RsvpStateMachine` | `pi/rsvp_state_machine.c`, one node | `RsvpStateMachineProofs` |
| `RsvpProperties` | the properties of one node | `RsvpPropertiesProofs` |
| `RsvpSilence` | one node whose neighbours fall silent (fairness, liveness) | |
| `RsvpTimers` | `pi/rsvp_timers.c` with the threads of `wheel_timer/` | `RsvpTimersProofs` |
| `RsvpHello` | `pi/rsvp_hello.c` on several routers and the network between them | `RsvpHelloProofs` |
| `TimerWheel` | `wheel_timer/` with its buckets and threads | `TimerWheelProofs` |
| `RsvpMessages` | `pi/rsvp_builder.c`, the layout of the objects, what each sender adds | `RsvpDispatcherProofs` |
| `RsvpDispatcher` | `pi/rsvp_dispatcher.c` and `pi/rsvp_parser.c` | `RsvpDispatcherProofs` |
| `HalMpls` | `hal_mpls_install`, `hal_mpls_remove` and the route cache | `HalMplsProofs` |
| `MCRsvp`, `MCSilence`, `MCTimers`, `MCDispatcher`, `MCMpls` | small sets of keys and headers, symmetry for TLC | |

Operators that a comment calls a mutant are the faulty variants of the
definition that follows them; they show that a property notices the fault and
are used by no specification.

### LabelMgr

`bitmap` has one bit per offset, `label_next` is the cursor and `ret` the value
the last call returned. `Probe(o)` is the label that iteration `o` of the loop
in `label_mgr_alloc` looks at. `label_mgr_free` is called with every label of
the range and with one on each side of it; a label that is out of range or not
allocated is ignored. `LabelPool` says the same without bitmap and cursor:
`Grant` the lowest free label, `Exhausted`, `Return`.

### RsvpStateDb and RsvpStateMachine

A path key is a record `[dest, tid, src, lsp]`. The tables are functions from
keys, with the sets `psbs`, `rsbs`, `bsbs` of keys that have a block; the order
of a hash chain is a nondeterministic choice where the code depends on it
(`rsvp_psb_find_by_id`, `rsvp_frr_auto_associate`, the last writer of a route
that several LSPs share). Cross pointers of PSB and RSB are Booleans, because
both have the same key. `bypass_psb` is a key, `Null`, or `Dangling` once its
PSB has been freed; what a read through it returns is then arbitrary.

`swap` and `push` are the kernel's routes after `hal_mpls_install` (a route
with the same key is replaced) and `hal_mpls_remove`. `sent` holds the messages
of the latest step.

Every handler, callback and command is one action, because they all run to
completion on the main thread. A handler that has several outcomes (invalid,
egress, transit, no route, no label, blockaded, refresh) is a disjunction of
operators named for them. What a route look-up answers is the parameter `r`; it
may differ from call to call, so that routes change at any time. An armed timer
may fire at any time; `RsvpTimers` looks at how. The Hello module's calls of
`rsvp_frr_trigger` may happen at any time, for any interface and for interface
0, which is what a discovered neighbour's entry has.

An object that is missing from a message (`Absent`) is not the same as one that
holds zero. The handlers test for the object only
(`pi/rsvp_state_machine.c` lines 228, 272, 279, 765) and the parser
(`pi/rsvp_parser.c` lines 144-151) does not look at the address, so a HOP of
0.0.0.0, a label 0 (explicit null) and a FLOWSPEC of rate 0 are accepted and
stored. This code sends such messages itself: a RESV without a route upstream
has HOP 0.0.0.0 (lines 1220-1222), and the FLOWSPEC of an egress has rate 0.
The source of an LSP that the operator starts is any of `OwnSrcs`, which need
not be an address of the node (`pi/rsvp_cli.c` lines 214-222).

`strays` is history and not in the code: the LSPs that do not begin here but
have been treated as if they did. Line 855 takes a path without previous hop
for an ingress, whereas the cleanup (lines 1436-1449) goes by `is_ingress`, so
a PATH with HOP 0.0.0.0 followed by a RESV leaves a PUSH route that nothing
removes. When a PATH with a real HOP comes next, an unchanged RESV advertises a
label (line 1202) without programming a SWAP route for it (lines 919-927). An
LSP that ends here and is rerouted gets a PUSH route as well. `RoutesOwned` and
`ShutdownClean` allow a PUSH route for the destination of a stray, and
`TransitForwards` leaves strays out; nothing else depends on `strays`.

Abstracted: TTL, ERO and RRO, session attributes, traffic parameters other than
the rate of the FLOWSPEC, refresh intervals, and the encoding of messages.
`extended_tunnel_id` equals the source address in every key the daemon creates
and is left out.

### RsvpTimers

A PSB block has two timers. `node` tells where the wheel node of a timer is
linked, `active` and `seq` are fields of `rsvp_timer_t`, `active_timers` is the
registry, `timer_pipe` the pipe. A handler of the main thread is unfolded into
its timer operations (`todo`), so that the other threads run between them:

* `tick` moves a pending node to `expired_list` (`pending` becomes false);
* `worker_takes`, `wheel_cb_inactive`, `wheel_cb_writes` and `worker_done` are
  the accesses of a worker to the timer, in the order of the code;
* `rsvp_timer_start` is two steps (stop, arm), as a worker may act in between.

A freed block may be allocated again at once. `seq_reads` gives what a worker
reads: the field, or any number handed out so far when the block is freed.
`corrupt` records that a node was linked while it was still linked elsewhere;
nothing is modelled after that.

### RsvpHello

Every router has a table `g_neighbors[n]` of entries by peer; a slot that is
taken by some other address is counted in `others`. Timers count ticks down.
Everything that is due happens before the next tick, in any order, so a dead
timer may be handled just before the Hello that would have reset it, or just
after it: `rsvp_timer_stop` does nothing once the worker has cleared `active`
(`pi/rsvp_timers.c` line 130, called from `pi/rsvp_hello.c` line 241), and the
poll loop serves the raw socket before the timer pipe. `late` says that such an
expiry is still in the pipe; `dead_timer_late` handles it, and leaves the
neighbour DOWN with its dead timer armed for the Hello that was received.
`OldExpiry` allows this for every timer that was due, whereas in the code it
also depends on the order of the registry. `net` is
the set of messages in flight; a link loses at most `MaxLost` REQUESTs in a row
(ACKs without limit). `rsvp_hello_shutdown` is also a crash: in both cases no
message is sent. `frr` is the call of `rsvp_frr_trigger` made by the latest
step; what the call does is the action `rsvp_frr_trigger` of `RsvpStateMachine`, where it may
happen at any time. `heard` and `lost` are history and bound; they are not in
the code.

### TimerWheel

A node's `bucket` is a level and a slot, `NoBucket` when it is not pending.
Ticks are counted modulo `Wrap` and differences are signed, as with the
unsigned 64-bit counter of the code. `internal_add_timer` is the placement,
`cascades` tells which buckets come down in a tick, `tick` is one round of
`tick_thread_func`. A worker is ready, waiting on the condition variable, busy
with a batch, or has exited; `destroy_stops`, `destroy_wakes` and
`destroy_returns` are the steps of `timer_wheel_destroy` between which other
threads run. A critical section of `wheel->lock` is one action.

The client follows a rule: it does not arm a node that waits for a worker, nor
a periodic one whose callback runs. Outside the rule a node is linked twice;
`rsvp_timers.c` breaks the first part, which is what `RsvpTimers` is about. The
daemon itself uses one-shot timers only and never destroys the wheel.

### RsvpMessages and RsvpDispatcher

An object is its class, C-Type, body size and, for SESSION_ATTRIBUTE, the
length of the name; offsets and lengths are the bytes of the wire. `build` puts
the objects of a sender into a buffer of the sender's size. The contents of
objects are left out, so the checksum is "good", "bad" (damaged on the way) or
"zero" (not computed).

`pc` tells where the loop is: at the test of `g_running`, in `poll()`, handling
the events of a round, or in the parser. Input, errors and signals arrive while
the loop is at the test or in `poll()`; arriving later they are seen in the
next round. One object is parsed per step: a packet of this code has the
objects its builder wrote, at their offsets; anywhere else, and in packets of
other implementations, the header is chosen freely from `ForeignObjs`.
`rsvp_handle_message`, a CLI command, netlink processing and a timer callback
are single steps here; `RsvpStateMachine` and `RsvpHello` say what they do.

### HalMpls

`mpls_routes` is the cache by slot, `kernel` the kernel's table by key (a label,
or a destination for PUSH routes). A call changes the cache first and then asks
the kernel, which may not carry the request out; nobody reads its answer.
`trouble` and `missed` record, for the property, the keys for which cache and
kernel may differ. `restart` empties the cache and leaves the kernel's table.

## 3. Runs

Passing runs:

| run | instance | shows |
|---|---|---|
| `label_mgr` | a small range | no free label below the cursor, refinement of `LabelPool` |
| `transit` | one transit and one egress LSP, a neighbour and the HOP address 0.0.0.0, rates 0 and 1, one label | labels and routes are owned, forwarding follows the RESV, soft state, announced withdrawals, blockades, clean shutdown; the label pool runs out |
| `ingress` | two LSPs of one tunnel, an LSP of another source with the same numbers as one of them (it crosses the node, or the operator starts it here), LSP numbers modulo 2, RESVs with label 0 and 201, PATHs that loop back | commands, make-before-break, number reuse: blocks stay paired, labels are owned, exactly one LSP with the numbers of the incumbent goes |
| `frr` | a bypass and a protected LSP, two interfaces and interface 0, a neighbour and the HOP address 0.0.0.0 | trigger, revert, route changes, dangling bypass pointers: routes are owned, also the PUSH route of the bypass; an LSP that is not rerouted forwards as its RESV says, and one that is stays on its backup until a RESV brings another label or hop (`FrrSticks`) |
| `silence` | one ingress, one transit, one egress LSP, a neighbour and the HOP address 0.0.0.0 | liveness: everything learned is dropped, save the PUSH route of a stray |
| `timers` | one PSB, two workers, two registry slots, three armings | an arming fires at most once, also when the registry is full |
| `hello` | two routers, two instance numbers, tables of one entry, one loss in a row, two stops | an UP neighbour is watched, no dead timer is due for a live neighbour, every loss reroutes; liveness: death is noticed, adjacencies form again |
| `wheel` | one node, two workers, buckets of two on five levels, a counter that wraps | a node fires in its tick, as many ticks after the call as were asked, deletion holds, periodic nodes live on; liveness: callbacks run, destroy returns |
| `dispatcher` | all messages of the daemon at their smallest and largest, messages of others with arbitrary headers | round trip, objects lie inside the message, parsing is bounded; liveness: descriptors are served, a stop acts |
| `mpls` | two destinations, one label, two routes, three slots | the cache shows the kernel's route, calls do not interfere |

The four runs of the state machine tell states apart by everything but `sent`
(`VIEW AllButSent`). No guard reads `sent`, and the action properties, the only
ones that do, are checked on every step, also on one that leads to a state seen
before.

`ingress` does not check `RoutesOwned`: once a PATH that looped back has set
`prev_hop` of an ingress PSB, the next RESV takes the transit branch, and the
PUSH route that was installed before is not removed with the reservation.

Runs that show where the code departs from what its documentation or comments
say; each has an entry under `findings`:

| run | statement | what happens |
|---|---|---|
| `mbb_interrupts` | zero traffic interruption | cleaning up the incumbent removes the PUSH route the new LSP has just installed |
| `timer_freed` | no callbacks on freed memory | an expiry already in the pipe is called back |

Further differences met while modelling, which the actions show directly and
which have no run of their own.

State machine and timers:

* `bypass_psb` ("Direct pointer to the pre-established bypass PSB",
  `pi/rsvp_state.h` line 76) points to freed memory after the bypass is torn
  down;
* a RESV with a new label or hop reprograms the primary path while `frr_active`
  ("traffic uses the backup path", `pi/rsvp_state.h` line 74) stays set;
* `rsvp_timer_start` stops a timer first "to avoid corrupting the wheel lists"
  (`pi/rsvp_timers.c` line 108), but a node that has expired and not run is
  linked twice all the same;
* a timer that a refresh has re-armed ("if no refresh arrives",
  `pi/rsvp_state.h` line 64) may still expire for its old arming;
* the egress advertises a label for which it programs no route
  (README line 238: "Pop (egress) rule programmed");
* a looped PATH is "dropped" only after `prev_hop` and the timers of the ingress
  PSB have been changed (`pi/rsvp_state_machine.c` lines 618 and 678);
* `rsvp_psb_find_by_id` compares tunnel and LSP number only, so that
  make-before-break may take down an LSP of another ingress in the place of the
  incumbent (`MbbTakesOne` allows it, and the `ingress` run reaches it);
* a HOP of 0.0.0.0 is accepted and makes the LSP an ingress to some lines and
  not to others, with a PUSH route that stays or a label without a route as the
  outcome (see `strays` in section 2);
* `bypass_psb` is kept when the LSP's route moves to another interface; the
  trigger then uses a bypass that covers another interface, and the revert,
  which goes by the bypass's interface, does not find the LSP;
* shutdown sends PathTears but no ResvTears (`main.c` line 78);
* a worker may still write to a timer whose block has been freed;
* cleanup timers run for (K + 0.5) R, as RFC 2205 has it, not for K R
  (README line 83);
* netlink link events are logged only (README line 73).

Hello:

* a Hello that comes when the dead timer has expired and its expiry is not yet
  handled re-arms the timer, and the old expiry then takes the neighbour DOWN
  with its dead timer armed (`pi/rsvp_hello.c` line 241 stops the timer first);
  the next Hello brings it UP again. `NoFalseAlarm` is about timers that are
  due: an expiry that is late needs a real silence before it;
* entries that are left behind in the registry (`RsvpTimers`) can make the
  registry lose an expiry; `RsvpHello` assumes a registry that does not fill up;
* a neighbour is UP after the first Hello from it, whatever instance of ours
  that confirms (`pi/rsvp_hello.h` line 34: "Bidirectional Hello exchange
  confirmed");
* an entry made for an unknown neighbour has interface 0 for ever ("the state
  machine will update it if needed", `pi/rsvp_hello.c` line 209), and table
  entries are never freed;
* a neighbour that recovers does not revert fast reroute;
* instance numbers come from `rand()` seeded with the second of the start
  (`main.c` line 52): two starts within a second repeat them, and the restart
  is not noticed. `Instances` has two members so that this happens;
* the hello interval an operator sets for an interface is not used;
* the parser does not guarantee a HELLO object in a HELLO message, as
  `pi/rsvp_state_machine.c` line 1170 says; the handler tests for it.

Wheel:

* a node that comes down by a cascade in the very tick of its expiry
  (`wheel_timer/wheel_timer.h` line 29) fires one tick later (`DueTick`);
* delays are counted in ticks, from the last tick and not from the call
  (`wheel_timer/wheel_timer.h` line 63: "Delay from now in milliseconds"): 10 ms
  asked 9 ms into a tick of 10 ms fire after 1 ms, and ticks made up after a
  pause (`wheel_timer/wheel_timer.c` line 355) shorten a delay further. The
  model has no clock; `AskedTicks` is about ticks;
* a node that the last tick expires after the workers have left is dropped when
  the wheel is destroyed.

Dispatcher, parser and builder:

* an error on the netlink socket is logged and never cleared, so the socket is
  not read again and the loop spins;
* a signal between the test and `poll()` is noticed at the next event only;
* a message that cannot be parsed is logged; no error message is sent (TODO in
  `pi/rsvp_dispatcher.c` line 178);
* an object that does not fit into the buffer is left out, and the senders do
  not look; `RoundTrip` shows that every message they build fits;
* a router that receives 32 recorded hops forwards no RRO at all;
* no ResvErr of this code carries a FLOWSPEC, so that blockades form only with
  other implementations (`pi/rsvp_state_machine.c` line 1096);
* the IP checksum is computed before the Router Alert option is written; the
  kernel computes it again.

MPLS cache:

* a route can occupy several slots, so the printed total may be too high and
  the cache may be full with fewer than `MAX_MPLS_ROUTES` routes;
* requests the kernel refuses, routes it flushes and routes of an earlier run
  go unnoticed.

### Bounds

* Two or three keys: every property relates at most two LSPs; in `ingress` the
  third has the same numbers as one of the two, so that make-before-break has a
  choice of victims, or is the bystander it must not touch.
* `Hops = {0, 11}` in `transit`, `frr` and `silence`; `ingress` has only real
  HOP addresses, because its PATHs that loop back already let an ingress gain
  and lose its previous hop. Label 0 is in `ingress`, and in the proofs, which
  allow every label, rate and HOP address in all properties.
* One label for two LSPs in `transit`: the pool runs out, and a label passes
  from one LSP to the other.
* `LspIdSpace = 2`: `next_lsp_id` wraps (2^16 in the code) and meets PSBs that
  are still there.
* Two rates in `transit`, 0 and 1: a RESV below and one at the blockaded
  flowspec, and a FLOWSPEC of rate 0 beside a missing one. `Flows = {}` in
  `ingress`, `frr` and `silence` leaves FLOWSPECs and blockades out.
* `MaxSeq = 4`, counted from 1, gives three armings: the two timers of a PSB,
  and one more after a stop or after the PSB was freed, so that a message can
  meet a later arming of its timer. `MaxActive = 2` lets the registry fill up
  with entries that were left behind, so that an arming finds no slot.
* `hello`: a Hello interval of two ticks lets timers of the two routers be out
  of step; a table of one entry is full as soon as another neighbour is there;
  two stops let both routers, or one twice, restart; `MaxLost = 1` is the most
  that a dead factor of 3 stands (`MaxLost + 2 <= DeadFactor`; with 2 the
  property fails).
* `wheel`: buckets of two on five levels cover 32 ticks (2^32 in the code);
  delays reach every level, odd ones are rounded up; the counter wraps at 64.
  `MaxLag` bounds how late a callback may be. One node: nodes share nothing but
  the lists they are moved to.
* `dispatcher`: names of 0, 3 (padding) and 255 bytes, routes of 0 and 32 hops
  and 31 or 32 recorded ones give the smallest and the largest PATH; messages
  of others have up to 34 bytes, with lengths that are zero, unaligned, beyond
  the end, or with padding beyond the end.
* `mpls`: three keys and three slots, so that a route cached twice fills the
  cache. The order of slots matters, so only routes are symmetric.

`CHECK_DEADLOCK FALSE` is set for the state machine because it stops after
shutdown, for the timers because they stop at `MaxSeq` and after a list has
been corrupted, for the wheel because nothing happens after it has been
destroyed, and for the dispatcher because its loop ends.

### Fairness

`RsvpSilence`: for each key, a cleanup timer that stays armed expires. The tick thread runs until the wheel is stopped, and
the poll loop drains the pipe whenever it is readable. Nothing is assumed about
messages, commands or refreshes. `SilenceClears` is about the state machine on
top of timers that work; `RsvpTimers` has interleavings in which the timer
module does not provide this.

`RsvpHello`: time passes, due timers are handled, and a message in flight is
delivered, dropped or lost; an expiry left in the pipe is handled; commands,
stops and starts need not happen. The
poll loop returns to the pipe and to the socket (`Served`), the wheel ticks.

`TimerWheel`: each thread that can go on does, and callbacks return; a client
that has begun to destroy the wheel goes on. The client need not call anything.

`RsvpDispatcher`: the loop goes on (handlers return); input, errors and signals
need not come.

## 4. Proofs

`LabelMgrProofs`, for every range `label_min <= label_max`:

* `TypeCorrect`, `CursorCorrect`: the invariant is `Inv`, the types together
  with "no free label below the cursor". Neither is inductive alone: the cursor
  moves past the label just taken, which is right only because everything
  before it was taken too (`FoundIsLowest`), and a free below the cursor moves
  it back.
* `Refinement`: `Spec => ImplementsPool`. `ProbeCovers` shows that the wrapped
  loop visits every label, so that failure means exhaustion; `FoundIsLowest`
  that the label found is the lowest free one.

`RsvpTimersProofs`, for every set of blocks and workers and every `MaxActive`
and `MaxSeq` greater than 0:

* `TimersTypeCorrect`, `TimersFireOnce`. `FiresOnce` alone is not inductive.
  `RegistryExact` adds that every registry entry belongs to an arming that has
  not fired, that no two slots hold the same arming, and that unassigned
  numbers have not fired. A message is called back only if the first slot of
  its timer has its number, and that slot is emptied in the same step, so no
  slot of that arming is left, whatever the worker wrote into the pipe.

`RsvpHelloProofs`, for every finite set of routers, every set of instances,
every table size and all intervals and bounds:

* `HelloTypeCorrect`, `HelloUpIsWatched`: `Inv`, the types together with "the
  dead timer of an UP neighbour is armed", "a tracked neighbour has an instance
  of ours to send" and "an UP neighbour has an instance of its own". The first
  has no converse: a late expiry leaves a neighbour DOWN with the timer armed.
* `HelloLossReroutes`: an adjacency that was UP does not end or pass to another
  instance without `rsvp_frr_trigger`. The last part of `Inv` carries it: the
  restart branch of `rsvp_hello_recv` compares instances only when the stored
  one is not 0, so a restart would go unnoticed if an UP entry could hold 0.
* `HelloNoFalseAlarm`, if `MaxLost + 2 <= DeadFactor`. The property is about one
  router's dead timer, its cause is the other router's Hello timer and the
  losses in between. `AllInTime` relates them: the dead timer of a router that
  has heard its neighbour has at least as many ticks left as the neighbour needs
  for the REQUESTs that may still be lost and one more. `SentNow` (a message in
  flight was sent in this tick) and `HeardTracked` make it inductive: when the
  Hello timer has just been restarted and the tick is not over, the REQUEST is
  still in `net`, has been lost and counted, or has been delivered.

`HalMplsProofs`, for every number of slots and every set of labels,
destinations and routes:

* `MplsTypeCorrect`, `MplsShowAgrees`, `MplsNoInterference`. `ShowAgrees` is
  inductive with the types: an install writes at or before the first slot of
  its key, since it takes the first slot that is free or matches, and so the
  newest copy is the one printed first; a removal clears every copy. That other
  keys are untouched is `MplsNoInterference`, which needs that the slot taken is
  free or has the key.

`RsvpStateMachineProofs` and `RsvpPropertiesProofs`, for every set of keys,
labels, neighbours, interfaces and flow sizes:

* `NodeTypeCorrect`: the types, handler by handler. The types are kept apart
  from the rest because they need no other fact.
* The other proofs do not go through the handlers one by one. The lemma
  `StepKinds` shows that every step of the node is of one of nine kinds, by what
  it does to the tables, labels and routes: `Quiet` (none of them changes in a
  way that matters), `PathSet`, `EgressSet`, `ResvSet`, `Installed` (a block is
  written, a reservation gets its label and route), `ResvGone`, `PathsGone` (a
  reservation, or paths with theirs, are released), `Trigger` and `Revert` (fast
  reroute). A property is then shown for nine kinds and not for some thirty
  outcomes of handlers.
* `NodeInvariant`: `Inv`, whose parts hold each other up. `Blank` (a key
  without a block has the fresh value, so that a new block starts clean) and
  `Linked` (RSB and PSB point at each other) let the cleanup of a PSB find its
  RSB; with that, `LabelsOwned` (labels taken are the in-labels of RSBs, one
  each) survives teardown, and `SwapOwned` (a SWAP route has the label of an
  RSB) survives the label's next life. `Origin` (a path without previous hop
  begins here or is in `strays`, and one that begins here has a source of
  `OwnSrcs`) decides which kind of route a reservation has; `MbbApart` (an LSP
  is not its own incumbent) keeps make-before-break from taking down the LSP it
  has just installed.
* From it: `BlocksLinked`, `LabelsAreOwned`, `SoftStateTimed`, and about steps
  `WithdrawalIsAnnounced`, `BlockadeIsHeld`, `MbbTakesOnlyOne`,
  `FrrIsSticky`. The last needs `LabelsOwned`: another LSP's step cannot write
  the route of a rerouted one, because no other RSB has its label.
* `RoutesAreOwned`, `TransitIsProgrammed`, `ShutdownReleasesAll`: under the
  hypothesis `NoLoops`, no PATH that this node originates comes back to it and
  the operator gives sources that are addresses of the node (a PATH with another
  source could come from elsewhere too). Without it `RoutesOwned` is false (see
  the note on `ingress` in section 3): the loop gives an ingress PSB a previous
  hop. The extra invariant is `Roles`: whether an LSP begins here decides its
  previous hop, in-label and kind of route, apart from strays, which
  `StraysNoted` shows to be noted in every step. HOP addresses of 0.0.0.0 are
  allowed; what they leave behind is what the properties exempt. The runs
  `transit` and `frr`, which check these properties, satisfy the hypothesis.
* `MbbIsPending`: make-before-break is not pending once the new LSP has its
  reservation, if no LSP that the operator can start both ends at this node and
  can have its PATH come in from the network; such a PATH creates a reservation
  without `rsvp_handle_resv`, which completes the replacement.

`TimerWheelProofs`, for every number of nodes and workers, every size of the
levels, every tick length and set of delays:

* `WheelInvariant`: `WheelInv`. At its centre is `Filed`: a pending node is in
  the bucket that comes up, by a cascade or by expiry, no later than its due
  tick, and in it if it is on the first level. `LinkFiled` shows that
  `internal_add_timer` files a node so, and `TickFiled` that a tick moves it
  down to such a bucket or expires it; both rest on `CascadeAt` (in which tick a
  bucket of a level comes down) and on the fact that slots do not notice the
  wrap of the counter, whose range is a multiple of the range of the wheel. The
  other parts say where a node is: a deleted one in no bucket, a periodic one
  in one place only (`OnePlace`), and at most `MaxLag` ticks behind when it is
  with a worker (`LagOK`), which bounds its next expiry.
* From it: `WheelTypeCorrect` (no bucket outside its level), `DeletedStaysOut`,
  `PeriodicIsAlive`, `FiresOnTime`, `FiresAfterAskedTicks` (in ticks, not in
  milliseconds of a clock; see section 3).
* Assumed of the constants: the counter's range is a multiple of the wheel's
  range and at least twice as large (2^64 and 2^32 in the code), delays and
  periods are shorter than the wheel's range, and no callback is late by half
  the counter's range (`2 * MaxLag < Wrap`), beyond which the code's signed
  comparison of ticks means nothing.

`RsvpDispatcherProofs`, for every set of name lengths up to 255 bytes and of
routes up to 32 hops, and for packets of other implementations with any types,
lengths and object headers (any class, C-Type, length and name length):

* `DispatcherTypeCorrect`, `ParserStaysInside`, `ParserIsBounded`, from
  `ParserInv`. The parser's position and what is left never exceed the message
  (`Bounds`), because a length is compared with the rest before the object is
  used and the padding before it is skipped; between packets nothing of the
  last one is left (`Idle`).
* `MessagesRoundTrip`, for the names and routes above. Three arguments meet:
  - what is sent fits: `Part` gives every kind of object a range of offsets, wide
    enough for its largest instance, in the order in which the senders add the
    objects. Objects in that order (`Made`) end before byte 984, which is inside
    every sender's buffer (a HELLO ends at byte 20 of 128), and are of different
    kinds;
  - what the builder writes: `BuildLaid`, by induction over the sequence, shows
    that `build` puts every object at the end of the one before (`Laid`). The
    recursive function of `build` is shown to exist (`BuildStages`), and the
    induction is one on sets of naturals (`Induction`), derived from the
    well-foundedness of `<`, since a theorem with an operator parameter cannot
    be cited;
  - what the parser reads: `ReadBack` says that the parser has passed `steps`
    objects, stands at the next one's offset and has noted exactly those. The
    kinds differ, so none is taken for a repetition; the length of an aligned
    object fits into what is left; at the end the mandatory ones are there.

`TypeOK` of `LabelMgr`, `RsvpTimers` and `HalMpls` is proved and not checked by a run.

Only model-checked: what needs fairness, which the prover does not do
(`SilenceClears`, `DeathNoticed`, `AdjacencyForms`, `CallbackRuns`,
`DestroyReturns`, `Served`, `StopActs`).

## 5. Not modelled

* `pi/rsvp_if.c`: its settings are stored and printed; `rsvp_if_reserve_bw` and
  `rsvp_if_release_bw` have no caller.
* The interface cache of `pd/hal_netlink_linux.c`, which nothing reads, and the
  encoding of netlink messages.
* The CLI's parsing and printing, logging, the unused timerfd wrapper.
* The contents of objects, apart from what the handlers act upon; builder
  functions that nothing calls.
* Failures of `socket`, `poll` and `recvfrom` on the raw socket, which are
  logged or end the daemon; memory exhaustion; failures in creating the wheel.

## 6. Plan

Done: label manager, one node's state machine, timers and wheel, Hello,
dispatcher, parser and builder, MPLS cache.

1. `RsvpNetwork`: a line of nodes and lossy channels, each node an instance of
   the handlers: end-to-end labels, teardown and recovery from loss.
