-------------------------------- MODULE Xhci --------------------------------
(***************************************************************************)
(* The USB host controller and its keyboard (xhci.rs): the command ring,   *)
(* the control endpoint's ring and the interrupt endpoint's ring, each     *)
(* with cycle bits and a link entry at its end, and the event ring the     *)
(* driver polls.  Bring-up goes from a reset controller to an enabled      *)
(* slot, an addressed device, a configured endpoint, and then to report    *)
(* polls; a poll that gives up leaves its transfer with the controller.    *)
(*                                                                         *)
(* Calls are serialized by CONTROLLER's lock; the controller (external)    *)
(* works between the push of a transfer and each look at the event ring.   *)
(* A pointer is a ring and a slot; `id` is a number no two entries share,  *)
(* for the properties only.                                                *)
(***************************************************************************)
EXTENDS Naturals, TLC

CONSTANTS LINK,                \* slot of the link entry: 255
          EVENTS,              \* entries of the event ring: 256
          MAX_EVENTS_PER_WAIT,
          MaxEntries,          \* bound: entries pushed in a behaviour
          MaxPortEvents,       \* bound: port status events
          None

VARIABLES ring,      \* the three rings, producer and (external) consumer side
          event,     \* the event ring: entries, the driver's and the controller's position
          stage,     \* how far bring-up, or a run of enumerate_hid, has come
          hid,       \* self.hid is set
          call,      \* the call in progress
          buffer,    \* the report buffer: the entry whose data it holds
          pushed, ports,
          amiss      \* history: "foreign", a call succeeded with another entry's event or
                     \* data; "lapped", an entry was written over one still on its way

xhciVars == <<ring, event, stage, hid, call, buffer, pushed, ports, amiss>>

Endpoints == {"ep0", "hid"}
Rings == {"command"} \cup Endpoints
Slots == 0 .. LINK - 1
Idle == [at |-> "idle"]
NoEntry == [id |-> 0, kind |-> "none", cycle |-> FALSE]

\* `page` stands for the address of the ring's memory.
Ring_new(page) == [page |-> page, trb |-> [s \in Slots |-> NoEntry], link |-> TRUE,
                   index |-> 0, cycle |-> TRUE, at |-> 0, ccs |-> TRUE]

NoEvents ==
    [trb |-> [s \in 0 .. EVENTS - 1 |-> [type |-> "none", page |-> None, slot |-> 0, id |-> 0, ok |-> FALSE, cycle |-> FALSE]],
     index |-> 0, cycle |-> TRUE, head |-> 0, pcs |-> TRUE]

XhciInit ==
    /\ ring = [r \in Rings |-> Ring_new(<<r, 0>>)]
    /\ event = NoEvents
    /\ stage = "reset" /\ hid = FALSE
    /\ call = Idle
    /\ buffer = 0
    /\ pushed = 0 /\ ports = 0
    /\ amiss = {}

-----------------------------------------------------------------------------
(* The driver.                                                             *)

\* push: past the last slot the cycle is toggled and the link is written with it.
push(r, id, kind) ==
    LET wrap == r.index = LINK
        index == IF wrap THEN 0 ELSE r.index
        cycle == IF wrap THEN ~r.cycle ELSE r.cycle
    IN  [r EXCEPT !.trb[index] = [id |-> id, kind |-> kind, cycle |-> cycle],
                  !.link = IF wrap THEN cycle ELSE @,
                  !.cycle = cycle,
                  !.index = index + 1]

\* A call: the stage it starts from and the one its success leads to, the rings it makes
\* anew, the ring it uses and the number of entries it pushes, of which the last is waited
\* for.  An endpoint's ring takes the place of the old one when the command that tells the
\* controller of it has succeeded; the command ring is new from the start.
Step(from, to, fresh, uses, size) ==
    [from |-> from, to |-> to, fresh |-> fresh, ring |-> uses, size |-> size]

\* The end of initialize: the controller was reset and given new rings.
enable_slot == Step("reset", "slot", {"command"}, "command", 1)
\* enumerate_hid starts here, as often as init_hid is called.
address_device == Step("slot", "addressed", {"ep0"}, "command", 1)
control_in == Step("addressed", "described", {}, "ep0", 3)
control_no_data == Step("described", "described", {}, "ep0", 2)
configure_hid_endpoint == Step("described", "slot", {"hid"}, "command", 1)
poll_hid_report == Step("slot", "slot", {}, "hid", 1)

\* The order of enumerate_hid: each step follows the success of the one before.
Calls == [enable_slot |-> enable_slot, address_device |-> address_device, control_in |-> control_in,
          control_no_data |-> control_no_data, configure_hid_endpoint |-> configure_hid_endpoint,
          poll_hid_report |-> poll_hid_report]

Renewed(fresh) == [r \in Rings |-> IF r \in fresh THEN Ring_new(<<r, pushed>>) ELSE ring[r]]

Kind(c, n) == IF n < c.size THEN "stage" ELSE IF c.ring = "command" THEN "command" ELSE "transfer"

\* The entries of a call, the earlier ones first.
Pushes(c, r) ==
    LET one == push(r, pushed + 1, Kind(c, 1))
        two == push(one, pushed + 2, Kind(c, 2))
        three == push(two, pushed + 3, Kind(c, 3))
    IN  CASE c.size = 1 -> one [] c.size = 2 -> two [] OTHER -> three

\* A slot whose entry was not consumed, or whose event was not read, from a lap before.
Open(r, slot) ==
    \/ r.trb[slot].kind # "none" /\ r.trb[slot].cycle = r.ccs /\ slot >= r.at
    \/ \E i \in DOMAIN event.trb : /\ event.trb[i].page = r.page /\ event.trb[i].slot = slot
                                  /\ (i + EVENTS - event.index) % EVENTS < (event.head + EVENTS - event.index) % EVENTS

\* The report buffer is cleared, the entries are pushed and the doorbell is rung.
Begin(name) ==
    LET c == Calls[name]
        rings == Renewed(c.fresh \ Endpoints)
        after == Pushes(c, rings[c.ring])
    IN  /\ call = Idle /\ stage = c.from
        /\ name = "poll_hid_report" => hid
        /\ pushed + c.size <= MaxEntries
        /\ ring' = [rings EXCEPT ![c.ring] = after]
        /\ pushed' = pushed + c.size
        /\ call' = [at |-> "wait", name |-> name, ring |-> c.ring, page |-> after.page, slot |-> after.index - 1,
                    id |-> pushed + c.size, left |-> MAX_EVENTS_PER_WAIT]
        /\ buffer' = IF name = "poll_hid_report" THEN 0 ELSE buffer
        /\ amiss' = IF \E slot \in Slots : after.trb[slot].id > pushed /\ Open(rings[c.ring], slot)
                    THEN amiss \cup {"lapped"} ELSE amiss
        /\ event' = IF name = "enable_slot" THEN NoEvents ELSE event
        /\ UNCHANGED <<stage, hid, ports>>

Waiting == event.trb[event.index]
Posted == Waiting.cycle = event.cycle

\* Mutant: the pointer is not compared.
AnyPointerMutant(e) == TRUE

Pointer(e) == e.page = call.page /\ e.slot = call.slot

\* An error ends initialize, or the run of enumerate_hid; either may be called again.
GivenUp == IF stage = "reset" THEN "reset" ELSE "slot"

\* wait_event consumes an entry.  Events of another type are passed over; a command's
\* completion must be the expected one, a transfer's is passed over when it is not.
wait ==
    LET e == Waiting
        index == (event.index + 1) % EVENTS
        type == IF call.ring = "command" THEN "command" ELSE "transfer"
        skip == e.type # type \/ (type = "transfer" /\ ~Pointer(e))
        success == ~skip /\ Pointer(e) /\ e.ok
    IN  /\ call.at = "wait" /\ Posted
        /\ event' = [event EXCEPT !.index = index, !.cycle = IF index = 0 THEN ~@ ELSE @]
        /\ call' = IF skip /\ call.left > 1 THEN [call EXCEPT !.left = @ - 1] ELSE Idle
        /\ IF success THEN /\ stage' = Calls[call.name].to
                           /\ hid' = (hid \/ call.name = "configure_hid_endpoint")
                           /\ ring' = Renewed(Calls[call.name].fresh \cap Endpoints)
           ELSE /\ stage' = IF call'.at = "idle" THEN GivenUp ELSE stage
                /\ UNCHANGED <<hid, ring>>
        /\ amiss' = IF success /\ (e.id # call.id \/ (call.ring = "hid" /\ buffer # call.id))
                    THEN amiss \cup {"foreign"} ELSE amiss
        /\ UNCHANGED <<buffer, pushed, ports>>

Timeout ==
    /\ call.at = "wait" /\ ~Posted
    /\ call' = Idle
    /\ stage' = GivenUp
    /\ UNCHANGED <<ring, event, hid, buffer, pushed, ports, amiss>>

-----------------------------------------------------------------------------
(* The controller.                                                         *)

\* The consumer toggles its cycle at the link when the link's cycle is its own.
FollowLink(r) ==
    /\ ring[r].at = LINK /\ ring[r].link = ring[r].ccs
    /\ ring' = [ring EXCEPT ![r].at = 0, ![r].ccs = ~@]
    /\ UNCHANGED <<event, stage, hid, call, buffer, pushed, ports, amiss>>

Room == (event.head + 1) % EVENTS # event.index

Post(e) ==
    [event EXCEPT !.trb[event.head] = e @@ [cycle |-> event.pcs],
                  !.head = (event.head + 1) % EVENTS,
                  !.pcs = IF event.head + 1 = EVENTS THEN ~@ ELSE @]

\* The entry at the consumer's position is its own: it is carried out, and all but the
\* early stages of a control transfer report it.
Consume(r, ok) ==
    /\ ring[r].at < LINK
    /\ LET t == ring[r].trb[ring[r].at]
       IN  /\ t.cycle = ring[r].ccs /\ t.kind # "none"
           /\ ring' = [ring EXCEPT ![r].at = @ + 1]
           /\ buffer' = IF r = "hid" /\ ok THEN t.id ELSE buffer
           /\ IF t.kind = "stage" THEN ok /\ UNCHANGED event
              ELSE Room /\ event' = Post([type |-> t.kind, page |-> ring[r].page, slot |-> ring[r].at, id |-> t.id, ok |-> ok])
    /\ UNCHANGED <<stage, hid, call, pushed, ports, amiss>>

PortEvent ==
    /\ ports < MaxPortEvents /\ Room
    /\ ports' = ports + 1
    /\ event' = Post([type |-> "port", page |-> None, slot |-> 0, id |-> 0, ok |-> TRUE])
    /\ UNCHANGED <<ring, stage, hid, call, buffer, pushed, amiss>>

XhciNext ==
    \/ \E name \in DOMAIN Calls : Begin(name)
    \/ wait \/ Timeout \/ PortEvent
    \/ \E r \in Rings : FollowLink(r) \/ \E ok \in BOOLEAN : Consume(r, ok)

XhciSpec == XhciInit /\ [][XhciNext]_xhciVars

-----------------------------------------------------------------------------
(* Properties.                                                             *)

\* A command or transfer is reported done on the event of the entry it pushed, and a
\* report poll returns the data that entry received, whatever earlier calls gave up on and
\* however late their completions come; only after a whole lap of abandoned entries can a
\* slot stand for two of them (wait_command_completion, wait_transfer_completion,
\* poll_hid_report).
EventsOwn == "lapped" \notin amiss => "foreign" \notin amiss
=============================================================================
