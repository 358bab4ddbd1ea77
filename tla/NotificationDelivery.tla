------------------------ MODULE NotificationDelivery ------------------------
(***************************************************************************)
(* From an outbox row to an inbox.  Four services own an outbox each and   *)
(* write a row in the transaction that causes the notification.  For each  *)
(* of them a dispatcher claims one row at a time under a lease, looks up   *)
(* what the row lacks, has the owner freeze the envelope, publishes it to  *)
(* the queue notifications.v1 and records that.  One consumer stores what  *)
(* it receives and acknowledges it.                                        *)
(*                                                                         *)
(* An envelope is abstracted to its recipient, display facts to whether    *)
(* they can be found.  A lease token is a number that no other request in  *)
(* flight carries.  Time only passes: a lease ends, a backoff ends.        *)
(***************************************************************************)
EXTENDS Integers, Sequences, FiniteSets, SequencesExt

CONSTANTS Users,       \* people
          Nobody,      \* no recipient (yet)
          Kinds,       \* the types of notification that are recorded
          Worlds,      \* what the lookups find at first
          MaxUpsets    \* bound: notifications beyond the first (two each), calls that fail, processes that die,
                       \* facts that change, acts of people

EventFanOuts == {"event.submission-fanout", "safety.review-fanout", "attendee.cancelled-fanout"}
EventKinds == EventFanOuts \cup {"event.coordinator-assigned", "event.change-request-submitted", "event.approval"}
VenueKinds == {"venue.booking-submission-fanout", "venue.closure-rejection", "venue.booking-decision"}
RegistrationKinds == {"registration.confirmed", "registration.legacy"}
EquipmentKinds == {"equipment.request-submission"}
FanOuts == EventFanOuts \cup {"venue.booking-submission-fanout"}

ASSUME KindsAssumption ==
    Kinds # {} /\ Kinds \subseteq EventKinds \cup VenueKinds \cup RegistrationKinds \cup EquipmentKinds
ASSUME PeopleAssumption == Users # {} /\ IsFiniteSet(Users) /\ Nobody \notin Users
ASSUME WorldsAssumption ==
    Worlds \subseteq [staff : SUBSET Users, coordinator : Users \cup {Nobody}, facts : BOOLEAN]
ASSUME BoundsAssumption == MaxUpsets \in Nat

(* The source id of a row: its own, or that of a child, made of the parent's and the recipient's. *)
Ids == {<<k>> : k \in Kinds} \cup ((Kinds \cap FanOuts) \X Users)
Child(f, u) == <<f[1], u>>
IsChild(i) == Len(i) = 2
IsFanOut(i) == i[1] \in FanOuts /\ ~IsChild(i)

Owners == {"event", "venue", "registration", "equipment"}
Owner(i) ==
    CASE i[1] \in EventKinds -> "event" [] i[1] \in VenueKinds -> "venue"
      [] i[1] \in RegistrationKinds -> "registration" [] i[1] \in EquipmentKinds -> "equipment"

VARIABLES rows,       \* the outboxes: per source id its row
          line,       \* the rows by available_at
          worker,     \* per owner: the one-shot worker of its dispatcher
          strays,     \* requests of workers that died, which may still be executed
          queue,      \* notifications.v1: messages not acknowledged, in order
          consumer,   \* "ready", or "stored": the first message is committed and not acknowledged
          inbox,      \* public."Notification" by source id
          quarantine, \* public."NotificationFailure": what could not be stored
          gone,       \* the notifications whose event or recipient has been removed
          world,      \* what the lookups find
          upsets      \* how much the bound has counted so far

outboxes == <<rows, line>>
broker == <<queue, consumer, inbox, quarantine>>
vars == <<rows, line, worker, strays, queue, consumer, inbox, quarantine, gone, world, upsets>>

States == {"absent", "due", "held", "published"}
Row == [state : States, token : Nat, live : BOOLEAN, waits : BOOLEAN,
        to : Users \cup {Nobody}, envelope : Users \cup {Nobody}]
Absent == [state |-> "absent", token |-> 0, live |-> FALSE, waits |-> FALSE, to |-> Nobody, envelope |-> Nobody]
Due(to, envelope) == [Absent EXCEPT !.state = "due", !.to = to, !.envelope = envelope]

Operations == {"freeze", "published", "retry", "hold", "expand"}
Worker == [at : Operations \cup {"idle", "lookup", "publish", "stuck"}, id : Ids, token : Nat,
           to : Users \cup {Nobody}, many : SUBSET Users]
World == [staff : SUBSET Users, coordinator : Users \cup {Nobody}, facts : BOOLEAN]

(* What the bound counts. *)
Upset == upsets < MaxUpsets /\ upsets' = upsets + 1

Idle(w) == [w EXCEPT !.at = "idle", !.token = 0, !.to = Nobody, !.many = {}]

Init ==
    /\ rows = [i \in Ids |-> Absent]
    /\ line = <<>>
    /\ worker \in [Owners -> {[at |-> "idle", id |-> CHOOSE i \in Ids : TRUE, token |-> 0, to |-> Nobody, many |-> {}]}]
    /\ strays = {}
    /\ queue = <<>> /\ consumer = "ready"
    /\ inbox = [i \in Ids |-> <<>>] /\ quarantine = {} /\ gone = {}
    /\ world \in Worlds
    /\ upsets = 0

(***************************************************************************)
(* The transactions that cause notifications.                              *)
(***************************************************************************)
Recorded == {i \in Ids : rows[i].state # "absent"}

Insert(i, row) ==
    /\ rows[i].state = "absent"
    /\ IF line = <<>> THEN UNCHANGED upsets ELSE upsets + 2 <= MaxUpsets /\ upsets' = upsets + 2
    /\ rows' = [rows EXCEPT ![i] = row]
    /\ line' = Append(line, i)
    /\ UNCHANGED <<worker, strays, broker, gone, world>>

(* event-service: the recipients are left to the dispatcher. *)
RecordFanOut(f) == f \in EventFanOuts \cap Kinds /\ Insert(<<f>>, Due(Nobody, Nobody))

(* event-service: to the coordinator or organiser that the locked row names. *)
RecordNotification(k, u) ==
    /\ k \in {"event.coordinator-assigned", "event.approval"} \cap Kinds
    /\ Insert(<<k>>, Due(u, Nobody))

(* event-service: to whoever is the coordinator when it is first prepared. *)
RecordEventChange(k) == k \in {"event.change-request-submitted"} \cap Kinds /\ Insert(<<k>>, Due(Nobody, Nobody))

(* venue-availability-service: staff, the requester of the booking, the coordinator of the event. *)
EnqueueBooking(k, u) ==
    \/ k = "venue.booking-submission-fanout" /\ k \in Kinds /\ Insert(<<k>>, Due(Nobody, Nobody))
    \/ k = "venue.booking-decision" /\ k \in Kinds /\ Insert(<<k>>, Due(u, Nobody))
EnqueueClosure(k) == k \in {"venue.closure-rejection"} \cap Kinds /\ Insert(<<k>>, Due(Nobody, Nobody))

(* registration-service: to the attendee. A row has the display facts the composite passed; one that *)
(* a direct call recorded without them has the same type, and is the kind "registration.legacy" here.  *)
RecordRegistration(k, u) == k \in RegistrationKinds \cap Kinds /\ Insert(<<k>>, Due(u, Nobody))

(* equipment-request-service: the envelope is complete in the transaction of the request. *)
EnqueueEquipment(k, u) == k \in EquipmentKinds \cap Kinds /\ Insert(<<k>>, Due(u, u))

Record ==
    \E k \in Kinds, u \in Users :
        \/ RecordFanOut(k) \/ RecordNotification(k, u) \/ RecordEventChange(k)
        \/ EnqueueBooking(k, u) \/ EnqueueClosure(k)
        \/ RecordRegistration(k, u) \/ EnqueueEquipment(k, u)

(***************************************************************************)
(* The owners' internal API.  Every operation but the claim and the        *)
(* release carries the lease token and is refused (409) without the lease. *)
(***************************************************************************)
EventOperations == {"freeze", "published", "retry", "hold", "expand"}
VenueOperations == {"freeze", "published", "retry", "expand"}
RegistrationOperations == {"freeze", "published", "retry"}
EquipmentOperations == {"published", "retry"}

OperationsOf(o) ==
    CASE o = "event" -> EventOperations [] o = "venue" -> VenueOperations
      [] o = "registration" -> RegistrationOperations [] o = "equipment" -> EquipmentOperations

(* Mutant: a lease that has ended is never taken over. *)
OnlyUnleased(i) == rows[i].state = "due" /\ ~rows[i].waits /\ rows[i].token = 0

Claimable(i) ==
    LET row == rows[i]
    IN  row.state = "due" /\ ~row.waits /\ (row.token = 0 \/ ~row.live)

(* Mutant: any token will do. *)
Unfenced(i, token) == rows[i].state # "published"

Fenced(i, token) == rows[i].token = token /\ rows[i].live /\ rows[i].state # "published"

(* What the owners accept as the recipient of an envelope. *)
EventEnvelopeIsValid(i, to) == i[1] = "event.change-request-submitted" \/ to = rows[i].to
VenueEnvelopeIsValid(i, to) == i[1] = "venue.closure-rejection" \/ to = rows[i].to
RegistrationEnvelopeIsValid(i, to) == to = rows[i].to

EnvelopeIsValid(i, to) ==
    CASE Owner(i) = "event" -> EventEnvelopeIsValid(i, to)
      [] Owner(i) = "venue" -> VenueEnvelopeIsValid(i, to)
      [] Owner(i) = "registration" -> RegistrationEnvelopeIsValid(i, to)
      [] Owner(i) = "equipment" -> FALSE

EventExpands(r) == r.id[1] \in EventFanOuts
VenueExpands(r) == r.id[1] = "venue.booking-submission-fanout" /\ r.many # {}

Accepts(r) ==
    /\ Fenced(r.id, r.token)
    /\ r.op \in OperationsOf(Owner(r.id))
    /\ r.op = "expand" => IsFanOut(r.id) /\ (EventExpands(r) \/ VenueExpands(r))
    /\ r.op = "freeze" => rows[r.id].envelope # Nobody \/ EnvelopeIsValid(r.id, r.to)
    /\ r.op = "published" => rows[r.id].envelope # Nobody

Unleased(row) == [row EXCEPT !.token = 0, !.live = FALSE]
(* Mutant: the lease of a published row stays. *)
PublishedLeased(row) == [row EXCEPT !.state = "published"]

Published(row) == [Unleased(row) EXCEPT !.state = "published"]
Held(row) == [Unleased(row) EXCEPT !.state = "held"]
Released(row) == [row EXCEPT !.state = "due", !.waits = FALSE]

(* Mutant: a retried row is prepared anew. *)
RetriedAnew(row) == [Unleased(row) EXCEPT !.waits = TRUE, !.envelope = Nobody]

Retried(row) == [Unleased(row) EXCEPT !.waits = TRUE]
Frozen(row, to) == IF row.envelope = Nobody THEN [row EXCEPT !.envelope = to] ELSE row

Expand(r) ==
    LET children == {Child(r.id, u) : u \in r.many}
    IN  /\ rows' = [i \in Ids |-> IF i \in children THEN Due(i[2], Nobody)
                                  ELSE IF i = r.id THEN Published(rows[i]) ELSE rows[i]]
        /\ line' = line \o SetToSeq(children)

ToTheEnd(i) == Append(RemoveAt(line, CHOOSE n \in DOMAIN line : line[n] = i), i)

(* One transaction of an owner. *)
Execute(r) ==
    \/ r.op = "expand" /\ Expand(r)
    \/ r.op = "freeze" /\ rows' = [rows EXCEPT ![r.id] = Frozen(@, r.to)] /\ UNCHANGED line
    \/ r.op = "published" /\ rows' = [rows EXCEPT ![r.id] = Published(@)] /\ UNCHANGED line
    \/ r.op = "hold" /\ rows' = [rows EXCEPT ![r.id] = Held(@)] /\ UNCHANGED line
    \/ r.op = "retry" /\ rows' = [rows EXCEPT ![r.id] = Retried(@)] /\ line' = ToTheEnd(r.id)

(* An operator, who has repaired the name, releases a held row. *)
Release(i) ==
    /\ rows[i].state = "held"
    /\ Upset
    /\ rows' = [rows EXCEPT ![i] = Released(@)]
    /\ line' = ToTheEnd(i)
    /\ UNCHANGED <<worker, strays, broker, gone, world>>

(***************************************************************************)
(* The dispatchers.                                                        *)
(***************************************************************************)
InUse(i) ==
    {rows[i].token} \cup {worker[o].token : o \in {p \in Owners : worker[p].id = i}}
                    \cup {r.token : r \in {s \in strays : s.id = i}}
FreshToken(i) == CHOOSE t \in 1..(Cardinality(InUse(i)) + 1) : t \notin InUse(i)

(* The first row in line that an owner has to hand out. *)
IsFirst(i, o) ==
    \E n \in DOMAIN line :
        /\ line[n] = i /\ Owner(i) = o /\ Claimable(i)
        /\ \A m \in 1..(n - 1) : Owner(line[m]) # o \/ ~Claimable(line[m])

Leased(row, token) == [row EXCEPT !.token = token, !.live = TRUE]
AtWork(i, token) ==
    [at |-> IF rows[i].envelope = Nobody THEN "lookup" ELSE "publish", id |-> i,
     token |-> token, to |-> rows[i].envelope, many |-> {}]

Claim(o, answered) ==
    \E i \in Ids :
        /\ worker[o].at = "idle"
        /\ IsFirst(i, o)
        /\ rows' = [rows EXCEPT ![i] = Leased(@, FreshToken(i))]
        /\ worker' = IF answered THEN [worker EXCEPT ![o] = AtWork(i, FreshToken(i))] ELSE worker
        /\ UNCHANGED <<line, strays, broker, gone, world>>

(* What the lookups for a fan-out find: one set of recipients, or no usable answer. *)
EventRecipients(k) ==
    IF k = "event.submission-fanout" /\ world.staff # {} /\ ~world.facts THEN {} ELSE {world.staff}
VenueRecipients == IF world.staff = {} \/ ~world.facts THEN {} ELSE {world.staff}
Recipients(k) == IF k \in VenueKinds THEN VenueRecipients ELSE EventRecipients(k)

(* Whom the dispatchers address a row to: one user, or no usable answer. *)
ChangeRecipients ==
    IF world.coordinator # Nobody THEN {world.coordinator}
    ELSE IF Cardinality(world.staff) = 1 THEN world.staff ELSE {}
EventAddressees(i) ==
    IF i[1] = "event.change-request-submitted" THEN ChangeRecipients
    ELSE IF i[1] = "event.coordinator-assigned" /\ ~world.facts THEN {} ELSE {rows[i].to}
VenueAddressees(i) ==
    IF IsChild(i) THEN {rows[i].to}
    ELSE IF ~world.facts THEN {}
    ELSE IF i[1] = "venue.closure-rejection" THEN {world.coordinator} \ {Nobody} ELSE {rows[i].to}
RegistrationAddressees(i) ==
    IF i[1] = "registration.legacy" /\ ~world.facts THEN {} ELSE {rows[i].to}

Addressees(i) ==
    CASE Owner(i) = "event" -> EventAddressees(i)
      [] Owner(i) = "venue" -> VenueAddressees(i)
      [] Owner(i) = "registration" -> RegistrationAddressees(i)
      [] Owner(i) = "equipment" -> {}

(* The name in a notice to a coordinator does not exist: a person has to repair it. *)
NameUnavailable(i) == i[1] = "event.coordinator-assigned" /\ ~world.facts

Lookup(o) ==
    LET w == worker[o]
    IN  /\ w.at = "lookup"
        /\ \/ \E many \in Recipients(w.id[1]) :
                 IsFanOut(w.id) /\ worker' = [worker EXCEPT ![o].at = "expand", ![o].many = many]
           \/ \E u \in Addressees(w.id) :
                 ~IsFanOut(w.id) /\ worker' = [worker EXCEPT ![o].at = "freeze", ![o].to = u]
           \/ NameUnavailable(w.id) /\ worker' = [worker EXCEPT ![o].at = "hold"]
           \/ /\ (IF IsFanOut(w.id) THEN Recipients(w.id[1]) ELSE Addressees(w.id)) = {}
              /\ ~NameUnavailable(w.id)
              /\ worker' = [worker EXCEPT ![o].at = "retry"]
        /\ UNCHANGED <<outboxes, strays, broker, gone, world, upsets>>

Request(w) == [op |-> w.at, id |-> w.id, token |-> w.token, to |-> w.to, many |-> w.many]

(* An exception: the job is retried; when the retry or the hold itself fails, the lease will end. *)
Failed(w) == IF w.at \in {"retry", "hold"} THEN Idle(w) ELSE [w EXCEPT !.at = "retry"]

Answered(w) ==
    IF w.at = "freeze" THEN [w EXCEPT !.at = "publish", !.to = rows'[w.id].envelope] ELSE Idle(w)

Call(o) ==
    /\ worker[o].at \in Operations
    /\ IF Accepts(Request(worker[o]))
       THEN Execute(Request(worker[o])) /\ worker' = [worker EXCEPT ![o] = Answered(@)]
       ELSE UNCHANGED outboxes /\ worker' = [worker EXCEPT ![o] = Failed(@)]
    /\ UNCHANGED <<strays, broker, gone, world, upsets>>

(* Mutant: the publisher does not wait for the confirmation. *)
PublishAndForget(o) ==
    /\ worker[o].at = "publish"
    /\ queue' \in {queue, Append(queue, [id |-> worker[o].id, to |-> worker[o].to])}
    /\ worker' = [worker EXCEPT ![o].at = "published"]
    /\ UNCHANGED <<outboxes, strays, consumer, inbox, quarantine, gone, world, upsets>>

(* The broker confirms: the message is in the durable queue. *)
Publish(o) ==
    /\ worker[o].at = "publish"
    /\ queue' = Append(queue, [id |-> worker[o].id, to |-> worker[o].to])
    /\ worker' = [worker EXCEPT ![o].at = "published"]
    /\ UNCHANGED <<outboxes, strays, consumer, inbox, quarantine, gone, world, upsets>>

(* The parent kills and reaps a worker that has used up its 50 seconds. *)
AttemptTimesOut(o) ==
    /\ worker[o].at = "stuck"
    /\ worker' = [worker EXCEPT ![o] = Idle(@)]
    /\ UNCHANGED <<outboxes, strays, broker, gone, world, upsets>>

(* A lease of 60 seconds outlives the attempt that claimed it. *)
LeaseEnds(i) ==
    /\ rows[i].live
    /\ \A o \in Owners : worker[o].at # "idle" => worker[o].id # i
    /\ rows' = [rows EXCEPT ![i] = [@ EXCEPT !.live = FALSE]]
    /\ UNCHANGED <<line, worker, strays, broker, gone, world, upsets>>

(* The backoff of a retried row is over. *)
BackoffEnds(i) ==
    /\ rows[i].waits
    /\ rows' = [rows EXCEPT ![i] = [@ EXCEPT !.waits = FALSE]]
    /\ UNCHANGED <<line, worker, strays, broker, gone, world, upsets>>

(***************************************************************************)
(* What goes wrong.                                                        *)
(***************************************************************************)
ClaimAnswerLost(o) == Upset /\ Claim(o, FALSE)

(* A lookup, a call or a publication fails and nothing happened at the other side. *)
CallFails(o) ==
    /\ Upset
    /\ worker[o].at \in Operations \cup {"lookup", "publish"}
    /\ worker' = [worker EXCEPT ![o] = Failed(@)]
    /\ UNCHANGED <<outboxes, strays, broker, gone, world>>

(* A call is executed and its answer is lost. *)
AnswerLost(o) ==
    /\ Upset
    /\ worker[o].at \in Operations
    /\ Accepts(Request(worker[o])) /\ Execute(Request(worker[o]))
    /\ worker' = [worker EXCEPT ![o] = Failed(@)]
    /\ UNCHANGED <<strays, broker, gone, world>>

(* A message is queued, or not, and no confirmation ever comes. *)
PublishHangs(o) ==
    /\ Upset
    /\ worker[o].at = "publish"
    /\ \/ queue' = Append(queue, [id |-> worker[o].id, to |-> worker[o].to])
       \/ UNCHANGED queue
    /\ worker' = [worker EXCEPT ![o].at = "stuck"]
    /\ UNCHANGED <<outboxes, strays, consumer, inbox, quarantine, gone, world>>

(* A worker dies. The request it was sending may still be under way. *)
Die(o) ==
    /\ Upset
    /\ worker[o].at # "idle"
    /\ strays' = strays \cup (IF worker[o].at \in Operations THEN {Request(worker[o])} ELSE {})
    /\ worker' = [worker EXCEPT ![o] = Idle(@)]
    /\ UNCHANGED <<outboxes, broker, gone, world>>

StrayArrives(r) ==
    /\ strays' = strays \ {r}
    /\ IF Accepts(r) THEN Execute(r) ELSE UNCHANGED outboxes
    /\ UNCHANGED <<worker, broker, gone, world, upsets>>

(* The consumer loses its connection before it acknowledged: the broker delivers again. *)
Disconnect ==
    /\ Upset
    /\ consumer = "stored"
    /\ consumer' = "ready"
    /\ UNCHANGED <<outboxes, worker, strays, queue, inbox, quarantine, gone, world>>

(***************************************************************************)
(* The consumer and the inbox.                                             *)
(***************************************************************************)
(* Mutant: a message that comes again is stored again. *)
DeliverAgain(m) == [inbox EXCEPT ![m.id] = Append(@, [to |-> m.to, read |-> FALSE])]

Deliver(m) ==
    IF inbox[m.id] = <<>> THEN [inbox EXCEPT ![m.id] = <<[to |-> m.to, read |-> FALSE]>>] ELSE inbox

Process ==
    LET m == Head(queue)
    IN  /\ consumer = "ready" /\ queue # <<>>
        /\ consumer' = "stored"
        /\ IF m.id \in gone /\ inbox[m.id] = <<>>
           THEN quarantine' = quarantine \cup {m} /\ UNCHANGED inbox
           ELSE inbox' = Deliver(m) /\ UNCHANGED quarantine
        /\ UNCHANGED <<outboxes, worker, strays, queue, gone, world, upsets>>

Acknowledge ==
    /\ consumer = "stored"
    /\ queue' = Tail(queue) /\ consumer' = "ready"
    /\ UNCHANGED <<outboxes, worker, strays, inbox, quarantine, gone, world, upsets>>

SetRead(i, read) ==
    /\ inbox[i] # <<>> /\ inbox[i][1].read # read
    /\ Upset
    /\ inbox' = [inbox EXCEPT ![i] = <<[@[1] EXCEPT !.read = read]>>]
    /\ UNCHANGED <<outboxes, worker, strays, queue, consumer, quarantine, gone, world>>

(* What the lookups read changes: roles, the coordinator, names; or the event goes away. *)
Change ==
    /\ Upset
    /\ \/ \E S \in SUBSET Users : world' = [world EXCEPT !.staff = S] /\ UNCHANGED gone
       \/ \E u \in Users \cup {Nobody} : world' = [world EXCEPT !.coordinator = u] /\ UNCHANGED gone
       \/ world' = [world EXCEPT !.facts = ~@] /\ UNCHANGED gone
       \/ \E i \in Recorded : inbox[i] = <<>> /\ gone' = gone \cup {i} /\ UNCHANGED world
    /\ world' # world \/ gone' # gone
    /\ UNCHANGED <<outboxes, worker, strays, broker>>

(***************************************************************************)
(* The specification.                                                      *)
(***************************************************************************)
Dispatch(o) ==
    \/ Claim(o, TRUE) /\ UNCHANGED upsets
    \/ Lookup(o) \/ Call(o) \/ Publish(o)

Next ==
    \/ Record \/ Process \/ Acknowledge \/ Disconnect \/ Change
    \/ \E o \in Owners :
         Dispatch(o) \/ AttemptTimesOut(o) \/ ClaimAnswerLost(o) \/ CallFails(o) \/ AnswerLost(o)
         \/ PublishHangs(o) \/ Die(o)
    \/ \E r \in strays : StrayArrives(r)
    \/ \E i \in Ids :
         Release(i) \/ LeaseEnds(i) \/ BackoffEnds(i) \/ \E b \in BOOLEAN : SetRead(i, b)

(* The loops of the dispatchers and of the consumer run for ever, and time passes. *)
Fairness ==
    /\ \A o \in Owners : WF_vars(Dispatch(o)) /\ WF_vars(AttemptTimesOut(o))
    /\ \A i \in Ids : WF_vars(LeaseEnds(i)) /\ WF_vars(BackoffEnds(i))
    /\ WF_vars(Process) /\ WF_vars(Acknowledge)

Spec == Init /\ [][Next]_vars /\ Fairness

(***************************************************************************)
(* Properties.                                                             *)
(***************************************************************************)
(* Every variable has its type; a token is held together with a lease only. *)
TypeOK ==
    /\ rows \in [Ids -> Row]
    /\ \A i \in Ids : rows[i].live => rows[i].token # 0 /\ rows[i].state = "due"
    /\ ToSet(line) = Recorded /\ Len(line) = Cardinality(Recorded)
    /\ worker \in [Owners -> Worker]
    /\ \A r \in strays : r.op \in Operations /\ r.id \in Recorded
    /\ queue \in Seq([id : Ids, to : Users]) /\ consumer \in {"ready", "stored"}
    /\ \A i \in Ids : Len(inbox[i]) <= 1 /\ ToSet(inbox[i]) \subseteq [to : Users, read : BOOLEAN]
    /\ quarantine \subseteq [id : Ids, to : Users] /\ gone \subseteq Ids /\ world \in World

Waiting(i) == \E m \in ToSet(queue) : m.id = i
Quarantined(i) == \E m \in quarantine : m.id = i

(* What an outbox records as published is in the queue, in the inbox or in the quarantine, whatever
   was lost and whoever died on the way: a published row is never looked at again. *)
NothingLost ==
    \A i \in Recorded :
        rows[i].state = "published" /\ ~IsFanOut(i) => Waiting(i) \/ inbox[i] # <<>> \/ Quarantined(i)

(* All copies of a notification that were ever sent carry the recipient that was frozen first,
   although every retry looks the recipient up anew and the coordinator may change in between;
   and the share of one recipient of a fan-out is for that recipient. *)
OneEnvelope ==
    /\ \A m \in ToSet(queue) \cup quarantine : m.to = rows[m.id].envelope
    /\ \A i \in Ids : inbox[i] # <<>> => inbox[i][1].to = rows[i].envelope
    /\ \A i \in Recorded : IsChild(i) => rows[i].envelope \in {Nobody, i[2]}

(* A row that waits for a person's repair has not been addressed or sent by anyone, not even by a
   late request of a worker that died: the repaired name will be in the notification. *)
HeldWasNeverSent ==
    \A i \in Recorded :
        rows[i].state = "held" =>
            rows[i].envelope = Nobody /\ ~Waiting(i) /\ inbox[i] = <<>> /\ ~Quarantined(i)

(* The path keeps the promise of Notices: addressed once, split once, shown at most once, and read
   as its addressee left it, however often it is published and delivered. *)
Promise == INSTANCE Notices WITH
    owed <- Recorded,
    split <- {i \in Recorded : IsFanOut(i) /\ rows[i].state = "published"},
    addressee <- [i \in Ids |-> rows[i].envelope],
    Shares <- [i \in Ids |-> IF IsFanOut(i) THEN {Child(i, u) : u \in Users} ELSE {}]

KeepsThePromise == Promise!Spec

Settled(i) ==
    IF IsFanOut(i) THEN rows[i].state = "published"
    ELSE inbox[i] # <<>> \/ Quarantined(i) \/ rows[i].state = "held"

Answerable(i) ==
    IF IsFanOut(i) THEN Recipients(i[1]) # {}
    ELSE rows[i].envelope # Nobody \/ Addressees(i) # {} \/ NameUnavailable(i)

(* Every notification is shown, quarantined or held at last, unless the facts it needs cannot be
   found: no worker, lease, retry or redelivery loses it or keeps it from its turn. *)
EveryNoticeSettles == []<>(\A i \in Recorded : Settled(i) \/ ~Answerable(i))
=============================================================================
