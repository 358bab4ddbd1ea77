--------------------------- MODULE Registrations ---------------------------
(***************************************************************************)
(* Attendees register for an event and withdraw.  The Attendee             *)
(* Registration Service reads the event, then calls the Registration       *)
(* Service, which knows of the event only what it is told.  Registering    *)
(* takes an advisory lock per event, looks for the attendee's row, counts  *)
(* the places taken, and writes; withdrawing takes no advisory lock but    *)
(* that of the row.  Each writes a notice in the same transaction, and     *)
(* each may die anywhere, which rolls back and frees its locks.            *)
(***************************************************************************)
EXTENDS Integers, Sequences, FiniteSets

CONSTANTS Events, Attendees,
          Callers,      \* requests under way at a time
          Nobody,       \* the holder of a lock that is free
          Capacities,   \* bound: the attendances an event can expect
          MaxChanges,   \* bound: re-checks, and steps of the clock
          MaxNotices    \* bound: no new request about a registration that has as many notices

ASSUME NobodyAssumption == Nobody \notin Callers
ASSUME CapacitiesAssumption == Capacities \subseteq Nat \ {0} /\ Capacities # {}
ASSUME BoundsAssumption == MaxChanges \in Nat /\ MaxNotices \in Nat

VARIABLES events,   \* Event Service: status, expected attendance, where the clock stands
          rows,     \* public."Registration": the status of each attendee's row
          notices,  \* per registration the notices that were written, in order
          eventLock, rowLock, \* who holds the advisory lock of an event, the lock of a row
          calls,    \* the requests under way
          offered,  \* the largest attendance that each event was ever open for
          changes   \* how often events changed

vars == <<events, rows, notices, eventLock, rowLock, calls, offered, changes>>

(* The clock of an event: before the withdrawal deadline, after it, started. *)
Clock == {"open", "deadline", "started"}
EventInfo == [status : {"Confirmed", "Pending Safety Check", "Cancelled"}, capacity : Capacities, clock : Clock]
Pairs == Events \X Attendees
Kinds == {"registration.confirmed", "registration.withdrawn"}

Idle == [at |-> "idle"]
Registering == [at : {"checked", "locked", "own", "counted"}, pair : Pairs, capacity : Capacities]
Withdrawing == [at : {"leaving", "left"}, pair : Pairs]

Init ==
    /\ events \in [Events -> [status : {"Confirmed"}, capacity : Capacities, clock : {"open"}]]
    /\ rows = [p \in Pairs |-> "none"]
    /\ notices = [p \in Pairs |-> <<>>]
    /\ eventLock = [e \in Events |-> Nobody]
    /\ rowLock = [p \in Pairs |-> Nobody]
    /\ calls = [c \in Callers |-> Idle]
    /\ offered = [e \in Events |-> events[e].capacity]
    /\ changes = 0

Confirmed(e) == {a \in Attendees : rows[<<e, a>>] = "Confirmed"}
EventOf(c) == calls[c].pair[1]
Goes(c, stage) == calls' = [calls EXCEPT ![c].at = stage]

(* A transaction ends: whatever it holds is free. *)
Freed(locks, c) == [x \in DOMAIN locks |-> IF locks[x] = c THEN Nobody ELSE locks[x]]
KeepsAdvisory(c) ==  \* mutant: a lock of the session, which outlives the transaction
    /\ calls' = [calls EXCEPT ![c] = Idle]
    /\ UNCHANGED eventLock
    /\ rowLock' = Freed(rowLock, c)

Ends(c) ==
    /\ calls' = [calls EXCEPT ![c] = Idle]
    /\ eventLock' = Freed(eventLock, c)
    /\ rowLock' = Freed(rowLock, c)

-----------------------------------------------------------------------------
(* Registering *)

(* The composite finds the event among the confirmed ones, not started, and takes its capacity. *)
BeginRegistration(c, p) ==
    /\ calls[c] = Idle
    /\ Len(notices[p]) < MaxNotices
    /\ events[p[1]].status = "Confirmed"
    /\ events[p[1]].clock # "started"
    /\ calls' = [calls EXCEPT ![c] = [at |-> "checked", pair |-> p, capacity |-> events[p[1]].capacity]]
    /\ UNCHANGED <<events, rows, notices, eventLock, rowLock, offered, changes>>

LockNothing(c) ==  \* mutant: no lock
    /\ calls[c].at = "checked"
    /\ Goes(c, "locked")
    /\ UNCHANGED <<events, rows, notices, eventLock, rowLock, offered, changes>>

LockEvent(c) ==
    /\ calls[c].at = "checked"
    /\ eventLock[EventOf(c)] = Nobody
    /\ eventLock' = [eventLock EXCEPT ![EventOf(c)] = c]
    /\ Goes(c, "locked")
    /\ UNCHANGED <<events, rows, notices, rowLock, offered, changes>>

FindOwn(c) ==
    /\ calls[c].at = "locked"
    /\ IF rows[calls[c].pair] = "Confirmed" THEN Ends(c)
                                            ELSE Goes(c, "own") /\ UNCHANGED <<eventLock, rowLock>>
    /\ UNCHANGED <<events, rows, notices, offered, changes>>

CountPlaces(c) ==
    /\ calls[c].at = "own"
    /\ IF Cardinality(Confirmed(EventOf(c))) >= calls[c].capacity
       THEN Ends(c) ELSE Goes(c, "counted") /\ UNCHANGED <<eventLock, rowLock>>
    /\ UNCHANGED <<events, rows, notices, offered, changes>>

(* The new row, or the attendee's withdrawn one, which may be locked: Confirmed. *)
WriteRegistration(c) ==
    /\ calls[c].at = "counted"
    /\ rowLock[calls[c].pair] = Nobody
    /\ rows' = [rows EXCEPT ![calls[c].pair] = "Confirmed"]
    /\ notices' = [notices EXCEPT ![calls[c].pair] = Append(@, "registration.confirmed")]
    /\ Ends(c)
    /\ UNCHANGED <<events, offered, changes>>

-----------------------------------------------------------------------------
(* Withdrawing *)

(* The composite finds the attendee's registration not withdrawn, the event confirmed and the deadline ahead. *)
BeginWithdrawal(c, p) ==
    /\ calls[c] = Idle
    /\ Len(notices[p]) < MaxNotices
    /\ rows[p] = "Confirmed"
    /\ events[p[1]].status = "Confirmed"
    /\ events[p[1]].clock = "open"
    /\ calls' = [calls EXCEPT ![c] = [at |-> "leaving", pair |-> p]]
    /\ UNCHANGED <<events, rows, notices, eventLock, rowLock, offered, changes>>

LockAnyRow(c) ==  \* mutant: whether it is withdrawn already is not looked at
    /\ calls[c].at = "leaving"
    /\ rowLock[calls[c].pair] = Nobody
    /\ rowLock' = [rowLock EXCEPT ![calls[c].pair] = c] /\ Goes(c, "left")
    /\ UNCHANGED <<events, rows, notices, eventLock, offered, changes>>

LockRow(c) ==
    /\ calls[c].at = "leaving"
    /\ rowLock[calls[c].pair] = Nobody
    /\ IF rows[calls[c].pair] = "Withdrawn"
       THEN Ends(c)
       ELSE /\ rowLock' = [rowLock EXCEPT ![calls[c].pair] = c] /\ Goes(c, "left")
            /\ UNCHANGED eventLock
    /\ UNCHANGED <<events, rows, notices, offered, changes>>

WithdrawSpelt(c) ==  \* mutant: another spelling of the status
    /\ calls[c].at = "left"
    /\ rows' = [rows EXCEPT ![calls[c].pair] = "Cancelled"]
    /\ notices' = [notices EXCEPT ![calls[c].pair] = Append(@, "registration.withdrawn")]
    /\ Ends(c)
    /\ UNCHANGED <<events, offered, changes>>

WriteWithdrawal(c) ==
    /\ calls[c].at = "left"
    /\ rows' = [rows EXCEPT ![calls[c].pair] = "Withdrawn"]
    /\ notices' = [notices EXCEPT ![calls[c].pair] = Append(@, "registration.withdrawn")]
    /\ Ends(c)
    /\ UNCHANGED <<events, offered, changes>>

(* A call does not arrive, or its process or connection dies: the transaction is rolled back. *)
Die(c) ==
    /\ calls[c] # Idle
    /\ Ends(c)
    /\ UNCHANGED <<events, rows, notices, offered, changes>>

-----------------------------------------------------------------------------
(* What happens to the event *)

Changes(e, info) ==
    /\ events' = [events EXCEPT ![e] = info]
    /\ offered' = [offered EXCEPT ![e] = IF info.status = "Confirmed" /\ info.capacity > @ THEN info.capacity ELSE @]
    /\ UNCHANGED <<rows, notices, eventLock, rowLock, calls>>

(* A high-impact edit of a confirmed event sends it to a new safety check, with other numbers or dates. *)
Recheck(e, capacity, clock) ==
    /\ events[e].status = "Confirmed"
    /\ changes < MaxChanges /\ changes' = changes + 1
    /\ Changes(e, [status |-> "Pending Safety Check", capacity |-> capacity, clock |-> clock])

DecideCheck(e, status) ==
    /\ events[e].status = "Pending Safety Check"
    /\ Changes(e, [events[e] EXCEPT !.status = status])
    /\ UNCHANGED changes

TimePasses(e) ==
    /\ events[e].clock # "started"
    /\ changes < MaxChanges /\ changes' = changes + 1
    /\ \E t \in Clock : /\ t # "open" /\ t # events[e].clock
                        /\ Changes(e, [events[e] EXCEPT !.clock = t])

-----------------------------------------------------------------------------
Steps(c) == FindOwn(c) \/ CountPlaces(c) \/ WriteWithdrawal(c)
Waits(c) == LockEvent(c) \/ WriteRegistration(c) \/ LockRow(c)

Next ==
    \/ \E c \in Callers :
        \/ \E p \in Pairs : BeginRegistration(c, p) \/ BeginWithdrawal(c, p)
        \/ Steps(c) \/ Waits(c) \/ Die(c)
    \/ \E e \in Events :
        \/ \E n \in Capacities, t \in Clock : Recheck(e, n, t)
        \/ \E s \in {"Confirmed", "Cancelled"} : DecideCheck(e, s)
        \/ TimePasses(e)

(* A transaction goes on; a lock that is asked for is granted at last, as the database queues those who wait. *)
Fairness == \A c \in Callers : WF_vars(Steps(c)) /\ SF_vars(Waits(c))

Spec == Init /\ [][Next]_vars /\ Fairness

-----------------------------------------------------------------------------
(* Every row, call and lock is of its kind. *)
RegistrationsTypeOK ==
    /\ events \in [Events -> EventInfo]
    /\ rows \in [Pairs -> {"none", "Confirmed", "Withdrawn"}]
    /\ notices \in [Pairs -> Seq(Kinds)]
    /\ eventLock \in [Events -> Callers \cup {Nobody}]
    /\ rowLock \in [Pairs -> Callers \cup {Nobody}]
    /\ calls \in [Callers -> {Idle} \cup Registering \cup Withdrawing]
    /\ offered \in [Events -> Capacities]
    /\ changes \in 0 .. MaxChanges

(* No event has more confirmed registrations than it was ever open for: the last  *)
(* place is not given twice, whatever withdrawals, registrations again and        *)
(* changes of the capacity are under way (create_registration).                   *)
NoOverbooking == \A e \in Events : Cardinality(Confirmed(e)) <= offered[e]

(* What an attendee is told is what happened: confirmed and withdrawn in turn,    *)
(* one notice for every change of the row, the last of them its status, though    *)
(* two withdrawals, a registration again and a death can meet on one row          *)
(* (record_notification).                                                         *)
StatusAfter(n) == IF n = 0 THEN "none" ELSE IF n % 2 = 1 THEN "Confirmed" ELSE "Withdrawn"
NoticeNumber(n) == IF n % 2 = 1 THEN "registration.confirmed" ELSE "registration.withdrawn"

NoticesTellTheStatus ==
    \A p \in Pairs :
        /\ rows[p] = StatusAfter(Len(notices[p]))
        /\ \A n \in 1 .. Len(notices[p]) : notices[p][n] = NoticeNumber(n)

(* No request waits for ever: each lock comes free, also that of a process that   *)
(* died, and those who wait for it are not passed over                            *)
(* (pg_advisory_xact_lock, FOR UPDATE).                                           *)
EveryRequestEnds == \A c \in Callers : (calls[c] # Idle) ~> (calls[c] = Idle)
=============================================================================
