------------------------ MODULE RegistrationsProofs ------------------------
(***************************************************************************)
(* Registrations for any number of events, attendees and requests, and     *)
(* whatever attendance events expect.  That no event is overbooked is not  *)
(* inductive: what a request has found stays true only while it holds a    *)
(* lock, so the invariant says of each request what it has found and which *)
(* lock protects it (CallOK).                                              *)
(***************************************************************************)
EXTENDS Registrations, FiniteSetTheorems, TLAPS

RegisteringStages == {"checked", "locked", "own", "counted"}

CallOK(c) ==
    /\ calls[c].at \in RegisteringStages => calls[c].capacity <= offered[EventOf(c)]
    /\ calls[c].at \in {"locked", "own", "counted"} => eventLock[EventOf(c)] = c
    /\ calls[c].at \in {"own", "counted"} => rows[calls[c].pair] # "Confirmed"
    /\ calls[c].at = "counted" => Cardinality(Confirmed(EventOf(c))) < calls[c].capacity
    /\ calls[c].at = "leaving" => rows[calls[c].pair] # "none"
    /\ calls[c].at = "left" => rowLock[calls[c].pair] = c /\ rows[calls[c].pair] = "Confirmed"

PlacesOK(e) ==
    /\ IsFiniteSet(Confirmed(e))
    /\ Cardinality(Confirmed(e)) <= offered[e]
    /\ events[e].status = "Confirmed" => events[e].capacity <= offered[e]

Tells(told, status) ==
    /\ status = StatusAfter(Len(told))
    /\ \A n \in 1 .. Len(told) : told[n] = NoticeNumber(n)

RegistrationsInv ==
    /\ RegistrationsTypeOK
    /\ \A e \in Events : PlacesOK(e)
    /\ \A p \in Pairs : Tells(notices[p], rows[p])
    /\ \A c \in Callers : CallOK(c)

CallRecord == {Idle} \cup Registering \cup Withdrawing

----------------------------------------------------------------------------
(* The records of requests.                                                *)
LEMMA RegisteringCall ==
    ASSUME NEW k \in CallRecord, k.at \in RegisteringStages
    PROVE  k \in Registering /\ k.pair \in Pairs /\ k.capacity \in Capacities /\ k # Idle
BY DEF CallRecord, Idle, Registering, Withdrawing, RegisteringStages

(* A request at a step of the withdrawal. *)
LEMMA WithdrawingCall ==
    ASSUME NEW k \in CallRecord, k.at \in {"leaving", "left"}
    PROVE  k \in Withdrawing /\ k.pair \in Pairs /\ k # Idle
BY DEF CallRecord, Idle, Registering, Withdrawing

(* A registration that goes on keeps what it is about. *)
LEMMA NextStage ==
    ASSUME NEW k \in Registering, NEW s \in RegisteringStages
    PROVE  /\ [k EXCEPT !.at = s] \in Registering
           /\ [k EXCEPT !.at = s].at = s
           /\ [k EXCEPT !.at = s].pair = k.pair
           /\ [k EXCEPT !.at = s].capacity = k.capacity
BY DEF Registering, RegisteringStages

(* So does a withdrawal. *)
LEMMA RowLocked ==
    ASSUME NEW k \in Withdrawing
    PROVE  /\ [k EXCEPT !.at = "left"] \in Withdrawing
           /\ [k EXCEPT !.at = "left"].at = "left"
           /\ [k EXCEPT !.at = "left"].pair = k.pair
BY DEF Withdrawing

(* The types of the variables, as the proofs cite them. *)
LEMMA Types ==
    ASSUME RegistrationsInv
    PROVE  /\ rows \in [Pairs -> {"none", "Confirmed", "Withdrawn"}]
           /\ eventLock \in [Events -> Callers \cup {Nobody}]
           /\ rowLock \in [Pairs -> Callers \cup {Nobody}]
           /\ calls \in [Callers -> CallRecord]
           /\ offered \in [Events -> Capacities]
           /\ Capacities \subseteq Nat
           /\ \A p \in Pairs : p[1] \in Events /\ p[2] \in Attendees /\ p = <<p[1], p[2]>>
BY CapacitiesAssumption DEF RegistrationsInv, RegistrationsTypeOK, CallRecord, Pairs

----------------------------------------------------------------------------
(* A step of a request that changes no row.                                *)
LEMMA ControlKeepsInv ==
    ASSUME RegistrationsInv, NEW c \in Callers, NEW k \in CallRecord,
           UNCHANGED <<events, rows, notices, offered, changes>>,
           calls' = [calls EXCEPT ![c] = k],
           eventLock' \in [Events -> Callers \cup {Nobody}],
           rowLock' \in [Pairs -> Callers \cup {Nobody}],
           \A d \in Callers \ {c} :
               /\ \A e \in Events : eventLock[e] = d => eventLock'[e] = d
               /\ \A p \in Pairs : rowLock[p] = d => rowLock'[p] = d,
           CallOK(c)'
    PROVE  RegistrationsInv'
<1>1. RegistrationsTypeOK'
  BY DEF RegistrationsInv, RegistrationsTypeOK, CallRecord
<1>2. \A e \in Events : PlacesOK(e)'
  BY DEF RegistrationsInv, PlacesOK, Confirmed
<1>3. \A p \in Pairs : Tells(notices[p], rows[p])'
  BY DEF RegistrationsInv, Tells
<1>4. ASSUME NEW d \in Callers, d # c
      PROVE  CallOK(d)'
  <2>1. calls'[d] = calls[d] /\ calls[d] \in CallRecord
    BY <1>4, Types
  <2>2. CallOK(d)
    BY DEF RegistrationsInv
  <2>3. calls[d].at \in {"locked", "own", "counted"} => eventLock'[EventOf(d)] = d
    BY <1>4, <2>1, <2>2, RegisteringCall, Types DEF CallOK, EventOf, RegisteringStages
  <2>4. calls[d].at = "left" => rowLock'[calls[d].pair] = d
    BY <1>4, <2>1, <2>2, WithdrawingCall DEF CallOK
  <2>. QED  BY <2>1, <2>2, <2>3, <2>4 DEF CallOK, EventOf, Confirmed
<1>. QED  BY <1>1, <1>2, <1>3, <1>4 DEF RegistrationsInv

(* The locks of a transaction that ends come free, and no others.          *)
LEMMA FreedLocks ==
    ASSUME RegistrationsInv, NEW c \in Callers, Ends(c)
    PROVE  /\ calls' = [calls EXCEPT ![c] = Idle]
           /\ eventLock' \in [Events -> Callers \cup {Nobody}]
           /\ rowLock' \in [Pairs -> Callers \cup {Nobody}]
           /\ \A d \in Callers \ {c} :
                  /\ \A e \in Events : eventLock[e] = d => eventLock'[e] = d
                  /\ \A p \in Pairs : rowLock[p] = d => rowLock'[p] = d
BY Types DEF Ends, Freed

(* A caller whose request has ended knows nothing. *)
LEMMA IdleCall ==
    ASSUME RegistrationsInv, NEW c \in Callers, calls' = [calls EXCEPT ![c] = Idle]
    PROVE  CallOK(c)' /\ Idle \in CallRecord
<1>1. calls'[c] = Idle /\ Idle.at = "idle"
  BY Types DEF Idle
<1>. QED  BY <1>1 DEF CallOK, RegisteringStages, CallRecord

(* A request may end at any time. *)
LEMMA EndKeepsInv ==
    ASSUME RegistrationsInv, NEW c \in Callers, Ends(c),
           UNCHANGED <<events, rows, notices, offered, changes>>
    PROVE  RegistrationsInv'
BY FreedLocks, IdleCall, ControlKeepsInv

(* register, up to the row that it writes.                                 *)
LEMMA BeginRegistrationKeepsInv ==
    ASSUME RegistrationsInv, NEW c \in Callers, NEW p \in Pairs, BeginRegistration(c, p)
    PROVE  RegistrationsInv'
<1> DEFINE k == [at |-> "checked", pair |-> p, capacity |-> events[p[1]].capacity]
<1>1. p[1] \in Events /\ events[p[1]].status = "Confirmed"
  BY Types DEF BeginRegistration
<1>2. events[p[1]].capacity \in Capacities /\ events[p[1]].capacity <= offered[p[1]]
  BY <1>1 DEF RegistrationsInv, RegistrationsTypeOK, EventInfo, PlacesOK
<1>3. /\ k \in CallRecord /\ k.at = "checked" /\ k.pair = p
      /\ k.capacity = events[p[1]].capacity
  BY <1>2 DEF CallRecord, Registering
<1>4. /\ calls' = [calls EXCEPT ![c] = k]
      /\ UNCHANGED <<events, rows, notices, eventLock, rowLock, offered, changes>>
  BY DEF BeginRegistration
<1> HIDE DEF k
<1>5. calls'[c] = k
  BY <1>4, Types
<1>6. CallOK(c)'
  BY <1>2, <1>3, <1>4, <1>5 DEF CallOK, EventOf
<1>. QED  BY <1>3, <1>4, <1>6, ControlKeepsInv, Types

(* The lock of the event is taken. *)
LEMMA LockEventKeepsInv ==
    ASSUME RegistrationsInv, NEW c \in Callers, LockEvent(c)
    PROVE  RegistrationsInv'
<1> DEFINE e == EventOf(c)
<1> DEFINE k == [calls[c] EXCEPT !.at = "locked"]
<1>1. calls[c] \in Registering /\ calls[c].pair \in Pairs /\ e \in Events
  BY Types, RegisteringCall DEF LockEvent, RegisteringStages, EventOf
<1>2. k \in Registering /\ k.at = "locked" /\ k.pair = calls[c].pair /\ k.capacity = calls[c].capacity
  BY <1>1, NextStage DEF RegisteringStages
<1>3. calls' = [calls EXCEPT ![c] = k] /\ calls'[c] = k
  BY Types DEF LockEvent, Goes
<1>4. /\ eventLock' = [eventLock EXCEPT ![e] = c] /\ eventLock[e] = Nobody
      /\ UNCHANGED <<events, rows, notices, rowLock, offered, changes>>
  BY DEF LockEvent
<1>5. calls[c].capacity <= offered[e]
  BY DEF RegistrationsInv, CallOK, LockEvent, RegisteringStages
<1> HIDE DEF k
<1>6. EventOf(c)' = e /\ eventLock'[e] = c
  BY <1>1, <1>2, <1>3, <1>4, Types DEF EventOf
<1> HIDE DEF e
<1>7. CallOK(c)'
  BY <1>2, <1>3, <1>4, <1>5, <1>6 DEF CallOK
<1>8. k \in CallRecord
  BY <1>2 DEF CallRecord
<1>9. \A f \in Events : \A d \in Callers \ {c} : eventLock[f] = d => eventLock'[f] = d
  BY <1>1, <1>4, Types, NobodyAssumption
<1>10. eventLock' \in [Events -> Callers \cup {Nobody}]
  BY <1>4, Types
<1>. QED  BY <1>3, <1>4, <1>7, <1>8, <1>9, <1>10, ControlKeepsInv, Types

(* The attendee's own row is looked for under the lock of the event. *)
LEMMA FindOwnKeepsInv ==
    ASSUME RegistrationsInv, NEW c \in Callers, FindOwn(c)
    PROVE  RegistrationsInv'
<1>1. CASE rows[calls[c].pair] = "Confirmed"
  BY <1>1, EndKeepsInv DEF FindOwn
<1>2. CASE rows[calls[c].pair] # "Confirmed"
  <2> DEFINE k == [calls[c] EXCEPT !.at = "own"]
  <2>1. calls[c] \in Registering /\ calls[c].at = "locked"
    BY Types, RegisteringCall DEF FindOwn, RegisteringStages
  <2>2. k \in Registering /\ k.at = "own" /\ k.pair = calls[c].pair /\ k.capacity = calls[c].capacity
    BY <2>1, NextStage DEF RegisteringStages
  <2>3. /\ calls' = [calls EXCEPT ![c] = k] /\ calls'[c] = k
        /\ UNCHANGED <<events, rows, notices, eventLock, rowLock, offered, changes>>
    BY <1>2, Types DEF FindOwn, Goes
  <2> HIDE DEF k
  <2>4. CallOK(c)
    BY DEF RegistrationsInv
  <2>5. CallOK(c)'
    BY <1>2, <2>1, <2>2, <2>3, <2>4 DEF CallOK, EventOf, RegisteringStages
  <2>6. k \in CallRecord
    BY <2>2 DEF CallRecord
  <2>. QED  BY <2>3, <2>5, <2>6, ControlKeepsInv, Types
<1>. QED  BY <1>1, <1>2

(* The places are counted under the lock of the event. *)
LEMMA CountPlacesKeepsInv ==
    ASSUME RegistrationsInv, NEW c \in Callers, CountPlaces(c)
    PROVE  RegistrationsInv'
<1> DEFINE n == Cardinality(Confirmed(EventOf(c)))
<1>1. CASE n >= calls[c].capacity
  BY <1>1, EndKeepsInv DEF CountPlaces
<1>2. CASE ~(n >= calls[c].capacity)
  <2> DEFINE k == [calls[c] EXCEPT !.at = "counted"]
  <2>1. calls[c] \in Registering /\ calls[c].at = "own" /\ EventOf(c) \in Events
    BY Types, RegisteringCall DEF CountPlaces, RegisteringStages, EventOf
  <2>2. k \in Registering /\ k.at = "counted" /\ k.pair = calls[c].pair /\ k.capacity = calls[c].capacity
    BY <2>1, NextStage DEF RegisteringStages
  <2>3. /\ calls' = [calls EXCEPT ![c] = k] /\ calls'[c] = k
        /\ UNCHANGED <<events, rows, notices, eventLock, rowLock, offered, changes>>
    BY <1>2, Types DEF CountPlaces, Goes
  <2>4. n \in Nat /\ calls[c].capacity \in Nat
    BY <2>1, FS_CardinalityType, Types, RegisteringCall
       DEF RegistrationsInv, PlacesOK, Registering
  <2>5. n < calls[c].capacity
    BY <1>2, <2>4
  <2> HIDE DEF k
  <2>6. CallOK(c)
    BY DEF RegistrationsInv
  <2>7. CallOK(c)'
    BY <2>1, <2>2, <2>3, <2>5, <2>6 DEF CallOK, EventOf, RegisteringStages, Confirmed
  <2>8. k \in CallRecord
    BY <2>2 DEF CallRecord
  <2>. QED  BY <2>3, <2>7, <2>8, ControlKeepsInv, Types
<1>. QED  BY <1>1, <1>2

(* withdraw, up to the row that it writes.                                 *)
LEMMA BeginWithdrawalKeepsInv ==
    ASSUME RegistrationsInv, NEW c \in Callers, NEW p \in Pairs, BeginWithdrawal(c, p)
    PROVE  RegistrationsInv'
<1> DEFINE k == [at |-> "leaving", pair |-> p]
<1>1. k \in CallRecord /\ k.at = "leaving" /\ k.pair = p
  BY DEF CallRecord, Withdrawing
<1>2. /\ calls' = [calls EXCEPT ![c] = k] /\ rows[p] = "Confirmed"
      /\ UNCHANGED <<events, rows, notices, eventLock, rowLock, offered, changes>>
  BY DEF BeginWithdrawal
<1> HIDE DEF k
<1>3. calls'[c] = k
  BY <1>2, Types
<1>4. CallOK(c)'
  BY <1>1, <1>2, <1>3 DEF CallOK, RegisteringStages
<1>. QED  BY <1>1, <1>2, <1>4, ControlKeepsInv, Types

(* The withdrawal takes the lock of the attendee's row. *)
LEMMA LockRowKeepsInv ==
    ASSUME RegistrationsInv, NEW c \in Callers, LockRow(c)
    PROVE  RegistrationsInv'
<1> DEFINE p == calls[c].pair
<1>1. CASE rows[p] = "Withdrawn"
  BY <1>1, EndKeepsInv DEF LockRow
<1>2. CASE rows[p] # "Withdrawn"
  <2> DEFINE k == [calls[c] EXCEPT !.at = "left"]
  <2>1. calls[c] \in Withdrawing /\ calls[c].at = "leaving" /\ p \in Pairs
    BY Types, WithdrawingCall DEF LockRow
  <2>2. k \in Withdrawing /\ k.at = "left" /\ k.pair = p
    BY <2>1, RowLocked
  <2>3. /\ calls' = [calls EXCEPT ![c] = k] /\ calls'[c] = k
        /\ rowLock' = [rowLock EXCEPT ![p] = c] /\ rowLock[p] = Nobody
        /\ UNCHANGED <<events, rows, notices, eventLock, offered, changes>>
    BY <1>2, Types DEF LockRow, Goes
  <2>4. rows[p] = "Confirmed"
    <3>1. rows[p] # "none"
      BY <2>1 DEF RegistrationsInv, CallOK
    <3>. QED  BY <1>2, <2>1, <3>1, Types
  <2> HIDE DEF k, p
  <2>5. rowLock'[p] = c /\ rowLock' \in [Pairs -> Callers \cup {Nobody}]
    BY <2>1, <2>3, Types
  <2>6. CallOK(c)'
    BY <2>2, <2>3, <2>4, <2>5 DEF CallOK, RegisteringStages
  <2>7. k \in CallRecord
    BY <2>2 DEF CallRecord
  <2>8. \A r \in Pairs : \A d \in Callers \ {c} : rowLock[r] = d => rowLock'[r] = d
    BY <2>1, <2>3, Types, NobodyAssumption
  <2>. QED  BY <2>3, <2>5, <2>6, <2>7, <2>8, ControlKeepsInv, Types
<1>. QED  BY <1>1, <1>2

----------------------------------------------------------------------------
(* The notices of a registration, when its row changes.                    *)
LEMMA ToldOfRegistration ==
    ASSUME NEW told \in Seq(Kinds), NEW status, status # "Confirmed", Tells(told, status)
    PROVE  /\ Append(told, "registration.confirmed") \in Seq(Kinds)
           /\ Tells(Append(told, "registration.confirmed"), "Confirmed")
<1> DEFINE new == Append(told, "registration.confirmed")
<1>1. Len(told) \in Nat /\ Len(told) % 2 # 1
  BY DEF Tells, StatusAfter
<1>2. Len(told) % 2 = 0 /\ (Len(told) + 1) % 2 = 1 /\ Len(told) + 1 # 0
  BY <1>1
<1>3. new \in Seq(Kinds) /\ Len(new) = Len(told) + 1
  BY DEF Kinds
<1>4. ASSUME NEW n \in 1 .. Len(new) PROVE new[n] = NoticeNumber(n)
  <2>1. CASE n = Len(told) + 1
    BY <1>2, <2>1 DEF NoticeNumber
  <2>2. CASE n \in 1 .. Len(told)
    BY <2>2 DEF Tells
  <2>. QED  BY <1>1, <1>3, <2>1, <2>2
<1>. QED  BY <1>2, <1>3, <1>4 DEF Tells, StatusAfter

(* A notice of withdrawal that follows one of confirmation. *)
LEMMA ToldOfWithdrawal ==
    ASSUME NEW told \in Seq(Kinds), Tells(told, "Confirmed")
    PROVE  /\ Append(told, "registration.withdrawn") \in Seq(Kinds)
           /\ Tells(Append(told, "registration.withdrawn"), "Withdrawn")
<1> DEFINE new == Append(told, "registration.withdrawn")
<1>1. Len(told) \in Nat /\ Len(told) % 2 = 1
  BY DEF Tells, StatusAfter
<1>2. (Len(told) + 1) % 2 = 0 /\ Len(told) + 1 # 0
  BY <1>1
<1>3. new \in Seq(Kinds) /\ Len(new) = Len(told) + 1
  BY DEF Kinds
<1>4. ASSUME NEW n \in 1 .. Len(new) PROVE new[n] = NoticeNumber(n)
  <2>1. CASE n = Len(told) + 1
    BY <1>2, <2>1 DEF NoticeNumber
  <2>2. CASE n \in 1 .. Len(told)
    BY <2>2 DEF Tells
  <2>. QED  BY <1>1, <1>3, <2>1, <2>2
<1>. QED  BY <1>2, <1>3, <1>4 DEF Tells, StatusAfter

----------------------------------------------------------------------------
(* create_registration writes the row: a place is still free, and nobody   *)
(* else has counted the places of the event, or is at this row.            *)
LEMMA WriteRegistrationKeepsInv ==
    ASSUME RegistrationsInv, NEW c \in Callers, WriteRegistration(c)
    PROVE  RegistrationsInv'
<1> PICK e \in Events, a \in Attendees : calls[c].pair = <<e, a>>
  BY Types, RegisteringCall DEF WriteRegistration, RegisteringStages
<1> DEFINE p == <<e, a>>
<1>1. /\ calls[c] \in Registering /\ calls[c].at = "counted" /\ p \in Pairs /\ calls[c].pair = p
      /\ EventOf(c) = e /\ p[1] = e /\ p = <<e, a>> /\ calls[c].capacity \in Nat
  BY Types, RegisteringCall DEF WriteRegistration, RegisteringStages, EventOf, Pairs
<1>2. /\ calls[c].capacity <= offered[e] /\ eventLock[e] = c /\ rows[p] # "Confirmed"
      /\ Cardinality(Confirmed(e)) < calls[c].capacity
  BY <1>1 DEF RegistrationsInv, CallOK, RegisteringStages
<1>3. /\ rows' = [rows EXCEPT ![p] = "Confirmed"] /\ rowLock[p] = Nobody
      /\ notices' = [notices EXCEPT ![p] = Append(notices[p], "registration.confirmed")]
      /\ Ends(c) /\ UNCHANGED <<events, offered, changes>>
  BY <1>1 DEF WriteRegistration
<1>4. /\ calls' = [calls EXCEPT ![c] = Idle]
      /\ eventLock' \in [Events -> Callers \cup {Nobody}]
      /\ rowLock' \in [Pairs -> Callers \cup {Nobody}]
      /\ \A d \in Callers \ {c} :
             /\ \A f \in Events : eventLock[f] = d => eventLock'[f] = d
             /\ \A r \in Pairs : rowLock[r] = d => rowLock'[r] = d
  BY <1>3, FreedLocks
<1>5. notices[p] \in Seq(Kinds) /\ Tells(notices[p], rows[p])
  BY <1>1 DEF RegistrationsInv, RegistrationsTypeOK
<1>6. /\ Append(notices[p], "registration.confirmed") \in Seq(Kinds)
      /\ Tells(Append(notices[p], "registration.confirmed"), "Confirmed")
  BY <1>2, <1>5, ToldOfRegistration
<1> HIDE DEF p
<1>7. RegistrationsTypeOK'
  BY <1>1, <1>3, <1>4, <1>6 DEF RegistrationsInv, RegistrationsTypeOK, CallRecord
<1>8. \A r \in Pairs : Tells(notices[r], rows[r])'
  <2> SUFFICES ASSUME NEW r \in Pairs PROVE Tells(notices'[r], rows'[r])
    BY DEF Tells
  <2>1. CASE r = p
    BY <1>3, <1>6, <2>1, Types DEF RegistrationsInv, RegistrationsTypeOK
  <2>2. CASE r # p
    BY <1>3, <2>2, Types DEF RegistrationsInv, RegistrationsTypeOK
  <2>. QED  BY <2>1, <2>2
<1>9. Confirmed(e)' = Confirmed(e) \cup {a} /\ a \notin Confirmed(e)
  BY <1>1, <1>2, <1>3, Types DEF Confirmed, Pairs
<1>10. ASSUME NEW f \in Events, f # e PROVE Confirmed(f)' = Confirmed(f)
  BY <1>1, <1>3, <1>10, Types DEF Confirmed, Pairs
<1>11. PlacesOK(e)'
  <2>1. /\ IsFiniteSet(Confirmed(e)) /\ offered[e] \in Nat
        /\ events[e].status = "Confirmed" => events[e].capacity <= offered[e]
    BY <1>1, Types DEF RegistrationsInv, PlacesOK
  <2>2. /\ IsFiniteSet(Confirmed(e)') /\ Cardinality(Confirmed(e)) \in Nat
        /\ Cardinality(Confirmed(e)') = Cardinality(Confirmed(e)) + 1
    BY <1>9, <2>1, FS_AddElement, FS_CardinalityType
  <2>3. Cardinality(Confirmed(e)') <= offered[e]
    BY <1>1, <1>2, <2>1, <2>2
  <2>. QED  BY <1>3, <2>1, <2>2, <2>3 DEF PlacesOK
<1>12. \A f \in Events : PlacesOK(f)'
  <2> SUFFICES ASSUME NEW f \in Events, f # e PROVE PlacesOK(f)'
    BY <1>11
  <2>. QED  BY <1>3, <1>10 DEF RegistrationsInv, PlacesOK
<1>13. ASSUME NEW d \in Callers, d # c PROVE CallOK(d)'
  <2>1. calls'[d] = calls[d] /\ calls[d] \in CallRecord /\ CallOK(d) /\ d # Nobody
    BY <1>4, <1>13, Types, NobodyAssumption DEF RegistrationsInv
  <2>2. CASE calls[d].at \in RegisteringStages
    <3>1. calls[d].pair \in Pairs /\ EventOf(d) \in Events /\ EventOf(d)' = EventOf(d)
      BY <2>1, <2>2, RegisteringCall, Types DEF EventOf
    <3>2. CASE calls[d].at = "checked"
      BY <1>3, <2>1, <3>1, <3>2 DEF CallOK, RegisteringStages
    <3>3. CASE calls[d].at # "checked"
      <4>1. eventLock[EventOf(d)] = d /\ EventOf(d) # e
        BY <1>2, <1>13, <2>1, <2>2, <3>3 DEF CallOK, RegisteringStages
      <4>2. /\ eventLock'[EventOf(d)] = d /\ calls[d].pair # p
            /\ rows'[calls[d].pair] = rows[calls[d].pair]
        BY <1>1, <1>3, <1>4, <1>13, <3>1, <4>1, Types DEF EventOf
      <4>3. Confirmed(EventOf(d))' = Confirmed(EventOf(d))
        BY <1>10, <3>1, <4>1
      <4>. QED  BY <1>3, <2>1, <2>2, <3>1, <4>2, <4>3 DEF CallOK, RegisteringStages
    <3>. QED  BY <3>2, <3>3
  <2>3. CASE calls[d].at \in {"leaving", "left"}
    <3>1. calls[d].pair \in Pairs
      BY <2>1, <2>3, WithdrawingCall
    <3>2. rows'[calls[d].pair] \in {rows[calls[d].pair], "Confirmed"}
      BY <1>1, <1>3, <3>1, Types
    <3>3. calls[d].at = "left" => rowLock'[calls[d].pair] = d
      BY <1>4, <1>13, <2>1, <3>1 DEF CallOK
    <3>. QED  BY <2>1, <2>3, <3>2, <3>3 DEF CallOK, RegisteringStages
  <2>4. CASE calls[d].at \notin RegisteringStages \cup {"leaving", "left"}
    BY <2>1, <2>4 DEF CallOK, RegisteringStages
  <2>. QED  BY <2>2, <2>3, <2>4
<1>14. CallOK(c)'
  BY <1>4, IdleCall
<1>. QED  BY <1>7, <1>8, <1>12, <1>13, <1>14 DEF RegistrationsInv

(* withdraw_registration writes the row, which only it has locked.         *)
LEMMA WriteWithdrawalKeepsInv ==
    ASSUME RegistrationsInv, NEW c \in Callers, WriteWithdrawal(c)
    PROVE  RegistrationsInv'
<1> DEFINE p == calls[c].pair
<1> DEFINE e == p[1]
<1> DEFINE a == p[2]
<1>1. /\ calls[c].at = "left" /\ p \in Pairs
      /\ e \in Events /\ a \in Attendees /\ p = <<e, a>>
  BY Types, WithdrawingCall DEF WriteWithdrawal
<1>2. rowLock[p] = c /\ rows[p] = "Confirmed"
  BY <1>1 DEF RegistrationsInv, CallOK
<1>3. /\ rows' = [rows EXCEPT ![p] = "Withdrawn"]
      /\ notices' = [notices EXCEPT ![p] = Append(notices[p], "registration.withdrawn")]
      /\ Ends(c) /\ UNCHANGED <<events, offered, changes>>
  BY DEF WriteWithdrawal
<1>4. /\ calls' = [calls EXCEPT ![c] = Idle]
      /\ eventLock' \in [Events -> Callers \cup {Nobody}]
      /\ rowLock' \in [Pairs -> Callers \cup {Nobody}]
      /\ \A d \in Callers \ {c} :
             /\ \A f \in Events : eventLock[f] = d => eventLock'[f] = d
             /\ \A r \in Pairs : rowLock[r] = d => rowLock'[r] = d
  BY <1>3, FreedLocks
<1>5. notices[p] \in Seq(Kinds) /\ Tells(notices[p], rows[p])
  BY <1>1 DEF RegistrationsInv, RegistrationsTypeOK
<1>6. /\ Append(notices[p], "registration.withdrawn") \in Seq(Kinds)
      /\ Tells(Append(notices[p], "registration.withdrawn"), "Withdrawn")
  BY <1>2, <1>5, ToldOfWithdrawal
<1> HIDE DEF p, e, a
<1>7. RegistrationsTypeOK'
  BY <1>1, <1>3, <1>4, <1>6 DEF RegistrationsInv, RegistrationsTypeOK, CallRecord
<1>8. \A r \in Pairs : Tells(notices[r], rows[r])'
  <2> SUFFICES ASSUME NEW r \in Pairs PROVE Tells(notices'[r], rows'[r])
    BY DEF Tells
  <2>1. CASE r = p
    BY <1>3, <1>6, <2>1, Types DEF RegistrationsInv, RegistrationsTypeOK
  <2>2. CASE r # p
    BY <1>3, <2>2, Types DEF RegistrationsInv, RegistrationsTypeOK
  <2>. QED  BY <2>1, <2>2
<1>9. \A f \in Events : Confirmed(f)' \in SUBSET Confirmed(f)
  BY <1>1, <1>3, Types DEF Confirmed, Pairs
<1>10. ASSUME NEW f \in Events
       PROVE  /\ IsFiniteSet(Confirmed(f)') /\ Cardinality(Confirmed(f)') \in Nat
              /\ Cardinality(Confirmed(f)) \in Nat
              /\ Cardinality(Confirmed(f)') <= Cardinality(Confirmed(f))
  <2>1. IsFiniteSet(Confirmed(f))
    BY DEF RegistrationsInv, PlacesOK
  <2>2. IsFiniteSet(Confirmed(f)') /\ Cardinality(Confirmed(f)') <= Cardinality(Confirmed(f))
    BY <1>9, <2>1, FS_Subset
  <2>. QED  BY <2>1, <2>2, FS_CardinalityType
<1>11. ASSUME NEW f \in Events PROVE PlacesOK(f)'
  <2>1. /\ Cardinality(Confirmed(f)) <= offered[f] /\ offered[f] \in Nat
        /\ events[f].status = "Confirmed" => events[f].capacity <= offered[f]
    BY Types DEF RegistrationsInv, PlacesOK
  <2>2. Cardinality(Confirmed(f)') <= offered[f]
    BY <1>10, <2>1
  <2>. QED  BY <1>3, <1>10, <2>1, <2>2 DEF PlacesOK
<1>12. ASSUME NEW d \in Callers, d # c PROVE CallOK(d)'
  <2>1. calls'[d] = calls[d] /\ calls[d] \in CallRecord /\ CallOK(d)
    BY <1>4, <1>12, Types DEF RegistrationsInv
  <2>2. CASE calls[d].at \in RegisteringStages
    <3>1. /\ calls[d].pair \in Pairs /\ EventOf(d) \in Events /\ EventOf(d)' = EventOf(d)
          /\ calls[d].capacity \in Nat
      BY <2>1, <2>2, RegisteringCall, Types DEF EventOf
    <3>2. rows[calls[d].pair] # "Confirmed" => rows'[calls[d].pair] # "Confirmed"
      BY <1>1, <1>3, <3>1, Types
    <3>3. calls[d].at # "checked" => eventLock'[EventOf(d)] = d
      BY <1>4, <1>12, <2>1, <2>2, <3>1 DEF CallOK, RegisteringStages
    <3>4. calls[d].at = "counted" => Cardinality(Confirmed(EventOf(d)))' < calls[d].capacity
      BY <1>10, <2>1, <3>1 DEF CallOK
    <3>. QED  BY <1>3, <2>1, <2>2, <3>1, <3>2, <3>3, <3>4 DEF CallOK, RegisteringStages
  <2>3. CASE calls[d].at \in {"leaving", "left"}
    <3>1. calls[d].pair \in Pairs
      BY <2>1, <2>3, WithdrawingCall
    <3>2. calls[d].at = "left" => calls[d].pair # p /\ rowLock'[calls[d].pair] = d
      BY <1>2, <1>4, <1>12, <2>1, <3>1 DEF CallOK
    <3>3. /\ calls[d].pair # p => rows'[calls[d].pair] = rows[calls[d].pair]
          /\ calls[d].pair = p => rows'[calls[d].pair] = "Withdrawn"
      BY <1>1, <1>3, <3>1, Types
    <3>. QED  BY <2>1, <2>3, <3>2, <3>3 DEF CallOK, RegisteringStages
  <2>4. CASE calls[d].at \notin RegisteringStages \cup {"leaving", "left"}
    BY <2>1, <2>4 DEF CallOK, RegisteringStages
  <2>. QED  BY <2>2, <2>3, <2>4
<1>13. CallOK(c)'
  BY <1>4, IdleCall
<1>. QED  BY <1>7, <1>8, <1>11, <1>12, <1>13 DEF RegistrationsInv

----------------------------------------------------------------------------
(* Changes of the event, which no request waits for.                       *)
LEMMA ChangeKeepsInv ==
    ASSUME RegistrationsInv, NEW e \in Events, NEW info \in EventInfo, Changes(e, info),
           changes' \in 0 .. MaxChanges
    PROVE  RegistrationsInv'
<1>1. /\ events' = [events EXCEPT ![e] = info]
      /\ UNCHANGED <<rows, notices, eventLock, rowLock, calls>>
      /\ offered' = [offered EXCEPT ![e] =
                        IF info.status = "Confirmed" /\ info.capacity > offered[e]
                        THEN info.capacity ELSE offered[e]]
  BY DEF Changes
<1>2. info.capacity \in Capacities /\ info.capacity \in Nat
  BY Types DEF EventInfo
<1>3. offered' \in [Events -> Capacities] /\ \A f \in Events : offered'[f] >= offered[f]
  BY <1>1, <1>2, Types
<1>4. RegistrationsTypeOK'
  BY <1>1, <1>3 DEF RegistrationsInv, RegistrationsTypeOK
<1>5. ASSUME NEW f \in Events PROVE PlacesOK(f)'
  <2>1. /\ IsFiniteSet(Confirmed(f)) /\ Cardinality(Confirmed(f)) \in Nat
        /\ Cardinality(Confirmed(f)) <= offered[f]
        /\ events[f].status = "Confirmed" => events[f].capacity <= offered[f]
        /\ offered[f] \in Nat /\ offered'[f] \in Nat /\ offered'[f] >= offered[f]
    BY <1>3, Types, FS_CardinalityType DEF RegistrationsInv, PlacesOK
  <2>2. Confirmed(f)' = Confirmed(f)
    BY <1>1 DEF Confirmed
  <2>3. Cardinality(Confirmed(f)) <= offered'[f]
    BY <2>1
  <2>4. events'[f].status = "Confirmed" => events'[f].capacity <= offered'[f]
    <3>1. CASE f = e
      <4>1. events'[f] = info
        BY <1>1, <3>1 DEF RegistrationsInv, RegistrationsTypeOK
      <4>. QED  BY <1>1, <1>2, <2>1, <3>1, <4>1, Types
    <3>2. CASE f # e
      BY <1>1, <2>1, <3>2, Types DEF RegistrationsInv, RegistrationsTypeOK
    <3>. QED  BY <3>1, <3>2
  <2>. QED  BY <2>1, <2>2, <2>3, <2>4 DEF PlacesOK
<1>6. \A p \in Pairs : Tells(notices[p], rows[p])'
  BY <1>1 DEF RegistrationsInv, Tells
<1>7. ASSUME NEW d \in Callers PROVE CallOK(d)'
  <2>1. CallOK(d) /\ calls[d] \in CallRecord
    BY Types DEF RegistrationsInv
  <2>2. calls[d].at \in RegisteringStages => calls[d].capacity <= offered'[EventOf(d)]
    <3> SUFFICES ASSUME calls[d].at \in RegisteringStages
                 PROVE  calls[d].capacity <= offered'[EventOf(d)]
      OBVIOUS
    <3>1. EventOf(d) \in Events /\ calls[d].capacity \in Nat
      BY <2>1, RegisteringCall, Types DEF EventOf
    <3>2. /\ calls[d].capacity <= offered[EventOf(d)]
          /\ offered[EventOf(d)] \in Nat /\ offered'[EventOf(d)] \in Nat
          /\ offered'[EventOf(d)] >= offered[EventOf(d)]
      BY <1>3, <2>1, <3>1, Types DEF CallOK
    <3>. QED  BY <3>1, <3>2
  <2>. QED  BY <1>1, <2>1, <2>2 DEF CallOK, EventOf, Confirmed
<1>. QED  BY <1>4, <1>5, <1>6, <1>7 DEF RegistrationsInv

(* What happens to the event leaves registrations, locks and notices alone. *)
LEMMA EventStepKeepsInv ==
    ASSUME RegistrationsInv, NEW e \in Events,
           \/ \E n \in Capacities, t \in Clock : Recheck(e, n, t)
           \/ \E s \in {"Confirmed", "Cancelled"} : DecideCheck(e, s)
           \/ TimePasses(e)
    PROVE  RegistrationsInv'
<1>1. changes \in 0 .. MaxChanges /\ MaxChanges \in Nat /\ events[e] \in EventInfo
  BY BoundsAssumption DEF RegistrationsInv, RegistrationsTypeOK
<1>2. CASE \E n \in Capacities, t \in Clock : Recheck(e, n, t)
  <2> PICK n \in Capacities, t \in Clock : Recheck(e, n, t)
    BY <1>2
  <2> DEFINE info == [status |-> "Pending Safety Check", capacity |-> n, clock |-> t]
  <2>1. info \in EventInfo
    BY DEF EventInfo
  <2>2. Changes(e, info)
    BY DEF Recheck
  <2>3. changes < MaxChanges /\ changes' = changes + 1
    BY DEF Recheck
  <2>4. changes' \in 0 .. MaxChanges
    BY <1>1, <2>3
  <2>. QED  BY <2>1, <2>2, <2>4, ChangeKeepsInv
<1>3. CASE \E s \in {"Confirmed", "Cancelled"} : DecideCheck(e, s)
  <2> PICK s \in {"Confirmed", "Cancelled"} : DecideCheck(e, s)
    BY <1>3
  <2> DEFINE info == [events[e] EXCEPT !.status = s]
  <2>1. info \in EventInfo
    BY <1>1 DEF EventInfo
  <2>2. Changes(e, info) /\ changes' \in 0 .. MaxChanges
    BY <1>1 DEF DecideCheck
  <2>. QED  BY <2>1, <2>2, ChangeKeepsInv
<1>4. CASE TimePasses(e)
  <2> PICK t \in Clock : Changes(e, [events[e] EXCEPT !.clock = t])
    BY <1>4 DEF TimePasses
  <2> DEFINE info == [events[e] EXCEPT !.clock = t]
  <2>1. info \in EventInfo
    BY <1>1 DEF EventInfo
  <2>2. changes' \in 0 .. MaxChanges
    BY <1>1, <1>4 DEF TimePasses
  <2>. QED  BY <2>1, <2>2, ChangeKeepsInv
<1>. QED  BY <1>2, <1>3, <1>4

----------------------------------------------------------------------------
(* Before any request nobody is registered, and no lock is held.           *)
LEMMA RegistrationsInitEstablishesInv ==
    ASSUME Init
    PROVE  RegistrationsInv
<1>1. events \in [Events -> EventInfo]
  BY DEF Init, EventInfo, Clock
<1>2. offered \in [Events -> Capacities] /\ \A e \in Events : offered[e] = events[e].capacity
  BY <1>1 DEF Init, EventInfo
<1>3. RegistrationsTypeOK
  BY <1>1, <1>2, BoundsAssumption DEF Init, RegistrationsTypeOK
<1>4. ASSUME NEW e \in Events PROVE PlacesOK(e)
  <2>1. Confirmed(e) = {}
    BY DEF Init, Confirmed, Pairs
  <2>2. offered[e] \in Nat /\ events[e].capacity = offered[e]
    BY <1>2, CapacitiesAssumption
  <2>. QED  BY <2>1, <2>2, FS_EmptySet DEF PlacesOK
<1>5. ASSUME NEW p \in Pairs PROVE Tells(notices[p], rows[p])
  BY DEF Init, Tells, StatusAfter
<1>6. ASSUME NEW c \in Callers PROVE CallOK(c)
  BY DEF Init, Idle, CallOK, RegisteringStages
<1>. QED  BY <1>3, <1>4, <1>5, <1>6 DEF RegistrationsInv

(* Every step of a request, and every change of an event, keeps it.        *)
LEMMA RegistrationsStep ==
    ASSUME RegistrationsInv, [Next]_vars
    PROVE  RegistrationsInv'
<1>1. CASE UNCHANGED vars
  <2>1. RegistrationsTypeOK' /\ \A p \in Pairs : Tells(notices[p], rows[p])'
    BY <1>1 DEF vars, RegistrationsInv, RegistrationsTypeOK, Tells
  <2>2. \A e \in Events : PlacesOK(e)'
    BY <1>1 DEF vars, RegistrationsInv, PlacesOK, Confirmed
  <2>3. \A c \in Callers : CallOK(c)'
    BY <1>1 DEF vars, RegistrationsInv, CallOK, EventOf, Confirmed
  <2>. QED  BY <2>1, <2>2, <2>3 DEF RegistrationsInv
<1>2. ASSUME NEW c \in Callers,
             \/ \E p \in Pairs : BeginRegistration(c, p) \/ BeginWithdrawal(c, p)
             \/ Steps(c) \/ Waits(c) \/ Die(c)
      PROVE  RegistrationsInv'
  <2>1. CASE \E p \in Pairs : BeginRegistration(c, p) \/ BeginWithdrawal(c, p)
    BY <2>1, BeginRegistrationKeepsInv, BeginWithdrawalKeepsInv
  <2>2. CASE Steps(c)
    BY <2>2, FindOwnKeepsInv, CountPlacesKeepsInv, WriteWithdrawalKeepsInv DEF Steps
  <2>3. CASE Waits(c)
    BY <2>3, LockEventKeepsInv, WriteRegistrationKeepsInv, LockRowKeepsInv DEF Waits
  <2>4. CASE Die(c)
    BY <2>4, EndKeepsInv DEF Die
  <2>. QED  BY <1>2, <2>1, <2>2, <2>3, <2>4
<1>. QED  BY <1>1, <1>2, EventStepKeepsInv DEF Next

(* The inductive invariant holds in every reachable state.                 *)
THEOREM RegistrationsInvariant == Spec => []RegistrationsInv
<1>. QED  BY RegistrationsInitEstablishesInv, RegistrationsStep, PTL DEF Spec

(* The tables, the locks and the requests stay well formed.                *)
THEOREM RegistrationsTypeCorrect == Spec => []RegistrationsTypeOK
<1>1. RegistrationsInv => RegistrationsTypeOK
  BY DEF RegistrationsInv
<1>. QED  BY <1>1, RegistrationsInvariant, PTL

(* The last place of an event is not given twice.                          *)
THEOREM NoEventIsOverbooked == Spec => []NoOverbooking
<1>1. RegistrationsInv => NoOverbooking
  BY DEF RegistrationsInv, PlacesOK, NoOverbooking
<1>. QED  BY <1>1, RegistrationsInvariant, PTL

(* An attendee is told of every change of their registration, in order.    *)
THEOREM NoticesAreTrue == Spec => []NoticesTellTheStatus
<1>1. RegistrationsInv => NoticesTellTheStatus
  BY DEF RegistrationsInv, Tells, NoticesTellTheStatus
<1>. QED  BY <1>1, RegistrationsInvariant, PTL
==============================================================================
