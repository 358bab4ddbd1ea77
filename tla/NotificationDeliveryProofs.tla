--------------------- MODULE NotificationDeliveryProofs ---------------------
(***************************************************************************)
(* What is proved of the path from an outbox row to an inbox, for every    *)
(* set of people and kinds of notification, and for every bound: nothing   *)
(* that is recorded as published is lost, all copies of a notification     *)
(* name one recipient, a held row was never sent, and the path implements  *)
(* Notices.                                                                *)
(*                                                                         *)
(* The inductive invariant says what a request still knows when it reaches *)
(* the owner: it carries a token no other request carries, what it reports *)
(* as published has been sent, and as long as its token is the row's, what *)
(* it looked up is still true.                                             *)
(***************************************************************************)
EXTENDS NotificationDelivery, SequenceTheorems, FiniteSetTheorems, TLAPS

(***************************************************************************)
(* The inductive invariant.                                                *)
(***************************************************************************)
Message == [id : Ids, to : Users]
Entry == [to : Users, read : BOOLEAN]
RequestType == [op : Operations, id : Ids, token : Nat, to : Users \cup {Nobody}, many : SUBSET Users]

(* A message of the notification is in the queue, in the inbox or in the quarantine. *)
Sent(i) == Waiting(i) \/ inbox[i] # <<>> \/ Quarantined(i)

(* The kinds whose recipient is looked up, not stored in the row. *)
LookedUp == {"event.change-request-submitted", "venue.closure-rejection"}

(* What holds of the row of an id, whoever works on it. *)
Fits(i, row) ==
    /\ row.live => row.token # 0 /\ row.state = "due"
    /\ row.state = "absent" => row.token = 0 /\ row.envelope = Nobody
    /\ row.state = "held" => row.envelope = Nobody
    /\ IsFanOut(i) => row.envelope = Nobody
    /\ row.state # "absent" /\ IsChild(i) => row.to = i[2] /\ rows[<<i[1]>>].state = "published"
    /\ row.state # "absent" /\ ~IsFanOut(i) /\ i[1] \notin LookedUp => row.to \in Users
    /\ IsChild(i) => row.envelope \in {Nobody, i[2]}
    /\ row.state = "published" /\ ~IsFanOut(i) => Sent(i)

RowsOK == rows \in [Ids -> Row] /\ \A i \in Ids : Fits(i, rows[i])

(* A sequence of ids without repetitions that has the elements of S. *)
IsLine(l, S) ==
    /\ l \in Seq(Ids)
    /\ \A m, n \in DOMAIN l : l[m] = l[n] => m = n
    /\ \A i \in Ids : i \in S <=> \E n \in DOMAIN l : l[n] = i

(* The line has every recorded row, once. *)
LineOK == IsLine(line, Recorded)

(* What a request knows of its row. *)
RequestOK(op, i, token, to) ==
    /\ rows[i].state # "absent" /\ token # 0
    /\ op = "freeze" => ~IsFanOut(i) /\ to \in Users
    /\ op = "published" => Sent(i)
    /\ op \in {"lookup", "hold"} /\ rows[i].token = token => rows[i].envelope = Nobody
    /\ op = "publish" => to \in Users /\ rows[i].envelope = to

WorkerOK(o) ==
    worker[o].at # "idle" =>
        /\ Owner(worker[o].id) = o
        /\ RequestOK(worker[o].at, worker[o].id, worker[o].token, worker[o].to)
WorkersOK == worker \in [Owners -> Worker] /\ \A o \in Owners : WorkerOK(o)

StraysOK ==
    /\ IsFiniteSet(strays) /\ strays \subseteq RequestType
    /\ \A r \in strays : RequestOK(r.op, r.id, r.token, r.to)

(* No two requests of one row carry the same token. *)
TokensOK ==
    /\ \A r, s \in strays : r.id = s.id /\ r.token = s.token => r = s
    /\ \A r \in strays, o \in Owners :
         worker[o].at # "idle" /\ worker[o].id = r.id => worker[o].token # r.token

(* Every copy is for the recipient of the envelope; what is stored has been stored. *)
CopyOK(m) == m.to = rows[m.id].envelope
MessagesOK ==
    /\ queue \in Seq(Message) /\ quarantine \subseteq Message
    /\ \A n \in DOMAIN queue : CopyOK(queue[n])
    /\ \A m \in quarantine : CopyOK(m)
    /\ consumer \in {"ready", "stored"}
    /\ consumer = "stored" =>
         queue # <<>> /\ (inbox[queue[1].id] # <<>> \/ queue[1] \in quarantine)

InboxOK ==
    /\ DOMAIN inbox = Ids
    /\ \A i \in Ids :
         inbox[i] = <<>> \/ \E e \in Entry : inbox[i] = <<e>> /\ e.to = rows[i].envelope

WorldOK == gone \subseteq Ids /\ world \in World

Inv == RowsOK /\ LineOK /\ WorkersOK /\ StraysOK /\ TokensOK /\ MessagesOK /\ InboxOK /\ WorldOK

(***************************************************************************)
(* Ids, rows and lines.                                                    *)
(***************************************************************************)
(* An id is that of a notification, or of one recipient's share of a fan-out. *)
LEMMA IdShapes ==
    ASSUME NEW i \in Ids
    PROVE  /\ i[1] \in Kinds
           /\ IsChild(i) => i[1] \in FanOuts /\ i[2] \in Users /\ <<i[1]>> \in Ids /\ IsFanOut(<<i[1]>>)
           /\ IsChild(i) => i = <<i[1], i[2]>> /\ ~IsFanOut(i)
           /\ ~IsChild(i) => i = <<i[1]>>
BY DEF Ids, IsChild, IsFanOut

(* The share of a recipient is an id of its own. *)
LEMMA Children ==
    ASSUME NEW f \in Ids, IsFanOut(f), NEW u \in Users
    PROVE  /\ Child(f, u) \in Ids /\ IsChild(Child(f, u)) /\ ~IsFanOut(Child(f, u))
           /\ Child(f, u) # f /\ Child(f, u)[1] = f[1] /\ Child(f, u)[2] = u /\ <<Child(f, u)[1]>> = f
<1>1. f = <<f[1]>> /\ f[1] \in Kinds \cap FanOuts
  BY IdShapes DEF IsFanOut
<1>2. Child(f, u) \in Ids
  BY <1>1 DEF Ids, Child
<1>3. IsChild(Child(f, u)) /\ ~IsFanOut(Child(f, u))
  BY DEF Child, IsChild, IsFanOut
<1>4. Child(f, u)[1] = f[1] /\ Child(f, u)[2] = u
  BY DEF Child
<1>5. <<Child(f, u)[1]>> = f
  BY <1>1, <1>4
<1>6. Child(f, u) # f
  BY <1>3
<1> QED
  BY <1>2, <1>3, <1>4, <1>5, <1>6

(* Every id has an owner, and a fan-out is the event's or the venue's. *)
LEMMA OwnerType ==
    ASSUME NEW i \in Ids
    PROVE  /\ Owner(i) \in Owners
           /\ i[1] \in FanOuts => Owner(i) \in {"event", "venue"}
<1>1. i[1] \in EventKinds \cup VenueKinds \cup RegistrationKinds \cup EquipmentKinds
  BY IdShapes, KindsAssumption
<1>2. Owner(i) \in Owners
  BY <1>1 DEF Owner, Owners
<1>3. i[1] \in FanOuts => Owner(i) \in {"event", "venue"}
  BY <1>1 DEF FanOuts, EventFanOuts, Owner, EventKinds, VenueKinds, RegistrationKinds, EquipmentKinds
<1> QED
  BY <1>2, <1>3

(* A row without a lease. *)
LEMMA UnleasedRow ==
    ASSUME NEW row \in Row
    PROVE  /\ Unleased(row) \in Row /\ Unleased(row).token = 0 /\ ~Unleased(row).live
           /\ Unleased(row).state = row.state /\ Unleased(row).to = row.to
           /\ Unleased(row).envelope = row.envelope /\ Unleased(row).waits = row.waits
BY DEF Unleased, Row

(* A published row. *)
LEMMA PublishedRow ==
    ASSUME NEW row \in Row
    PROVE  /\ Published(row) \in Row /\ Published(row).token = 0 /\ ~Published(row).live
           /\ Published(row).state = "published" /\ Published(row).to = row.to
           /\ Published(row).envelope = row.envelope
<1>1. PICK q : q = Unleased(row)
  OBVIOUS
<1>2. Published(row) = [q EXCEPT !.state = "published"]
  BY <1>1 DEF Published
<1>3. q \in Row /\ q.token = 0 /\ ~q.live /\ q.to = row.to /\ q.envelope = row.envelope
  BY <1>1, UnleasedRow
<1> QED
  BY <1>2, <1>3 DEF Row, States

(* A held row. *)
LEMMA HeldRow ==
    ASSUME NEW row \in Row
    PROVE  /\ Held(row) \in Row /\ Held(row).token = 0 /\ ~Held(row).live
           /\ Held(row).state = "held" /\ Held(row).to = row.to /\ Held(row).envelope = row.envelope
<1>1. PICK q : q = Unleased(row)
  OBVIOUS
<1>2. Held(row) = [q EXCEPT !.state = "held"]
  BY <1>1 DEF Held
<1>3. q \in Row /\ q.token = 0 /\ ~q.live /\ q.to = row.to /\ q.envelope = row.envelope
  BY <1>1, UnleasedRow
<1> QED
  BY <1>2, <1>3 DEF Row, States

(* A row that waits for its next turn. *)
LEMMA RetriedRow ==
    ASSUME NEW row \in Row
    PROVE  /\ Retried(row) \in Row /\ Retried(row).token = 0 /\ ~Retried(row).live
           /\ Retried(row).state = row.state /\ Retried(row).to = row.to
           /\ Retried(row).envelope = row.envelope
<1>1. PICK q : q = Unleased(row)
  OBVIOUS
<1>2. Retried(row) = [q EXCEPT !.waits = TRUE]
  BY <1>1 DEF Retried
<1>3. /\ q \in Row /\ q.token = 0 /\ ~q.live
      /\ q.to = row.to /\ q.envelope = row.envelope /\ q.state = row.state
  BY <1>1, UnleasedRow
<1> QED
  BY <1>2, <1>3 DEF Row

(* A row whose envelope is frozen, unless it was. *)
LEMMA FrozenRow ==
    ASSUME NEW row \in Row, NEW u \in Users
    PROVE  /\ Frozen(row, u) \in Row /\ Frozen(row, u).token = row.token /\ Frozen(row, u).live = row.live
           /\ Frozen(row, u).state = row.state /\ Frozen(row, u).to = row.to
           /\ Frozen(row, u).envelope = IF row.envelope = Nobody THEN u ELSE row.envelope
BY DEF Frozen, Row

(* A leased row. *)
LEMMA LeasedRow ==
    ASSUME NEW row \in Row, NEW t \in Nat
    PROVE  /\ Leased(row, t) \in Row /\ Leased(row, t).token = t
           /\ Leased(row, t).state = row.state /\ Leased(row, t).to = row.to
           /\ Leased(row, t).envelope = row.envelope
BY DEF Leased, Row

(* A released row. *)
LEMMA ReleasedRow ==
    ASSUME NEW row \in Row
    PROVE  /\ Released(row) \in Row /\ Released(row).token = row.token /\ Released(row).live = row.live
           /\ Released(row).state = "due" /\ Released(row).to = row.to
           /\ Released(row).envelope = row.envelope
BY DEF Released, Row, States

(* A row whose lease or backoff has ended. *)
LEMMA EndedRow ==
    ASSUME NEW row \in Row
    PROVE  /\ LET r == [row EXCEPT !.live = FALSE]
              IN  /\ r \in Row /\ ~r.live /\ r.token = row.token /\ r.state = row.state
                  /\ r.to = row.to /\ r.envelope = row.envelope
           /\ LET r == [row EXCEPT !.waits = FALSE]
              IN  /\ r \in Row /\ r.live = row.live /\ r.token = row.token /\ r.state = row.state
                  /\ r.to = row.to /\ r.envelope = row.envelope
BY DEF Row

(* A new row. *)
LEMMA DueRow ==
    ASSUME NEW to \in Users \cup {Nobody}, NEW envelope \in Users \cup {Nobody}
    PROVE  /\ Due(to, envelope) \in Row /\ Due(to, envelope).token = 0 /\ ~Due(to, envelope).live
           /\ Due(to, envelope).state = "due" /\ Due(to, envelope).to = to
           /\ Due(to, envelope).envelope = envelope
BY DEF Due, Absent, Row, States

(* An id that is not in the line can be appended. *)
LEMMA AppendToLine ==
    ASSUME NEW l, NEW S, IsLine(l, S), NEW i \in Ids, i \notin S
    PROVE  IsLine(Append(l, i), S \cup {i})
<1> DEFINE k == Append(l, i)
<1>1. l \in Seq(Ids) /\ Len(l) \in Nat
  BY DEF IsLine
<1>2. k \in Seq(Ids) /\ Len(k) = Len(l) + 1 /\ DOMAIN k = 1..(Len(l) + 1) /\ DOMAIN l = 1..Len(l)
  BY <1>1
<1>3. k[Len(l) + 1] = i /\ \A n \in DOMAIN l : k[n] = l[n]
  BY <1>1
<1>4. \A n \in DOMAIN l : l[n] # i
  BY DEF IsLine
<1>5. \A m, n \in DOMAIN k : k[m] = k[n] => m = n
  BY <1>1, <1>2, <1>3, <1>4 DEF IsLine
<1>6. \A j \in Ids : j \in S \cup {i} <=> \E n \in DOMAIN k : k[n] = j
  <2> TAKE j \in Ids
  <2>1. ASSUME j \in S PROVE \E n \in DOMAIN k : k[n] = j
    BY <2>1, <1>1, <1>2, <1>3 DEF IsLine
  <2>2. ASSUME j = i PROVE \E n \in DOMAIN k : k[n] = j
    BY <2>2, <1>1, <1>2, <1>3
  <2>3. ASSUME NEW n \in DOMAIN k, k[n] = j PROVE j \in S \cup {i}
    BY <2>3, <1>1, <1>2, <1>3 DEF IsLine
  <2> QED
    BY <2>1, <2>2, <2>3
<1> QED
  BY <1>2, <1>5, <1>6 DEF IsLine

(* A line followed by another is a line when they have no id in common. *)
LEMMA ConcatLines ==
    ASSUME NEW l, NEW S, IsLine(l, S), NEW k, NEW T, IsLine(k, T), \A i \in Ids : i \notin S \/ i \notin T
    PROVE  IsLine(l \o k, S \cup T)
<1> DEFINE c == l \o k
<1>1. l \in Seq(Ids) /\ Len(l) \in Nat /\ k \in Seq(Ids) /\ Len(k) \in Nat
  BY DEF IsLine
<1>2. /\ c \in Seq(Ids) /\ Len(c) = Len(l) + Len(k) /\ DOMAIN c = 1..(Len(l) + Len(k))
      /\ DOMAIN l = 1..Len(l) /\ DOMAIN k = 1..Len(k)
  BY <1>1
<1>3. \A n \in DOMAIN l : n \in DOMAIN c /\ c[n] = l[n] /\ l[n] \in Ids
  BY <1>1, <1>2
<1>4. \A n \in DOMAIN k : Len(l) + n \in DOMAIN c /\ c[Len(l) + n] = k[n] /\ k[n] \in Ids
  BY <1>1, <1>2
<1>5. \A n \in DOMAIN c : n \in DOMAIN l \/ (n - Len(l) \in DOMAIN k /\ c[n] = k[n - Len(l)])
  BY <1>1, <1>2
<1>6. \A n \in DOMAIN l, m \in DOMAIN k : l[n] # k[m]
  BY <1>3, <1>4 DEF IsLine
<1>7. \A m, n \in DOMAIN c : c[m] = c[n] => m = n
  <2> SUFFICES ASSUME NEW m \in DOMAIN c, NEW n \in DOMAIN c, c[m] = c[n] PROVE m = n
    OBVIOUS
  <2>1. CASE m \in DOMAIN l /\ n \in DOMAIN l
    BY <2>1, <1>3 DEF IsLine
  <2>2. CASE m \notin DOMAIN l /\ n \notin DOMAIN l
    BY <2>2, <1>1, <1>2, <1>5 DEF IsLine
  <2>3. CASE m \in DOMAIN l /\ n \notin DOMAIN l
    BY <2>3, <1>3, <1>5, <1>6
  <2>4. CASE m \notin DOMAIN l /\ n \in DOMAIN l
    BY <2>4, <1>3, <1>5, <1>6
  <2> QED
    BY <2>1, <2>2, <2>3, <2>4
<1>8. \A j \in Ids : j \in S \cup T <=> \E n \in DOMAIN c : c[n] = j
  <2> TAKE j \in Ids
  <2>1. ASSUME j \in S PROVE \E n \in DOMAIN c : c[n] = j
    BY <2>1, <1>3 DEF IsLine
  <2>2. ASSUME j \in T PROVE \E n \in DOMAIN c : c[n] = j
    BY <2>2, <1>4 DEF IsLine
  <2>3. ASSUME NEW n \in DOMAIN c, c[n] = j PROVE j \in S \cup T
    BY <2>3, <1>3, <1>5 DEF IsLine
  <2> QED
    BY <2>1, <2>2, <2>3
<1> QED
  BY <1>2, <1>7, <1>8 DEF IsLine

(* A finite set of ids can be put in line. *)
LEMMA SetInLine ==
    ASSUME NEW T \in SUBSET Ids, IsFiniteSet(T)
    PROVE  IsLine(SetToSeq(T), T)
<1>1. Cardinality(T) \in Nat /\ ExistsBijection(1..Cardinality(T), T)
  BY FS_CardinalityType
<1>2. PICK g : g \in Bijection(1..Cardinality(T), T)
  BY <1>1 DEF ExistsBijection
<1>3. g \in [1..Cardinality(T) -> T] /\ IsInjective(g)
  BY <1>2 DEF Bijection, Injection, Surjection, IsInjective
<1> DEFINE s == SetToSeq(T)
<1>4. s \in [1..Cardinality(T) -> T] /\ IsInjective(s)
  BY <1>3 DEF SetToSeq
<1>5. s \in Seq(Ids) /\ DOMAIN s = 1..Cardinality(T)
  BY <1>4, <1>1
<1>6. \A m, n \in DOMAIN s : s[m] = s[n] => m = n
  BY <1>4 DEF IsInjective
<1>7. s \in Injection(1..Cardinality(T), T)
  BY <1>4, <1>6 DEF Injection, IsInjective
<1>8. IsFiniteSet(1..Cardinality(T)) /\ Cardinality(1..Cardinality(T)) = Cardinality(T)
  BY <1>1, FS_Interval
<1>9. s \in Surjection(1..Cardinality(T), T)
  BY <1>7, <1>8, FS_Injection
<1>10. \A i \in Ids : i \in T <=> \E n \in DOMAIN s : s[n] = i
  BY <1>4, <1>9 DEF Surjection
<1> QED
  BY <1>5, <1>6, <1>10 DEF IsLine

(* A row that goes to the end of the line. *)
LEMMA ToTheEndOfLine ==
    ASSUME LineOK, NEW i \in Ids, rows[i].state # "absent"
    PROVE  IsLine(ToTheEnd(i), Recorded)
<1> DEFINE p == CHOOSE n \in DOMAIN line : line[n] = i
           L == Len(line)
           s == ToTheEnd(i)
<1>1. line \in Seq(Ids) /\ L \in Nat /\ DOMAIN line = 1..L
  BY DEF LineOK, IsLine
<1>2. p \in 1..L /\ line[p] = i
  BY <1>1 DEF LineOK, IsLine, Recorded
<1> HIDE DEF p, L
<1>3. s = Append(SubSeq(line, 1, p - 1) \o SubSeq(line, p + 1, L), i)
  BY DEF ToTheEnd, RemoveAt, p, L
<1>4. /\ s \in Seq(Ids) /\ Len(s) = L /\ DOMAIN s = 1..L
      /\ \A n \in 1..L : s[n] = IF n < p THEN line[n] ELSE IF n < L THEN line[n + 1] ELSE i
  <2>1. PICK a : a = SubSeq(line, 1, p - 1)
    OBVIOUS
  <2>2. PICK b : b = SubSeq(line, p + 1, L)
    OBVIOUS
  <2>3. a \in Seq(Ids) /\ Len(a) = p - 1 /\ \A n \in 1..(p - 1) : a[n] = line[n]
    <3>1. \A n \in 1..(p - 1) : line[n] \in Ids
      BY <1>1, <1>2
    <3>2. p - 1 \in Int
      BY <1>1, <1>2
    <3>3. /\ a \in Seq(Ids) /\ Len(a) = IF 1 <= p - 1 THEN (p - 1) - 1 + 1 ELSE 0
          /\ \A n \in 1..((p - 1) - 1 + 1) : a[n] = line[1 + n - 1]
      BY <2>1, <3>1, <3>2, SubSeqProperties
    <3> QED
      BY <3>3, <1>1, <1>2
  <2>4. b \in Seq(Ids) /\ Len(b) = L - p /\ \A n \in 1..(L - p) : b[n] = line[p + n]
    <3>1. \A n \in (p + 1)..L : line[n] \in Ids
      BY <1>1, <1>2
    <3>2. p + 1 \in Int /\ L \in Int
      BY <1>1, <1>2
    <3>3. /\ b \in Seq(Ids) /\ Len(b) = IF p + 1 <= L THEN L - (p + 1) + 1 ELSE 0
          /\ \A n \in 1..(L - (p + 1) + 1) : b[n] = line[(p + 1) + n - 1]
      BY <2>2, <3>1, <3>2, SubSeqProperties
    <3>4. L \in Nat /\ p \in 1..L
      BY <1>1, <1>2
    <3>5. Len(b) = L - p
      BY <3>3, <3>4
    <3>6. ASSUME NEW n \in 1..(L - p) PROVE b[n] = line[p + n]
      <4>1. n \in 1..(L - (p + 1) + 1) /\ (p + 1) + n - 1 = p + n
        BY <3>4
      <4> QED
        BY <3>3, <4>1
    <3> QED
      BY <3>3, <3>5, <3>6
  <2>5. PICK c : c = a \o b
    OBVIOUS
  <2>6. /\ c \in Seq(Ids) /\ Len(c) = Len(a) + Len(b)
        /\ \A n \in 1..(Len(a) + Len(b)) : c[n] = IF n <= Len(a) THEN a[n] ELSE b[n - Len(a)]
    BY <2>3, <2>4, <2>5, ConcatProperties
  <2>7. /\ c \in Seq(Ids) /\ Len(c) = L - 1
        /\ \A n \in 1..(L - 1) : c[n] = IF n < p THEN line[n] ELSE line[n + 1]
    <3>1. c \in Seq(Ids) /\ Len(c) = L - 1
      BY <2>3, <2>4, <2>6, <1>1, <1>2
    <3>2. ASSUME NEW n \in 1..(L - 1), n < p PROVE c[n] = line[n]
      <4>1. n \in 1..(p - 1) /\ n \in 1..(Len(a) + Len(b)) /\ n <= Len(a)
        BY <3>2, <2>3, <2>4, <1>1, <1>2
      <4> QED
        BY <4>1, <2>3, <2>6
    <3>3. ASSUME NEW n \in 1..(L - 1), ~(n < p) PROVE c[n] = line[n + 1]
      <4>1. n - (p - 1) \in 1..(L - p) /\ n + 1 = p + (n - (p - 1))
        BY <3>3, <1>1, <1>2
      <4>2. c[n] = b[n - (p - 1)]
        <5>1. n \in 1..(Len(a) + Len(b)) /\ ~(n <= Len(a)) /\ n - Len(a) = n - (p - 1)
          BY <3>3, <2>3, <2>4, <1>1, <1>2
        <5> QED
          BY <5>1, <2>6
      <4> QED
        BY <4>1, <4>2, <2>4
    <3> QED
      BY <3>1, <3>2, <3>3
  <2>8. s = Append(c, i)
    BY <1>3, <2>1, <2>2, <2>5
  <2> QED
    BY <2>7, <2>8, <1>1, <1>2
<1>5. \A m, n \in DOMAIN s : s[m] = s[n] => m = n
  <2>1. \A m, n \in 1..L : line[m] = line[n] => m = n
    BY <1>1 DEF LineOK, IsLine
  <2> QED
    BY <2>1, <1>1, <1>2, <1>4
<1>6. \A j \in Ids : j \in Recorded <=> \E n \in DOMAIN s : s[n] = j
  <2> TAKE j \in Ids
  <2>1. j \in Recorded <=> \E n \in 1..L : line[n] = j
    BY <1>1 DEF LineOK, IsLine
  <2>2. ASSUME NEW n \in 1..L, line[n] = j PROVE \E m \in DOMAIN s : s[m] = j
    <3>1. CASE n < p
      BY <3>1, <2>2, <1>4
    <3>2. CASE n = p
      BY <3>2, <2>2, <1>4, <1>2, <1>1
    <3>3. CASE n > p
      <4>1. n - 1 \in 1..L /\ ~(n - 1 < p) /\ n - 1 < L /\ (n - 1) + 1 = n
        BY <3>3, <1>1, <1>2
      <4> QED
        BY <4>1, <2>2, <1>4
    <3> QED
      BY <3>1, <3>2, <3>3, <1>1, <1>2
  <2>3. ASSUME NEW n \in 1..L, s[n] = j PROVE \E m \in 1..L : line[m] = j
    BY <2>3, <1>1, <1>2, <1>4
  <2> QED
    BY <2>1, <2>2, <2>3, <1>4
<1> QED
  BY <1>4, <1>5, <1>6 DEF IsLine

(* A line is as long as its set is large. *)
LEMMA LineLength ==
    ASSUME NEW l, NEW S \in SUBSET Ids, IsLine(l, S)
    PROVE  ToSet(l) = S /\ IsFiniteSet(S) /\ Len(l) = Cardinality(S)
<1>1. l \in Seq(Ids) /\ Len(l) \in Nat /\ DOMAIN l = 1..Len(l)
  BY DEF IsLine
<1>2. l \in [1..Len(l) -> S]
  BY <1>1 DEF IsLine
<1>3. l \in Bijection(1..Len(l), S)
  BY <1>2, <1>1 DEF IsLine, Bijection, Injection, Surjection, IsInjective
<1>4. IsFiniteSet(1..Len(l)) /\ Cardinality(1..Len(l)) = Len(l)
  BY <1>1, FS_Interval
<1>5. IsFiniteSet(S) /\ Cardinality(S) = Len(l)
  BY <1>3, <1>4, FS_Bijection DEF ExistsBijection
<1>6. ToSet(l) = S
  BY <1>1 DEF ToSet, IsLine
<1> QED
  BY <1>5, <1>6

(* There is always a token that no request in flight carries. *)
LEMMA FreshTokens ==
    ASSUME StraysOK, WorkersOK, NEW i \in Ids
    PROVE  /\ FreshToken(i) \in Nat \ {0}
           /\ FreshToken(i) # rows[i].token
           /\ \A o \in Owners : worker[o].id = i => FreshToken(i) # worker[o].token
           /\ \A r \in strays : r.id = i => FreshToken(i) # r.token
<1> DEFINE Mine == {s \in strays : s.id = i}
           A == {worker[o].token : o \in {p \in Owners : worker[p].id = i}}
           B == {r.token : r \in Mine}
           All == {worker["event"].token, worker["venue"].token,
                   worker["registration"].token, worker["equipment"].token}
<1>1. IsFiniteSet(B)
  <2>1. IsFiniteSet(Mine)
    BY FS_Subset DEF StraysOK
  <2> DEFINE f == [r \in Mine |-> r.token]
  <2>2. f \in Surjection(Mine, B)
    BY DEF Surjection
  <2> QED
    BY <2>1, <2>2, FS_Surjection
<1>2. IsFiniteSet(A)
  <2>1. IsFiniteSet({worker["event"].token})
    BY FS_Singleton
  <2>2. IsFiniteSet({worker["event"].token} \cup {worker["venue"].token})
    BY <2>1, FS_AddElement
  <2>3. IsFiniteSet(({worker["event"].token} \cup {worker["venue"].token}) \cup {worker["registration"].token})
    BY <2>2, FS_AddElement
  <2>4. IsFiniteSet((({worker["event"].token} \cup {worker["venue"].token}) \cup {worker["registration"].token})
                     \cup {worker["equipment"].token})
    BY <2>3, FS_AddElement
  <2>5. A \subseteq (({worker["event"].token} \cup {worker["venue"].token}) \cup {worker["registration"].token})
                     \cup {worker["equipment"].token}
    BY DEF Owners
  <2> QED
    BY <2>4, <2>5, FS_Subset
<1>3. IsFiniteSet(InUse(i))
  <2>1. IsFiniteSet({rows[i].token})
    BY FS_Singleton
  <2>2. IsFiniteSet({rows[i].token} \cup A)
    BY <2>1, <1>2, FS_Union
  <2>3. IsFiniteSet(({rows[i].token} \cup A) \cup B)
    BY <2>2, <1>1, FS_Union
  <2>4. InUse(i) = ({rows[i].token} \cup A) \cup B
    BY DEF InUse
  <2> QED
    BY <2>3, <2>4
<1>4. \E t \in 1..(Cardinality(InUse(i)) + 1) : t \notin InUse(i)
  <2>1. Cardinality(InUse(i)) \in Nat
    BY <1>3, FS_CardinalityType
  <2>2. SUFFICES ASSUME 1..(Cardinality(InUse(i)) + 1) \subseteq InUse(i) PROVE FALSE
    OBVIOUS
  <2>3. Cardinality(1..(Cardinality(InUse(i)) + 1)) <= Cardinality(InUse(i))
    BY <2>2, <1>3, FS_Subset
  <2>4. Cardinality(1..(Cardinality(InUse(i)) + 1)) = Cardinality(InUse(i)) + 1
    BY <2>1, FS_Interval
  <2> QED
    BY <2>1, <2>3, <2>4
<1>5. FreshToken(i) \in 1..(Cardinality(InUse(i)) + 1) /\ FreshToken(i) \notin InUse(i)
  BY <1>4 DEF FreshToken
<1>6. Cardinality(InUse(i)) \in Nat
  BY <1>3, FS_CardinalityType
<1>7. FreshToken(i) \in Nat \ {0}
  BY <1>5, <1>6
<1> QED
  BY <1>5, <1>7 DEF InUse

(***************************************************************************)
(* Steps of the rows.                                                      *)
(***************************************************************************)
(* One row changes, to one that fits, and a published row stays published. *)
LEMMA RowChanges ==
    ASSUME RowsOK, NEW j \in Ids, NEW q \in Row, rows' = [rows EXCEPT ![j] = q],
           Fits(j, q), rows[j].state = "published" => q.state = "published",
           UNCHANGED broker
    PROVE  RowsOK'
<1>1. rows' \in [Ids -> Row]
  BY DEF RowsOK
<1>2. rows'[j] = q /\ \A i \in Ids : i # j => rows'[i] = rows[i]
  BY DEF RowsOK
<1>3. \A i : Sent(i)' <=> Sent(i)
  BY DEF Sent, Waiting, Quarantined, broker
<1>4. ASSUME NEW i \in Ids PROVE Fits(i, rows[i])'
  <2>1. \A k \in Ids : rows[k].state = "published" => rows'[k].state = "published"
    BY <1>2
  <2>2. IsChild(i) => <<i[1]>> \in Ids
    BY IdShapes
  <2>3. CASE i = j
    BY <2>1, <2>2, <2>3, <1>2, <1>3 DEF Fits
  <2>4. CASE i # j
    <3>1. Fits(i, rows[i])
      BY DEF RowsOK
    <3> QED
      BY <3>1, <2>1, <2>2, <2>4, <1>2, <1>3 DEF Fits
  <2> QED
    BY <2>3, <2>4
<1> QED
  BY <1>1, <1>4 DEF RowsOK

(* Only the broker and the inbox change, and what was sent is still sent. *)
LEMMA SendingKeepsRows ==
    ASSUME RowsOK, UNCHANGED rows, \A i \in Ids : Sent(i) => Sent(i)'
    PROVE  RowsOK'
<1>1. ASSUME NEW i \in Ids PROVE Fits(i, rows[i])'
  <2>1. Fits(i, rows[i])
    BY DEF RowsOK
  <2> QED
    BY <2>1 DEF Fits
<1> QED
  BY <1>1 DEF RowsOK

(* What a transaction may do to the rows. An envelope is frozen once, by the one request whose
   token is the row's; a row loses its lease or keeps it. *)
KeepsRequests(id, token) ==
    \A i \in Ids :
        /\ rows[i].state # "absent" => rows'[i].state # "absent"
        /\ rows[i].envelope # Nobody => rows'[i].envelope = rows[i].envelope
        /\ rows'[i].envelope # rows[i].envelope => i = id /\ rows[i].token = token
        /\ rows'[i].token \in {rows[i].token, 0}

(* A request that the owner accepts holds a live lease on a due row. *)
LEMMA AcceptedIsDue ==
    ASSUME RowsOK, NEW r \in RequestType, Accepts(r)
    PROVE  rows[r.id] \in Row /\ rows[r.id].state = "due" /\ rows[r.id].token = r.token /\ rows[r.id].token # 0
BY DEF RowsOK, Fits, Accepts, Fenced, RequestType

(* Freezing an envelope: only one that the row lets pass, and only once. *)
LEMMA FreezeKeepsRows ==
    ASSUME RowsOK, NEW r \in RequestType, RequestOK(r.op, r.id, r.token, r.to), Accepts(r), r.op = "freeze",
           rows' = [rows EXCEPT ![r.id] = Frozen(@, r.to)], UNCHANGED broker
    PROVE  /\ RowsOK' /\ KeepsRequests(r.id, r.token) /\ rows'[r.id].envelope \in Users
           /\ \A i \in Ids : rows'[i].state = rows[i].state
           /\ \A i \in Ids : i # r.id => rows'[i] = rows[i]
           /\ rows[r.id].envelope # Nobody => rows'[r.id].envelope = rows[r.id].envelope
<1>1. /\ r.id \in Ids /\ rows[r.id] \in Row /\ rows[r.id].state = "due" /\ rows[r.id].token = r.token
      /\ rows[r.id].token # 0 /\ Fits(r.id, rows[r.id])
  BY AcceptedIsDue DEF RequestType, RowsOK
<1>2. r.to \in Users /\ ~IsFanOut(r.id)
  BY DEF RequestOK
<1>3. PICK q : q = Frozen(rows[r.id], r.to)
  OBVIOUS
<1>4. /\ q \in Row /\ q.token = rows[r.id].token /\ q.live = rows[r.id].live /\ q.state = "due"
      /\ q.to = rows[r.id].to
      /\ q.envelope = IF rows[r.id].envelope = Nobody THEN r.to ELSE rows[r.id].envelope
  BY <1>1, <1>2, <1>3, FrozenRow
<1>5. rows' = [rows EXCEPT ![r.id] = q]
  BY <1>3
<1>6. ASSUME IsChild(r.id), rows[r.id].envelope = Nobody PROVE r.to = rows[r.id].to
  <2>1. EnvelopeIsValid(r.id, r.to)
    BY <1>6 DEF Accepts
  <2>2. r.id[1] \in FanOuts /\ Owner(r.id) \in {"event", "venue"}
    BY <1>1, <1>6, IdShapes, OwnerType
  <2>3. EventEnvelopeIsValid(r.id, r.to) \/ VenueEnvelopeIsValid(r.id, r.to)
    BY <2>1, <2>2 DEF EnvelopeIsValid
  <2>4. r.id[1] # "event.change-request-submitted" /\ r.id[1] # "venue.closure-rejection"
    BY <2>2 DEF FanOuts, EventFanOuts
  <2> QED
    BY <2>3, <2>4 DEF EventEnvelopeIsValid, VenueEnvelopeIsValid
<1>7. Fits(r.id, q)
  BY <1>1, <1>2, <1>4, <1>6 DEF Fits
<1>8. RowsOK'
  BY <1>1, <1>4, <1>5, <1>7, RowChanges
<1>9. rows'[r.id] = q /\ \A i \in Ids : i # r.id => rows'[i] = rows[i]
  BY <1>1, <1>5 DEF RowsOK
<1>10. q.envelope \in Users
  BY <1>1, <1>2, <1>4 DEF Row
<1>11. KeepsRequests(r.id, r.token)
  BY <1>1, <1>4, <1>9 DEF KeepsRequests
<1>12. /\ \A i \in Ids : rows'[i].state = rows[i].state
       /\ rows[r.id].envelope # Nobody => rows'[r.id].envelope = rows[r.id].envelope
  BY <1>1, <1>4, <1>9
<1> QED
  BY <1>8, <1>9, <1>10, <1>11, <1>12

(* The other requests about one row: the lease is given up, the envelope stays. *)
LEMMA GivingUpTheLease ==
    ASSUME RowsOK, NEW r \in RequestType, RequestOK(r.op, r.id, r.token, r.to), Accepts(r),
           \/ r.op = "published" /\ rows' = [rows EXCEPT ![r.id] = Published(@)]
           \/ r.op = "hold" /\ rows' = [rows EXCEPT ![r.id] = Held(@)]
           \/ r.op = "retry" /\ rows' = [rows EXCEPT ![r.id] = Retried(@)],
           UNCHANGED broker
    PROVE  /\ RowsOK' /\ KeepsRequests(r.id, r.token)
           /\ \A i \in Ids : /\ rows'[i].envelope = rows[i].envelope
                             /\ rows'[i].state = "absent" <=> rows[i].state = "absent"
                             /\ IsFanOut(i) => (rows'[i].state = "published" <=> rows[i].state = "published")
<1>1. /\ r.id \in Ids /\ rows[r.id] \in Row /\ rows[r.id].state = "due" /\ rows[r.id].token = r.token
      /\ rows[r.id].token # 0 /\ Fits(r.id, rows[r.id])
  BY AcceptedIsDue DEF RequestType, RowsOK
<1>2. PICK q : /\ q \in Row /\ q.token = 0 /\ ~q.live /\ q.to = rows[r.id].to
               /\ q.envelope = rows[r.id].envelope /\ rows' = [rows EXCEPT ![r.id] = q]
               /\ \/ r.op = "published" /\ q.state = "published"
                  \/ r.op = "hold" /\ q.state = "held"
                  \/ r.op = "retry" /\ q.state = "due"
  <2>1. CASE r.op = "published"
    <3>1. PICK q : q = Published(rows[r.id])
      OBVIOUS
    <3>2. rows' = [rows EXCEPT ![r.id] = q]
      BY <2>1, <3>1
    <3> QED
      BY <2>1, <3>1, <3>2, <1>1, PublishedRow
  <2>2. CASE r.op = "hold"
    <3>1. PICK q : q = Held(rows[r.id])
      OBVIOUS
    <3>2. rows' = [rows EXCEPT ![r.id] = q]
      BY <2>2, <3>1
    <3> QED
      BY <2>2, <3>1, <3>2, <1>1, HeldRow
  <2>3. CASE r.op = "retry"
    <3>1. PICK q : q = Retried(rows[r.id])
      OBVIOUS
    <3>2. rows' = [rows EXCEPT ![r.id] = q]
      BY <2>3, <3>1
    <3> QED
      BY <2>3, <3>1, <3>2, <1>1, RetriedRow
  <2> QED
    BY <2>1, <2>2, <2>3
<1>3. Fits(r.id, q)
  <2>1. r.op = "published" => Sent(r.id)
    BY DEF RequestOK
  <2>2. r.op = "hold" => rows[r.id].envelope = Nobody
    BY <1>1 DEF RequestOK
  <2> QED
    BY <1>1, <1>2, <2>1, <2>2 DEF Fits
<1>4. RowsOK'
  BY <1>1, <1>2, <1>3, RowChanges
<1>5. rows'[r.id] = q /\ \A i \in Ids : i # r.id => rows'[i] = rows[i]
  BY <1>1, <1>2 DEF RowsOK
<1>6. KeepsRequests(r.id, r.token)
  BY <1>1, <1>2, <1>5 DEF KeepsRequests
<1>7. IsFanOut(r.id) => r.op # "published"
  BY <1>1 DEF Accepts, Fits
<1>8. \A i \in Ids : /\ rows'[i].envelope = rows[i].envelope
                     /\ rows'[i].state = "absent" <=> rows[i].state = "absent"
                     /\ IsFanOut(i) => (rows'[i].state = "published" <=> rows[i].state = "published")
  BY <1>1, <1>2, <1>5, <1>7
<1> QED
  BY <1>4, <1>6, <1>8

(* A fan-out is published together with a share of each recipient, none of which was there. *)
LEMMA ExpandKeepsRows ==
    ASSUME RowsOK, LineOK, NEW r \in RequestType, Accepts(r), r.op = "expand", Expand(r), UNCHANGED broker
    PROVE  /\ RowsOK' /\ LineOK' /\ KeepsRequests(r.id, r.token)
           /\ IsFanOut(r.id) /\ rows[r.id].state = "due" /\ rows'[r.id].state = "published"
           /\ \A i \in Ids : rows'[i].envelope = rows[i].envelope
           /\ LET children == {Child(r.id, u) : u \in r.many}
              IN  /\ children \cap Recorded = {} /\ Recorded' = Recorded \cup children
                  /\ \A i \in Ids : i # r.id /\ i \notin children => rows'[i] = rows[i]
                  /\ \A i \in children : ~IsFanOut(i)
<1> DEFINE children == {Child(r.id, u) : u \in r.many}
<1>1. /\ r.id \in Ids /\ rows[r.id] \in Row /\ rows[r.id].state = "due" /\ rows[r.id].token = r.token
      /\ rows[r.id].token # 0 /\ Fits(r.id, rows[r.id]) /\ r.many \subseteq Users
  BY AcceptedIsDue DEF RequestType, RowsOK
<1>2. IsFanOut(r.id)
  BY DEF Accepts
<1>3. \A c \in children : /\ c \in Ids /\ IsChild(c) /\ ~IsFanOut(c) /\ c # r.id
                          /\ c[1] = r.id[1] /\ c[2] \in Users /\ <<c[1]>> = r.id
  <2> SUFFICES ASSUME NEW u \in r.many
               PROVE  LET c == Child(r.id, u)
                      IN /\ c \in Ids /\ IsChild(c) /\ ~IsFanOut(c) /\ c # r.id
                         /\ c[1] = r.id[1] /\ c[2] \in Users /\ <<c[1]>> = r.id
    OBVIOUS
  <2>1. u \in Users
    BY <1>1
  <2> QED
    BY <1>1, <1>2, <2>1, Children
<1>4. \A c \in children : rows[c].state = "absent" /\ rows[c].token = 0 /\ rows[c].envelope = Nobody
  <2> TAKE c \in children
  <2>1. Fits(c, rows[c])
    BY <1>3 DEF RowsOK
  <2> QED
    BY <2>1, <1>1, <1>3 DEF Fits
<1> HIDE DEF children
<1>5. rows' = [i \in Ids |-> IF i \in children THEN Due(i[2], Nobody)
                             ELSE IF i = r.id THEN Published(rows[i]) ELSE rows[i]]
  BY DEF Expand, children
<1>6. \A c \in children : /\ rows'[c] \in Row /\ rows'[c].token = 0 /\ ~rows'[c].live /\ rows'[c].state = "due"
                          /\ rows'[c].to = c[2] /\ rows'[c].envelope = Nobody
  <2> TAKE c \in children
  <2>1. PICK q : q = Due(c[2], Nobody)
    OBVIOUS
  <2>2. rows'[c] = q
    BY <2>1, <1>3, <1>5
  <2> QED
    BY <2>1, <2>2, <1>3, DueRow
<1>7. /\ rows'[r.id] \in Row /\ rows'[r.id].token = 0 /\ ~rows'[r.id].live /\ rows'[r.id].state = "published"
      /\ rows'[r.id].to = rows[r.id].to /\ rows'[r.id].envelope = rows[r.id].envelope
  <2>1. PICK q : q = Published(rows[r.id])
    OBVIOUS
  <2>2. rows'[r.id] = q
    BY <2>1, <1>1, <1>3, <1>5
  <2> QED
    BY <2>1, <2>2, <1>1, PublishedRow
<1>8. \A i \in Ids : i # r.id /\ i \notin children => rows'[i] = rows[i]
  BY <1>5
<1>9. rows' \in [Ids -> Row]
  <2>1. \A i \in Ids : rows'[i] \in Row
    BY <1>6, <1>7, <1>8 DEF RowsOK
  <2> QED
    BY <2>1, <1>5
<1>10. \A i \in Ids : Fits(i, rows[i])'
  <2> SUFFICES ASSUME NEW i \in Ids PROVE Fits(i, rows[i])'
    OBVIOUS
  <2>1. Sent(i)' <=> Sent(i)
    BY DEF Sent, Waiting, Quarantined, broker
  <2>2. \A k \in Ids : rows[k].state = "published" => rows'[k].state = "published"
    BY <1>4, <1>7, <1>8
  <2>3. IsChild(i) => <<i[1]>> \in Ids
    BY IdShapes
  <2>4. Fits(i, rows[i])
    BY DEF RowsOK
  <2>5. CASE i \in children
    BY <2>5, <1>3, <1>6, <1>7 DEF Fits
  <2>6. CASE i = r.id
    BY <2>6, <1>1, <1>2, <1>7, <2>4 DEF Fits, IsFanOut
  <2>7. CASE i # r.id /\ i \notin children
    BY <2>1, <2>2, <2>3, <2>4, <2>7, <1>8 DEF Fits
  <2> QED
    BY <2>5, <2>6, <2>7
<1>11. \A i \in Ids : rows'[i].envelope = rows[i].envelope
  BY <1>4, <1>6, <1>7, <1>8
<1>12. KeepsRequests(r.id, r.token)
  BY <1>4, <1>6, <1>7, <1>8, <1>11 DEF KeepsRequests
<1>13. children \cap Recorded = {}
  BY <1>4 DEF Recorded
<1>14. Recorded' = Recorded \cup children
  BY <1>1, <1>3, <1>6, <1>7, <1>8 DEF Recorded
<1>15. LineOK'
  <2>1. children \subseteq Ids
    BY <1>3
  <2>2. IsFiniteSet(children)
    <3> DEFINE f == [u \in r.many |-> Child(r.id, u)]
    <3>1. f \in Surjection(r.many, children)
      BY DEF Surjection, children
    <3>2. IsFiniteSet(r.many)
      BY <1>1, PeopleAssumption, FS_Subset
    <3> QED
      BY <3>1, <3>2, FS_Surjection
  <2>3. IsLine(SetToSeq(children), children)
    BY <2>1, <2>2, SetInLine
  <2>4. IsLine(line, Recorded) /\ \A i \in Ids : i \notin Recorded \/ i \notin children
    BY <1>13 DEF LineOK
  <2>5. IsLine(line \o SetToSeq(children), Recorded \cup children)
    BY <2>3, <2>4, ConcatLines
  <2>6. line' = line \o SetToSeq(children)
    BY DEF Expand, children
  <2>7. IsLine(line', Recorded')
    BY <2>5, <2>6, <1>14
  <2> QED
    BY <2>7 DEF LineOK, IsLine
<1>16. /\ children \cap Recorded = {} /\ Recorded' = Recorded \cup children
       /\ \A i \in Ids : i # r.id /\ i \notin children => rows'[i] = rows[i]
       /\ \A i \in children : ~IsFanOut(i)
  BY <1>3, <1>8, <1>13, <1>14
<1> QED
  BY <1>1, <1>2, <1>7, <1>9, <1>10, <1>11, <1>12, <1>15, <1>16 DEF RowsOK, children

(* The line has the recorded rows, whichever row it is whose turn was put off. *)
LEMMA LineKeeps ==
    ASSUME LineOK, NEW i \in Ids, rows[i].state # "absent", Recorded' = Recorded,
           line' = line \/ line' = ToTheEnd(i)
    PROVE  LineOK'
<1>1. IsLine(line', Recorded)
  BY ToTheEndOfLine DEF LineOK
<1> QED
  BY <1>1 DEF LineOK, IsLine

(* A transaction of an owner keeps the rows and the line. *)
LEMMA ExecuteKeepsOutboxes ==
    ASSUME RowsOK, LineOK, NEW r \in RequestType, RequestOK(r.op, r.id, r.token, r.to),
           Accepts(r), Execute(r), UNCHANGED broker
    PROVE  /\ RowsOK' /\ LineOK' /\ KeepsRequests(r.id, r.token)
           /\ r.op = "freeze" => rows'[r.id].envelope \in Users
<1>1. r.id \in Ids /\ rows[r.id].state # "absent"
  BY DEF RequestType, RequestOK
<1>2. CASE r.op = "expand" /\ Expand(r)
  BY <1>2, ExpandKeepsRows
<1>3. CASE r.op = "freeze" /\ rows' = [rows EXCEPT ![r.id] = Frozen(@, r.to)] /\ UNCHANGED line
  <2>1. RowsOK' /\ KeepsRequests(r.id, r.token) /\ rows'[r.id].envelope \in Users
    BY <1>3, FreezeKeepsRows
  <2>2. Recorded' = Recorded
    BY <2>1, <1>1, <1>3 DEF Recorded, KeepsRequests, RowsOK
  <2> QED
    BY <2>1, <2>2, <1>1, <1>3, LineKeeps
<1>4. CASE \/ r.op = "published" /\ rows' = [rows EXCEPT ![r.id] = Published(@)] /\ UNCHANGED line
           \/ r.op = "hold" /\ rows' = [rows EXCEPT ![r.id] = Held(@)] /\ UNCHANGED line
           \/ r.op = "retry" /\ rows' = [rows EXCEPT ![r.id] = Retried(@)] /\ line' = ToTheEnd(r.id)
  <2>1. RowsOK' /\ KeepsRequests(r.id, r.token)
    BY <1>4, GivingUpTheLease
  <2>2. Recorded' = Recorded
    BY <2>1, <1>1, <1>4 DEF Recorded, KeepsRequests, RowsOK
  <2>3. line' = line \/ line' = ToTheEnd(r.id)
    BY <1>4
  <2>4. r.op # "freeze"
    BY <1>4
  <2> QED
    BY <2>1, <2>2, <2>3, <2>4, <1>1, LineKeeps
<1> QED
  BY <1>2, <1>3, <1>4 DEF Execute

(***************************************************************************)
(* What the other requests know is still true after a step.                *)
(***************************************************************************)
(* A request about another row, or with another token. *)
LEMMA OtherRequests ==
    ASSUME NEW id, NEW token, KeepsRequests(id, token), UNCHANGED broker
    PROVE  \A op, t, to : \A i \in Ids :
             RequestOK(op, i, t, to) /\ (i # id \/ t # token) => RequestOK(op, i, t, to)'
<1> TAKE op, t, to
<1> TAKE i \in Ids
<1> HAVE RequestOK(op, i, t, to) /\ (i # id \/ t # token)
<1>1. Sent(i)' <=> Sent(i)
  BY DEF Sent, Waiting, Quarantined, broker
<1>2. rows'[i].state # "absent" /\ t # 0
  BY DEF RequestOK, KeepsRequests
<1>3. rows'[i].token = t => rows[i].token = t
  BY <1>2 DEF KeepsRequests
<1>4. rows'[i].token = t => rows'[i].envelope = rows[i].envelope
  BY <1>3 DEF KeepsRequests
<1>5. op \in {"lookup", "hold"} /\ rows'[i].token = t => rows'[i].envelope = Nobody
  BY <1>3, <1>4 DEF RequestOK
<1>6. op = "publish" => to \in Users /\ rows'[i].envelope = to
  BY PeopleAssumption DEF RequestOK, KeepsRequests
<1> QED
  BY <1>1, <1>2, <1>5, <1>6 DEF RequestOK

(* Rows and broker as they were, or more sent than before. *)
LEMMA SameRows ==
    ASSUME UNCHANGED rows, \A i \in Ids : Sent(i) => Sent(i)'
    PROVE  \A op, t, to : \A i \in Ids : RequestOK(op, i, t, to) => RequestOK(op, i, t, to)'
BY DEF RequestOK

(* Copies keep naming the recipient of the envelope when no envelope is changed. *)
LEMMA CopiesKept ==
    ASSUME RowsOK, MessagesOK, InboxOK, UNCHANGED broker,
           \A i \in Ids : rows[i].envelope # Nobody => rows'[i].envelope = rows[i].envelope
    PROVE  MessagesOK' /\ InboxOK'
<1>1. \A m \in Message : CopyOK(m) => CopyOK(m)'
  BY PeopleAssumption DEF CopyOK, Message
<1>2. \A n \in DOMAIN queue : queue[n] \in Message
  BY DEF MessagesOK
<1>3. MessagesOK'
  BY <1>1, <1>2 DEF MessagesOK, broker
<1>4. \A e \in Entry : e.to \in Users
  BY DEF Entry
<1>5. InboxOK'
  BY <1>4, PeopleAssumption DEF InboxOK, broker
<1> QED
  BY <1>3, <1>5

(* One worker moves. *)
LEMMA WorkerMoves ==
    ASSUME WorkersOK, TokensOK, strays' \subseteq strays, NEW o \in Owners, NEW w \in Worker,
           worker' = [worker EXCEPT ![o] = w],
           \A p \in Owners : \A x \in Worker :
               p # o /\ x = worker[p] /\ x.at # "idle" => RequestOK(x.at, x.id, x.token, x.to)',
           w.at # "idle" =>
               /\ Owner(w.id) = o /\ RequestOK(w.at, w.id, w.token, w.to)'
               /\ \A r \in strays : w.id = r.id => w.token # r.token
    PROVE  WorkersOK' /\ TokensOK'
<1>1. worker'[o] = w /\ \A p \in Owners : p # o => worker'[p] = worker[p]
  BY DEF WorkersOK
<1>2. worker' \in [Owners -> Worker]
  BY DEF WorkersOK
<1>3. ASSUME NEW p \in Owners PROVE WorkerOK(p)'
  <2>1. CASE p = o
    <3>1. worker'[p] = w
      BY <2>1, <1>1
    <3> QED
      BY <2>1, <3>1 DEF WorkerOK
  <2>2. CASE p # o
    <3>1. PICK x : x = worker[p]
      OBVIOUS
    <3>2. x \in Worker /\ worker'[p] = x /\ (x.at # "idle" => Owner(x.id) = p)
      BY <2>2, <3>1, <1>1 DEF WorkersOK, WorkerOK
    <3>3. x.at # "idle" => RequestOK(x.at, x.id, x.token, x.to)'
      BY <2>2, <3>1, <3>2
    <3> QED
      BY <3>2, <3>3 DEF WorkerOK
  <2> QED
    BY <2>1, <2>2
<1>4. TokensOK'
  BY <1>1 DEF TokensOK
<1> QED
  BY <1>2, <1>3, <1>4 DEF WorkersOK

(* Whatever a worker becomes. *)
LEMMA WorkerTypes ==
    ASSUME NEW w \in Worker
    PROVE  /\ Idle(w) \in Worker /\ Idle(w).at = "idle"
           /\ Failed(w) \in Worker
           /\ Failed(w).at # "idle" =>
                Failed(w).at = "retry" /\ Failed(w).id = w.id /\ Failed(w).token = w.token
           /\ w.at \in Operations =>
                /\ Request(w) \in RequestType /\ Request(w).op = w.at /\ Request(w).id = w.id
                /\ Request(w).token = w.token /\ Request(w).to = w.to /\ Request(w).many = w.many
<1>1. Idle(w) \in Worker /\ Idle(w).at = "idle"
  BY DEF Idle, Worker
<1>2. [w EXCEPT !.at = "retry"] \in Worker
  BY DEF Worker, Operations
<1>3. /\ [w EXCEPT !.at = "retry"].at = "retry" /\ [w EXCEPT !.at = "retry"].id = w.id
      /\ [w EXCEPT !.at = "retry"].token = w.token
  BY DEF Worker
<1>4. w.at \in Operations =>
                /\ Request(w) \in RequestType /\ Request(w).op = w.at /\ Request(w).id = w.id
                /\ Request(w).token = w.token /\ Request(w).to = w.to /\ Request(w).many = w.many
  BY DEF Request, RequestType, Worker
<1> QED
  BY <1>1, <1>2, <1>3, <1>4 DEF Failed

(* Owners have workers of their own: another worker is not at the same row. *)
LEMMA WorkersApart ==
    ASSUME WorkersOK, NEW o \in Owners, NEW p \in Owners, o # p,
           worker[o].at # "idle", worker[p].at # "idle"
    PROVE  worker[o].id # worker[p].id
BY DEF WorkersOK, WorkerOK

(* A worker and what it knows. *)
LEMMA WorkerKnows ==
    ASSUME WorkersOK, NEW o \in Owners
    PROVE  /\ worker[o] \in Worker /\ worker[o].id \in Ids
           /\ worker[o].at # "idle" =>
                /\ Owner(worker[o].id) = o /\ worker[o].token # 0
                /\ RequestOK(worker[o].at, worker[o].id, worker[o].token, worker[o].to)
BY DEF WorkersOK, WorkerOK, Worker, RequestOK

(***************************************************************************)
(* Every step keeps the invariant.                                         *)
(***************************************************************************)
(* Rows change under requests none of which is concerned. *)
LEMMA RowsMove ==
    ASSUME Inv, RowsOK', LineOK', NEW id, KeepsRequests(id, 0),
           UNCHANGED <<worker, strays, broker, gone, world>>
    PROVE  Inv'
<1>1. \A op, t, to : \A i \in Ids : RequestOK(op, i, t, to) => RequestOK(op, i, t, to)'
  <2>1. \A op, t, to : \A i \in Ids : RequestOK(op, i, t, to) => t # 0
    BY DEF RequestOK
  <2>2. UNCHANGED broker
    OBVIOUS
  <2>3. \A op, t, to : \A i \in Ids :
             RequestOK(op, i, t, to) /\ (i # id \/ t # 0) => RequestOK(op, i, t, to)'
    BY <2>2, OtherRequests
  <2> QED
    BY <2>1, <2>3
<1>2. WorkersOK'
  <2>1. \A o \in Owners : worker[o].id \in Ids
    BY WorkerKnows DEF Inv
  <2> QED
    BY <1>1, <2>1 DEF Inv, WorkersOK, WorkerOK
<1>3. StraysOK' /\ TokensOK'
  BY <1>1 DEF Inv, StraysOK, TokensOK, RequestType
<1>4. MessagesOK' /\ InboxOK'
  <2>1. \A i \in Ids : rows[i].envelope # Nobody => rows'[i].envelope = rows[i].envelope
    BY DEF KeepsRequests
  <2> QED
    BY <2>1, CopiesKept DEF Inv
<1>5. WorldOK'
  BY DEF Inv, WorldOK
<1> QED
  BY <1>2, <1>3, <1>4, <1>5 DEF Inv

(* A new row, addressed as its kind is. *)
LEMMA InsertKeepsInv ==
    ASSUME Inv, NEW k \in Kinds, NEW to \in Users \cup {Nobody}, NEW envelope \in Users \cup {Nobody},
           Insert(<<k>>, Due(to, envelope)),
           k \in FanOuts => envelope = Nobody,
           k \notin FanOuts /\ k \notin LookedUp => to \in Users
    PROVE  Inv'
<1> DEFINE i == <<k>>
<1>1. i \in Ids /\ i[1] = k /\ ~IsChild(i) /\ (IsFanOut(i) <=> k \in FanOuts)
  BY DEF Ids, IsChild, IsFanOut
<1> HIDE DEF i
<1>2. PICK q : q = Due(to, envelope)
  OBVIOUS
<1>3. q \in Row /\ q.token = 0 /\ ~q.live /\ q.state = "due" /\ q.to = to /\ q.envelope = envelope
  BY <1>2, DueRow
<1>4. /\ rows[i].state = "absent" /\ rows' = [rows EXCEPT ![i] = q] /\ line' = Append(line, i)
      /\ UNCHANGED <<worker, strays, broker, gone, world>>
  BY <1>2 DEF Insert, i
<1>5. rows[i].token = 0 /\ rows[i].envelope = Nobody
  BY <1>1, <1>4 DEF Inv, RowsOK, Fits
<1>6. Fits(i, q)
  BY <1>1, <1>3 DEF Fits
<1>7. RowsOK'
  <2>1. UNCHANGED broker
    BY <1>4
  <2> QED
    BY <2>1, <1>1, <1>3, <1>4, <1>6, RowChanges DEF Inv
<1>8. rows'[i] = q /\ \A j \in Ids : j # i => rows'[j] = rows[j]
  BY <1>1, <1>4 DEF Inv, RowsOK
<1>9. Recorded' = Recorded \cup {i}
  BY <1>1, <1>3, <1>8 DEF Recorded
<1>10. LineOK'
  <2>1. i \notin Recorded /\ IsLine(line, Recorded)
    BY <1>4 DEF Recorded, Inv, LineOK
  <2>2. IsLine(Append(line, i), Recorded \cup {i})
    BY <1>1, <2>1, AppendToLine
  <2> QED
    BY <2>2, <1>4, <1>9 DEF LineOK, IsLine
<1>11. KeepsRequests(i, 0)
  BY <1>1, <1>3, <1>4, <1>5, <1>8 DEF KeepsRequests
<1> QED
  BY <1>4, <1>7, <1>10, <1>11, RowsMove

(* Every kind of notification is recorded with what its lookup does not find. *)
LEMMA RecordKeepsInv ==
    ASSUME Inv, Record
    PROVE  Inv'
<1>1. PICK k \in Kinds, u \in Users :
        \/ RecordFanOut(k) \/ RecordNotification(k, u) \/ RecordEventChange(k)
        \/ EnqueueBooking(k, u) \/ EnqueueClosure(k)
        \/ RecordRegistration(k, u) \/ EnqueueEquipment(k, u)
  BY DEF Record
<1>2. ASSUME k \in FanOuts \/ k \in LookedUp, Insert(<<k>>, Due(Nobody, Nobody)) PROVE Inv'
  BY <1>2, InsertKeepsInv
<1>3. ASSUME Insert(<<k>>, Due(u, Nobody)) PROVE Inv'
  BY <1>3, InsertKeepsInv
<1>4. ASSUME k \notin FanOuts, Insert(<<k>>, Due(u, u)) PROVE Inv'
  BY <1>4, InsertKeepsInv
<1>5. CASE RecordFanOut(k)
  BY <1>5, <1>2 DEF RecordFanOut, FanOuts
<1>6. CASE RecordNotification(k, u)
  BY <1>6, <1>3 DEF RecordNotification
<1>7. CASE RecordEventChange(k)
  BY <1>7, <1>2 DEF RecordEventChange, LookedUp
<1>8. CASE EnqueueBooking(k, u)
  BY <1>8, <1>2, <1>3 DEF EnqueueBooking, FanOuts
<1>9. CASE EnqueueClosure(k)
  BY <1>9, <1>2 DEF EnqueueClosure, LookedUp
<1>10. CASE RecordRegistration(k, u)
  BY <1>10, <1>3 DEF RecordRegistration
<1>11. CASE EnqueueEquipment(k, u)
  BY <1>11, <1>4 DEF EnqueueEquipment, EquipmentKinds, FanOuts, EventFanOuts
<1> QED
  BY <1>1, <1>5, <1>6, <1>7, <1>8, <1>9, <1>10, <1>11

(* A row whose recipient and envelope stay. *)
LEMMA RowKeepsInv ==
    ASSUME Inv, NEW i \in Ids, NEW q \in Row, rows' = [rows EXCEPT ![i] = q],
           q.token = rows[i].token, q.to = rows[i].to, q.envelope = rows[i].envelope,
           q.live => rows[i].live,
           \/ q.state = rows[i].state
           \/ rows[i].state = "held" /\ q.state = "due",
           line' = line \/ (rows[i].state # "absent" /\ line' = ToTheEnd(i)),
           UNCHANGED <<worker, strays, broker, gone, world>>
    PROVE  Inv'
<1>1. Fits(i, rows[i])
  BY DEF Inv, RowsOK
<1>2. Fits(i, q)
  BY <1>1 DEF Fits
<1>3. RowsOK'
  <2>1. UNCHANGED broker /\ (rows[i].state = "published" => q.state = "published")
    OBVIOUS
  <2> QED
    BY <2>1, <1>2, RowChanges DEF Inv
<1>4. rows'[i] = q /\ \A j \in Ids : j # i => rows'[j] = rows[j]
  BY DEF Inv, RowsOK
<1>5. q.state = "absent" <=> rows[i].state = "absent"
  OBVIOUS
<1>6. Recorded' = Recorded
  BY <1>4, <1>5 DEF Recorded
<1>7. LineOK'
  <2>1. CASE line' = line
    BY <2>1, <1>6 DEF Inv, LineOK, IsLine
  <2>2. CASE rows[i].state # "absent" /\ line' = ToTheEnd(i)
    BY <2>2, <1>6, LineKeeps DEF Inv
  <2> QED
    BY <2>1, <2>2
<1>8. KeepsRequests(i, 0)
  BY <1>4, <1>5 DEF KeepsRequests
<1> QED
  BY <1>3, <1>7, <1>8, RowsMove

(* An operator releases a row; a lease or a backoff ends. *)
LEMMA RowStepsKeepInv ==
    ASSUME Inv, NEW i \in Ids, Release(i) \/ LeaseEnds(i) \/ BackoffEnds(i)
    PROVE  Inv'
<1>1. rows[i] \in Row
  BY DEF Inv, RowsOK
<1>2. CASE Release(i)
  <2>1. PICK q : q = Released(rows[i])
    OBVIOUS
  <2>2. rows' = [rows EXCEPT ![i] = q]
    BY <1>2, <2>1 DEF Release
  <2>3. /\ q \in Row /\ q.token = rows[i].token /\ q.live = rows[i].live /\ q.state = "due"
        /\ q.to = rows[i].to /\ q.envelope = rows[i].envelope
    BY <1>1, <2>1, ReleasedRow
  <2>4. /\ rows[i].state = "held" /\ line' = ToTheEnd(i)
        /\ UNCHANGED <<worker, strays, broker, gone, world>>
    BY <1>2 DEF Release
  <2> QED
    BY <2>2, <2>3, <2>4, RowKeepsInv
<1>3. CASE LeaseEnds(i)
  <2>1. PICK q : q = [rows[i] EXCEPT !.live = FALSE]
    OBVIOUS
  <2>2. rows' = [rows EXCEPT ![i] = q]
    BY <1>3, <2>1 DEF LeaseEnds
  <2>3. /\ q \in Row /\ q.token = rows[i].token /\ ~q.live /\ q.state = rows[i].state
        /\ q.to = rows[i].to /\ q.envelope = rows[i].envelope
    BY <1>1, <2>1, EndedRow
  <2>4. line' = line /\ UNCHANGED <<worker, strays, broker, gone, world>>
    BY <1>3 DEF LeaseEnds
  <2> QED
    BY <2>2, <2>3, <2>4, RowKeepsInv
<1>4. CASE BackoffEnds(i)
  <2>1. PICK q : q = [rows[i] EXCEPT !.waits = FALSE]
    OBVIOUS
  <2>2. rows' = [rows EXCEPT ![i] = q]
    BY <1>4, <2>1 DEF BackoffEnds
  <2>3. /\ q \in Row /\ q.token = rows[i].token /\ q.live = rows[i].live /\ q.state = rows[i].state
        /\ q.to = rows[i].to /\ q.envelope = rows[i].envelope
    BY <1>1, <2>1, EndedRow
  <2>4. line' = line /\ UNCHANGED <<worker, strays, broker, gone, world>>
    BY <1>4 DEF BackoffEnds
  <2> QED
    BY <2>2, <2>3, <2>4, RowKeepsInv
<1> QED
  BY <1>2, <1>3, <1>4

(* A claim gives the row a token that no request in flight carries. *)
LEMMA ClaimKeepsInv ==
    ASSUME Inv, NEW o \in Owners, NEW answered \in BOOLEAN, Claim(o, answered)
    PROVE  Inv'
<1>1. PICK i \in Ids :
        /\ worker[o].at = "idle" /\ IsFirst(i, o)
        /\ rows' = [rows EXCEPT ![i] = Leased(@, FreshToken(i))]
        /\ worker' = IF answered THEN [worker EXCEPT ![o] = AtWork(i, FreshToken(i))] ELSE worker
        /\ UNCHANGED <<line, strays, broker, gone, world>>
  BY DEF Claim
<1>2. PICK t : t = FreshToken(i)
  OBVIOUS
<1>3. /\ t \in Nat \ {0} /\ t # rows[i].token
      /\ \A p \in Owners : worker[p].id = i => t # worker[p].token
      /\ \A r \in strays : r.id = i => t # r.token
  BY <1>2, FreshTokens DEF Inv
<1>4. Owner(i) = o /\ rows[i].state = "due" /\ rows[i] \in Row /\ Fits(i, rows[i])
  BY <1>1 DEF IsFirst, Claimable, Inv, RowsOK
<1>5. PICK q : q = Leased(rows[i], t)
  OBVIOUS
<1>6. /\ q \in Row /\ q.token = t /\ q.state = "due" /\ q.to = rows[i].to
      /\ q.envelope = rows[i].envelope /\ rows' = [rows EXCEPT ![i] = q]
  BY <1>1, <1>2, <1>3, <1>4, <1>5, LeasedRow
<1>7. Fits(i, q)
  BY <1>3, <1>4, <1>6 DEF Fits
<1>8. RowsOK'
  <2>1. UNCHANGED broker
    BY <1>1
  <2> QED
    BY <2>1, <1>4, <1>6, <1>7, RowChanges DEF Inv
<1>9. rows'[i] = q /\ \A j \in Ids : j # i => rows'[j] = rows[j]
  BY <1>6 DEF Inv, RowsOK
<1>10. LineOK'
  <2>1. Recorded' = Recorded
    BY <1>4, <1>6, <1>9 DEF Recorded
  <2> QED
    BY <1>1, <2>1 DEF Inv, LineOK, IsLine
<1>11. \A op, s, to : \A j \in Ids :
         RequestOK(op, j, s, to) /\ (j # i \/ s # t) => RequestOK(op, j, s, to)'
  <2>1. \A j \in Ids : Sent(j)' <=> Sent(j)
    BY <1>1 DEF Sent, Waiting, Quarantined, broker
  <2> QED
    BY <1>4, <1>6, <1>9, <2>1 DEF RequestOK
<1>12. StraysOK'
  <2>1. \A r \in strays : r.id \in Ids
    BY DEF Inv, StraysOK, RequestType
  <2>2. strays' = strays
    BY <1>1
  <2> QED
    BY <1>3, <1>11, <2>1, <2>2 DEF Inv, StraysOK
<1>13. \A p \in Owners : \A x \in Worker :
         x = worker[p] /\ x.at # "idle" => RequestOK(x.at, x.id, x.token, x.to)'
  <2> SUFFICES ASSUME NEW p \in Owners, NEW x \in Worker, x = worker[p], x.at # "idle"
               PROVE  RequestOK(x.at, x.id, x.token, x.to)'
    OBVIOUS
  <2>1. x.id \in Ids /\ RequestOK(x.at, x.id, x.token, x.to)
    BY WorkerKnows DEF Inv
  <2>2. x.id # i \/ x.token # t
    BY <1>3
  <2> QED
    BY <1>11, <2>1, <2>2
<1>14. WorkersOK' /\ TokensOK'
  <2>1. CASE answered
    <3>1. PICK w : w = AtWork(i, t)
      OBVIOUS
    <3>2. /\ w \in Worker /\ w.id = i /\ w.token = t /\ w.to = rows[i].envelope
          /\ w.at = IF rows[i].envelope = Nobody THEN "lookup" ELSE "publish"
      BY <1>3, <1>4, <3>1 DEF AtWork, Worker, Row
    <3>3. worker' = [worker EXCEPT ![o] = w]
      BY <1>1, <1>2, <2>1, <3>1
    <3>4. RequestOK(w.at, w.id, w.token, w.to)'
      BY <1>3, <1>4, <1>6, <1>9, <3>2 DEF RequestOK, Row
    <3>5. \A r \in strays : w.id = r.id => w.token # r.token
      BY <1>3, <3>2
    <3>6. strays' \subseteq strays
      BY <1>1
    <3>7. Owner(w.id) = o
      BY <1>4, <3>2
    <3> QED
      BY <1>13, <3>2, <3>3, <3>4, <3>5, <3>6, <3>7, WorkerMoves DEF Inv
  <2>2. CASE ~answered
    <3>1. worker' = worker /\ strays' = strays
      BY <1>1, <2>2
    <3>2. ASSUME NEW p \in Owners PROVE WorkerOK(p)'
      <4>1. PICK x : x = worker[p]
        OBVIOUS
      <4>2. x \in Worker /\ (x.at # "idle" => Owner(x.id) = p /\ RequestOK(x.at, x.id, x.token, x.to)')
        BY <4>1, <1>13, WorkerKnows DEF Inv
      <4>3. worker'[p] = x
        BY <3>1, <4>1
      <4> QED
        BY <4>2, <4>3 DEF WorkerOK
    <3> QED
      BY <3>1, <3>2 DEF Inv, WorkersOK, TokensOK
  <2> QED
    BY <2>1, <2>2
<1>15. MessagesOK' /\ InboxOK'
  <2>1. UNCHANGED broker /\ \A j \in Ids : rows'[j].envelope = rows[j].envelope
    BY <1>1, <1>6, <1>9
  <2> QED
    BY <2>1, CopiesKept DEF Inv
<1>16. WorldOK'
  BY <1>1 DEF Inv, WorldOK
<1> QED
  BY <1>8, <1>10, <1>12, <1>14, <1>15, <1>16 DEF Inv

(* A transaction, whoever asked for it. *)
LEMMA TransactionKeeps ==
    ASSUME Inv, NEW r \in RequestType, RequestOK(r.op, r.id, r.token, r.to), Accepts(r), Execute(r),
           UNCHANGED <<broker, gone, world>>
    PROVE  /\ RowsOK' /\ LineOK' /\ MessagesOK' /\ InboxOK' /\ WorldOK'
           /\ \A op, t, to : \A i \in Ids :
                RequestOK(op, i, t, to) /\ (i # r.id \/ t # r.token) => RequestOK(op, i, t, to)'
           /\ r.op = "freeze" => rows'[r.id].envelope \in Users
           /\ rows'[r.id].state # "absent"
<1>1. UNCHANGED broker
  OBVIOUS
<1>2. /\ RowsOK' /\ LineOK' /\ KeepsRequests(r.id, r.token)
      /\ r.op = "freeze" => rows'[r.id].envelope \in Users
  BY <1>1, ExecuteKeepsOutboxes DEF Inv
<1>3. MessagesOK' /\ InboxOK'
  <2>1. \A i \in Ids : rows[i].envelope # Nobody => rows'[i].envelope = rows[i].envelope
    BY <1>2 DEF KeepsRequests
  <2> QED
    BY <1>1, <2>1, CopiesKept DEF Inv
<1>4. WorldOK'
  BY DEF Inv, WorldOK
<1>5. \A op, t, to : \A i \in Ids :
        RequestOK(op, i, t, to) /\ (i # r.id \/ t # r.token) => RequestOK(op, i, t, to)'
  BY <1>1, <1>2, OtherRequests
<1>6. rows'[r.id].state # "absent"
  BY <1>2 DEF KeepsRequests, RequestOK, RequestType
<1> QED
  BY <1>2, <1>3, <1>4, <1>5, <1>6

(* A worker's request is executed, and answered or not. *)
LEMMA WorkerTransaction ==
    ASSUME Inv, NEW o \in Owners, worker[o].at \in Operations,
           Accepts(Request(worker[o])), Execute(Request(worker[o])),
           \/ worker' = [worker EXCEPT ![o] = Answered(@)]
           \/ worker' = [worker EXCEPT ![o] = Failed(@)],
           UNCHANGED <<strays, broker, gone, world>>
    PROVE  Inv'
<1>1. PICK r : r = Request(worker[o])
  OBVIOUS
<1>2. /\ worker[o] \in Worker /\ worker[o].id \in Ids /\ worker[o].at # "idle" /\ worker[o].token # 0
      /\ Owner(worker[o].id) = o
      /\ RequestOK(worker[o].at, worker[o].id, worker[o].token, worker[o].to)
  BY WorkerKnows DEF Inv, Operations
<1>3. /\ r \in RequestType /\ r.op = worker[o].at /\ r.id = worker[o].id
      /\ r.token = worker[o].token /\ r.to = worker[o].to
  BY <1>1, <1>2, WorkerTypes
<1>4. RequestOK(r.op, r.id, r.token, r.to) /\ Accepts(r) /\ Execute(r)
  BY <1>1, <1>2, <1>3
<1>5. /\ RowsOK' /\ LineOK' /\ MessagesOK' /\ InboxOK' /\ WorldOK'
      /\ \A op, t, to : \A i \in Ids :
           RequestOK(op, i, t, to) /\ (i # r.id \/ t # r.token) => RequestOK(op, i, t, to)'
      /\ r.op = "freeze" => rows'[r.id].envelope \in Users
      /\ rows'[r.id].state # "absent"
  BY <1>3, <1>4, TransactionKeeps
<1>6. StraysOK'
  <2>1. \A s \in strays : s.id \in Ids /\ (s.id # r.id \/ s.token # r.token)
    BY <1>2, <1>3 DEF Inv, StraysOK, TokensOK, RequestType
  <2> QED
    BY <1>5, <2>1 DEF Inv, StraysOK
<1>7. \A p \in Owners : \A x \in Worker :
         p # o /\ x = worker[p] /\ x.at # "idle" => RequestOK(x.at, x.id, x.token, x.to)'
  <2> SUFFICES ASSUME NEW p \in Owners, NEW x \in Worker, p # o, x = worker[p], x.at # "idle"
               PROVE  RequestOK(x.at, x.id, x.token, x.to)'
    OBVIOUS
  <2>1. x.id \in Ids /\ RequestOK(x.at, x.id, x.token, x.to)
    BY WorkerKnows DEF Inv
  <2>2. x.id # r.id
    BY <1>2, <1>3, WorkersApart DEF Inv
  <2> QED
    BY <1>5, <2>1, <2>2
<1>8. PICK w : /\ w \in Worker /\ worker' = [worker EXCEPT ![o] = w]
               /\ w.at # "idle" => /\ w.id = r.id /\ w.token = r.token
                                   /\ \/ w.at = "retry"
                                      \/ /\ w.at = "publish" /\ r.op = "freeze"
                                         /\ w.to = rows'[r.id].envelope
  <2>1. CASE worker' = [worker EXCEPT ![o] = Failed(@)]
    <3>1. PICK w : w = Failed(worker[o])
      OBVIOUS
    <3>2. worker' = [worker EXCEPT ![o] = w]
      BY <2>1, <3>1
    <3>3. w \in Worker /\ (w.at # "idle" => w.at = "retry" /\ w.id = r.id /\ w.token = r.token)
      BY <1>2, <1>3, <3>1, WorkerTypes
    <3> QED
      BY <3>2, <3>3
  <2>2. CASE worker' = [worker EXCEPT ![o] = Answered(@)] /\ worker[o].at # "freeze"
    <3>1. PICK w : w = Idle(worker[o])
      OBVIOUS
    <3>2. worker' = [worker EXCEPT ![o] = w]
      BY <2>2, <3>1 DEF Answered
    <3>3. w \in Worker /\ w.at = "idle"
      BY <1>2, <3>1, WorkerTypes
    <3> QED
      BY <3>2, <3>3
  <2>3. CASE worker' = [worker EXCEPT ![o] = Answered(@)] /\ worker[o].at = "freeze"
    <3>1. PICK to : to = rows'[r.id].envelope
      OBVIOUS
    <3>2. to \in Users
      BY <2>3, <3>1, <1>3, <1>5
    <3>3. PICK w : w = [worker[o] EXCEPT !.at = "publish", !.to = to]
      OBVIOUS
    <3>4. worker' = [worker EXCEPT ![o] = w]
      BY <2>3, <3>1, <3>3, <1>3 DEF Answered
    <3>5. w \in Worker /\ w.at = "publish" /\ w.id = worker[o].id /\ w.token = worker[o].token /\ w.to = to
      BY <1>2, <3>2, <3>3 DEF Worker
    <3> QED
      BY <2>3, <3>1, <3>4, <3>5, <1>3
  <2> QED
    BY <2>1, <2>2, <2>3
<1>9. w.at # "idle" => /\ Owner(w.id) = o /\ RequestOK(w.at, w.id, w.token, w.to)'
                       /\ \A s \in strays : w.id = s.id => w.token # s.token
  <2> SUFFICES ASSUME w.at # "idle"
               PROVE  /\ Owner(w.id) = o /\ RequestOK(w.at, w.id, w.token, w.to)'
                      /\ \A s \in strays : w.id = s.id => w.token # s.token
    OBVIOUS
  <2>1. Owner(w.id) = o
    BY <1>2, <1>3, <1>8
  <2>2. \A s \in strays : w.id = s.id => w.token # s.token
    BY <1>2, <1>3, <1>8 DEF Inv, TokensOK
  <2>3. w.token # 0 /\ rows'[w.id].state # "absent"
    BY <1>2, <1>3, <1>5, <1>8
  <2>4. w.at = "publish" => w.to \in Users /\ rows'[w.id].envelope = w.to
    BY <1>5, <1>8
  <2>5. w.at \in {"retry", "publish"}
    BY <1>8
  <2>6. RequestOK(w.at, w.id, w.token, w.to)'
    BY <2>3, <2>4, <2>5 DEF RequestOK
  <2> QED
    BY <2>1, <2>2, <2>6
<1>10. WorkersOK' /\ TokensOK'
  <2>1. strays' \subseteq strays
    OBVIOUS
  <2> QED
    BY <1>7, <1>8, <1>9, <2>1, WorkerMoves DEF Inv
<1> QED
  BY <1>5, <1>6, <1>10 DEF Inv

(* A late request of a worker that died is executed. *)
LEMMA StrayTransaction ==
    ASSUME Inv, NEW r \in strays, Accepts(r), Execute(r), strays' = strays \ {r},
           UNCHANGED <<worker, broker, gone, world>>
    PROVE  Inv'
<1>1. r \in RequestType /\ RequestOK(r.op, r.id, r.token, r.to)
  BY DEF Inv, StraysOK
<1>2. /\ RowsOK' /\ LineOK' /\ MessagesOK' /\ InboxOK' /\ WorldOK'
      /\ \A op, t, to : \A i \in Ids :
           RequestOK(op, i, t, to) /\ (i # r.id \/ t # r.token) => RequestOK(op, i, t, to)'
  BY <1>1, TransactionKeeps
<1>3. StraysOK'
  <2>1. \A s \in strays' : s \in strays /\ s.id \in Ids /\ (s.id # r.id \/ s.token # r.token)
    BY DEF Inv, StraysOK, TokensOK, RequestType
  <2>2. IsFiniteSet(strays')
    BY FS_Subset DEF Inv, StraysOK
  <2> QED
    BY <1>2, <2>1, <2>2 DEF Inv, StraysOK
<1>4. WorkersOK'
  <2> SUFFICES ASSUME NEW p \in Owners PROVE WorkerOK(p)'
    BY DEF Inv, WorkersOK
  <2>1. PICK x : x = worker[p]
    OBVIOUS
  <2>2. /\ x.id \in Ids
        /\ x.at # "idle" => Owner(x.id) = p /\ RequestOK(x.at, x.id, x.token, x.to)
    BY <2>1, WorkerKnows DEF Inv
  <2>3. x.at # "idle" => x.id # r.id \/ x.token # r.token
    BY <2>1 DEF Inv, TokensOK
  <2>4. x.at # "idle" => RequestOK(x.at, x.id, x.token, x.to)'
    BY <1>2, <2>2, <2>3
  <2>5. worker'[p] = x
    BY <2>1
  <2> QED
    BY <2>2, <2>4, <2>5 DEF WorkerOK
<1>5. TokensOK'
  BY DEF Inv, TokensOK
<1> QED
  BY <1>2, <1>3, <1>4, <1>5 DEF Inv

(* Neither the rows nor the broker change: the requests know what they knew. *)
LEMMA NothingMoves ==
    ASSUME Inv, UNCHANGED <<rows, line, broker, gone>>
    PROVE  /\ RowsOK' /\ LineOK' /\ MessagesOK' /\ InboxOK'
           /\ \A op, t, to : \A i \in Ids : RequestOK(op, i, t, to) => RequestOK(op, i, t, to)'
<1>1. \A i \in Ids : Sent(i) => Sent(i)'
  BY DEF Sent, Waiting, Quarantined, broker
<1>2. RowsOK'
  BY <1>1, SendingKeepsRows DEF Inv
<1>3. LineOK'
  BY DEF Inv, LineOK, IsLine, Recorded
<1>4. MessagesOK' /\ InboxOK'
  BY CopiesKept DEF Inv
<1>5. \A op, t, to : \A i \in Ids : RequestOK(op, i, t, to) => RequestOK(op, i, t, to)'
  BY <1>1, SameRows
<1> QED
  BY <1>2, <1>3, <1>4, <1>5

(* Only a worker moves. *)
LEMMA OnlyAWorkerMoves ==
    ASSUME Inv, NEW o \in Owners, NEW w \in Worker, worker' = [worker EXCEPT ![o] = w],
           UNCHANGED <<outboxes, strays, broker, gone, world>>,
           w.at # "idle" =>
               /\ worker[o].at # "idle" /\ w.id = worker[o].id /\ w.token = worker[o].token
               /\ RequestOK(w.at, w.id, w.token, w.to)
    PROVE  Inv'
<1>1. /\ RowsOK' /\ LineOK' /\ MessagesOK' /\ InboxOK'
      /\ \A op, t, to : \A i \in Ids : RequestOK(op, i, t, to) => RequestOK(op, i, t, to)'
  <2>1. UNCHANGED <<rows, line, broker, gone>>
    BY DEF outboxes
  <2> QED
    BY <2>1, NothingMoves
<1>2. StraysOK'
  BY <1>1 DEF Inv, StraysOK, RequestType
<1>3. \A p \in Owners : \A x \in Worker :
         p # o /\ x = worker[p] /\ x.at # "idle" => RequestOK(x.at, x.id, x.token, x.to)'
  <2> SUFFICES ASSUME NEW p \in Owners, NEW x \in Worker, x = worker[p], x.at # "idle"
               PROVE  RequestOK(x.at, x.id, x.token, x.to)'
    OBVIOUS
  <2>1. x.id \in Ids /\ RequestOK(x.at, x.id, x.token, x.to)
    BY WorkerKnows DEF Inv
  <2> QED
    BY <1>1, <2>1
<1>4. w.at # "idle" => /\ Owner(w.id) = o /\ RequestOK(w.at, w.id, w.token, w.to)'
                       /\ \A r \in strays : w.id = r.id => w.token # r.token
  <2>1. w.at # "idle" => Owner(w.id) = o /\ w.id \in Ids
    BY WorkerKnows DEF Inv
  <2>2. w.at # "idle" => RequestOK(w.at, w.id, w.token, w.to)'
    BY <1>1, <2>1
  <2>3. w.at # "idle" => \A r \in strays : w.id = r.id => w.token # r.token
    BY DEF Inv, TokensOK
  <2> QED
    BY <2>1, <2>2, <2>3
<1>5. WorkersOK' /\ TokensOK'
  <2>1. strays' \subseteq strays
    OBVIOUS
  <2> QED
    BY <1>3, <1>4, <2>1, WorkerMoves DEF Inv
<1>6. WorldOK'
  BY DEF Inv, WorldOK
<1> QED
  BY <1>1, <1>2, <1>5, <1>6 DEF Inv

(* A lookup finds people. *)
LEMMA LookupsFindPeople ==
    ASSUME Inv, NEW i \in Ids
    PROVE  /\ \A many \in Recipients(i[1]) : many \in SUBSET Users
           /\ rows[i].state # "absent" /\ ~IsFanOut(i) => \A u \in Addressees(i) : u \in Users
<1>1. world.staff \in SUBSET Users /\ world.coordinator \in Users \cup {Nobody}
  BY DEF Inv, WorldOK, World
<1>2. \A many \in Recipients(i[1]) : many \in SUBSET Users
  BY <1>1 DEF Recipients, EventRecipients, VenueRecipients
<1>3. ASSUME rows[i].state # "absent", ~IsFanOut(i), NEW u \in Addressees(i) PROVE u \in Users
  <2>1. Fits(i, rows[i])
    BY DEF Inv, RowsOK
  <2>2. i[1] \notin LookedUp => rows[i].to \in Users
    BY <1>3, <2>1 DEF Fits
  <2>3. IsChild(i) => i[1] \notin LookedUp
    BY IdShapes DEF LookedUp, FanOuts, EventFanOuts
  <2>4. Owner(i) \in Owners
    BY OwnerType
  <2>5. CASE Owner(i) = "event"
    <3>1. u \in EventAddressees(i)
      BY <1>3, <2>5 DEF Addressees
    <3>2. i[1] # "venue.closure-rejection"
      BY <2>5 DEF Owner, VenueKinds, EventKinds, EventFanOuts, RegistrationKinds, EquipmentKinds
    <3>3. \A v \in ChangeRecipients : v \in Users
      BY <1>1 DEF ChangeRecipients
    <3> QED
      BY <2>2, <3>1, <3>2, <3>3 DEF EventAddressees, LookedUp
  <2>6. CASE Owner(i) = "venue"
    <3>1. u \in VenueAddressees(i)
      BY <1>3, <2>6 DEF Addressees
    <3>2. i[1] # "event.change-request-submitted"
      BY <2>6 DEF Owner, EventKinds, EventFanOuts, VenueKinds, RegistrationKinds, EquipmentKinds
    <3> QED
      BY <1>1, <2>2, <2>3, <3>1, <3>2 DEF VenueAddressees, LookedUp
  <2>7. CASE Owner(i) = "registration"
    <3>1. u = rows[i].to
      BY <1>3, <2>7 DEF Addressees, RegistrationAddressees
    <3>2. i[1] \notin LookedUp
      BY <2>7 DEF Owner, EventKinds, EventFanOuts, VenueKinds, RegistrationKinds, EquipmentKinds, LookedUp
    <3> QED
      BY <2>2, <3>1, <3>2
  <2>8. CASE Owner(i) = "equipment"
    BY <1>3, <2>8 DEF Addressees
  <2> QED
    BY <2>4, <2>5, <2>6, <2>7, <2>8 DEF Owners
<1> QED
  BY <1>2, <1>3

(* A worker looks up what its row lacks. *)
LEMMA LookupKeepsInv ==
    ASSUME Inv, NEW o \in Owners, Lookup(o)
    PROVE  Inv'
<1>1. PICK x : x = worker[o]
  OBVIOUS
<1>2. x \in Worker /\ x.id \in Ids /\ x.at = "lookup" /\ RequestOK(x.at, x.id, x.token, x.to)
  BY <1>1, WorkerKnows DEF Lookup, Inv
<1>3. PICK w : /\ w \in Worker /\ worker' = [worker EXCEPT ![o] = w]
               /\ w.id = x.id /\ w.token = x.token
               /\ \/ w.at = "freeze" /\ ~IsFanOut(x.id) /\ w.to \in Users
                  \/ w.at \in {"expand", "hold", "retry"}
  <2>1. ASSUME NEW many \in Recipients(x.id[1]),
               worker' = [worker EXCEPT ![o].at = "expand", ![o].many = many]
        PROVE  \E w \in Worker : /\ worker' = [worker EXCEPT ![o] = w] /\ w.at = "expand"
                                 /\ w.id = x.id /\ w.token = x.token
    <3>1. PICK w : w = [x EXCEPT !.at = "expand", !.many = many]
      OBVIOUS
    <3>2. worker' = [worker EXCEPT ![o] = w]
      BY <2>1, <3>1, <1>1
    <3>3. many \in SUBSET Users
      BY <1>2, LookupsFindPeople
    <3>4. w \in Worker /\ w.at = "expand" /\ w.id = x.id /\ w.token = x.token
      BY <3>1, <3>3, <1>2 DEF Worker, Operations
    <3> QED
      BY <3>2, <3>4
  <2>2. ASSUME NEW u \in Addressees(x.id), ~IsFanOut(x.id),
               worker' = [worker EXCEPT ![o].at = "freeze", ![o].to = u]
        PROVE  \E w \in Worker : /\ worker' = [worker EXCEPT ![o] = w] /\ w.at = "freeze"
                                 /\ w.id = x.id /\ w.token = x.token /\ w.to \in Users
    <3>1. PICK w : w = [x EXCEPT !.at = "freeze", !.to = u]
      OBVIOUS
    <3>2. worker' = [worker EXCEPT ![o] = w]
      BY <2>2, <3>1, <1>1
    <3>3. u \in Users
      BY <1>2, <2>2, LookupsFindPeople DEF RequestOK
    <3>4. w \in Worker /\ w.at = "freeze" /\ w.id = x.id /\ w.token = x.token /\ w.to = u
      BY <3>1, <3>3, <1>2 DEF Worker, Operations
    <3> QED
      BY <3>2, <3>3, <3>4
  <2>3. ASSUME NEW at \in {"hold", "retry"}, worker' = [worker EXCEPT ![o].at = at]
        PROVE  \E w \in Worker : /\ worker' = [worker EXCEPT ![o] = w] /\ w.at = at
                                 /\ w.id = x.id /\ w.token = x.token
    <3>1. PICK w : w = [x EXCEPT !.at = at]
      OBVIOUS
    <3>2. worker' = [worker EXCEPT ![o] = w]
      BY <2>3, <3>1, <1>1
    <3>3. w \in Worker /\ w.at = at /\ w.id = x.id /\ w.token = x.token
      BY <3>1, <1>2 DEF Worker, Operations
    <3> QED
      BY <3>2, <3>3
  <2>4. \/ \E many \in Recipients(x.id[1]) :
             worker' = [worker EXCEPT ![o].at = "expand", ![o].many = many]
        \/ \E u \in Addressees(x.id) :
             ~IsFanOut(x.id) /\ worker' = [worker EXCEPT ![o].at = "freeze", ![o].to = u]
        \/ worker' = [worker EXCEPT ![o].at = "hold"]
        \/ worker' = [worker EXCEPT ![o].at = "retry"]
    BY <1>1 DEF Lookup
  <2> QED
    BY <2>1, <2>2, <2>3, <2>4
<1>4. RequestOK(w.at, w.id, w.token, w.to)
  BY <1>2, <1>3 DEF RequestOK
<1>5. UNCHANGED <<outboxes, strays, broker, gone, world>>
  BY DEF Lookup
<1>6. worker[o].at # "idle" /\ w.id = worker[o].id /\ w.token = worker[o].token
  BY <1>1, <1>2, <1>3
<1> QED
  BY <1>3, <1>4, <1>5, <1>6, OnlyAWorkerMoves

(* A worker is done or will report a failure. *)
LEMMA GivingUpKeepsInv ==
    ASSUME Inv, NEW o \in Owners, worker[o].at # "idle",
           \/ worker' = [worker EXCEPT ![o] = Idle(@)]
           \/ worker' = [worker EXCEPT ![o] = Failed(@)],
           UNCHANGED <<outboxes, strays, broker, gone, world>>
    PROVE  Inv'
<1>1. worker[o] \in Worker /\ RequestOK(worker[o].at, worker[o].id, worker[o].token, worker[o].to)
  BY WorkerKnows DEF Inv
<1>2. PICK w : /\ w \in Worker /\ worker' = [worker EXCEPT ![o] = w]
               /\ w.at # "idle" => w.at = "retry" /\ w.id = worker[o].id /\ w.token = worker[o].token
  <2>1. CASE worker' = [worker EXCEPT ![o] = Idle(@)]
    <3>1. PICK w : w = Idle(worker[o])
      OBVIOUS
    <3>2. worker' = [worker EXCEPT ![o] = w]
      BY <2>1, <3>1
    <3> QED
      BY <1>1, <3>1, <3>2, WorkerTypes
  <2>2. CASE worker' = [worker EXCEPT ![o] = Failed(@)]
    <3>1. PICK w : w = Failed(worker[o])
      OBVIOUS
    <3>2. worker' = [worker EXCEPT ![o] = w]
      BY <2>2, <3>1
    <3> QED
      BY <1>1, <3>1, <3>2, WorkerTypes
  <2> QED
    BY <2>1, <2>2
<1>3. w.at # "idle" => RequestOK(w.at, w.id, w.token, w.to)
  BY <1>1, <1>2 DEF RequestOK
<1> QED
  BY <1>2, <1>3, OnlyAWorkerMoves

(* A call is answered, refused, fails, or its answer is lost. *)
LEMMA CallsKeepInv ==
    ASSUME Inv, NEW o \in Owners, Call(o) \/ CallFails(o) \/ AnswerLost(o) \/ AttemptTimesOut(o)
    PROVE  Inv'
<1>1. CASE Call(o)
  <2>1. worker[o].at \in Operations /\ worker[o].at # "idle" /\ UNCHANGED <<strays, broker, gone, world>>
    BY <1>1 DEF Call, Operations
  <2>2. CASE Accepts(Request(worker[o]))
    BY <2>1, <2>2, <1>1, WorkerTransaction DEF Call
  <2>3. CASE ~Accepts(Request(worker[o]))
    BY <2>1, <2>3, <1>1, GivingUpKeepsInv DEF Call
  <2> QED
    BY <2>2, <2>3
<1>2. CASE CallFails(o)
  <2>1. worker[o].at # "idle"
    BY <1>2 DEF CallFails, Operations
  <2> QED
    BY <2>1, <1>2, GivingUpKeepsInv DEF CallFails
<1>3. CASE AnswerLost(o)
  BY <1>3, WorkerTransaction DEF AnswerLost
<1>4. CASE AttemptTimesOut(o)
  <2>1. worker[o].at # "idle"
    BY <1>4 DEF AttemptTimesOut
  <2> QED
    BY <2>1, <1>4, GivingUpKeepsInv DEF AttemptTimesOut
<1> QED
  BY <1>1, <1>2, <1>3, <1>4

(* A late request arrives. *)
LEMMA StrayKeepsInv ==
    ASSUME Inv, NEW r \in strays, StrayArrives(r)
    PROVE  Inv'
<1>1. strays' = strays \ {r} /\ UNCHANGED <<worker, broker, gone, world>>
  BY DEF StrayArrives
<1>2. CASE Accepts(r)
  BY <1>1, <1>2, StrayTransaction DEF StrayArrives
<1>3. CASE ~Accepts(r)
  <2>1. UNCHANGED <<rows, line>>
    BY <1>3 DEF StrayArrives, outboxes
  <2>2. UNCHANGED <<rows, line, broker, gone>>
    BY <1>1, <2>1
  <2>3. /\ RowsOK' /\ LineOK' /\ MessagesOK' /\ InboxOK'
        /\ \A op, t, to : \A i \in Ids : RequestOK(op, i, t, to) => RequestOK(op, i, t, to)'
    BY <2>2, NothingMoves
  <2>4. StraysOK'
    <3>1. IsFiniteSet(strays')
      BY <1>1, FS_Subset DEF Inv, StraysOK
    <3> QED
      BY <1>1, <2>3, <3>1 DEF Inv, StraysOK, RequestType
  <2>5. WorkersOK'
    <3>1. \A o \in Owners : worker[o].id \in Ids
      BY WorkerKnows DEF Inv
    <3> QED
      BY <1>1, <2>3, <3>1 DEF Inv, WorkersOK, WorkerOK
  <2>6. TokensOK' /\ WorldOK'
    BY <1>1 DEF Inv, TokensOK, WorldOK
  <2> QED
    BY <2>3, <2>4, <2>5, <2>6 DEF Inv
<1> QED
  BY <1>2, <1>3

(* A worker dies, and what it was sending may still arrive. *)
LEMMA DeathKeepsInv ==
    ASSUME Inv, NEW o \in Owners, Die(o)
    PROVE  Inv'
<1>1. PICK x : x = worker[o]
  OBVIOUS
<1>2. /\ x \in Worker /\ x.id \in Ids /\ x.at # "idle" /\ Owner(x.id) = o
      /\ RequestOK(x.at, x.id, x.token, x.to)
  BY <1>1, WorkerKnows DEF Die, Inv
<1>3. PICK w : w = Idle(x)
  OBVIOUS
<1>4. w \in Worker /\ w.at = "idle" /\ worker' = [worker EXCEPT ![o] = w]
  BY <1>1, <1>2, <1>3, WorkerTypes DEF Die
<1>5. worker'[o] = w /\ \A p \in Owners : p # o => worker'[p] = worker[p]
  BY <1>4 DEF Inv, WorkersOK
<1>6. PICK r : r = Request(x)
  OBVIOUS
<1>7. x.at \in Operations =>
        r \in RequestType /\ r.op = x.at /\ r.id = x.id /\ r.token = x.token /\ r.to = x.to
  BY <1>2, <1>6, WorkerTypes
<1>8. strays' = IF x.at \in Operations THEN strays \cup {r} ELSE strays
  BY <1>1, <1>6 DEF Die
<1>9. /\ RowsOK' /\ LineOK' /\ MessagesOK' /\ InboxOK'
      /\ \A op, t, to : \A i \in Ids : RequestOK(op, i, t, to) => RequestOK(op, i, t, to)'
  <2>1. UNCHANGED <<rows, line, broker, gone>>
    BY DEF Die, outboxes
  <2> QED
    BY <2>1, NothingMoves
<1>10. StraysOK'
  <2>1. IsFiniteSet(strays')
    BY <1>8, FS_AddElement DEF Inv, StraysOK
  <2>2. \A s \in strays' : s \in RequestType /\ RequestOK(s.op, s.id, s.token, s.to)
    BY <1>2, <1>7, <1>8 DEF Inv, StraysOK
  <2>3. \A s \in strays' : s.id \in Ids
    BY <2>2 DEF RequestType
  <2> QED
    BY <1>9, <2>1, <2>2, <2>3 DEF StraysOK
<1>11. WorkersOK'
  <2>1. worker' \in [Owners -> Worker]
    BY <1>4 DEF Inv, WorkersOK
  <2>2. ASSUME NEW p \in Owners PROVE WorkerOK(p)'
    <3>1. CASE p = o
      BY <3>1, <1>4, <1>5 DEF WorkerOK
    <3>2. CASE p # o
      <4>1. PICK y : y = worker[p]
        OBVIOUS
      <4>2. y.id \in Ids /\ (y.at # "idle" => Owner(y.id) = p /\ RequestOK(y.at, y.id, y.token, y.to))
        BY <4>1, WorkerKnows DEF Inv
      <4>3. worker'[p] = y
        BY <3>2, <4>1, <1>5
      <4> QED
        BY <4>2, <4>3, <1>9 DEF WorkerOK
    <3> QED
      BY <3>1, <3>2
  <2> QED
    BY <2>1, <2>2 DEF WorkersOK
<1>12. TokensOK'
  <2>1. x.at \in Operations => \A s \in strays : s.id = r.id => s.token # r.token
    BY <1>1, <1>2, <1>7 DEF Inv, TokensOK
  <2>2. \A s, t \in strays' : s.id = t.id /\ s.token = t.token => s = t
    BY <1>8, <2>1 DEF Inv, TokensOK
  <2>3. ASSUME NEW s \in strays', NEW p \in Owners, worker'[p].at # "idle", worker'[p].id = s.id
        PROVE  worker'[p].token # s.token
    <3>1. p # o /\ worker'[p] = worker[p]
      BY <2>3, <1>4, <1>5
    <3>2. CASE s \in strays
      BY <2>3, <3>1, <3>2 DEF Inv, TokensOK
    <3>3. CASE s \notin strays
      <4>1. s = r /\ x.at \in Operations
        BY <3>3, <1>8
      <4>2. worker[p].id = worker[o].id
        BY <4>1, <2>3, <3>1, <1>1, <1>7
      <4> QED
        BY <4>2, <2>3, <3>1, <1>1, <1>2, WorkersApart DEF Inv
    <3> QED
      BY <3>2, <3>3
  <2> QED
    BY <2>2, <2>3 DEF TokensOK
<1>13. WorldOK'
  BY DEF Die, Inv, WorldOK
<1> QED
  BY <1>9, <1>10, <1>11, <1>12, <1>13 DEF Inv

(* More is sent, or what is sent is stored: the rows, the line and the requests stay as they were. *)
LEMMA SendingKeeps ==
    ASSUME Inv, UNCHANGED outboxes, \A i \in Ids : Sent(i) => Sent(i)'
    PROVE  /\ RowsOK' /\ LineOK'
           /\ \A op, t, to : \A i \in Ids : RequestOK(op, i, t, to) => RequestOK(op, i, t, to)'
<1>1. UNCHANGED rows /\ UNCHANGED line
  BY DEF outboxes
<1>2. RowsOK'
  BY <1>1, SendingKeepsRows DEF Inv
<1>3. LineOK'
  BY <1>1 DEF Inv, LineOK, IsLine, Recorded
<1> QED
  BY <1>1, <1>2, <1>3, SameRows

(* A message is queued. *)
LEMMA QueueGrows ==
    ASSUME MessagesOK, NEW m \in Message, CopyOK(m), queue' = Append(queue, m),
           UNCHANGED <<rows, consumer, inbox, quarantine>>
    PROVE  MessagesOK' /\ Sent(m.id)' /\ \A i \in Ids : Sent(i) => Sent(i)'
<1>1. queue \in Seq(Message) /\ Len(queue) \in Nat /\ DOMAIN queue = 1..Len(queue)
  BY DEF MessagesOK
<1>2. /\ queue' \in Seq(Message) /\ DOMAIN queue' = 1..(Len(queue) + 1) /\ queue' # <<>>
      /\ queue'[Len(queue) + 1] = m /\ \A n \in 1..Len(queue) : queue'[n] = queue[n]
  BY <1>1
<1>3. \A k : CopyOK(k) => CopyOK(k)'
  BY DEF CopyOK
<1>4. \A n \in DOMAIN queue' : (CopyOK(queue[n]))'
  <2>1. PICK s : s = queue'
    OBVIOUS
  <2>2. \A n \in DOMAIN s : CopyOK(s[n])
    BY <2>1, <1>1, <1>2 DEF MessagesOK
  <2>3. \A n \in DOMAIN s : CopyOK(s[n])'
    BY <2>2, <1>3
  <2> QED
    BY <2>1, <2>3
<1>5. \A k \in quarantine : CopyOK(k)'
  BY <1>3 DEF MessagesOK
<1>6. consumer = "stored" => queue'[1] = queue[1]
  BY <1>1, <1>2 DEF MessagesOK
<1>7. MessagesOK'
  BY <1>2, <1>4, <1>5, <1>6 DEF MessagesOK
<1>8. Sent(m.id)'
  BY <1>1, <1>2 DEF Sent, Waiting, ToSet
<1>9. \A i \in Ids : Sent(i) => Sent(i)'
  BY <1>1, <1>2 DEF Sent, Waiting, Quarantined, ToSet
<1> QED
  BY <1>7, <1>8, <1>9

(* A worker publishes, and learns that it did, or does not. *)
LEMMA PublishKeepsInv ==
    ASSUME Inv, NEW o \in Owners, Publish(o) \/ PublishHangs(o)
    PROVE  Inv'
<1>1. PICK x : x = worker[o]
  OBVIOUS
<1>2. /\ x \in Worker /\ x.id \in Ids /\ x.at = "publish" /\ Owner(x.id) = o
      /\ RequestOK(x.at, x.id, x.token, x.to)
  BY <1>1, WorkerKnows DEF Publish, PublishHangs, Inv
<1>3. PICK m : m = [id |-> x.id, to |-> x.to]
  OBVIOUS
<1>4. m \in Message /\ m.id = x.id /\ CopyOK(m)
  BY <1>2, <1>3 DEF Message, CopyOK, RequestOK
<1>5. UNCHANGED <<outboxes, strays, consumer, inbox, quarantine, gone, world>>
  BY DEF Publish, PublishHangs
<1>6. /\ \/ queue' = Append(queue, m) /\ worker' = [worker EXCEPT ![o].at = "published"]
         \/ queue' = Append(queue, m) /\ worker' = [worker EXCEPT ![o].at = "stuck"]
         \/ queue' = queue /\ worker' = [worker EXCEPT ![o].at = "stuck"]
  BY <1>1, <1>3 DEF Publish, PublishHangs
<1>7. MessagesOK' /\ (queue' = Append(queue, m) => Sent(m.id)') /\ \A i \in Ids : Sent(i) => Sent(i)'
  <2>1. CASE queue' = Append(queue, m)
    <3>1. UNCHANGED <<rows, consumer, inbox, quarantine>>
      BY <1>5 DEF outboxes
    <3> QED
      BY <2>1, <3>1, <1>4, QueueGrows DEF Inv
  <2>2. CASE queue' = queue /\ queue' # Append(queue, m)
    <3>1. UNCHANGED broker /\ UNCHANGED rows
      BY <2>2, <1>5 DEF broker, outboxes
    <3>2. MessagesOK'
      BY <3>1, CopiesKept DEF Inv
    <3>3. \A i \in Ids : Sent(i) => Sent(i)'
      BY <3>1 DEF Sent, Waiting, Quarantined, broker
    <3> QED
      BY <2>2, <3>2, <3>3
  <2> QED
    BY <2>1, <2>2, <1>6
<1>8. /\ RowsOK' /\ LineOK'
      /\ \A op, t, to : \A i \in Ids : RequestOK(op, i, t, to) => RequestOK(op, i, t, to)'
  <2>1. UNCHANGED outboxes
    BY <1>5
  <2> QED
    BY <2>1, <1>7, SendingKeeps
<1>9. InboxOK' /\ WorldOK'
  BY <1>5 DEF Inv, InboxOK, WorldOK, outboxes
<1>10. StraysOK'
  BY <1>5, <1>8 DEF Inv, StraysOK, RequestType
<1>11. PICK w : /\ w \in Worker /\ worker' = [worker EXCEPT ![o] = w] /\ w.id = x.id /\ w.token = x.token
                /\ \/ w.at = "published" /\ queue' = Append(queue, m)
                   \/ w.at = "stuck"
  <2>1. ASSUME NEW at \in {"published", "stuck"}, worker' = [worker EXCEPT ![o].at = at]
        PROVE  \E w \in Worker : /\ worker' = [worker EXCEPT ![o] = w] /\ w.at = at
                                 /\ w.id = x.id /\ w.token = x.token
    <3>1. PICK w : w = [x EXCEPT !.at = at]
      OBVIOUS
    <3>2. worker' = [worker EXCEPT ![o] = w]
      BY <2>1, <3>1, <1>1
    <3>3. w \in Worker /\ w.at = at /\ w.id = x.id /\ w.token = x.token
      BY <3>1, <1>2 DEF Worker, Operations
    <3> QED
      BY <3>2, <3>3
  <2> QED
    BY <2>1, <1>6
<1>12. RequestOK(w.at, w.id, w.token, w.to)'
  <2>1. rows'[x.id].state # "absent" /\ x.token # 0
    BY <1>2, <1>5 DEF RequestOK, outboxes
  <2>2. w.at = "published" => Sent(w.id)'
    BY <1>4, <1>7, <1>11
  <2> QED
    BY <2>1, <2>2, <1>11 DEF RequestOK
<1>13. \A p \in Owners : \A y \in Worker :
         p # o /\ y = worker[p] /\ y.at # "idle" => RequestOK(y.at, y.id, y.token, y.to)'
  <2> SUFFICES ASSUME NEW p \in Owners, NEW y \in Worker, y = worker[p], y.at # "idle"
               PROVE  RequestOK(y.at, y.id, y.token, y.to)'
    OBVIOUS
  <2>1. y.id \in Ids /\ RequestOK(y.at, y.id, y.token, y.to)
    BY WorkerKnows DEF Inv
  <2> QED
    BY <1>8, <2>1
<1>14. WorkersOK' /\ TokensOK'
  <2>1. \A r \in strays : w.id = r.id => w.token # r.token
    BY <1>1, <1>2, <1>11 DEF Inv, TokensOK
  <2>2. strays' \subseteq strays /\ Owner(w.id) = o
    BY <1>2, <1>5, <1>11
  <2> QED
    BY <1>11, <1>12, <1>13, <2>1, <2>2, WorkerMoves DEF Inv
<1> QED
  BY <1>7, <1>8, <1>9, <1>10, <1>14 DEF Inv

(* The consumer's side moves, and what was sent is still sent. *)
LEMMA ConsumerMoves ==
    ASSUME Inv, UNCHANGED <<outboxes, worker, strays>>, \A i \in Ids : Sent(i) => Sent(i)',
           MessagesOK', InboxOK', WorldOK'
    PROVE  Inv'
<1>1. /\ RowsOK' /\ LineOK'
      /\ \A op, t, to : \A i \in Ids : RequestOK(op, i, t, to) => RequestOK(op, i, t, to)'
  <2>1. UNCHANGED outboxes
    OBVIOUS
  <2> QED
    BY <2>1, SendingKeeps
<1>2. StraysOK'
  BY <1>1 DEF Inv, StraysOK, RequestType
<1>3. WorkersOK'
  <2>1. \A o \in Owners : worker[o].id \in Ids
    BY WorkerKnows DEF Inv
  <2> QED
    BY <1>1, <2>1 DEF Inv, WorkersOK, WorkerOK
<1>4. TokensOK'
  BY DEF Inv, TokensOK
<1> QED
  BY <1>1, <1>2, <1>3, <1>4 DEF Inv

(* The entry of a notification in an inbox. *)
LEMMA Entries ==
    ASSUME NEW u \in Users, NEW b \in BOOLEAN
    PROVE  [to |-> u, read |-> b] \in Entry /\ [to |-> u, read |-> b].to = u
BY DEF Entry

(* There is a first message unless the queue is empty. *)
LEMMA FirstMessage ==
    ASSUME MessagesOK, queue # <<>>
    PROVE  /\ 1 \in DOMAIN queue /\ Head(queue) = queue[1]
           /\ queue[1] \in Message /\ queue[1].id \in Ids /\ queue[1].to \in Users /\ CopyOK(queue[1])
<1>1. queue \in Seq(Message)
  BY DEF MessagesOK
<1>2. 1 \in DOMAIN queue /\ Head(queue) = queue[1] /\ queue[1] \in Message
  BY <1>1
<1>3. queue[1].id \in Ids /\ queue[1].to \in Users
  BY <1>2 DEF Message
<1>4. CopyOK(queue[1])
  BY <1>2 DEF MessagesOK
<1> QED
  BY <1>2, <1>3, <1>4

(* The first message is stored, or put aside. *)
LEMMA ProcessKeepsInv ==
    ASSUME Inv, Process
    PROVE  Inv'
<1>1. PICK m : m = queue[1]
  OBVIOUS
<1>2. /\ m \in Message /\ m.id \in Ids /\ m.to \in Users /\ CopyOK(m) /\ queue # <<>> /\ Head(queue) = m
  BY <1>1, FirstMessage DEF Process, Inv
<1>3. /\ consumer' = "stored" /\ UNCHANGED <<outboxes, worker, strays, queue, gone, world>>
      /\ IF m.id \in gone /\ inbox[m.id] = <<>>
         THEN quarantine' = quarantine \cup {m} /\ UNCHANGED inbox
         ELSE inbox' = Deliver(m) /\ UNCHANGED quarantine
  BY <1>2 DEF Process
<1>4. PICK e : e = [to |-> m.to, read |-> FALSE]
  OBVIOUS
<1>5. e \in Entry /\ e.to = m.to
  BY <1>2, <1>4, Entries
<1>6. /\ DOMAIN inbox' = Ids
      /\ \A i \in Ids : inbox'[i] = inbox[i]
                          \/ (i = m.id /\ inbox[i] = <<>> /\ inbox'[i] = <<e>>)
      /\ inbox'[m.id] # <<>> \/ m \in quarantine'
  BY <1>2, <1>3, <1>4 DEF Deliver, Inv, InboxOK
<1>7. quarantine \subseteq quarantine' /\ quarantine' \subseteq quarantine \cup {m}
  BY <1>3
<1>8. \A i \in Ids : Sent(i) => Sent(i)'
  BY <1>3, <1>6, <1>7 DEF Sent, Waiting, Quarantined
<1>9. \A k : CopyOK(k) => CopyOK(k)'
  BY <1>3 DEF CopyOK, outboxes
<1>10. MessagesOK'
  <2>1. quarantine' \subseteq Message
    BY <1>2, <1>7 DEF Inv, MessagesOK
  <2>2. \A n \in DOMAIN queue : CopyOK(queue[n])'
    BY <1>3, <1>9 DEF Inv, MessagesOK
  <2>3. \A k \in quarantine' : CopyOK(k)
    BY <1>2, <1>7 DEF Inv, MessagesOK
  <2>4. \A k : k \in quarantine' => CopyOK(k)'
    BY <1>9, <2>3
  <2>5. queue' = queue /\ queue' \in Seq(Message) /\ queue'[1] = m
    BY <1>1, <1>3 DEF Inv, MessagesOK
  <2> QED
    BY <1>2, <1>3, <1>6, <2>1, <2>2, <2>4, <2>5 DEF MessagesOK
<1>11. InboxOK'
  <2>1. UNCHANGED rows
    BY <1>3 DEF outboxes
  <2> QED
    BY <1>2, <1>5, <1>6, <2>1 DEF Inv, InboxOK, CopyOK
<1>12. WorldOK'
  BY <1>3 DEF Inv, WorldOK
<1> QED
  BY <1>3, <1>8, <1>10, <1>11, <1>12, ConsumerMoves

(* The first message, which is stored, leaves the queue. *)
LEMMA AcknowledgeKeepsInv ==
    ASSUME Inv, Acknowledge
    PROVE  Inv'
<1>1. /\ consumer = "stored" /\ queue' = Tail(queue) /\ consumer' = "ready"
      /\ UNCHANGED <<outboxes, worker, strays, inbox, quarantine, gone, world>>
  BY DEF Acknowledge
<1>2. queue \in Seq(Message) /\ queue # <<>> /\ (inbox[queue[1].id] # <<>> \/ queue[1] \in quarantine)
  BY <1>1 DEF Inv, MessagesOK
<1>3. /\ Len(queue) \in Nat \ {0} /\ DOMAIN queue = 1..Len(queue) /\ queue' \in Seq(Message)
      /\ DOMAIN queue' = 1..(Len(queue) - 1)
      /\ \A n \in DOMAIN queue' : n + 1 \in DOMAIN queue /\ queue'[n] = queue[n + 1]
  BY <1>1, <1>2
<1>4. \A i \in Ids : Sent(i) => Sent(i)'
  <2> SUFFICES ASSUME NEW i \in Ids, Sent(i) PROVE Sent(i)'
    OBVIOUS
  <2>1. CASE \E n \in DOMAIN queue : queue[n].id = i
    <3>1. PICK n \in DOMAIN queue : queue[n].id = i
      BY <2>1
    <3>2. CASE n = 1
      BY <3>1, <3>2, <1>1, <1>2 DEF Sent, Quarantined
    <3>3. CASE n # 1
      <4>1. n - 1 \in DOMAIN queue' /\ queue'[n - 1] = queue[n]
        BY <3>1, <3>3, <1>3
      <4> QED
        BY <3>1, <4>1 DEF Sent, Waiting, ToSet
    <3> QED
      BY <3>2, <3>3
  <2>2. CASE ~\E n \in DOMAIN queue : queue[n].id = i
    BY <2>2, <1>1 DEF Sent, Waiting, Quarantined, ToSet
  <2> QED
    BY <2>1, <2>2
<1>5. \A k : CopyOK(k) => CopyOK(k)'
  BY <1>1 DEF CopyOK, outboxes
<1>6. MessagesOK'
  <2>1. PICK s : s = queue'
    OBVIOUS
  <2>2. \A n \in DOMAIN s : CopyOK(s[n])
    BY <2>1, <1>3 DEF Inv, MessagesOK
  <2>3. \A n \in DOMAIN s : CopyOK(s[n])'
    BY <2>2, <1>5
  <2>4. \A n \in DOMAIN queue' : (CopyOK(queue[n]))'
    BY <2>1, <2>3
  <2>5. \A k \in quarantine : CopyOK(k)'
    BY <1>5 DEF Inv, MessagesOK
  <2> QED
    BY <1>1, <1>3, <2>4, <2>5 DEF Inv, MessagesOK
<1>7. InboxOK' /\ WorldOK'
  BY <1>1 DEF Inv, InboxOK, WorldOK, outboxes
<1> QED
  BY <1>1, <1>4, <1>6, <1>7, ConsumerMoves

(* The consumer loses its connection; the world changes. *)
LEMMA UpsetsKeepInv ==
    ASSUME Inv, Disconnect \/ Change
    PROVE  Inv'
<1>1. /\ UNCHANGED <<outboxes, worker, strays, queue, inbox, quarantine>>
      /\ consumer' = "ready" \/ consumer' = consumer
  BY DEF Disconnect, Change, broker
<1>2. \A i \in Ids : Sent(i) => Sent(i)'
  BY <1>1 DEF Sent, Waiting, Quarantined
<1>3. InboxOK'
  BY <1>1 DEF Inv, InboxOK, outboxes
<1>4. MessagesOK'
  <2>1. \A k : CopyOK(k) => CopyOK(k)'
    BY <1>1 DEF CopyOK, outboxes
  <2>2. \A n \in DOMAIN queue : CopyOK(queue[n])'
    BY <1>1, <2>1 DEF Inv, MessagesOK
  <2>3. \A k \in quarantine : CopyOK(k)'
    BY <2>1 DEF Inv, MessagesOK
  <2> QED
    BY <1>1, <2>2, <2>3 DEF Inv, MessagesOK
<1>5. WorldOK'
  <2>1. CASE Disconnect
    BY <2>1 DEF Disconnect, Inv, WorldOK
  <2>2. CASE Change
    <3>1. world \in World /\ gone \subseteq Ids
      BY DEF Inv, WorldOK
    <3>2. ASSUME NEW S \in SUBSET Users PROVE [world EXCEPT !.staff = S] \in World
      BY <3>1 DEF World
    <3>3. ASSUME NEW u \in Users \cup {Nobody} PROVE [world EXCEPT !.coordinator = u] \in World
      BY <3>1 DEF World
    <3>4. [world EXCEPT !.facts = ~@] \in World
      BY <3>1 DEF World
    <3>5. world' \in World /\ gone' \subseteq Ids
      BY <2>2, <3>1, <3>2, <3>3, <3>4 DEF Change, Recorded
    <3> QED
      BY <3>5 DEF WorldOK
  <2> QED
    BY <2>1, <2>2
<1> QED
  BY <1>1, <1>2, <1>3, <1>4, <1>5, ConsumerMoves

(* The addressee marks a notification. *)
LEMMA SetReadKeepsInv ==
    ASSUME Inv, NEW i \in Ids, NEW b \in BOOLEAN, SetRead(i, b)
    PROVE  Inv'
<1>1. PICK e \in Entry : inbox[i] = <<e>> /\ e.to = rows[i].envelope
  BY DEF SetRead, Inv, InboxOK
<1>2. PICK f : f = [e EXCEPT !.read = b]
  OBVIOUS
<1>3. f \in Entry /\ f.to = e.to
  BY <1>1, <1>2 DEF Entry
<1>4. /\ inbox' = [inbox EXCEPT ![i] = <<f>>]
      /\ UNCHANGED <<outboxes, worker, strays, queue, consumer, quarantine, gone, world>>
  <2>1. inbox[i][1] = e
    BY <1>1
  <2> QED
    BY <1>2, <2>1 DEF SetRead
<1>5. DOMAIN inbox' = Ids /\ inbox'[i] = <<f>> /\ \A j \in Ids : j # i => inbox'[j] = inbox[j]
  BY <1>4 DEF Inv, InboxOK
<1>6. \A j \in Ids : inbox[j] # <<>> => inbox'[j] # <<>>
  BY <1>5
<1>7. \A j \in Ids : Sent(j) => Sent(j)'
  BY <1>4, <1>6 DEF Sent, Waiting, Quarantined
<1>8. InboxOK'
  BY <1>1, <1>3, <1>4, <1>5 DEF Inv, InboxOK, outboxes
<1>9. MessagesOK'
  <2>1. \A k : CopyOK(k) => CopyOK(k)'
    BY <1>4 DEF CopyOK, outboxes
  <2>2. \A n \in DOMAIN queue : CopyOK(queue[n])'
    BY <1>4, <2>1 DEF Inv, MessagesOK
  <2>3. \A k \in quarantine : CopyOK(k)'
    BY <2>1 DEF Inv, MessagesOK
  <2>4. queue # <<>> => queue[1].id \in Ids
    BY FirstMessage DEF Inv
  <2> QED
    BY <1>4, <1>6, <2>2, <2>3, <2>4 DEF Inv, MessagesOK
<1>10. WorldOK'
  BY <1>4 DEF Inv, WorldOK
<1> QED
  BY <1>4, <1>7, <1>8, <1>9, <1>10, ConsumerMoves

(* Nothing recorded, nothing under way. *)
LEMMA InitHasInv ==
    ASSUME Init
    PROVE  Inv
<1>1. Absent \in Row /\ Absent.token = 0 /\ ~Absent.live /\ Absent.state = "absent" /\ Absent.envelope = Nobody
  BY DEF Absent, Row, States
<1>2. \A i \in Ids : rows[i] = Absent
  BY DEF Init
<1>3. \E i : i \in Ids
  BY KindsAssumption DEF Ids
<1>4. RowsOK
  <2>1. rows \in [Ids -> Row]
    BY <1>1 DEF Init
  <2>2. \A i \in Ids : Fits(i, rows[i])
    BY <1>1, <1>2 DEF Fits
  <2> QED
    BY <2>1, <2>2 DEF RowsOK
<1>5. LineOK
  <2>1. Recorded = {}
    BY <1>1, <1>2 DEF Recorded
  <2>2. line = <<>>
    BY DEF Init
  <2> QED
    BY <2>1, <2>2 DEF LineOK, IsLine
<1>6. WorkersOK
  <2>1. PICK w : w = [at |-> "idle", id |-> CHOOSE i \in Ids : TRUE, token |-> 0, to |-> Nobody, many |-> {}]
    OBVIOUS
  <2>2. w \in Worker /\ w.at = "idle"
    BY <2>1, <1>3 DEF Worker
  <2>3. worker \in [Owners -> {w}]
    BY <2>1 DEF Init
  <2> QED
    BY <2>2, <2>3 DEF WorkersOK, WorkerOK
<1>7. StraysOK /\ TokensOK
  BY FS_EmptySet DEF Init, StraysOK, TokensOK
<1>8. MessagesOK
  BY DEF Init, MessagesOK
<1>9. InboxOK
  BY DEF Init, InboxOK
<1>10. WorldOK
  BY WorldsAssumption DEF Init, WorldOK, World
<1> QED
  BY <1>4, <1>5, <1>6, <1>7, <1>8, <1>9, <1>10 DEF Inv

(* One case for every action. *)
LEMMA NextKeepsInv ==
    ASSUME Inv, [Next]_vars
    PROVE  Inv'
<1>1. CASE UNCHANGED vars
  <2>1. /\ UNCHANGED <<outboxes, worker, strays, broker, gone, world>>
        /\ UNCHANGED <<rows, line, broker, gone>>
    BY <1>1 DEF vars, outboxes, broker
  <2>2. /\ MessagesOK' /\ InboxOK'
    BY <2>1, NothingMoves
  <2>3. \A i \in Ids : Sent(i) => Sent(i)'
    BY <2>1 DEF Sent, Waiting, Quarantined, broker
  <2>4. WorldOK'
    BY <2>1 DEF Inv, WorldOK
  <2> QED
    BY <2>1, <2>2, <2>3, <2>4, ConsumerMoves
<1>2. CASE Record
  BY <1>2, RecordKeepsInv
<1>3. CASE Process
  BY <1>3, ProcessKeepsInv
<1>4. CASE Acknowledge
  BY <1>4, AcknowledgeKeepsInv
<1>5. CASE Disconnect \/ Change
  BY <1>5, UpsetsKeepInv
<1>6. ASSUME NEW o \in Owners, Dispatch(o) PROVE Inv'
  <2>1. CASE Claim(o, TRUE)
    BY <2>1, ClaimKeepsInv
  <2>2. CASE Lookup(o)
    BY <2>2, LookupKeepsInv
  <2>3. CASE Call(o)
    BY <2>3, CallsKeepInv
  <2>4. CASE Publish(o)
    BY <2>4, PublishKeepsInv
  <2> QED
    BY <1>6, <2>1, <2>2, <2>3, <2>4 DEF Dispatch
<1>7. ASSUME NEW o \in Owners, ClaimAnswerLost(o) PROVE Inv'
  BY <1>7, ClaimKeepsInv DEF ClaimAnswerLost
<1>8. ASSUME NEW o \in Owners, AttemptTimesOut(o) \/ CallFails(o) \/ AnswerLost(o) PROVE Inv'
  BY <1>8, CallsKeepInv
<1>9. ASSUME NEW o \in Owners, PublishHangs(o) PROVE Inv'
  BY <1>9, PublishKeepsInv
<1>10. ASSUME NEW o \in Owners, Die(o) PROVE Inv'
  BY <1>10, DeathKeepsInv
<1>11. ASSUME NEW r \in strays, StrayArrives(r) PROVE Inv'
  BY <1>11, StrayKeepsInv
<1>12. ASSUME NEW i \in Ids, Release(i) \/ LeaseEnds(i) \/ BackoffEnds(i) PROVE Inv'
  BY <1>12, RowStepsKeepInv
<1>13. ASSUME NEW i \in Ids, NEW b \in BOOLEAN, SetRead(i, b) PROVE Inv'
  BY <1>13, SetReadKeepsInv
<1> QED
  BY <1>1, <1>2, <1>3, <1>4, <1>5, <1>6, <1>7, <1>8, <1>9, <1>10, <1>11, <1>12, <1>13 DEF Next

(* The invariant holds of every reachable state, whatever fails and however often. *)
THEOREM DeliveryInvariant == Spec => []Inv
<1>1. Init => Inv
  BY InitHasInv
<1>2. Inv /\ [Next]_vars => Inv'
  BY NextKeepsInv
<1> QED
  BY <1>1, <1>2, PTL DEF Spec

(***************************************************************************)
(* The properties of the runs.                                             *)
(***************************************************************************)
(* An inbox has at most one entry of a notification, addressed as its envelope is. *)
LEMMA OneEntry ==
    ASSUME Inv, NEW i \in Ids
    PROVE  /\ Len(inbox[i]) <= 1 /\ ToSet(inbox[i]) \subseteq Entry
           /\ inbox[i] # <<>> => inbox[i][1] \in Entry /\ inbox[i][1].to = rows[i].envelope
<1>1. CASE inbox[i] = <<>>
  BY <1>1 DEF ToSet
<1>2. CASE inbox[i] # <<>>
  <2>1. PICK e \in Entry : inbox[i] = <<e>> /\ e.to = rows[i].envelope
    BY <1>2 DEF Inv, InboxOK
  <2>2. Len(<<e>>) = 1 /\ ToSet(<<e>>) = {e} /\ <<e>>[1] = e
    BY DEF ToSet
  <2> QED
    BY <2>1, <2>2
<1> QED
  BY <1>1, <1>2

(* The variables of the notification path have their types: a lease is held on a due row only, with a
   token; the line has every recorded row once; an inbox has no notification twice. *)
THEOREM DeliveryTypeCorrect == Spec => []TypeOK
<1>1. Inv => TypeOK
  <2> SUFFICES ASSUME Inv PROVE TypeOK
    OBVIOUS
  <2>1. /\ rows \in [Ids -> Row]
        /\ \A i \in Ids : rows[i].live => rows[i].token # 0 /\ rows[i].state = "due"
    BY DEF Inv, RowsOK, Fits
  <2>2. ToSet(line) = Recorded /\ Len(line) = Cardinality(Recorded)
    <3>1. Recorded \in SUBSET Ids
      BY DEF Recorded
    <3> QED
      BY <3>1, LineLength DEF Inv, LineOK
  <2>3. worker \in [Owners -> Worker]
    BY DEF Inv, WorkersOK
  <2>4. \A r \in strays : r.op \in Operations /\ r.id \in Recorded
    BY DEF Inv, StraysOK, RequestType, RequestOK, Recorded
  <2>5. /\ queue \in Seq([id : Ids, to : Users]) /\ consumer \in {"ready", "stored"}
        /\ quarantine \subseteq [id : Ids, to : Users]
    BY DEF Inv, MessagesOK, Message
  <2>6. \A i \in Ids : Len(inbox[i]) <= 1 /\ ToSet(inbox[i]) \subseteq [to : Users, read : BOOLEAN]
    BY OneEntry DEF Entry
  <2>7. gone \subseteq Ids /\ world \in World
    BY DEF Inv, WorldOK
  <2> QED
    BY <2>1, <2>2, <2>3, <2>4, <2>5, <2>6, <2>7 DEF TypeOK
<1> QED
  BY <1>1, DeliveryInvariant, PTL

(* What is recorded as published is in the queue, in the inbox or in the quarantine: a report that a
   message was published never overtakes the message, not even as a late request of a dead worker. *)
THEOREM NothingIsLost == Spec => []NothingLost
<1>1. Inv => NothingLost
  BY DEF Inv, RowsOK, Fits, NothingLost, Recorded, Sent
<1> QED
  BY <1>1, DeliveryInvariant, PTL

(* All copies of a notification ever sent name the recipient that was frozen first. *)
THEOREM CopiesNameOneRecipient == Spec => []OneEnvelope
<1>1. Inv => OneEnvelope
  <2> SUFFICES ASSUME Inv PROVE OneEnvelope
    OBVIOUS
  <2>1. \A m \in ToSet(queue) \cup quarantine : m.to = rows[m.id].envelope
    BY DEF Inv, MessagesOK, CopyOK, ToSet
  <2>2. \A i \in Ids : inbox[i] # <<>> => inbox[i][1].to = rows[i].envelope
    BY OneEntry
  <2>3. \A i \in Recorded : IsChild(i) => rows[i].envelope \in {Nobody, i[2]}
    BY DEF Inv, RowsOK, Fits, Recorded
  <2> QED
    BY <2>1, <2>2, <2>3 DEF OneEnvelope
<1> QED
  BY <1>1, DeliveryInvariant, PTL

(* A row that waits for a person's repair was never addressed or sent by anyone. *)
THEOREM HeldRowsWereNeverSent == Spec => []HeldWasNeverSent
<1>1. Inv => HeldWasNeverSent
  <2> SUFFICES ASSUME Inv, NEW i \in Recorded, rows[i].state = "held"
               PROVE  rows[i].envelope = Nobody /\ ~Waiting(i) /\ inbox[i] = <<>> /\ ~Quarantined(i)
    BY DEF HeldWasNeverSent
  <2>1. i \in Ids /\ rows[i].envelope = Nobody
    BY DEF Inv, RowsOK, Fits, Recorded
  <2>2. \A m \in Message : CopyOK(m) => m.id # i
    BY <2>1, PeopleAssumption DEF CopyOK, Message
  <2>3. ~Waiting(i)
    <3>1. \A n \in DOMAIN queue : queue[n] \in Message /\ CopyOK(queue[n])
      BY DEF Inv, MessagesOK
    <3> QED
      BY <3>1, <2>2 DEF Waiting, ToSet
  <2>4. ~Quarantined(i)
    BY <2>2 DEF Inv, MessagesOK, Quarantined
  <2>5. inbox[i] = <<>>
    BY <2>1, OneEntry, PeopleAssumption DEF Entry
  <2> QED
    BY <2>1, <2>3, <2>4, <2>5
<1> QED
  BY <1>1, DeliveryInvariant, PTL

(***************************************************************************)
(* The refinement of Notices.                                              *)
(***************************************************************************)
(* Notices sees which rows are recorded, which fan-outs are published, the envelopes and the inbox. *)
LEMMA PromiseStutters ==
    ASSUME UNCHANGED inbox,
           \A i \in Ids : /\ rows'[i].envelope = rows[i].envelope
                          /\ rows'[i].state = "absent" <=> rows[i].state = "absent"
                          /\ IsFanOut(i) => (rows'[i].state = "published" <=> rows[i].state = "published")
    PROVE  UNCHANGED Promise!vars
<1>1. Recorded' = Recorded
  BY DEF Recorded
<1>2. {i \in Recorded : IsFanOut(i) /\ rows[i].state = "published"}'
        = {i \in Recorded : IsFanOut(i) /\ rows[i].state = "published"}
  BY DEF Recorded
<1>3. [i \in Ids |-> rows[i].envelope]' = [i \in Ids |-> rows[i].envelope]
  OBVIOUS
<1> QED
  BY <1>1, <1>2, <1>3 DEF Promise!vars

(* Nobody is owed anything at first. *)
LEMMA PromiseBegins ==
    ASSUME Init
    PROVE  Promise!Init
<1>1. Absent.state = "absent" /\ Absent.envelope = Nobody
  BY DEF Absent
<1>2. Recorded = {}
  BY <1>1 DEF Recorded, Init
<1>3. [i \in Ids |-> rows[i].envelope] = [i \in Ids |-> Nobody]
  BY <1>1 DEF Init
<1>4. inbox = [i \in Ids |-> <<>>]
  BY DEF Init
<1> QED
  BY <1>2, <1>3, <1>4 DEF Promise!Init

(* A row that is inserted is a notice that is owed. *)
LEMMA InsertOwes ==
    ASSUME Inv, NEW k \in Kinds, NEW to \in Users \cup {Nobody}, NEW envelope \in Users \cup {Nobody},
           Insert(<<k>>, Due(to, envelope))
    PROVE  Promise!Next
<1> DEFINE i == <<k>>
<1>1. i \in Ids
  BY DEF Ids
<1> HIDE DEF i
<1>2. PICK q : q = Due(to, envelope)
  OBVIOUS
<1>3. q.state = "due" /\ q.envelope = envelope
  BY <1>2, DueRow
<1>4. rows[i].state = "absent" /\ rows' = [rows EXCEPT ![i] = q] /\ UNCHANGED inbox
  BY <1>2 DEF Insert, i, broker
<1>5. rows'[i] = q /\ \A j \in Ids : j # i => rows'[j] = rows[j]
  BY <1>1, <1>4 DEF Inv, RowsOK
<1>6. i \notin Recorded /\ Recorded' = Recorded \cup {i}
  BY <1>1, <1>3, <1>4, <1>5 DEF Recorded
<1>7. {j \in Recorded : IsFanOut(j) /\ rows[j].state = "published"}'
        = {j \in Recorded : IsFanOut(j) /\ rows[j].state = "published"}
  BY <1>1, <1>3, <1>4, <1>5 DEF Recorded
<1>8. [j \in Ids |-> rows[j].envelope]' = [[j \in Ids |-> rows[j].envelope] EXCEPT ![i] = envelope]
  BY <1>1, <1>3, <1>5
<1>9. Promise!Owe(i)
  BY <1>4, <1>6, <1>7, <1>8 DEF Promise!Owe
<1> QED
  BY <1>1, <1>9 DEF Promise!Next

(* Whatever is recorded. *)
LEMMA RecordOwes ==
    ASSUME Inv, Record
    PROVE  Promise!Next
<1>1. PICK k \in Kinds, u \in Users :
        \/ RecordFanOut(k) \/ RecordNotification(k, u) \/ RecordEventChange(k)
        \/ EnqueueBooking(k, u) \/ EnqueueClosure(k)
        \/ RecordRegistration(k, u) \/ EnqueueEquipment(k, u)
  BY DEF Record
<1>2. \/ Insert(<<k>>, Due(Nobody, Nobody))
      \/ Insert(<<k>>, Due(u, Nobody))
      \/ Insert(<<k>>, Due(u, u))
  BY <1>1 DEF RecordFanOut, RecordNotification, RecordEventChange, EnqueueBooking, EnqueueClosure,
              RecordRegistration, EnqueueEquipment
<1> QED
  BY <1>2, InsertOwes

(* The envelope that is frozen addresses the notice, unless it was addressed. *)
LEMMA FreezeAddresses ==
    ASSUME Inv, NEW r \in RequestType, RequestOK(r.op, r.id, r.token, r.to), Accepts(r), r.op = "freeze",
           rows' = [rows EXCEPT ![r.id] = Frozen(@, r.to)], UNCHANGED broker
    PROVE  [Promise!Next]_Promise!vars
<1>1. /\ rows'[r.id].envelope \in Users
      /\ \A i \in Ids : rows'[i].state = rows[i].state
      /\ \A i \in Ids : i # r.id => rows'[i] = rows[i]
      /\ rows[r.id].envelope # Nobody => rows'[r.id].envelope = rows[r.id].envelope
  BY FreezeKeepsRows DEF Inv
<1>2. r.id \in Ids /\ rows[r.id].state = "due" /\ UNCHANGED inbox
  BY AcceptedIsDue DEF Inv, RequestType, broker
<1>3. CASE rows[r.id].envelope # Nobody
  <2>1. UNCHANGED Promise!vars
    BY <1>1, <1>2, <1>3, PromiseStutters
  <2> QED
    BY <2>1
<1>4. CASE rows[r.id].envelope = Nobody
  <2>1. Recorded' = Recorded /\ r.id \in Recorded
    BY <1>1, <1>2 DEF Recorded
  <2>2. {j \in Recorded : IsFanOut(j) /\ rows[j].state = "published"}'
          = {j \in Recorded : IsFanOut(j) /\ rows[j].state = "published"}
    BY <1>1 DEF Recorded
  <2>3. r.id \notin {j \in Recorded : IsFanOut(j) /\ rows[j].state = "published"}
    BY <1>2
  <2>4. [j \in Ids |-> rows[j].envelope]'
          = [[j \in Ids |-> rows[j].envelope] EXCEPT ![r.id] = rows'[r.id].envelope]
    <3>1. PICK u : u = rows'[r.id].envelope
      OBVIOUS
    <3>2. \A j \in Ids : rows'[j].envelope = IF j = r.id THEN u ELSE rows[j].envelope
      BY <3>1, <1>1
    <3>3. [j \in Ids |-> rows[j].envelope]' = [[j \in Ids |-> rows[j].envelope] EXCEPT ![r.id] = u]
      BY <3>2
    <3> QED
      BY <3>1, <3>3
  <2>5. [j \in Ids |-> rows[j].envelope][r.id] = Nobody
    BY <1>2, <1>4
  <2>6. Promise!Address(r.id)
    BY <1>1, <1>2, <2>1, <2>2, <2>3, <2>4, <2>5 DEF Promise!Address
  <2> QED
    BY <1>2, <2>6 DEF Promise!Next
<1> QED
  BY <1>3, <1>4

(* A fan-out that is expanded is split into notices that nobody was owed. *)
LEMMA ExpandSplits ==
    ASSUME Inv, NEW r \in RequestType, Accepts(r), r.op = "expand", Expand(r), UNCHANGED broker
    PROVE  Promise!Next
<1> DEFINE children == {Child(r.id, u) : u \in r.many}
           shares == [i \in Ids |-> IF IsFanOut(i) THEN {Child(i, u) : u \in Users} ELSE {}]
<1>1. /\ IsFanOut(r.id) /\ rows[r.id].state = "due" /\ rows'[r.id].state = "published"
      /\ \A i \in Ids : rows'[i].envelope = rows[i].envelope
      /\ children \cap Recorded = {} /\ Recorded' = Recorded \cup children
      /\ \A i \in Ids : i # r.id /\ i \notin children => rows'[i] = rows[i]
      /\ \A i \in children : ~IsFanOut(i)
  BY ExpandKeepsRows DEF Inv
<1>2. r.id \in Ids /\ r.many \subseteq Users /\ UNCHANGED inbox
  BY DEF RequestType, broker
<1>3. shares[r.id] = {Child(r.id, u) : u \in Users}
  BY <1>1, <1>2
<1>4. shares[r.id] # {}
  BY <1>3, PeopleAssumption
<1>5. children \in SUBSET shares[r.id]
  BY <1>2, <1>3
<1>6. r.id \in Recorded /\ rows[r.id].envelope = Nobody
  BY <1>1, <1>2 DEF Recorded, Inv, RowsOK, Fits
<1> HIDE DEF children
<1>7. {j \in Recorded : IsFanOut(j) /\ rows[j].state = "published"}'
        = {j \in Recorded : IsFanOut(j) /\ rows[j].state = "published"} \cup {r.id}
  <2>1. \A j \in Recorded : j \in Ids /\ j \notin children
    BY <1>1 DEF Recorded
  <2>2. \A j \in Recorded' : IsFanOut(j) => j \in Recorded
    BY <1>1
  <2> QED
    BY <1>1, <1>6, <2>1, <2>2
<1>8. [j \in Ids |-> rows[j].envelope]' = [j \in Ids |-> rows[j].envelope]
  BY <1>1
<1>9. r.id \notin {j \in Recorded : IsFanOut(j) /\ rows[j].state = "published"}
  BY <1>1
<1>10. [j \in Ids |-> rows[j].envelope][r.id] = Nobody
  BY <1>2, <1>6
<1>11. Promise!Split(r.id, children)
  BY <1>1, <1>2, <1>4, <1>6, <1>7, <1>8, <1>9, <1>10 DEF Promise!Split
<1> QED
  BY <1>2, <1>5, <1>11 DEF Promise!Next

(* Every transaction of an owner addresses, splits, or is not seen. *)
LEMMA TransactionsKeepThePromise ==
    ASSUME Inv, NEW r \in RequestType, RequestOK(r.op, r.id, r.token, r.to), Accepts(r), Execute(r),
           UNCHANGED broker
    PROVE  [Promise!Next]_Promise!vars
<1>1. CASE r.op = "expand" /\ Expand(r)
  BY <1>1, ExpandSplits
<1>2. CASE r.op = "freeze" /\ rows' = [rows EXCEPT ![r.id] = Frozen(@, r.to)]
  BY <1>2, FreezeAddresses
<1>3. CASE \/ r.op = "published" /\ rows' = [rows EXCEPT ![r.id] = Published(@)]
           \/ r.op = "hold" /\ rows' = [rows EXCEPT ![r.id] = Held(@)]
           \/ r.op = "retry" /\ rows' = [rows EXCEPT ![r.id] = Retried(@)]
  <2>1. \A i \in Ids : /\ rows'[i].envelope = rows[i].envelope
                       /\ rows'[i].state = "absent" <=> rows[i].state = "absent"
                       /\ IsFanOut(i) => (rows'[i].state = "published" <=> rows[i].state = "published")
    BY <1>3, GivingUpTheLease DEF Inv
  <2>2. UNCHANGED inbox
    BY DEF broker
  <2>3. UNCHANGED Promise!vars
    BY <2>1, <2>2, PromiseStutters
  <2> QED
    BY <2>3
<1> QED
  BY <1>1, <1>2, <1>3 DEF Execute

(* A message that is stored shows a notice that no inbox has shown. *)
LEMMA ProcessShows ==
    ASSUME Inv, Process
    PROVE  [Promise!Next]_Promise!vars
<1>1. PICK m : m = queue[1]
  OBVIOUS
<1>2. /\ m.id \in Ids /\ m.to \in Users /\ CopyOK(m) /\ Head(queue) = m
  BY <1>1, FirstMessage DEF Process, Inv
<1>3. UNCHANGED rows
  BY DEF Process, outboxes
<1>4. CASE UNCHANGED inbox
  <2>1. UNCHANGED Promise!vars
    BY <1>3, <1>4, PromiseStutters
  <2> QED
    BY <2>1
<1>5. CASE inbox[m.id] = <<>> /\ inbox' = [inbox EXCEPT ![m.id] = <<[to |-> m.to, read |-> FALSE]>>]
  <2>1. rows[m.id].envelope = m.to /\ m.to # Nobody
    BY <1>2, PeopleAssumption DEF CopyOK
  <2>2. m.id \in Recorded /\ ~IsFanOut(m.id)
    BY <1>2, <2>1 DEF Recorded, Inv, RowsOK, Fits
  <2>3. m.id \in Recorded \ {j \in Recorded : IsFanOut(j) /\ rows[j].state = "published"}
    BY <2>2
  <2>4. [j \in Ids |-> rows[j].envelope][m.id] = m.to
    BY <1>2, <2>1
  <2>5. /\ Recorded' = Recorded
        /\ {j \in Recorded : IsFanOut(j) /\ rows[j].state = "published"}'
             = {j \in Recorded : IsFanOut(j) /\ rows[j].state = "published"}
        /\ [j \in Ids |-> rows[j].envelope]' = [j \in Ids |-> rows[j].envelope]
    BY <1>3 DEF Recorded
  <2>6. Promise!Show(m.id)
    BY <1>2, <1>5, <2>3, <2>4, <2>5 DEF Promise!Show
  <2> QED
    BY <1>2, <2>6 DEF Promise!Next
<1>6. UNCHANGED inbox
        \/ (inbox[m.id] = <<>> /\ inbox' = [inbox EXCEPT ![m.id] = <<[to |-> m.to, read |-> FALSE]>>])
  BY <1>2 DEF Process, Deliver
<1> QED
  BY <1>4, <1>5, <1>6

(* The addressee marks the entry. *)
LEMMA SetReadMarks ==
    ASSUME NEW i \in Ids, NEW b \in BOOLEAN, SetRead(i, b)
    PROVE  Promise!Next
<1>1. UNCHANGED rows
  BY DEF SetRead, outboxes
<1>2. /\ Recorded' = Recorded
      /\ {j \in Recorded : IsFanOut(j) /\ rows[j].state = "published"}'
           = {j \in Recorded : IsFanOut(j) /\ rows[j].state = "published"}
      /\ [j \in Ids |-> rows[j].envelope]' = [j \in Ids |-> rows[j].envelope]
  BY <1>1 DEF Recorded
<1>3. inbox[i] # <<>> /\ inbox' = [inbox EXCEPT ![i] = <<[@[1] EXCEPT !.read = b]>>]
  BY DEF SetRead
<1>4. Promise!Mark(i, b)
  BY <1>2, <1>3 DEF Promise!Mark
<1> QED
  BY <1>4 DEF Promise!Next

(* Every step is a step of Notices or is not seen by it. *)
LEMMA NextKeepsThePromise ==
    ASSUME Inv, [Next]_vars
    PROVE  [Promise!Next]_Promise!vars
<1>1. ASSUME UNCHANGED rows, UNCHANGED inbox PROVE UNCHANGED Promise!vars
  BY <1>1, PromiseStutters
<1>2. CASE \/ UNCHANGED vars \/ Acknowledge \/ Disconnect \/ Change
           \/ \E o \in Owners : \/ Lookup(o) \/ Publish(o) \/ AttemptTimesOut(o) \/ CallFails(o)
                                \/ PublishHangs(o) \/ Die(o)
  <2>1. UNCHANGED rows /\ UNCHANGED inbox
    BY <1>2 DEF vars, Acknowledge, Disconnect, Change, Lookup, Publish, AttemptTimesOut, CallFails,
                PublishHangs, Die, outboxes, broker
  <2> QED
    BY <2>1, <1>1
<1>3. CASE Record
  BY <1>3, RecordOwes
<1>4. CASE Process
  BY <1>4, ProcessShows
<1>5. ASSUME NEW o \in Owners, NEW answered \in BOOLEAN, Claim(o, answered)
      PROVE  UNCHANGED Promise!vars
  <2>1. PICK i \in Ids :
          /\ IsFirst(i, o) /\ rows' = [rows EXCEPT ![i] = Leased(@, FreshToken(i))]
          /\ UNCHANGED broker
    BY <1>5 DEF Claim
  <2>2. PICK q : q = Leased(rows[i], FreshToken(i))
    OBVIOUS
  <2>3. FreshToken(i) \in Nat /\ rows[i] \in Row
    BY FreshTokens DEF Inv, RowsOK
  <2>4. rows' = [rows EXCEPT ![i] = q] /\ q.state = rows[i].state /\ q.envelope = rows[i].envelope
    BY <2>1, <2>2, <2>3, LeasedRow
  <2>5. rows'[i] = q /\ \A j \in Ids : j # i => rows'[j] = rows[j]
    BY <2>4 DEF Inv, RowsOK
  <2>6. UNCHANGED inbox
    BY <2>1 DEF broker
  <2> QED
    BY <2>4, <2>5, <2>6, PromiseStutters
<1>6. ASSUME NEW o \in Owners, Call(o) \/ AnswerLost(o) PROVE [Promise!Next]_Promise!vars
  <2>1. PICK r : r = Request(worker[o])
    OBVIOUS
  <2>2. /\ r \in RequestType /\ RequestOK(r.op, r.id, r.token, r.to)
    <3>1. worker[o].at \in Operations /\ worker[o].at # "idle"
      BY <1>6 DEF Call, AnswerLost, Operations
    <3> QED
      BY <2>1, <3>1, WorkerKnows, WorkerTypes DEF Inv
  <2>3. UNCHANGED broker
    BY <1>6 DEF Call, AnswerLost
  <2>4. CASE Accepts(r) /\ Execute(r)
    BY <2>2, <2>3, <2>4, TransactionsKeepThePromise
  <2>5. CASE UNCHANGED rows
    <3>1. UNCHANGED inbox
      BY <2>3 DEF broker
    <3> QED
      BY <2>5, <3>1, <1>1
  <2> QED
    BY <1>6, <2>1, <2>4, <2>5 DEF Call, AnswerLost, outboxes
<1>7. ASSUME NEW r \in strays, StrayArrives(r) PROVE [Promise!Next]_Promise!vars
  <2>1. r \in RequestType /\ RequestOK(r.op, r.id, r.token, r.to)
    BY DEF Inv, StraysOK
  <2>2. UNCHANGED broker
    BY <1>7 DEF StrayArrives
  <2>3. CASE Accepts(r) /\ Execute(r)
    BY <2>1, <2>2, <2>3, TransactionsKeepThePromise
  <2>4. CASE UNCHANGED rows
    <3>1. UNCHANGED inbox
      BY <2>2 DEF broker
    <3> QED
      BY <2>4, <3>1, <1>1
  <2> QED
    BY <1>7, <2>3, <2>4 DEF StrayArrives, outboxes
<1>8. ASSUME NEW i \in Ids, Release(i) \/ LeaseEnds(i) \/ BackoffEnds(i) PROVE UNCHANGED Promise!vars
  <2>1. rows[i] \in Row
    BY DEF Inv, RowsOK
  <2>2. PICK q : /\ rows' = [rows EXCEPT ![i] = q] /\ q.envelope = rows[i].envelope
                 /\ \/ q.state = rows[i].state
                    \/ rows[i].state = "held" /\ q.state = "due"
    <3>1. CASE Release(i)
      <4>1. PICK q : q = Released(rows[i])
        OBVIOUS
      <4>2. rows' = [rows EXCEPT ![i] = q] /\ rows[i].state = "held"
        BY <3>1, <4>1 DEF Release
      <4> QED
        BY <4>1, <4>2, <2>1, ReleasedRow
    <3>2. CASE LeaseEnds(i)
      <4>1. PICK q : q = [rows[i] EXCEPT !.live = FALSE]
        OBVIOUS
      <4>2. rows' = [rows EXCEPT ![i] = q]
        BY <3>2, <4>1 DEF LeaseEnds
      <4> QED
        BY <4>1, <4>2, <2>1, EndedRow
    <3>3. CASE BackoffEnds(i)
      <4>1. PICK q : q = [rows[i] EXCEPT !.waits = FALSE]
        OBVIOUS
      <4>2. rows' = [rows EXCEPT ![i] = q]
        BY <3>3, <4>1 DEF BackoffEnds
      <4> QED
        BY <4>1, <4>2, <2>1, EndedRow
    <3> QED
      BY <1>8, <3>1, <3>2, <3>3
  <2>3. rows'[i] = q /\ \A j \in Ids : j # i => rows'[j] = rows[j]
    BY <2>2 DEF Inv, RowsOK
  <2>4. UNCHANGED inbox
    BY <1>8 DEF Release, LeaseEnds, BackoffEnds, broker
  <2> QED
    BY <2>2, <2>3, <2>4, PromiseStutters
<1>9. ASSUME NEW i \in Ids, NEW b \in BOOLEAN, SetRead(i, b) PROVE Promise!Next
  BY <1>9, SetReadMarks
<1> QED
  BY <1>2, <1>3, <1>4, <1>5, <1>6, <1>7, <1>8, <1>9 DEF Next, Dispatch, ClaimAnswerLost

(* The whole path, with its leases, retries, lost answers, dead workers and redeliveries, is a
   behaviour of Notices: a notice is addressed once, split once, and shown at most once. *)
THEOREM DeliveryKeepsThePromise == Spec => KeepsThePromise
<1>1. Init => Promise!Init
  BY PromiseBegins
<1>2. Inv /\ [Next]_vars => [Promise!Next]_Promise!vars
  BY NextKeepsThePromise
<1> QED
  BY <1>1, <1>2, DeliveryInvariant, PTL DEF Spec, KeepsThePromise, Promise!Spec
==============================================================================
