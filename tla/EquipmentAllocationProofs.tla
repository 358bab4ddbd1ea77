--------------------- MODULE EquipmentAllocationProofs ---------------------
(***************************************************************************)
(* The shared stock for any number of events, items, lines and requests.   *)
(* That the stock suffices is not inductive: what an approval or a new     *)
(* date was weighed against was read before, so the invariant says what a  *)
(* request that is still fresh knows (CheckedOK, MovingOK).                *)
(***************************************************************************)
EXTENDS EquipmentAllocation, FiniteSetTheorems, TLAPS

----------------------------------------------------------------------------
(* Sums of the quantities in a table, over finite sets of its lines.       *)
UnitsOf(table, S) == UNION {{l} \X (1 .. table[l].quantity) : l \in S}
TotalOf(table, S) == Cardinality(UnitsOf(table, S))

Counted(table, S) == S \in SUBSET Lines /\ \A l \in S : table[l].quantity \in Nat

(* The units of one line are as many as its quantity. *)
LEMMA UnitsOfLine ==
    ASSUME NEW l, NEW n \in Nat
    PROVE  IsFiniteSet({l} \X (1 .. n)) /\ Cardinality({l} \X (1 .. n)) = n
<1> DEFINE S == {l}
<1> DEFINE T == 1 .. n
<1>1. IsFiniteSet(S) /\ Cardinality(S) = 1
  BY FS_Singleton
<1>2. IsFiniteSet(T) /\ Cardinality(T) = n
  BY FS_Interval
<1> HIDE DEF S, T
<1>3. IsFiniteSet(S \X T) /\ Cardinality(S \X T) = Cardinality(S) * Cardinality(T)
  BY <1>1, <1>2, FS_Product
<1>4. Cardinality(S \X T) = n
  BY <1>1, <1>2, <1>3
<1>. QED  BY <1>3, <1>4 DEF S, T

(* The units of finitely many lines are finitely many.                     *)
LEMMA UnitsFinite ==
    ASSUME NEW table, NEW S, Counted(table, S)
    PROVE  IsFiniteSet(UnitsOf(table, S)) /\ TotalOf(table, S) \in Nat
<1> DEFINE f == [l \in S |-> {l} \X (1 .. table[l].quantity)]
<1> DEFINE T == {{l} \X (1 .. table[l].quantity) : l \in S}
<1>1. IsFiniteSet(S)
  BY LinesAssumption, FS_Subset DEF Counted
<1>2. f \in Surjection(S, T)
  BY DEF Surjection
<1>3. IsFiniteSet(T)
  <2> HIDE DEF f, T
  <2>. QED  BY <1>1, <1>2, FS_Surjection
<1>4. \A u \in T : IsFiniteSet(u)
  <2> SUFFICES ASSUME NEW l \in S PROVE IsFiniteSet({l} \X (1 .. table[l].quantity))
    OBVIOUS
  <2>1. table[l].quantity \in Nat
    BY DEF Counted
  <2>. QED  BY <2>1, UnitsOfLine
<1>5. IsFiniteSet(UNION T)
  <2> HIDE DEF T
  <2>. QED  BY <1>3, <1>4, FS_UNION
<1>. QED  BY <1>5, FS_CardinalityType DEF UnitsOf, TotalOf

(* A line has as many units as it asks for.                                *)
LEMMA TotalOfOne ==
    ASSUME NEW table, NEW l, table[l].quantity \in Nat
    PROVE  TotalOf(table, {l}) = table[l].quantity
<1>1. UnitsOf(table, {l}) = {l} \X (1 .. table[l].quantity)
  BY DEF UnitsOf
<1>. QED  BY <1>1, UnitsOfLine DEF TotalOf

(* Fewer lines have no more units.                                         *)
LEMMA TotalOfSubset ==
    ASSUME NEW table, NEW T, Counted(table, T), NEW S \in SUBSET T
    PROVE  Counted(table, S) /\ TotalOf(table, S) <= TotalOf(table, T)
<1>1. UnitsOf(table, S) \in SUBSET UnitsOf(table, T)
  BY DEF UnitsOf
<1>2. IsFiniteSet(UnitsOf(table, T))
  BY UnitsFinite
<1>3. TotalOf(table, S) <= TotalOf(table, T)
  BY <1>1, <1>2, FS_Subset DEF TotalOf
<1>. QED  BY <1>3 DEF Counted

(* The units of lines together are those of the lines apart.               *)
LEMMA TotalOfTwo ==
    ASSUME NEW table, NEW S, NEW T, Counted(table, S), Counted(table, T), S \cap T = {}
    PROVE  /\ Counted(table, S \cup T)
           /\ TotalOf(table, S \cup T) = TotalOf(table, S) + TotalOf(table, T)
<1> DEFINE U == UnitsOf(table, S)
<1> DEFINE V == UnitsOf(table, T)
<1>1. UnitsOf(table, S \cup T) = U \cup V /\ U \cap V = {}
  BY DEF UnitsOf
<1>2. IsFiniteSet(U) /\ IsFiniteSet(V) /\ Cardinality(U) \in Nat /\ Cardinality(V) \in Nat
  BY UnitsFinite DEF TotalOf
<1> HIDE DEF U, V
<1>3. Cardinality(U \cup V) = Cardinality(U) + Cardinality(V) - Cardinality(U \cap V)
  BY <1>2, FS_Union
<1>4. Cardinality(U \cap V) = 0
  BY <1>1, FS_EmptySet
<1>5. Cardinality(U \cup V) = Cardinality(U) + Cardinality(V)
  BY <1>2, <1>3, <1>4
<1>. QED  BY <1>1, <1>5 DEF TotalOf, Counted, U, V

(* The sum is one of the quantities, and of nothing else in the table.     *)
LEMMA TotalOfSame ==
    ASSUME NEW table, NEW other, NEW S, \A l \in S : other[l].quantity = table[l].quantity
    PROVE  TotalOf(other, S) = TotalOf(table, S)
<1>1. UnitsOf(other, S) = UnitsOf(table, S)
  BY DEF UnitsOf
<1>. QED  BY <1>1 DEF TotalOf

(* The model's total of the lines S, as a total over the table as it is. *)
LEMMA TotalIsTotalOf ==
    ASSUME NEW S
    PROVE  Total(S) = TotalOf(rows, S)
BY DEF Total, Units, TotalOf, UnitsOf

----------------------------------------------------------------------------
(* The inductive invariant.                                                *)
OthersAt(e, i, window) == {o \in Competing({i}, window, Reserves) : rows[o].event # e}

CheckedOK(k) ==
    /\ k.lines \subseteq LinesOf(k.event)
    /\ k.event \in DOMAIN k.context
    /\ \A v, w \in k.context[k.event] : v = w
    /\ k.fresh => \A d \in DOMAIN k.context : Reserves[d] \subseteq k.context[d]

MovingOK(k) ==
    k.fresh => \A l \in LinesOf(k.event) \cap With("Approved") :
        rows[l].quantity + Total(OthersAt(k.event, rows[l].item, k.window)) <= Stock[rows[l].item]

CallOK(c) ==
    /\ calls[c].at = "checked" => CheckedOK(calls[c])
    /\ calls[c].at = "moving" => MovingOK(calls[c])

HoldingOK == \A i \in Items, t \in Int : Total(Holding(i, t)) <= Stock[i]

AllocationInv == AllocationTypeOK /\ HoldingOK /\ \A c \in Callers : CallOK(c)

----------------------------------------------------------------------------
(* The records of lines and of requests.                                   *)
LEMMA RowFields ==
    ASSUME NEW r \in Row \cup {Absent}
    PROVE  /\ r.status \in {"Pending", "Approved", "Rejected"} => r \in Row
           /\ r # Absent => r \in Row
           /\ r \in Row => /\ r.event \in Events /\ r.item \in Items /\ r.quantity \in Nat
                           /\ r.status \in {"Pending", "Approved", "Rejected"} /\ r # Absent
<1>1. CASE r \in Row
  <2>1. /\ r.event \in Events /\ r.item \in Items /\ r.quantity \in Quantities
        /\ r.status \in {"Pending", "Approved", "Rejected"}
    BY <1>1 DEF Row
  <2>2. r # Absent
    BY <2>1 DEF Absent
  <2>. QED  BY <1>1, <2>1, <2>2, QuantitiesAssumption
<1>2. CASE r = Absent
  <2>1. r \notin Row
    BY <1>2 DEF Row, Absent
  <2>. QED  BY <1>2, <2>1 DEF Absent
<1>. QED  BY <1>1, <1>2

(* A line is a row or absent, and a row has its fields. *)
LEMMA RowsTyped ==
    ASSUME AllocationTypeOK, NEW l \in Lines
    PROVE  /\ rows[l] \in Row \cup {Absent}
           /\ rows[l].status \in {"Pending", "Approved", "Rejected"} => rows[l] \in Row
           /\ rows[l] # Absent => rows[l] \in Row
           /\ rows[l] \in Row =>
                  /\ rows[l].event \in Events /\ rows[l].item \in Items /\ rows[l].quantity \in Nat
                  /\ rows[l].status \in {"Pending", "Approved", "Rejected"} /\ rows[l] # Absent
<1>1. rows[l] \in Row \cup {Absent}
  BY DEF AllocationTypeOK
<1>. QED  BY <1>1, RowFields

(* The units of approved lines can be counted. *)
LEMMA ApprovedCounted ==
    ASSUME AllocationTypeOK, NEW S, S \subseteq With("Approved")
    PROVE  Counted(rows, S)
BY RowsTyped DEF Counted, With

Contexts == UNION {[E -> SUBSET Windows] : E \in SUBSET Events}
CheckedCalls == [at : {"checked"}, event : Events, lines : SUBSET Lines, context : Contexts, fresh : BOOLEAN]
MovingCalls == [at : {"moving"}, event : Events, window : Windows, recheck : BOOLEAN, fresh : BOOLEAN]

(* A request holds what a check found, a new window, or nothing. *)
LEMMA CallsTyped ==
    ASSUME AllocationTypeOK, NEW c \in Callers
    PROVE  /\ calls[c] \in CheckedCalls \cup MovingCalls \cup {Idle}
           /\ calls[c].at = "checked" => calls[c] \in CheckedCalls
           /\ calls[c].at = "moving" => calls[c] \in MovingCalls
           /\ calls[c].at \notin {"checked", "moving"} => calls[c] = Idle
<1>1. calls[c] \in CheckedCalls \cup MovingCalls \cup {Idle}
  BY DEF AllocationTypeOK, Call, CheckedCalls, MovingCalls, Contexts
<1>. QED  BY <1>1 DEF CheckedCalls, MovingCalls, Idle

(* What a check found. *)
LEMMA CheckedFields ==
    ASSUME NEW k \in CheckedCalls
    PROVE  /\ k.event \in Events /\ k.lines \in SUBSET Lines /\ k.context \in Contexts
           /\ k.fresh \in BOOLEAN /\ k.at = "checked" /\ DOMAIN k.context \subseteq Events
<1>1. /\ k.event \in Events /\ k.lines \in SUBSET Lines /\ k.context \in Contexts
      /\ k.fresh \in BOOLEAN /\ k.at = "checked"
  BY DEF CheckedCalls
<1>2. \A x \in Contexts : DOMAIN x \subseteq Events
  BY DEF Contexts
<1>. QED  BY <1>1, <1>2

(* What an edit that was let through, or a re-check, will write. *)
LEMMA MovingFields ==
    ASSUME NEW k \in MovingCalls
    PROVE  k.event \in Events /\ k.window \in Windows /\ k.fresh \in BOOLEAN /\ k.at = "moving"
BY DEF MovingCalls

Stale(k) == [k EXCEPT !.fresh = FALSE]

(* A check whose facts were overtaken keeps what it found. *)
LEMMA StaleChecked ==
    ASSUME NEW k \in CheckedCalls
    PROVE  /\ Stale(k) \in CheckedCalls
           /\ Stale(k).event = k.event /\ Stale(k).lines = k.lines /\ Stale(k).context = k.context
           /\ Stale(k).fresh = FALSE
BY DEF Stale, CheckedCalls

(* So does an edit. *)
LEMMA StaleMoving ==
    ASSUME NEW k \in MovingCalls
    PROVE  /\ Stale(k) \in MovingCalls
           /\ Stale(k).event = k.event /\ Stale(k).window = k.window
           /\ Stale(k).fresh = FALSE
BY DEF Stale, MovingCalls

----------------------------------------------------------------------------
(* What a step may leave as it was: the lines that are approved, and which *)
(* lines are an event's.                                                   *)
ApprovedKept ==
    /\ rows' \in [Lines -> Row \cup {Absent}]
    /\ \A l \in Lines : rows'[l].status = "Approved" => rows'[l] = rows[l]

LinesKept == \A l \in Lines : rows[l] # Absent => rows'[l] # Absent /\ rows'[l].event = rows[l].event

ReservesNoMore == \A e \in Events : Reserves'[e] \subseteq Reserves[e]

(* Where an event holds after a step what it held before, or less, the     *)
(* stock still suffices.                                                   *)
LEMMA HoldingNoMore ==
    ASSUME AllocationInv, ApprovedKept,
           \A e \in Events :
               e \notin unchecked' /\ events'[e].status \in Reserving /\ HoldsLines(e)' =>
                   /\ e \notin unchecked /\ events[e].status \in Reserving
                   /\ events'[e].window = events[e].window
    PROVE  HoldingOK'
<1> SUFFICES ASSUME NEW i \in Items, NEW t \in Int
             PROVE  TotalOf(rows', Holding(i, t)') <= Stock[i]
  BY DEF HoldingOK, Total, Units, TotalOf, UnitsOf
<1> DEFINE H == Holding(i, t)
<1> DEFINE G == Holding(i, t)'
<1>1. G \subseteq With("Approved") /\ G \subseteq H /\ \A l \in G : rows'[l] = rows[l]
  <2> SUFFICES ASSUME NEW l \in G PROVE l \in H /\ rows'[l] = rows[l]
    BY DEF Holding, With, Of
  <2>1. /\ l \in Lines /\ rows'[l].status = "Approved" /\ rows'[l].item = i
        /\ rows'[l].event \notin unchecked' /\ events'[rows'[l].event].status \in Reserving
        /\ events'[rows'[l].event].window.from <= t /\ t < events'[rows'[l].event].window.to
    BY DEF Holding, With, Of
  <2>2. rows'[l] = rows[l] /\ rows[l].event \in Events /\ rows'[l] # Absent
    BY <2>1, RowsTyped DEF ApprovedKept, AllocationInv
  <2>3. HoldsLines(rows[l].event)'
    BY <2>1, <2>2 DEF HoldsLines, LinesOf, With
  <2>4. /\ rows[l].event \notin unchecked /\ events[rows[l].event].status \in Reserving
        /\ events'[rows[l].event].window = events[rows[l].event].window
    BY <2>1, <2>2, <2>3
  <2>. QED  BY <2>1, <2>2, <2>4 DEF Holding, With, Of
<1>2. Counted(rows, H)
  BY ApprovedCounted DEF AllocationInv, Holding, Of, With
<1>3. TotalOf(rows, H) <= Stock[i]
  BY TotalIsTotalOf DEF AllocationInv, HoldingOK
<1> HIDE DEF H, G
<1>4. TotalOf(rows, G) <= TotalOf(rows, H) /\ Counted(rows, G)
  BY <1>1, <1>2, TotalOfSubset
<1>5. TotalOf(rows', G) = TotalOf(rows, G)
  BY <1>1, TotalOfSame
<1>6. TotalOf(rows, H) \in Nat /\ TotalOf(rows, G) \in Nat /\ Stock[i] \in Nat
  BY <1>2, <1>4, UnitsFinite, StockAssumption
<1>7. TotalOf(rows', G) <= Stock[i]
  BY <1>3, <1>4, <1>5, <1>6
<1>. QED  BY <1>7 DEF G

(* What a request knows of the events stays true, unless it is marked.     *)
LEMMA CheckedStays ==
    ASSUME AllocationInv, NEW c \in Callers, calls[c].at = "checked", LinesKept,
           \/ calls'[c] = calls[c] /\ ReservesNoMore
           \/ calls'[c] = Stale(calls[c])
    PROVE  CallOK(c)'
<1> DEFINE k == calls[c]
<1> DEFINE j == calls'[c]
<1>1. k \in CheckedCalls /\ CheckedOK(k)
  BY CallsTyped DEF AllocationInv, CallOK
<1>2. /\ j.at = "checked" /\ j.event = k.event /\ j.lines = k.lines /\ j.context = k.context
      /\ j.fresh => k.fresh /\ ReservesNoMore
  <2>1. CASE j = k /\ ReservesNoMore
    BY <2>1
  <2>2. CASE j = Stale(k)
    <3>1. Stale(k).fresh = FALSE /\ Stale(k).at = "checked"
      BY <1>1, StaleChecked, CheckedFields
    <3>2. Stale(k).event = k.event /\ Stale(k).lines = k.lines /\ Stale(k).context = k.context
      BY <1>1, StaleChecked
    <3>. QED  BY <2>2, <3>1, <3>2
  <2>. QED  BY <2>1, <2>2
<1>3. k.event \in Events /\ k.lines \in SUBSET Lines /\ DOMAIN k.context \subseteq Events
  BY <1>1, CheckedFields
<1>4. /\ k.lines \subseteq LinesOf(k.event) /\ k.event \in DOMAIN k.context
      /\ \A v, w \in k.context[k.event] : v = w
      /\ k.fresh => \A d \in DOMAIN k.context : Reserves[d] \subseteq k.context[d]
  BY <1>1 DEF CheckedOK
<1> HIDE DEF k, j
<1>5. \A l \in k.lines : rows'[l] # Absent /\ rows'[l].event = k.event
  BY <1>3, <1>4 DEF LinesKept, LinesOf
<1>6. j.fresh => \A d \in DOMAIN k.context : Reserves'[d] \subseteq k.context[d]
  BY <1>2, <1>3, <1>4 DEF ReservesNoMore
<1>7. /\ j.lines \subseteq {l \in Lines : rows'[l] # Absent /\ rows'[l].event = j.event}
      /\ j.event \in DOMAIN j.context
      /\ \A v, w \in j.context[j.event] : v = w
      /\ j.fresh => \A d \in DOMAIN j.context : Reserves'[d] \subseteq j.context[d]
  BY <1>2, <1>3, <1>4, <1>5, <1>6
<1>. QED  BY <1>2, <1>7 DEF CallOK, CheckedOK, j, LinesOf

(* What new dates were weighed against grows no more, unless it is marked. *)
LEMMA MovingStays ==
    ASSUME AllocationInv, NEW c \in Callers, calls[c].at = "moving",
           \/ calls'[c] = calls[c] /\ ReservesNoMore /\ ApprovedKept
           \/ calls'[c] = Stale(calls[c])
    PROVE  CallOK(c)'
<1>1. calls[c] \in MovingCalls /\ MovingOK(calls[c])
  BY CallsTyped DEF AllocationInv, CallOK
<1>2. CASE calls'[c] = Stale(calls[c])
  <2>1. Stale(calls[c]).fresh = FALSE
    BY <1>1, StaleMoving
  <2>2. Stale(calls[c]).at = "moving"
    BY <1>1, StaleMoving, MovingFields
  <2>. QED  BY <1>2, <2>1, <2>2 DEF CallOK, MovingOK
<1>3. CASE calls'[c] = calls[c] /\ ReservesNoMore /\ ApprovedKept
  <2> DEFINE e == calls[c].event
  <2> SUFFICES ASSUME calls[c].fresh, NEW l \in Lines,
                      rows'[l] # Absent, rows'[l].event = e, rows'[l].status = "Approved"
               PROVE  rows'[l].quantity
                         + TotalOf(rows', OthersAt(calls[c].event, rows[l].item, calls[c].window)')
                      <= Stock[rows'[l].item]
    BY <1>1, <1>3, MovingFields
       DEF CallOK, MovingOK, LinesOf, With, Total, Units, TotalOf, UnitsOf
  <2> DEFINE O == OthersAt(calls[c].event, rows[l].item, calls[c].window)
  <2> DEFINE P == OthersAt(calls[c].event, rows[l].item, calls[c].window)'
  <2>1. rows'[l] = rows[l] /\ l \in LinesOf(e) \cap With("Approved")
    BY <1>3 DEF ApprovedKept, LinesOf, With
  <2>2. rows[l].quantity + TotalOf(rows, O) <= Stock[rows[l].item]
    BY <1>1, <2>1, TotalIsTotalOf DEF MovingOK
  <2>3. O \subseteq With("Approved")
    BY DEF OthersAt, Competing
  <2>4. P \subseteq O /\ \A o \in P : rows'[o] = rows[o]
    <3> SUFFICES ASSUME NEW o \in P PROVE o \in O /\ rows'[o] = rows[o]
      OBVIOUS
    <3>1. /\ o \in Lines /\ rows'[o].status = "Approved" /\ rows'[o].item = rows'[l].item
          /\ rows'[o].event # e
          /\ \E v \in Reserves'[rows'[o].event] : Overlap(v, calls[c].window)
      BY <1>3 DEF OthersAt, Competing, With, Overlap
    <3>2. rows'[o] = rows[o] /\ rows[o].event \in Events
      BY <1>3, <3>1, RowsTyped DEF ApprovedKept, AllocationInv
    <3>3. \E v \in Reserves[rows[o].event] : Overlap(v, calls[c].window)
      BY <1>3, <3>1, <3>2 DEF ReservesNoMore
    <3>. QED  BY <2>1, <3>1, <3>2, <3>3 DEF OthersAt, Competing, With
  <2> HIDE DEF O, P, e
  <2>5. Counted(rows, O)
    BY <2>3, ApprovedCounted DEF AllocationInv
  <2>6. TotalOf(rows, P) <= TotalOf(rows, O) /\ Counted(rows, P)
    BY <2>4, <2>5, TotalOfSubset
  <2>7. TotalOf(rows', P) = TotalOf(rows, P)
    BY <2>4, TotalOfSame
  <2>8. /\ TotalOf(rows, O) \in Nat /\ TotalOf(rows, P) \in Nat
        /\ rows[l].quantity \in Nat /\ Stock[rows[l].item] \in Nat
    BY <2>1, <2>5, <2>6, UnitsFinite, RowsTyped, StockAssumption DEF AllocationInv, With
  <2>9. rows[l].quantity + TotalOf(rows', P) <= Stock[rows[l].item]
    BY <2>2, <2>6, <2>7, <2>8
  <2>. QED  BY <2>1, <2>9 DEF P
<1>. QED  BY <1>2, <1>3

(* A request that has ended knows nothing.                                 *)
LEMMA IdleKnowsNothing ==
    ASSUME NEW c, calls'[c] = Idle
    PROVE  CallOK(c)'
BY DEF CallOK, Idle

(* A step in which no line is approved, no event comes to hold more, and   *)
(* requests at most end or are marked.                                     *)
LEMMA QuietStep ==
    ASSUME AllocationInv, AllocationTypeOK', ApprovedKept, LinesKept,
           \A e \in Events :
               e \notin unchecked' /\ events'[e].status \in Reserving /\ HoldsLines(e)' =>
                   /\ e \notin unchecked /\ events[e].status \in Reserving
                   /\ events'[e].window = events[e].window,
           \A c \in Callers :
               \/ calls'[c] = calls[c] /\ (ReservesNoMore \/ calls[c] = Idle)
               \/ calls[c].at \in {"checked", "moving"} /\ calls'[c] = Stale(calls[c])
               \/ CallOK(c)'
    PROVE  AllocationInv'
<1>1. HoldingOK'
  BY HoldingNoMore
<1>2. ASSUME NEW c \in Callers PROVE CallOK(c)'
  <2>1. CASE calls[c].at = "checked"
    BY <2>1, CheckedStays DEF Idle
  <2>2. CASE calls[c].at = "moving"
    BY <2>2, MovingStays DEF Idle
  <2>3. CASE calls[c].at \notin {"checked", "moving"}
    <3>1. calls[c] = Idle
      BY <2>3, CallsTyped DEF AllocationInv
    <3>. QED  BY <2>3, <3>1, IdleKnowsNothing
  <2>. QED  BY <2>1, <2>2, <2>3
<1>. QED  BY <1>1, <1>2 DEF AllocationInv

----------------------------------------------------------------------------
(* Steps of the owner that approve nothing.                                *)
LEMMA NoEventMoves ==
    ASSUME UNCHANGED events
    PROVE  ReservesNoMore
BY DEF ReservesNoMore, Reserves

(* The two kinds of request in progress are all there are. *)
LEMMA CallsAre == Call = CheckedCalls \cup MovingCalls
BY DEF Call, CheckedCalls, MovingCalls, Contexts

(* A step on the lines alone.                                              *)
LEMMA LinesStep ==
    ASSUME AllocationInv, ApprovedKept, LinesKept, UNCHANGED <<events, calls, unchecked, changes>>
    PROVE  AllocationInv'
<1>1. AllocationTypeOK'
  BY DEF AllocationInv, AllocationTypeOK, ApprovedKept
<1>2. ASSUME NEW e \in Events, HoldsLines(e)' PROVE HoldsLines(e)
  <2>1. PICK l \in Lines : /\ rows'[l] # Absent /\ rows'[l].event = e /\ rows'[l].status = "Approved"
    BY <1>2 DEF HoldsLines, LinesOf, With
  <2>2. rows'[l] = rows[l]
    BY <2>1 DEF ApprovedKept
  <2>. QED  BY <2>1, <2>2 DEF HoldsLines, LinesOf, With
<1>. QED  BY <1>1, QuietStep, NoEventMoves

(* create_requests: new lines are Pending.                                 *)
LEMMA CreateLinesKeepsLines ==
    ASSUME AllocationInv, NEW e \in Events, NEW asks \in SUBSET Ask, CreateLines(e, asks)
    PROVE  ApprovedKept /\ LinesKept
<1> PICK new \in [asks -> {l \in Lines : rows[l] = Absent}] :
        rows' = [l \in Lines |->
                    IF \E a \in asks : new[a] = l
                    THEN LET a == CHOOSE x \in asks : new[x] = l
                         IN [status |-> "Pending", event |-> e, item |-> a.item, quantity |-> a.quantity]
                    ELSE rows[l]]
  BY DEF CreateLines
<1>1. ASSUME NEW l \in Lines, \E a \in asks : new[a] = l
      PROVE  rows[l] = Absent /\ rows'[l] \in Row /\ rows'[l].status = "Pending"
  <2> DEFINE a == CHOOSE x \in asks : new[x] = l
  <2>1. a \in asks /\ new[a] = l
    BY <1>1
  <2>2. rows[l] = Absent
    BY <2>1
  <2>3. rows'[l] = [status |-> "Pending", event |-> e, item |-> a.item, quantity |-> a.quantity]
    BY <1>1
  <2>4. a.item \in Items /\ a.quantity \in Quantities
    BY <2>1 DEF Ask
  <2> HIDE DEF a
  <2>. QED  BY <2>2, <2>3, <2>4 DEF Row
<1>2. ASSUME NEW l \in Lines, ~ \E a \in asks : new[a] = l
      PROVE  rows'[l] = rows[l]
  BY <1>2
<1>3. rows \in [Lines -> Row \cup {Absent}]
  BY DEF AllocationInv, AllocationTypeOK
<1>4. ApprovedKept
  BY <1>1, <1>2, <1>3 DEF ApprovedKept
<1>5. LinesKept
  BY <1>1, <1>2 DEF LinesKept
<1>. QED  BY <1>4, <1>5

(* create_requests as a whole.                                             *)
LEMMA CreateLinesKeepsInv ==
    ASSUME AllocationInv, NEW e \in Events, NEW asks \in SUBSET Ask, CreateLines(e, asks)
    PROVE  AllocationInv'
<1>1. ApprovedKept /\ LinesKept
  BY CreateLinesKeepsLines
<1>. QED  BY <1>1, LinesStep DEF CreateLines

(* A line whose status alone changes, to one that holds nothing.           *)
Turned(r, s) == [r EXCEPT !.status = s]

(* A review changes the status of a line and nothing else of it. *)
LEMMA StatusOfLine ==
    ASSUME NEW r \in Row, NEW s \in {"Pending", "Approved", "Rejected"}
    PROVE  /\ Turned(r, s) \in Row
           /\ Turned(r, s).status = s
           /\ Turned(r, s).event = r.event
           /\ Turned(r, s).item = r.item
           /\ Turned(r, s).quantity = r.quantity
BY DEF Turned, Row

(* Lines that lose their approval, or never had one, take no stock. *)
LEMMA StatusOfLinesKeeps ==
    ASSUME AllocationInv, rows' \in [Lines -> Row \cup {Absent}],
           \A l \in Lines :
               \/ rows'[l] = rows[l]
               \/ rows[l] \in Row /\ \E s \in {"Pending", "Rejected"} : rows'[l] = Turned(rows[l], s)
    PROVE  ApprovedKept /\ LinesKept
<1>1. ASSUME NEW l \in Lines
      PROVE  /\ rows'[l].status = "Approved" => rows'[l] = rows[l]
             /\ rows[l] # Absent => rows'[l] # Absent /\ rows'[l].event = rows[l].event
  <2>1. CASE rows'[l] = rows[l]
    BY <2>1
  <2>2. ASSUME rows[l] \in Row, NEW s \in {"Pending", "Rejected"}, rows'[l] = Turned(rows[l], s)
        PROVE  rows'[l].status = s /\ rows'[l] \in Row /\ rows'[l].event = rows[l].event
    BY <2>2, StatusOfLine
  <2>. QED  BY <2>1, <2>2, RowFields
<1>. QED  BY <1>1 DEF ApprovedKept, LinesKept

(* reject_requests.                                                        *)
LEMMA RejectKeepsLines ==
    ASSUME AllocationInv, NEW S \in SUBSET Lines, Reject(S)
    PROVE  ApprovedKept /\ LinesKept
<1>1. rows' = [l \in Lines |-> IF l \in S THEN Turned(rows[l], "Rejected") ELSE rows[l]]
  BY DEF Reject, Turned
<1>2. \A l \in S : rows[l] \in Row
  BY RowsTyped DEF Reject, With, AllocationInv
<1>3. \A l \in S : Turned(rows[l], "Rejected") \in Row
  BY <1>2, StatusOfLine
<1>4. rows' \in [Lines -> Row \cup {Absent}]
  BY <1>1, <1>3 DEF AllocationInv, AllocationTypeOK
<1>. QED  BY <1>1, <1>2, <1>4, StatusOfLinesKeeps

(* safety_reset.                                                           *)
LEMMA SafetyResetKeepsLines ==
    ASSUME AllocationInv, NEW e \in Events, NEW S \in SUBSET LinesOf(e), SafetyReset(e, S)
    PROVE  ApprovedKept /\ LinesKept
<1>1. rows' = [l \in Lines |-> IF l \in S THEN Reset(rows[l]) ELSE rows[l]]
  BY DEF SafetyReset
<1>2. \A l \in S : rows[l] \in Row
  BY RowsTyped DEF LinesOf, AllocationInv
<1>3. ASSUME NEW l \in S
      PROVE  \/ Reset(rows[l]) = rows[l]
             \/ Reset(rows[l]) = Turned(rows[l], "Pending")
  <2>1. CASE rows[l].status = "Approved"
    BY <2>1 DEF Reset, Turned
  <2>2. CASE rows[l].status # "Approved"
    <3>1. Reset(rows[l]) = [rows[l] EXCEPT !.status = rows[l].status]
      BY <2>2 DEF Reset
    <3>. QED  BY <1>2, <3>1 DEF Row
  <2>. QED  BY <2>1, <2>2
<1>4. \A l \in S : Turned(rows[l], "Pending") \in Row
  BY <1>2, StatusOfLine
<1>5. rows' \in [Lines -> Row \cup {Absent}]
  BY <1>1, <1>2, <1>3, <1>4 DEF AllocationInv, AllocationTypeOK
<1>. QED  BY <1>1, <1>2, <1>3, <1>5, StatusOfLinesKeeps

(* Neither decision takes stock.                                           *)
LEMMA DecisionsKeepInv ==
    ASSUME AllocationInv,
           \/ \E S \in SUBSET Lines : Reject(S)
           \/ \E e \in Events : \E S \in SUBSET LinesOf(e) : SafetyReset(e, S)
    PROVE  AllocationInv'
<1>1. ApprovedKept /\ LinesKept
  BY RejectKeepsLines, SafetyResetKeepsLines
<1>2. UNCHANGED <<events, calls, unchecked, changes>>
  BY DEF Reject, SafetyReset
<1>. QED  BY <1>1, <1>2, LinesStep

----------------------------------------------------------------------------
(* Requests that read, or are refused.                                     *)

(* A step on one request alone.                                            *)
LEMMA RequestStep ==
    ASSUME AllocationInv, NEW c \in Callers, NEW k \in Call \cup {Idle},
           calls' = [calls EXCEPT ![c] = k], CallOK(c)',
           UNCHANGED <<rows, events, unchecked, changes>>
    PROVE  AllocationInv'
<1>1. AllocationTypeOK'
  BY DEF AllocationInv, AllocationTypeOK
<1>2. ApprovedKept /\ LinesKept
  BY DEF ApprovedKept, LinesKept, AllocationInv, AllocationTypeOK
<1>3. \A e \in Events : HoldsLines(e)' => HoldsLines(e)
  BY DEF HoldsLines, LinesOf, With
<1>4. \A d \in Callers : calls'[d] = calls[d] \/ CallOK(d)'
  BY DEF AllocationInv, AllocationTypeOK
<1>. QED  BY <1>1, <1>2, <1>3, <1>4, QuietStep, NoEventMoves

(* A refused request leaves everything else as it was. *)
LEMMA RefusalKeepsInv ==
    ASSUME AllocationInv, NEW c \in Callers, RefuseApproval(c) \/ RefuseEdit(c)
    PROVE  AllocationInv'
<1>1. /\ calls' = [calls EXCEPT ![c] = Idle]
      /\ UNCHANGED <<rows, events, unchecked, changes>>
  BY DEF RefuseApproval, RefuseEdit
<1>2. calls'[c] = Idle
  BY <1>1 DEF AllocationInv, AllocationTypeOK
<1>. QED  BY <1>1, <1>2, RequestStep, IdleKnowsNothing

(* An event reserves in its window, and only while it is going to happen. *)
LEMMA ReservesOne ==
    ASSUME AllocationInv, NEW e \in Events
    PROVE  /\ Reserves[e] \in SUBSET Windows
           /\ \A v, w \in Reserves[e] : v = w
           /\ events[e].status \in Reserving <=> events[e].window \in Reserves[e]
           /\ \A w \in Reserves[e] : w = events[e].window
BY DEF Reserves, AllocationInv, AllocationTypeOK, EventInfo

(* The reads of review_event.                                              *)
LEMMA CheckApprovalKeepsInv ==
    ASSUME AllocationInv, NEW c \in Callers, NEW e \in Events, NEW S \in SUBSET LinesOf(e),
           CheckApproval(c, e, S)
    PROVE  AllocationInv'
<1> DEFINE x == Gathered(e)
<1> DEFINE k == [at |-> "checked", event |-> e, lines |-> S, context |-> x, fresh |-> TRUE]
<1>1. calls' = [calls EXCEPT ![c] = k] /\ UNCHANGED <<rows, events, unchecked, changes>>
  BY DEF CheckApproval
<1>2. /\ e \in DOMAIN x /\ DOMAIN x \in SUBSET Events
      /\ \A d \in DOMAIN x : x[d] = Reserves[d]
      /\ x = [d \in DOMAIN x |-> x[d]]
  BY DEF Gathered
<1>3. \A d \in DOMAIN x : x[d] \in SUBSET Windows
  BY <1>2, ReservesOne
<1> HIDE DEF x
<1>4. x \in [DOMAIN x -> SUBSET Windows]
  BY <1>2, <1>3
<1>5. x \in Contexts
  BY <1>2, <1>4 DEF Contexts
<1>6. S \in SUBSET Lines
  BY DEF LinesOf
<1>7. k \in Call
  BY <1>5, <1>6, CallsAre DEF CheckedCalls
<1>8. /\ k.at = "checked" /\ k.event = e /\ k.lines = S /\ k.context = x
  OBVIOUS
<1> HIDE DEF k
<1>9. calls'[c] = k
  BY <1>1 DEF AllocationInv, AllocationTypeOK
<1>10. /\ S \subseteq LinesOf(e) /\ \A v, w \in x[e] : v = w
       /\ \A d \in DOMAIN x : Reserves[d] \subseteq x[d]
  BY <1>2, ReservesOne
<1>11. LinesOf(e)' = LinesOf(e) /\ Reserves' = Reserves
  BY <1>1 DEF LinesOf, Reserves
<1>12. CallOK(c)'
  BY <1>2, <1>8, <1>9, <1>10, <1>11 DEF CallOK, CheckedOK, LinesOf
<1>. QED  BY <1>1, <1>7, <1>12, RequestStep

(* The reads of update_event_details, or of the decision on a proposal.    *)
LEMMA BeginEditKeepsInv ==
    ASSUME AllocationInv, NEW c \in Callers, NEW e \in Events, NEW w \in Windows, BeginEdit(c, e, w)
    PROVE  AllocationInv'
<1> DEFINE k == Move(e, w, FALSE)
<1>1. calls' = [calls EXCEPT ![c] = k] /\ UNCHANGED <<rows, events, unchecked, changes>>
  BY DEF BeginEdit
<1>2. k \in Call
  BY CallsAre DEF MovingCalls, Move
<1>3. k.at = "moving" /\ k.event = e /\ k.window = w
  BY DEF Move
<1> HIDE DEF k
<1>4. calls'[c] = k
  BY <1>1 DEF AllocationInv, AllocationTypeOK
<1>5. ASSUME NEW l \in LinesOf(e) \cap With("Approved")
      PROVE  rows[l].quantity + Total(OthersAt(e, rows[l].item, w)) <= Stock[rows[l].item]
  <2> DEFINE O == OthersAt(e, rows[l].item, w)
  <2>1. ~(rows[l].quantity + Total(O) > Stock[rows[l].item])
    BY <1>5 DEF BeginEdit, Contradicted, OthersAt
  <2>2. Counted(rows, O)
    BY ApprovedCounted DEF AllocationInv, OthersAt, Competing
  <2>3. rows[l] \in Row
    BY RowsTyped DEF AllocationInv, LinesOf
  <2>4. rows[l].quantity \in Nat /\ Stock[rows[l].item] \in Nat
    BY <2>3, RowFields, StockAssumption
  <2> HIDE DEF O
  <2>5. Total(O) \in Nat
    BY <2>2, UnitsFinite, TotalIsTotalOf
  <2>6. rows[l].quantity + Total(O) <= Stock[rows[l].item]
    BY <2>1, <2>4, <2>5
  <2>. QED  BY <2>6 DEF O
<1>6. CallOK(c)'
  <2> SUFFICES ASSUME NEW l \in LinesOf(e) \cap With("Approved")
               PROVE  rows[l].quantity + Total(OthersAt(e, rows[l].item, w))' <= Stock[rows[l].item]
    BY <1>1, <1>3, <1>4 DEF CallOK, MovingOK, LinesOf, With, Total, Units, OthersAt, Competing, Reserves
  <2>1. Total(OthersAt(e, rows[l].item, w))' = Total(OthersAt(e, rows[l].item, w))
    BY <1>1 DEF Total, Units, OthersAt, Competing, Reserves, With
  <2>. QED  BY <1>5, <2>1
<1>. QED  BY <1>1, <1>2, <1>6, RequestStep

(* A re-check has weighed nothing, so nothing is said of it.               *)
LEMMA BeginRecheckKeepsInv ==
    ASSUME AllocationInv, NEW c \in Callers, NEW e \in Events, NEW w \in Windows, BeginRecheck(c, e, w)
    PROVE  AllocationInv'
<1> DEFINE k == Move(e, w, TRUE)
<1>1. calls' = [calls EXCEPT ![c] = k] /\ UNCHANGED <<rows, events, unchecked, changes>>
  BY DEF BeginRecheck
<1>2. k \in Call
  BY CallsAre DEF MovingCalls, Move
<1>3. k.at = "moving" /\ k.fresh = FALSE
  BY DEF Move
<1> HIDE DEF k
<1>4. calls'[c] = k
  BY <1>1 DEF AllocationInv, AllocationTypeOK
<1>5. CallOK(c)'
  BY <1>3, <1>4 DEF CallOK, MovingOK
<1>. QED  BY <1>1, <1>2, <1>5, RequestStep

----------------------------------------------------------------------------
(* What happens to events: the requests that read them are marked.         *)
LEMMA OutdatedCalls ==
    ASSUME AllocationTypeOK, NEW stages \in SUBSET {"checked", "moving"}
    PROVE  /\ Outdated(stages) \in [Callers -> Call \cup {Idle}]
           /\ \A c \in Callers : /\ calls[c].at \in stages => Outdated(stages)[c] = Stale(calls[c])
                                 /\ calls[c].at \notin stages => Outdated(stages)[c] = calls[c]
<1>1. ASSUME NEW c \in Callers, calls[c].at \in stages
      PROVE  Stale(calls[c]) \in Call
  <2>1. CASE calls[c].at = "checked"
    BY <2>1, CallsTyped, StaleChecked, CallsAre
  <2>2. CASE calls[c].at = "moving"
    BY <2>2, CallsTyped, StaleMoving, CallsAre
  <2>. QED  BY <1>1, <2>1, <2>2
<1>2. Outdated(stages) = [c \in Callers |-> IF calls[c].at \in stages THEN Stale(calls[c]) ELSE calls[c]]
  BY DEF Outdated, Stale
<1>. QED  BY <1>1, <1>2 DEF AllocationTypeOK

(* A step on the events alone.                                             *)
LEMMA EventStep ==
    ASSUME AllocationInv, UNCHANGED rows, changes' \in 0 .. MaxChanges,
           NEW e \in Events, NEW info \in EventInfo, events' = [events EXCEPT ![e] = info],
           unchecked' \in SUBSET Events, unchecked \subseteq unchecked',
           e \notin unchecked' /\ info.status \in Reserving /\ HoldsLines(e) =>
               events[e].status \in Reserving /\ info.window = events[e].window,
           \/ calls' = Outdated({"checked", "moving"})
           \/ UNCHANGED calls /\ ReservesNoMore
    PROVE  AllocationInv'
<1>1. calls' \in [Callers -> Call \cup {Idle}]
  BY OutdatedCalls DEF AllocationInv, AllocationTypeOK
<1>2. AllocationTypeOK'
  BY <1>1 DEF AllocationInv, AllocationTypeOK
<1>3. ApprovedKept /\ LinesKept
  BY DEF ApprovedKept, LinesKept, AllocationInv, AllocationTypeOK
<1>4. ASSUME NEW d \in Events, d \notin unchecked', events'[d].status \in Reserving, HoldsLines(d)'
      PROVE  /\ d \notin unchecked /\ events[d].status \in Reserving
             /\ events'[d].window = events[d].window
  <2>1. HoldsLines(d)
    BY <1>4 DEF HoldsLines, LinesOf, With
  <2>2. /\ d = e => events'[d] = info
        /\ d # e => events'[d] = events[d]
    BY DEF AllocationInv, AllocationTypeOK
  <2>. QED  BY <1>4, <2>1, <2>2
<1>5. ASSUME NEW c \in Callers
      PROVE  \/ calls'[c] = calls[c] /\ (ReservesNoMore \/ calls[c] = Idle)
             \/ calls[c].at \in {"checked", "moving"} /\ calls'[c] = Stale(calls[c])
  BY OutdatedCalls, CallsTyped DEF AllocationInv
<1>. QED  BY <1>2, <1>3, <1>4, <1>5, QuietStep

(* update_event_progress, decide_event and what else changes a status.     *)
LEMMA ProgressKeepsInv ==
    ASSUME AllocationInv, NEW e \in Events, NEW s \in Reserving \cup Released, Progress(e, s)
    PROVE  AllocationInv'
<1> DEFINE info == [events[e] EXCEPT !.status = s]
<1> DEFINE revived == events[e].status \in Released /\ s \in Reserving
<1>1. events[e] \in EventInfo /\ changes \in 0 .. MaxChanges /\ unchecked \in SUBSET Events
  BY DEF AllocationInv, AllocationTypeOK
<1>2. info \in EventInfo /\ info.status = s /\ info.window = events[e].window
  BY <1>1 DEF EventInfo
<1>3. /\ changes < MaxChanges /\ changes' = changes + 1 /\ UNCHANGED rows
      /\ unchecked' = unchecked \cup (IF revived /\ HoldsLines(e) THEN {e} ELSE {})
      /\ calls' = IF revived THEN Outdated({"checked", "moving"}) ELSE calls
      /\ events' = [events EXCEPT ![e].status = s]
  BY DEF Progress
<1>4. events' = [events EXCEPT ![e] = info]
  BY <1>3
<1>5. changes' \in 0 .. MaxChanges
  BY <1>1, <1>3, ChangesAssumption
<1>6. events[e].status \in Reserving \/ events[e].status \in Released
  BY <1>1 DEF EventInfo
<1>7. events'[e] = info /\ \A d \in Events : d # e => events'[d] = events[d]
  BY <1>4 DEF AllocationInv, AllocationTypeOK
<1> HIDE DEF info
<1>8. ~revived => ReservesNoMore
  BY <1>2, <1>6, <1>7 DEF ReservesNoMore, Reserves
<1>9. e \notin unchecked' /\ s \in Reserving /\ HoldsLines(e) => events[e].status \in Reserving
  BY <1>3, <1>6
<1>10. unchecked' \in SUBSET Events /\ unchecked \subseteq unchecked'
  BY <1>1, <1>3
<1>11. \/ calls' = Outdated({"checked", "moving"})
       \/ UNCHANGED calls /\ ReservesNoMore
  BY <1>3, <1>8
<1> HIDE DEF revived
<1>. QED  BY <1>2, <1>3, <1>4, <1>5, <1>9, <1>10, <1>11, EventStep

(* respond_to_event_amendment.                                             *)
LEMMA ResubmitKeepsInv ==
    ASSUME AllocationInv, NEW e \in Events, NEW w \in Windows, Resubmit(e, w)
    PROVE  AllocationInv'
<1> DEFINE info == [status |-> "Submitted", window |-> w]
<1>1. info \in EventInfo /\ info.status \notin Reserving
  BY DEF EventInfo, Released, Reserving
<1>2. /\ events' = [events EXCEPT ![e] = info] /\ calls' = Outdated({"checked", "moving"})
      /\ UNCHANGED <<rows, unchecked, changes>>
  BY DEF Resubmit
<1>3. unchecked' \in SUBSET Events /\ changes' \in 0 .. MaxChanges
  BY <1>2 DEF AllocationInv, AllocationTypeOK
<1> HIDE DEF info
<1>. QED  BY <1>1, <1>2, <1>3, EventStep

----------------------------------------------------------------------------
(* New dates of an event that holds lines.                                 *)

(* A set of at most one element has at most one.                           *)
LEMMA AtMostOne ==
    ASSUME NEW S, IsFiniteSet(S), ~(Cardinality(S) > 1), NEW x \in S, NEW y \in S
    PROVE  x = y
<1>1. Cardinality(S) \in Nat
  BY FS_CardinalityType
<1>2. Cardinality(S) = 0 \/ Cardinality(S) = 1
  BY <1>1
<1>3. Cardinality(S) # 0
  BY FS_EmptySet
<1>4. \E z : S = {z}
  BY <1>2, <1>3, FS_Singleton
<1>. QED  BY <1>4

(* What is said of the windows: they begin before they end.                *)
LEMMA WindowFields ==
    ASSUME NEW w \in Windows
    PROVE  w.from \in Int /\ w.to \in Int /\ w.from < w.to
BY WindowsAssumption

(* find_conflicts weighs each line beside those of other events; with one  *)
(* line of each item that is all that overlaps the new window.             *)
LEMMA NewWindowFits ==
    ASSUME AllocationInv, UNCHANGED rows, NEW e \in Events, NEW w \in Windows,
           NEW info, info.window = w, events' = [events EXCEPT ![e] = info], unchecked \subseteq unchecked',
           e \notin unchecked' /\ HoldsLines(e) =>
               /\ ~WeighedSingly(e)
               /\ \A l \in LinesOf(e) \cap With("Approved") :
                      rows[l].quantity + Total(OthersAt(e, rows[l].item, w)) <= Stock[rows[l].item]
    PROVE  HoldingOK'
<1> SUFFICES ASSUME NEW i \in Items, NEW t \in Int
             PROVE  TotalOf(rows', Holding(i, t)') <= Stock[i]
  BY DEF HoldingOK, Total, Units, TotalOf, UnitsOf
<1> PICK G : G = Holding(i, t)'
  OBVIOUS
<1> PICK H : H = Holding(i, t)
  OBVIOUS
<1> PICK O : O = OthersAt(e, i, w)
  OBVIOUS
<1>1. ASSUME NEW l \in G
      PROVE  /\ l \in Lines /\ rows[l].status = "Approved" /\ rows[l].item = i
             /\ rows[l].event \in Events /\ rows[l] # Absent /\ rows[l].event \notin unchecked'
             /\ rows[l].event = e => w.from <= t /\ t < w.to
             /\ rows[l].event # e =>
                    /\ l \in H /\ events[rows[l].event].status \in Reserving
                    /\ events[rows[l].event].window.from <= t /\ t < events[rows[l].event].window.to
  <2>1. /\ l \in Lines /\ rows[l].status = "Approved" /\ rows[l].item = i
        /\ rows[l].event \notin unchecked' /\ events'[rows[l].event].status \in Reserving
        /\ events'[rows[l].event].window.from <= t /\ t < events'[rows[l].event].window.to
    BY <1>1 DEF Holding, With, Of
  <2>2. rows[l].event \in Events /\ rows[l] # Absent
    BY <2>1, RowsTyped DEF AllocationInv
  <2>3. CASE rows[l].event = e
    <3>1. events'[e].window = w
      BY DEF AllocationInv, AllocationTypeOK, EventInfo
    <3>. QED  BY <2>1, <2>2, <2>3, <3>1
  <2>4. CASE rows[l].event # e
    <3>1. events'[rows[l].event] = events[rows[l].event]
      BY <2>2, <2>4 DEF AllocationInv, AllocationTypeOK
    <3>. QED  BY <2>1, <2>2, <2>4, <3>1 DEF Holding, With, Of
  <2>. QED  BY <2>3, <2>4
<1>2. Counted(rows, H) /\ Counted(rows, G) /\ Counted(rows, O)
  BY <1>1, ApprovedCounted DEF AllocationInv, Holding, Of, With, OthersAt, Competing
<1>3. /\ TotalOf(rows, H) \in Nat /\ TotalOf(rows, G) \in Nat /\ TotalOf(rows, O) \in Nat
      /\ Stock[i] \in Nat
  BY <1>2, UnitsFinite, StockAssumption
<1>4. TotalOf(rows', Holding(i, t)') = TotalOf(rows, G)
  BY TotalOfSame
<1>5. CASE \A l \in G : rows[l].event # e
  <2>1. TotalOf(rows, G) <= TotalOf(rows, H)
    BY <1>1, <1>2, <1>5, TotalOfSubset
  <2>2. TotalOf(rows, H) <= Stock[i]
    BY TotalIsTotalOf DEF AllocationInv, HoldingOK
  <2>. QED  BY <1>3, <1>4, <2>1, <2>2
<1>6. ASSUME NEW l \in G, rows[l].event = e PROVE TotalOf(rows, G) <= Stock[i]
  <2>1. l \in LinesOf(e) \cap With("Approved") /\ e \notin unchecked'
    BY <1>1, <1>6 DEF LinesOf, With
  <2>2. /\ ~WeighedSingly(e)
        /\ rows[l].quantity + TotalOf(rows, O) <= Stock[i]
    BY <1>1, <1>6, <2>1, TotalIsTotalOf DEF HoldsLines
  <2>3. ASSUME NEW m \in G, rows[m].event = e PROVE m = l
    <3> PICK S : S = Of(LinesOf(e) \cap With("Approved"), i)
      OBVIOUS
    <3>1. ~(Cardinality(S) > 1)
      BY <2>2 DEF WeighedSingly
    <3>2. IsFiniteSet(S)
      BY LinesAssumption, FS_Subset DEF Of, LinesOf
    <3>3. l \in S /\ m \in S
      BY <1>1, <1>6, <2>3 DEF Of, LinesOf, With
    <3>. QED  BY <3>1, <3>2, <3>3, AtMostOne
  <2>4. ASSUME NEW m \in G, m # l PROVE m \in O
    <3>1. rows[m].event # e
      BY <2>3, <2>4
    <3> PICK v : v = events[rows[m].event].window
      OBVIOUS
    <3>2. v \in Reserves[rows[m].event] /\ v \in Windows
      BY <1>1, <3>1, ReservesOne DEF AllocationInv, AllocationTypeOK, EventInfo
    <3>3. Overlap(v, w)
      <4>1. v.from <= t /\ t < v.to /\ w.from <= t /\ t < w.to
        BY <1>1, <1>6, <3>1
      <4>2. v.from \in Int /\ v.to \in Int /\ w.from \in Int /\ w.to \in Int
        BY <3>2, WindowFields
      <4>. QED  BY <4>1, <4>2 DEF Overlap
    <3>. QED  BY <1>1, <2>4, <3>1, <3>2, <3>3 DEF OthersAt, Competing, With
  <2>5. rows[l].quantity \in Nat /\ Counted(rows, {l})
    BY <1>2, <1>6 DEF Counted
  <2>6. TotalOf(rows, {l}) = rows[l].quantity
    BY <2>5, TotalOfOne
  <2> PICK R : R = G \ {l}
    OBVIOUS
  <2>7. Counted(rows, R) /\ TotalOf(rows, R) <= TotalOf(rows, O) /\ TotalOf(rows, R) \in Nat
    BY <1>2, <2>4, TotalOfSubset, UnitsFinite
  <2>8. TotalOf(rows, {l} \cup R) = TotalOf(rows, {l}) + TotalOf(rows, R)
    <3>1. {l} \cap R = {}
      OBVIOUS
    <3>. QED  BY <2>5, <2>7, <3>1, TotalOfTwo
  <2>9. {l} \cup R = G
    BY <1>6
  <2>10. TotalOf(rows, G) = rows[l].quantity + TotalOf(rows, R)
    BY <2>6, <2>8, <2>9
  <2>11. rows[l].quantity + TotalOf(rows, O) <= Stock[i] /\ rows[l].quantity \in Nat
    BY <2>2, <2>5
  <2>. QED  BY <1>3, <2>7, <2>10, <2>11
<1>. QED  BY <1>4, <1>5, <1>6

(* A request ends, and others that read what it changed are marked.        *)
LEMMA EndedAndMarked ==
    ASSUME AllocationInv, NEW c \in Callers, NEW stages \in SUBSET {"checked", "moving"},
           calls' = [Outdated(stages) EXCEPT ![c] = Idle]
    PROVE  /\ calls' \in [Callers -> Call \cup {Idle}]
           /\ calls'[c] = Idle
           /\ \A d \in Callers \ {c} :
                  /\ calls[d].at \in stages => calls'[d] = Stale(calls[d])
                  /\ calls[d].at \notin stages => calls'[d] = calls[d]
BY OutdatedCalls DEF AllocationInv

(* update_event_details saves new dates.                                   *)
LEMMA SaveEditKeepsInv ==
    ASSUME AllocationInv, NEW c \in Callers, SaveEdit(c)
    PROVE  AllocationInv'
<1>1. calls[c].at = "moving"
  BY DEF SaveEdit
<1>2. calls[c] \in MovingCalls /\ MovingOK(calls[c])
  BY <1>1, CallsTyped DEF AllocationInv, CallOK
<1> PICK k : k = calls[c]
  OBVIOUS
<1> PICK e \in Events : e = k.event
  BY <1>2, MovingFields
<1> PICK w \in Windows : w = k.window
  BY <1>2, MovingFields
<1> PICK s : s = IF events[e].status = "Confirmed" THEN "Approved" ELSE events[e].status
  OBVIOUS
<1> PICK info : info = [status |-> s, window |-> w]
  OBVIOUS
<1>3. /\ changes < MaxChanges /\ changes' = changes + 1
      /\ events' = [events EXCEPT ![e] = info]
      /\ unchecked' = unchecked \cup (IF HoldsLines(e) /\ (~k.fresh \/ WeighedSingly(e)) THEN {e} ELSE {})
      /\ UNCHANGED rows
  BY DEF SaveEdit
<1>4. calls' = [Outdated({"checked", "moving"}) EXCEPT ![c] = Idle]
  BY DEF SaveEdit
<1>5. /\ calls' \in [Callers -> Call \cup {Idle}] /\ calls'[c] = Idle
      /\ \A d \in Callers \ {c} :
             /\ calls[d].at \in {"checked", "moving"} => calls'[d] = Stale(calls[d])
             /\ calls[d].at \notin {"checked", "moving"} => calls'[d] = calls[d]
  BY <1>4, EndedAndMarked
<1>6. AllocationTypeOK'
  <2>1. changes \in 0 .. MaxChanges /\ unchecked \subseteq Events /\ events \in [Events -> EventInfo]
    BY DEF AllocationInv, AllocationTypeOK
  <2>2. changes' \in 0 .. MaxChanges
    BY <1>3, <2>1, ChangesAssumption
  <2>3. events' \in [Events -> EventInfo]
    <3>1. s \in Reserving \cup Released
      BY <2>1 DEF EventInfo, Reserving
    <3>2. info \in EventInfo
      BY <3>1 DEF EventInfo
    <3>. QED  BY <1>3, <2>1, <3>2
  <2>4. unchecked' \subseteq Events
    BY <1>3, <2>1
  <2>. QED  BY <1>3, <1>5, <2>2, <2>3, <2>4 DEF AllocationInv, AllocationTypeOK
<1>7. ASSUME e \notin unchecked', HoldsLines(e)
      PROVE  /\ ~WeighedSingly(e)
             /\ \A l \in LinesOf(e) \cap With("Approved") :
                    rows[l].quantity + Total(OthersAt(e, rows[l].item, w)) <= Stock[rows[l].item]
  <2>1. k.fresh /\ ~WeighedSingly(e)
    BY <1>3, <1>7
  <2>. QED  BY <1>2, <2>1 DEF MovingOK
<1>8. HoldingOK'
  BY <1>3, <1>7, NewWindowFits
<1>9. LinesKept
  BY <1>3 DEF LinesKept
<1>10. ASSUME NEW d \in Callers PROVE CallOK(d)'
  <2>1. CASE d = c \/ calls[d].at \notin {"checked", "moving"}
    <3>1. calls'[d] = Idle
      BY <1>5, <2>1, CallsTyped DEF AllocationInv
    <3>. QED  BY <3>1, IdleKnowsNothing
  <2>2. CASE d # c /\ calls[d].at = "checked"
    BY <1>5, <1>9, <2>2, CheckedStays
  <2>3. CASE d # c /\ calls[d].at = "moving"
    BY <1>5, <2>3, MovingStays
  <2>. QED  BY <2>1, <2>2, <2>3
<1>. QED  BY <1>6, <1>8, <1>10 DEF AllocationInv

----------------------------------------------------------------------------
(* approve_requests: behind the lock.                                      *)

(* What passed the check, with what the event and others hold already.     *)
LEMMA CheckedFits ==
    ASSUME AllocationInv, NEW k \in CheckedCalls, CheckedOK(k), MayApprove(k), k.fresh,
           events[k.event].status \in Reserving, NEW i \in ItemsOf(k.lines)
    PROVE  Total(Of(k.lines, i))
              + Total(Of(Competing(ItemsOf(k.lines), events[k.event].window, k.context), i)) <= Stock[i]
<1>1. k.event \in Events
  BY CheckedFields
<1>2. events[k.event].window \in k.context[k.event]
  BY <1>1, ReservesOne DEF CheckedOK
<1>3. PICK w \in k.context[k.event] : Fits(k.event, k.lines, w, k.context)
  BY DEF MayApprove
<1>4. w = events[k.event].window
  BY <1>2, <1>3 DEF CheckedOK
<1>. QED  BY <1>3, <1>4 DEF Fits

(* The lines approved together, beside all that is held at a moment.       *)
LEMMA ApprovalFits ==
    ASSUME AllocationInv, NEW k \in CheckedCalls, CheckedOK(k), MayApprove(k),
           rows' = Approved(k), UNCHANGED events,
           unchecked' = unchecked \cup (IF k.fresh THEN {} ELSE {k.event})
    PROVE  HoldingOK'
<1> SUFFICES ASSUME NEW i \in Items, NEW t \in Int
             PROVE  TotalOf(rows', Holding(i, t)') <= Stock[i]
  BY DEF HoldingOK, Total, Units, TotalOf, UnitsOf
<1> PICK G : G = Holding(i, t)'
  OBVIOUS
<1> PICK H : H = Holding(i, t)
  OBVIOUS
<1> PICK S : S = k.lines
  OBVIOUS
<1> PICK e \in Events : e = k.event
  BY CheckedFields
<1>1. S \subseteq Lines /\ S \subseteq LinesOf(e) /\ S \subseteq With("Pending")
  BY CheckedFields DEF CheckedOK, MayApprove
<1>2. ASSUME NEW l \in Lines
      PROVE  /\ l \in S => rows'[l] = Turned(rows[l], "Approved")
             /\ l \notin S => rows'[l] = rows[l]
  BY DEF Approved, Turned
<1>3. ASSUME NEW l \in S
      PROVE  /\ rows[l] \in Row /\ rows[l].event = e /\ rows[l].item \in ItemsOf(S)
             /\ rows'[l].event = e /\ rows'[l].item = rows[l].item
             /\ rows'[l].quantity = rows[l].quantity
  <2>1. rows[l] \in Row /\ rows[l].event = e
    BY <1>1, RowsTyped DEF AllocationInv, LinesOf
  <2>. QED  BY <1>1, <1>2, <2>1, StatusOfLine DEF ItemsOf
<1>4. ASSUME NEW l \in G
      PROVE  /\ l \in Lines /\ rows[l].item = i /\ rows[l].event \in Events
             /\ rows'[l].quantity = rows[l].quantity /\ rows[l] \in Row
             /\ rows[l].event \notin unchecked' /\ events[rows[l].event].status \in Reserving
             /\ events[rows[l].event].window.from <= t /\ t < events[rows[l].event].window.to
             /\ l \notin S => l \in H /\ rows[l].status = "Approved"
  <2>1. /\ l \in Lines /\ rows'[l].status = "Approved" /\ rows'[l].item = i
        /\ rows'[l].event \notin unchecked' /\ events[rows'[l].event].status \in Reserving
        /\ events[rows'[l].event].window.from <= t /\ t < events[rows'[l].event].window.to
    BY <1>4 DEF Holding, With, Of
  <2>2. CASE l \in S
    BY <1>3, <2>1, <2>2
  <2>3. CASE l \notin S
    <3>1. rows'[l] = rows[l]
      BY <1>2, <2>1, <2>3
    <3>2. rows[l] \in Row /\ rows[l].event \in Events
      BY <2>1, <3>1, RowsTyped DEF AllocationInv
    <3>. QED  BY <2>1, <2>3, <3>1, <3>2 DEF Holding, With, Of
  <2>. QED  BY <2>2, <2>3
<1>5. Counted(rows, H) /\ Counted(rows, G)
  <2>1. Counted(rows, H)
    BY ApprovedCounted DEF AllocationInv, Holding, Of, With
  <2>2. Counted(rows, G)
    BY <1>4, RowFields DEF Counted
  <2>. QED  BY <2>1, <2>2
<1>6. TotalOf(rows', G) = TotalOf(rows, G)
  BY <1>4, TotalOfSame
<1>7. TotalOf(rows, H) \in Nat /\ TotalOf(rows, G) \in Nat /\ Stock[i] \in Nat
  BY <1>5, UnitsFinite, StockAssumption
<1>8. CASE G \cap S = {}
  <2>1. TotalOf(rows, G) <= TotalOf(rows, H)
    BY <1>4, <1>5, <1>8, TotalOfSubset
  <2>2. TotalOf(rows, H) <= Stock[i]
    BY TotalIsTotalOf DEF AllocationInv, HoldingOK
  <2>. QED  BY <1>6, <1>7, <2>1, <2>2
<1>9. ASSUME NEW l \in G \cap S PROVE TotalOf(rows, G) <= Stock[i]
  <2> PICK w : w = events[e].window
    OBVIOUS
  <2>1. /\ e \notin unchecked' /\ events[e].status \in Reserving /\ i \in ItemsOf(S)
        /\ w.from <= t /\ t < w.to
    BY <1>3, <1>4, <1>9
  <2>2. k.fresh
    BY <2>1, CheckedFields
  <2> PICK A : A = Of(S, i)
    OBVIOUS
  <2> PICK B : B = Of(Competing(ItemsOf(S), w, k.context), i)
    OBVIOUS
  <2>3. TotalOf(rows, A) + TotalOf(rows, B) <= Stock[i]
    BY <2>1, <2>2, CheckedFits, TotalIsTotalOf
  <2>4. ASSUME NEW m \in G, m \notin S PROVE m \in B
    <3>1. m \in With("Approved") /\ rows[m].item = i
      BY <1>4, <2>4 DEF With
    <3>2. rows[m].event \in DOMAIN k.context
      BY <2>1, <3>1 DEF MayApprove
    <3> PICK v : v = events[rows[m].event].window
      OBVIOUS
    <3>3. v \in Reserves[rows[m].event] /\ v \in Windows
      BY <1>4, ReservesOne DEF AllocationInv, AllocationTypeOK, EventInfo
    <3>4. v \in k.context[rows[m].event]
      BY <2>2, <3>2, <3>3 DEF CheckedOK
    <3>5. Overlap(v, w)
      <4>1. v.from <= t /\ t < v.to /\ w.from <= t /\ t < w.to
        BY <1>4, <2>1
      <4>2. w \in Windows
        BY DEF AllocationInv, AllocationTypeOK, EventInfo
      <4>3. v.from \in Int /\ v.to \in Int /\ w.from \in Int /\ w.to \in Int
        BY <3>3, <4>2, WindowFields
      <4>. QED  BY <4>1, <4>3 DEF Overlap
    <3>. QED  BY <2>1, <3>1, <3>4, <3>5 DEF Of, Competing
  <2>5. G \subseteq A \cup B
    BY <1>4, <2>4 DEF Of
  <2>6. A \cap B = {}
    BY <1>1 DEF Of, Competing, With
  <2>7. Counted(rows, A) /\ Counted(rows, B)
    <3>1. Counted(rows, A)
      BY <1>1, <1>3, RowFields DEF Counted, Of
    <3>2. Counted(rows, B)
      BY ApprovedCounted DEF AllocationInv, Of, Competing
    <3>. QED  BY <3>1, <3>2
  <2> PICK C : C = A \cup B
    OBVIOUS
  <2>8. Counted(rows, C) /\ TotalOf(rows, C) = TotalOf(rows, A) + TotalOf(rows, B)
    BY <2>6, <2>7, TotalOfTwo
  <2>9. TotalOf(rows, G) <= TotalOf(rows, C)
    BY <2>5, <2>8, TotalOfSubset
  <2>10. TotalOf(rows, A) \in Nat /\ TotalOf(rows, B) \in Nat
    BY <2>7, UnitsFinite
  <2>. QED  BY <1>7, <2>3, <2>8, <2>9, <2>10
<1>. QED  BY <1>6, <1>8, <1>9

(* approve_requests as a whole.                                            *)
LEMMA ApproveKeepsInv ==
    ASSUME AllocationInv, NEW c \in Callers, Approve(c)
    PROVE  AllocationInv'
<1> PICK k : k = calls[c]
  OBVIOUS
<1>1. /\ k.at = "checked" /\ MayApprove(k) /\ rows' = Approved(k)
      /\ unchecked' = unchecked \cup (IF k.fresh THEN {} ELSE {k.event})
      /\ UNCHANGED <<events, changes>>
  BY DEF Approve
<1>2. k \in CheckedCalls /\ CheckedOK(k)
  BY <1>1, CallsTyped DEF AllocationInv, CallOK
<1>3. calls' = [Outdated({"moving"}) EXCEPT ![c] = Idle]
  BY DEF Approve
<1>4. /\ calls' \in [Callers -> Call \cup {Idle}] /\ calls'[c] = Idle
      /\ \A d \in Callers \ {c} :
             /\ calls[d].at \in {"moving"} => calls'[d] = Stale(calls[d])
             /\ calls[d].at \notin {"moving"} => calls'[d] = calls[d]
  BY <1>3, EndedAndMarked
<1>5. k.lines \subseteq LinesOf(k.event) /\ k.lines \in SUBSET Lines /\ k.event \in Events
  BY <1>2, CheckedFields DEF CheckedOK
<1>6. ASSUME NEW l \in Lines
      PROVE  /\ rows'[l] \in Row \cup {Absent}
             /\ rows[l] # Absent => rows'[l] # Absent /\ rows'[l].event = rows[l].event
  <2>1. CASE l \in k.lines
    <3>1. rows[l] \in Row
      BY <1>5, <2>1, RowsTyped DEF AllocationInv, LinesOf
    <3>2. rows'[l] = Turned(rows[l], "Approved")
      BY <1>1, <2>1 DEF Approved, Turned
    <3>3. rows'[l] \in Row /\ rows'[l].event = rows[l].event
      BY <3>1, <3>2, StatusOfLine
    <3>. QED  BY <3>3, RowFields
  <2>2. CASE l \notin k.lines
    <3>1. rows'[l] = rows[l]
      BY <1>1, <2>2 DEF Approved
    <3>. QED  BY <3>1, RowsTyped DEF AllocationInv
  <2>. QED  BY <2>1, <2>2
<1>7. AllocationTypeOK'
  <2>1. rows' \in [Lines -> Row \cup {Absent}]
    <3>1. rows' = [l \in Lines |-> rows'[l]]
      BY <1>1 DEF Approved
    <3>. QED  BY <1>6, <3>1
  <2>2. unchecked' \subseteq Events
    BY <1>1, <1>5 DEF AllocationInv, AllocationTypeOK
  <2>. QED  BY <1>1, <1>4, <2>1, <2>2 DEF AllocationInv, AllocationTypeOK
<1>8. HoldingOK'
  BY <1>1, <1>2, ApprovalFits
<1>9. LinesKept /\ ReservesNoMore
  BY <1>1, <1>6, NoEventMoves DEF LinesKept
<1>10. ASSUME NEW d \in Callers PROVE CallOK(d)'
  <2>1. CASE d = c \/ calls[d].at \notin {"checked", "moving"}
    <3>1. calls'[d] = Idle
      BY <1>4, <2>1, CallsTyped DEF AllocationInv
    <3>. QED  BY <3>1, IdleKnowsNothing
  <2>2. CASE d # c /\ calls[d].at = "checked"
    BY <1>4, <1>9, <2>2, CheckedStays
  <2>3. CASE d # c /\ calls[d].at = "moving"
    BY <1>4, <2>3, MovingStays
  <2>. QED  BY <2>1, <2>2, <2>3
<1>. QED  BY <1>7, <1>8, <1>10 DEF AllocationInv

----------------------------------------------------------------------------
(* The specification keeps the invariant.                                  *)
LEMMA NoUnitsAreNone == \A table : TotalOf(table, {}) = 0
<1> SUFFICES ASSUME NEW table PROVE TotalOf(table, {}) = 0
  OBVIOUS
<1>1. UnitsOf(table, {}) = {}
  BY DEF UnitsOf
<1>. QED  BY <1>1, FS_EmptySet DEF TotalOf

(* At first no line is approved, so nothing is held. *)
LEMMA InitHasInv == Init => AllocationInv
<1> SUFFICES ASSUME Init PROVE AllocationInv
  OBVIOUS
<1>1. AllocationTypeOK
  <2>1. [status : {"Under Review", "Confirmed"}, window : Windows] \subseteq EventInfo
    BY DEF EventInfo, Reserving
  <2>2. events \in [Events -> EventInfo]
    BY <2>1 DEF Init
  <2>3. changes \in 0 .. MaxChanges
    <3>1. changes = 0
      BY DEF Init
    <3>. QED  BY <3>1, ChangesAssumption
  <2>. QED  BY <2>2, <2>3 DEF Init, AllocationTypeOK
<1>2. With("Approved") = {}
  BY DEF Init, With, Absent
<1>3. HoldingOK
  <2> SUFFICES ASSUME NEW i \in Items, NEW t \in Int PROVE Total(Holding(i, t)) <= Stock[i]
    BY DEF HoldingOK
  <2>1. Holding(i, t) = {}
    BY <1>2 DEF Holding, Of
  <2>2. Total(Holding(i, t)) = 0
    BY <2>1, NoUnitsAreNone, TotalIsTotalOf
  <2>3. Stock[i] \in Nat
    BY StockAssumption
  <2>. QED  BY <2>2, <2>3
<1>4. \A c \in Callers : CallOK(c)
  BY DEF Init, CallOK, Idle
<1>. QED  BY <1>1, <1>3, <1>4 DEF AllocationInv

(* Every action keeps the invariant. *)
LEMMA NextKeepsInv == AllocationInv /\ [Next]_vars => AllocationInv'
<1> SUFFICES ASSUME AllocationInv, [Next]_vars PROVE AllocationInv'
  OBVIOUS
<1>1. ASSUME NEW c \in Callers, NEW e \in Events, NEW S \in SUBSET LinesOf(e), CheckApproval(c, e, S)
      PROVE  AllocationInv'
  BY <1>1, CheckApprovalKeepsInv
<1>2. ASSUME NEW c \in Callers, Approve(c) PROVE AllocationInv'
  BY <1>2, ApproveKeepsInv
<1>3. ASSUME NEW c \in Callers, RefuseApproval(c) \/ RefuseEdit(c) PROVE AllocationInv'
  BY <1>3, RefusalKeepsInv
<1>4. ASSUME NEW c \in Callers, NEW e \in Events, NEW w \in Windows, BeginEdit(c, e, w)
      PROVE  AllocationInv'
  BY <1>4, BeginEditKeepsInv
<1>12. ASSUME NEW c \in Callers, NEW e \in Events, NEW w \in Windows, BeginRecheck(c, e, w)
       PROVE  AllocationInv'
  BY <1>12, BeginRecheckKeepsInv
<1>5. ASSUME NEW c \in Callers, SaveEdit(c) PROVE AllocationInv'
  BY <1>5, SaveEditKeepsInv
<1>6. ASSUME NEW S \in SUBSET Lines, Reject(S) PROVE AllocationInv'
  BY <1>6, DecisionsKeepInv
<1>7. ASSUME NEW e \in Events, NEW asks \in SUBSET Ask, CreateLines(e, asks) PROVE AllocationInv'
  BY <1>7, CreateLinesKeepsInv
<1>8. ASSUME NEW e \in Events, NEW S \in SUBSET LinesOf(e), SafetyReset(e, S) PROVE AllocationInv'
  BY <1>8, DecisionsKeepInv
<1>9. ASSUME NEW e \in Events, NEW s \in Reserving \cup Released, Progress(e, s) PROVE AllocationInv'
  BY <1>9, ProgressKeepsInv
<1>10. ASSUME NEW e \in Events, NEW w \in Windows, Resubmit(e, w) PROVE AllocationInv'
  BY <1>10, ResubmitKeepsInv
<1>11. CASE UNCHANGED vars
  <2>1. UNCHANGED <<events, calls, unchecked, changes>> /\ UNCHANGED rows
    BY <1>11 DEF vars
  <2>2. ApprovedKept /\ LinesKept
    BY <2>1 DEF ApprovedKept, LinesKept, AllocationInv, AllocationTypeOK
  <2>. QED  BY <2>1, <2>2, LinesStep
<1>. QED  BY <1>1, <1>2, <1>3, <1>4, <1>5, <1>6, <1>7, <1>8, <1>9, <1>10, <1>11, <1>12 DEF Next

(* Every reachable state of the shared stock has the inductive invariant:  *)
(* what a request under way has read bounds what the step it leads to may  *)
(* add.                                                                    *)
THEOREM AllocationInvariant == Spec => []AllocationInv
BY InitHasInv, NextKeepsInv, PTL DEF Spec

(* Lines, events and requests are always of their kind.                    *)
THEOREM AllocationTypeCorrect == Spec => []AllocationTypeOK
<1>1. AllocationInv => AllocationTypeOK
  BY DEF AllocationInv
<1>. QED  BY <1>1, AllocationInvariant, PTL

(* At the beginning of any window, events that passed their checks hold no *)
(* more of an item than there is, however approvals, resets, edits and     *)
(* changes of status follow each other. An event that a safety re-check    *)
(* moved to new dates has passed no check for them: what it holds is left  *)
(* out of the sum.                                                         *)
THEOREM NoItemIsOverdrawn == Spec => []StockSuffices
<1>1. AllocationInv => StockSuffices
  BY WindowFields DEF AllocationInv, HoldingOK, StockSuffices
<1>. QED  BY <1>1, AllocationInvariant, PTL

(* The same at every moment, not only where a window begins.               *)
THEOREM NoItemIsEverOverdrawn == Spec => []HoldingOK
<1>1. AllocationInv => HoldingOK
  BY DEF AllocationInv
<1>. QED  BY <1>1, AllocationInvariant, PTL

----------------------------------------------------------------------------
(* Approvals.                                                              *)

(* A step in which approved lines were approved before approves none.      *)
LEMMA NothingNewlyApproved ==
    ASSUME ApprovedKept
    PROVE  NewlyApproved = {}
BY DEF ApprovedKept, NewlyApproved

(* No other action approves a line.                                        *)
LEMMA OnlyApproveApproves ==
    ASSUME AllocationInv, [Next]_vars, NewlyApproved # {}
    PROVE  \E c \in Callers : Approve(c)
<1>1. ASSUME UNCHANGED rows PROVE FALSE
  BY <1>1 DEF NewlyApproved
<1>2. CASE UNCHANGED vars
  BY <1>1, <1>2 DEF vars
<1>3. ASSUME NEW c \in Callers, NEW e \in Events, NEW S \in SUBSET LinesOf(e), CheckApproval(c, e, S)
      PROVE  FALSE
  BY <1>1, <1>3 DEF CheckApproval
<1>4. ASSUME NEW c \in Callers, RefuseApproval(c) \/ SaveEdit(c) \/ RefuseEdit(c) PROVE FALSE
  BY <1>1, <1>4 DEF RefuseApproval, SaveEdit, RefuseEdit
<1>5. ASSUME NEW c \in Callers, NEW e \in Events, NEW w \in Windows, BeginEdit(c, e, w) \/ BeginRecheck(c, e, w)
      PROVE  FALSE
  BY <1>1, <1>5 DEF BeginEdit, BeginRecheck
<1>6. ASSUME NEW S \in SUBSET Lines, Reject(S) PROVE FALSE
  BY <1>6, RejectKeepsLines, NothingNewlyApproved
<1>7. ASSUME NEW e \in Events, NEW asks \in SUBSET Ask, CreateLines(e, asks) PROVE FALSE
  BY <1>7, CreateLinesKeepsLines, NothingNewlyApproved
<1>8. ASSUME NEW e \in Events, NEW S \in SUBSET LinesOf(e), SafetyReset(e, S) PROVE FALSE
  BY <1>8, SafetyResetKeepsLines, NothingNewlyApproved
<1>9. ASSUME NEW e \in Events, NEW s \in Reserving \cup Released, Progress(e, s) PROVE FALSE
  BY <1>1, <1>9 DEF Progress
<1>10. ASSUME NEW e \in Events, NEW w \in Windows, Resubmit(e, w) PROVE FALSE
  BY <1>1, <1>10 DEF Resubmit
<1>. QED  BY <1>2, <1>3, <1>4, <1>5, <1>6, <1>7, <1>8, <1>9, <1>10 DEF Next

(* What approve_requests turns to Approved is the selection that was       *)
(* weighed, all of it pending until then.                                  *)
LEMMA ApproveTurnsTheSelection ==
    ASSUME AllocationInv, NEW c \in Callers, Approve(c)
    PROVE  /\ calls[c].at = "checked" /\ calls[c].lines = NewlyApproved
           /\ NewlyApproved \subseteq With("Pending")
<1> PICK k : k = calls[c]
  OBVIOUS
<1>1. k.at = "checked" /\ k.lines \subseteq With("Pending") /\ rows' = Approved(k)
  BY DEF Approve, MayApprove
<1>2. k.lines \in SUBSET Lines
  BY <1>1 DEF With
<1>3. ASSUME NEW l \in k.lines PROVE rows[l].status = "Pending" /\ rows'[l].status = "Approved"
  <2>1. rows[l].status = "Pending" /\ rows[l] \in Row
    BY <1>1, <1>2, <1>3, RowsTyped DEF With, AllocationInv
  <2>2. rows'[l] = Turned(rows[l], "Approved")
    BY <1>1, <1>2, <1>3 DEF Approved, Turned
  <2>. QED  BY <2>1, <2>2, StatusOfLine
<1>4. \A l \in Lines : l \notin k.lines => rows'[l] = rows[l]
  BY <1>1 DEF Approved
<1>5. k.lines = NewlyApproved
  BY <1>2, <1>3, <1>4 DEF NewlyApproved
<1>. QED  BY <1>1, <1>5

(* Lines are approved only by a call that weighed them as one selection,   *)
(* and never one that was asked for after the reviewer looked.             *)
THEOREM LinesAreApprovedTogether == Spec => ApprovedTogether
<1>1. AllocationInv /\ [Next]_vars =>
        [NewlyApproved # {} =>
            /\ NewlyApproved \subseteq With("Pending")
            /\ \E c \in Callers : calls[c].at = "checked" /\ calls[c].lines = NewlyApproved]_vars
  BY OnlyApproveApproves, ApproveTurnsTheSelection
<1>. QED  BY <1>1, AllocationInvariant, PTL DEF Spec, ApprovedTogether
==============================================================================
