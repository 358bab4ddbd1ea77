------------------------ MODULE SafetyRecordsProofs ------------------------
(***************************************************************************)
(* What the Safety Check Record Service guarantees for any number of       *)
(* events, rounds and decisions.  RecordsTypeOK, UniqueNumbers and         *)
(* DecisionIsWhole are inductive together; HistoryIsKept follows from what *)
(* the deleting operations check.                                          *)
(***************************************************************************)
EXTENDS SafetyRecords, TLAPS

RecordsInv == RecordsTypeOK /\ UniqueNumbers /\ DecisionIsWhole

----------------------------------------------------------------------------
(* A table that loses rows, and keeps the event and the number of those    *)
(* that stay, keeps its numbers unique.                                    *)
LEMMA NumbersStayUnique ==
    ASSUME UniqueNumbers, Live' \subseteq Live,
           \A j \in Live' : /\ rounds'[j].event = rounds[j].event
                            /\ rounds'[j].number = rounds[j].number
    PROVE  UniqueNumbers'
BY DEF UniqueNumbers

(* So does one that gains a row numbered past every row of its event.      *)
LEMMA NewNumberIsUnique ==
    ASSUME RecordsTypeOK, UniqueNumbers, NEW i, i \notin Live, Live' = Live \cup {i},
           NEW e, NEW n \in Nat,
           rounds'[i].event = e, rounds'[i].number = n,
           \A j \in RoundsOf(e) : rounds[j].number < n,
           \A j \in Live : /\ rounds'[j].event = rounds[j].event
                           /\ rounds'[j].number = rounds[j].number
    PROVE  UniqueNumbers'
<1> SUFFICES ASSUME NEW j \in Live', NEW k \in Live',
                    rounds'[j].event = rounds'[k].event,
                    rounds'[j].number = rounds'[k].number
             PROVE  j = k
  BY DEF UniqueNumbers
<1>1. \A l \in Live : rounds'[l].event = e => rounds'[l].number # n
  BY DEF RoundsOf
<1>2. CASE j \in Live /\ k \in Live
  BY <1>2 DEF UniqueNumbers
<1>3. CASE j = i \/ k = i
  BY <1>1, <1>3
<1>. QED  BY <1>2, <1>3

(* The rows of a well-typed table.                                         *)
LEMMA Rows ==
    ASSUME RecordsTypeOK, NEW i \in Live
    PROVE  /\ rounds[i] \in Round
           /\ rounds[i].event \in Events
           /\ rounds[i].number \in Nat \ {0}
           /\ rounds[i].decidedAt \in Nat
           /\ clock \in Nat
           /\ i \in RoundIds
BY RecordsAssumption DEF RecordsTypeOK, Round

----------------------------------------------------------------------------
(* create_round keeps the invariant.                                       *)
LEMMA CreateKeepsInv ==
    ASSUME RecordsInv, NEW e \in Events, NEW i \in RoundIds, CreateRound(e, i)
    PROVE  RecordsInv'
<1> USE DEF RecordsInv
<1>1. PICK n \in {rounds[j].number + 1 : j \in RoundsOf(e)} \cup {1} :
         NextNumber(e, n) /\ rounds' = With(rounds, i, OpenRound(e, n))
  BY DEF CreateRound
<1>2. i \notin Live /\ used' = used \cup {i} /\ clock' = clock /\ flagged' = flagged
  BY DEF CreateRound, Fresh, RecordsTypeOK
<1>3. Live' = Live \cup {i} /\ rounds'[i] = OpenRound(e, n)
      /\ \A j \in Live : rounds'[j] = rounds[j]
  BY <1>1, <1>2 DEF With, Live
<1>4. n \in Nat \ {0} /\ \A j \in RoundsOf(e) : rounds[j].number < n
  BY <1>1, Rows DEF NextNumber, RoundsOf, IsLatest
<1>5. RecordsTypeOK'
  <2>1. rounds' \in [Live' -> Round]
    <3>1. OpenRound(e, n) \in Round
      BY <1>4 DEF OpenRound, Round, RecordStatuses
    <3>2. \A j \in Live' : rounds'[j] \in Round
      BY <1>3, <3>1, Rows
    <3>3. rounds' = [j \in Live' |-> rounds'[j]]
      BY <1>1 DEF With, Live
    <3>. QED  BY <3>2, <3>3
  <2>2. \A j \in Live' : rounds'[j].decidedAt <= clock'
    BY <1>2, <1>3, RecordsAssumption DEF RecordsTypeOK, OpenRound
  <2>. QED  BY <1>2, <1>3, <2>1, <2>2 DEF RecordsTypeOK
<1>6. UniqueNumbers'
  <2>1. rounds'[i].event = e /\ rounds'[i].number = n
    BY <1>3 DEF OpenRound
  <2>. QED  BY <1>2, <1>3, <1>4, <2>1, NewNumberIsUnique
<1>7. DecisionIsWhole'
  <2>1. rounds'[i].status = "Pending" /\ rounds'[i].decidedAt = 0
    BY <1>3 DEF OpenRound
  <2>2. i \notin flagged'
    BY <1>2 DEF RecordsTypeOK
  <2>. QED  BY <1>2, <1>3, <2>1, <2>2 DEF DecisionIsWhole
<1>. QED  BY <1>5, <1>6, <1>7

(* delete_open_round keeps the invariant.                                  *)
LEMMA DeleteKeepsInv ==
    ASSUME RecordsInv, NEW i \in RoundIds, DeleteRound(i)
    PROVE  RecordsInv'
<1> USE DEF RecordsInv
<1>1. /\ rounds' = Without(rounds, i) /\ i \in Live /\ rounds[i].status = "Pending"
      /\ used' = used /\ clock' = clock /\ flagged' = flagged
  BY DEF DeleteRound, CanDelete, Undecided
<1>2. Live' = Live \ {i} /\ \A j \in Live' : rounds'[j] = rounds[j]
  BY <1>1 DEF Without, Live
<1>3. RecordsTypeOK'
  <2>1. rounds' = [j \in Live' |-> rounds[j]]
    BY <1>1, <1>2 DEF Without, Live
  <2>2. rounds' \in [Live' -> Round]
    BY <1>2, <2>1 DEF RecordsTypeOK
  <2>3. i \notin flagged
    BY <1>1 DEF DecisionIsWhole
  <2>. QED  BY <1>1, <1>2, <2>2, <2>3 DEF RecordsTypeOK
<1>4. UniqueNumbers'
  BY <1>2, NumbersStayUnique
<1>5. DecisionIsWhole'
  BY <1>1, <1>2 DEF DecisionIsWhole
<1>. QED  BY <1>3, <1>4, <1>5

(* The clock is a natural number, and a decision advances it within bounds. *)
LEMMA ClockIsNat ==
    ASSUME RecordsTypeOK
    PROVE  clock \in Nat
BY RecordsAssumption DEF RecordsTypeOK

(* The time of a decision stays within the clock's bound.                  *)
LEMMA ClockAdvances ==
    ASSUME NEW c \in Nat, NEW d, d = c + 1, c < MaxDecisions
    PROVE  d \in Nat /\ d \in 0..MaxDecisions /\ c <= d /\ d <= d /\ d # 0
BY RecordsAssumption

(* Decision times stay in the past when the clock advances.                *)
LEMMA StampsStayPast ==
    ASSUME NEW s \in Nat, NEW c \in Nat, NEW d \in Nat, s <= c, c <= d
    PROVE  s <= d
OBVIOUS

(* An UPDATE of a round that leaves its event and number alone.            *)
LEMMA UpdatedTable ==
    ASSUME RecordsTypeOK, NEW i \in Live, NEW row,
           rounds' = [rounds EXCEPT ![i] = row]
    PROVE  Live' = Live /\ rounds'[i] = row /\ \A j \in Live \ {i} : rounds'[j] = rounds[j]
BY DEF Live, RecordsTypeOK

(* Such an update of a well-formed row keeps the table well formed.        *)
LEMMA UpdateTypeOK ==
    ASSUME RecordsTypeOK, NEW i \in Live, NEW row \in Round,
           rounds' = [rounds EXCEPT ![i] = row], used' = used,
           clock' \in 0..MaxDecisions, clock' \in Nat, clock <= clock',
           row.decidedAt <= clock', flagged' \subseteq Live
    PROVE  RecordsTypeOK'
<1>1. Live' = Live /\ rounds'[i] = row /\ \A j \in Live \ {i} : rounds'[j] = rounds[j]
  BY UpdatedTable
<1>2. rounds' \in [Live' -> Round]
  BY <1>1 DEF RecordsTypeOK
<1>3. ASSUME NEW j \in Live' PROVE rounds'[j].decidedAt <= clock'
  <2>1. CASE j = i
    BY <1>1, <2>1
  <2>2. CASE j # i
    <3>1. j \in Live /\ rounds'[j] = rounds[j]
      BY <1>1, <2>2
    <3>2. rounds[j].decidedAt \in Nat /\ rounds[j].decidedAt <= clock /\ clock \in Nat
      BY <3>1, Rows DEF RecordsTypeOK
    <3>. QED  BY <3>1, <3>2, StampsStayPast
  <2>. QED  BY <2>1, <2>2
<1>. QED  BY <1>1, <1>2, <1>3 DEF RecordsTypeOK

(* Such an update keeps the numbers unique.                                *)
LEMMA UpdateNumbers ==
    ASSUME RecordsTypeOK, UniqueNumbers, NEW i \in Live, NEW row,
           rounds' = [rounds EXCEPT ![i] = row],
           row.event = rounds[i].event, row.number = rounds[i].number
    PROVE  UniqueNumbers'
<1>1. Live' = Live /\ rounds'[i] = row /\ \A j \in Live \ {i} : rounds'[j] = rounds[j]
  BY UpdatedTable
<1>. QED  BY <1>1, NumbersStayUnique

(* What DecisionIsWhole asks of one row.                                   *)
Whole(row, hasFlags) ==
    /\ row.status = "Pending" <=> row.decidedAt = 0
    /\ hasFlags <=> row.status = "Changes Requested"

(* Such an update of a whole decision keeps every decision whole.          *)
LEMMA UpdateDecision ==
    ASSUME RecordsTypeOK, DecisionIsWhole, NEW i \in Live, NEW row,
           rounds' = [rounds EXCEPT ![i] = row],
           flagged' \ {i} = flagged \ {i}, Whole(row, i \in flagged')
    PROVE  DecisionIsWhole'
<1>1. Live' = Live /\ rounds'[i] = row /\ \A j \in Live \ {i} : rounds'[j] = rounds[j]
  BY UpdatedTable
<1>2. \A j \in Live \ {i} : j \in flagged' <=> j \in flagged
  OBVIOUS
<1>. QED  BY <1>1, <1>2 DEF DecisionIsWhole, Whole

(* The row decide_round and reopen_round write.                            *)
LEMMA DecidedRow ==
    ASSUME NEW row \in Round, NEW s \in RecordStatuses, NEW t \in Nat
    PROVE  /\ Decided(row, s, t) \in Round
           /\ Decided(row, s, t).event = row.event
           /\ Decided(row, s, t).number = row.number
           /\ Decided(row, s, t).status = s
           /\ Decided(row, s, t).decidedAt = t
BY DEF Decided, Round

(* decide_round keeps the invariant.                                       *)
LEMMA DecideKeepsInv ==
    ASSUME RecordsInv, NEW i \in RoundIds, NEW s \in DecisionStatuses, DecideRound(i, s)
    PROVE  RecordsInv'
<1>1. i \in Live /\ rounds[i].status = "Pending" /\ used' = used
  BY DEF DecideRound, CanDecide, Undecided
<1>2. clock \in Nat
  BY ClockIsNat DEF RecordsInv
<1>3. clock' = clock + 1 /\ clock < MaxDecisions
  BY DEF DecideRound
<1>4. clock' \in Nat /\ clock' \in 0..MaxDecisions /\ clock <= clock' /\ clock' <= clock' /\ clock' # 0
  BY <1>2, <1>3, ClockAdvances
<1>5. s \in RecordStatuses /\ s # "Pending"
  BY DEF RecordStatuses, DecisionStatuses
<1>6. flagged' \subseteq Live /\ flagged' \ {i} = flagged \ {i}
  BY <1>1 DEF DecideRound, RecordsTypeOK, RecordsInv
<1>7. i \in flagged' <=> s = "Changes Requested"
  BY <1>1 DEF DecideRound, DecisionIsWhole, RecordsInv
<1> DEFINE row == Decided(rounds[i], s, clock')
<1>8. /\ row \in Round /\ row.event = rounds[i].event /\ row.number = rounds[i].number
      /\ row.status = s /\ row.decidedAt = clock'
  BY <1>1, <1>4, <1>5, Rows, DecidedRow DEF RecordsInv
<1>9. rounds' = [rounds EXCEPT ![i] = row]
  BY <1>3 DEF DecideRound
<1> HIDE DEF row
<1>10. Whole(row, i \in flagged')
  BY <1>4, <1>5, <1>7, <1>8 DEF Whole
<1>11. RecordsTypeOK'
  BY <1>1, <1>4, <1>6, <1>8, <1>9, UpdateTypeOK DEF RecordsInv
<1>12. UniqueNumbers'
  BY <1>1, <1>8, <1>9, UpdateNumbers DEF RecordsInv
<1>13. DecisionIsWhole'
  BY <1>1, <1>6, <1>9, <1>10, UpdateDecision DEF RecordsInv
<1>. QED  BY <1>11, <1>12, <1>13 DEF RecordsInv

(* reopen_round keeps the invariant.                                       *)
LEMMA ReopenKeepsInv ==
    ASSUME RecordsInv, NEW i \in RoundIds, NEW t, ReopenRound(i, t)
    PROVE  RecordsInv'
<1>1. i \in Live /\ used' = used /\ clock' = clock
  BY DEF ReopenRound, CanReopen
<1>2. clock \in Nat
  BY ClockIsNat DEF RecordsInv
<1>3. clock' \in Nat /\ clock' \in 0..MaxDecisions /\ clock <= clock' /\ 0 <= clock'
  BY <1>1, <1>2 DEF RecordsInv, RecordsTypeOK
<1>4. flagged' \subseteq Live /\ flagged' \ {i} = flagged \ {i} /\ i \notin flagged'
  BY DEF ReopenRound, RecordsTypeOK, RecordsInv
<1> DEFINE row == Decided(rounds[i], "Pending", 0)
<1>5. /\ row \in Round /\ row.event = rounds[i].event /\ row.number = rounds[i].number
      /\ row.status = "Pending" /\ row.decidedAt = 0
  <2>1. "Pending" \in RecordStatuses
    BY DEF RecordStatuses
  <2>. QED  BY <1>1, <2>1, Rows, DecidedRow DEF RecordsInv
<1>6. rounds' = [rounds EXCEPT ![i] = row]
  BY DEF ReopenRound
<1> HIDE DEF row
<1>7. Whole(row, i \in flagged')
  BY <1>4, <1>5 DEF Whole
<1>8. RecordsTypeOK'
  BY <1>1, <1>3, <1>4, <1>5, <1>6, UpdateTypeOK DEF RecordsInv
<1>9. UniqueNumbers'
  BY <1>1, <1>5, <1>6, UpdateNumbers DEF RecordsInv
<1>10. DecisionIsWhole'
  BY <1>1, <1>4, <1>6, <1>7, UpdateDecision DEF RecordsInv
<1>. QED  BY <1>8, <1>9, <1>10 DEF RecordsInv

(* The row withdraw_approval writes.                                       *)
LEMMA WithdrawnRow ==
    ASSUME NEW row \in Round
    PROVE  /\ Withdrawn(row) \in Round
           /\ Withdrawn(row).event = row.event
           /\ Withdrawn(row).number = row.number
           /\ Withdrawn(row).status = "Approval Withdrawn"
           /\ Withdrawn(row).decidedAt = row.decidedAt
BY DEF Withdrawn, Round, RecordStatuses

(* The row _reinstate writes.                                              *)
LEMMA ReinstatedRow ==
    ASSUME NEW row \in Round
    PROVE  /\ Reinstated(row) \in Round
           /\ Reinstated(row).event = row.event
           /\ Reinstated(row).number = row.number
           /\ Reinstated(row).status = "Safety Approved"
           /\ Reinstated(row).decidedAt = row.decidedAt
BY DEF Reinstated, Round, RecordStatuses, DecisionStatuses

(* withdraw_approval keeps the invariant.                                  *)
LEMMA WithdrawApprovalKeepsInv ==
    ASSUME RecordsInv, NEW i \in RoundIds, NEW next \in RoundOrNone, WithdrawApproval(i, next)
    PROVE  RecordsInv'
<1>1. /\ i \in Live /\ rounds[i].status = "Safety Approved" /\ IsLatest(i)
      /\ clock' = clock /\ flagged' = flagged
  BY DEF WithdrawApproval, CanWithdraw
<1>2. rounds[i].decidedAt # 0 /\ i \notin flagged
  BY <1>1 DEF RecordsInv, DecisionIsWhole
<1>3. clock \in Nat /\ clock \in 0..MaxDecisions
  BY ClockIsNat DEF RecordsInv, RecordsTypeOK
<1> DEFINE row == Withdrawn(rounds[i])
           withdrawn == [rounds EXCEPT ![i] = row]
<1>4. /\ row \in Round /\ row.event = rounds[i].event /\ row.number = rounds[i].number
      /\ row.status = "Approval Withdrawn" /\ row.decidedAt = rounds[i].decidedAt
  BY <1>1, Rows, WithdrawnRow DEF RecordsInv
<1>5. row.decidedAt <= clock
  BY <1>1, <1>4 DEF RecordsInv, RecordsTypeOK
<1>6. Whole(row, i \in flagged)
  BY <1>2, <1>4 DEF Whole
<1>7. \/ rounds' = withdrawn /\ used' = used
      \/ /\ Fresh(next)
         /\ rounds' = With(withdrawn, next, OpenRound(rounds[i].event, rounds[i].number + 1))
         /\ used' = used \cup {next}
  BY DEF WithdrawApproval
<1> HIDE DEF row
<1>8. CASE rounds' = withdrawn /\ used' = used
  <2>1. clock <= clock
    BY <1>3
  <2>2. flagged \subseteq Live
    BY DEF RecordsInv, RecordsTypeOK
  <2>3. RecordsTypeOK'
    BY <1>1, <1>3, <1>4, <1>5, <1>8, <2>1, <2>2, UpdateTypeOK DEF RecordsInv
  <2>4. UniqueNumbers'
    BY <1>1, <1>4, <1>8, UpdateNumbers DEF RecordsInv
  <2>5. DecisionIsWhole'
    BY <1>1, <1>6, <1>8, UpdateDecision DEF RecordsInv
  <2>. QED  BY <2>3, <2>4, <2>5 DEF RecordsInv
<1>9. CASE /\ Fresh(next)
           /\ rounds' = With(withdrawn, next, OpenRound(rounds[i].event, rounds[i].number + 1))
           /\ used' = used \cup {next}
  <2> DEFINE e == rounds[i].event
             n == rounds[i].number + 1
             new == OpenRound(e, n)
  <2>1. next \in RoundIds /\ next \notin Live /\ Live \subseteq used /\ used \subseteq RoundIds
    BY <1>9 DEF Fresh, RecordsInv, RecordsTypeOK
  <2>2. DOMAIN withdrawn = Live
    BY DEF Live
  <2>3. /\ Live' = Live \cup {next} /\ rounds'[next] = new /\ rounds'[i] = row
        /\ \A j \in Live \ {i} : rounds'[j] = rounds[j]
        /\ rounds' = [j \in Live' |-> rounds'[j]]
    BY <1>1, <1>9, <2>1, <2>2 DEF With, Live
  <2>4. e \in Events /\ n \in Nat \ {0} /\ \A j \in RoundsOf(e) : rounds[j].number < n
    <3>1. e \in Events /\ rounds[i].number \in Nat
      BY <1>1, Rows DEF RecordsInv
    <3>2. \A j \in RoundsOf(e) : rounds[j].number <= rounds[i].number /\ rounds[j].number \in Nat
      BY <1>1, Rows DEF RecordsInv, IsLatest, RoundsOf
    <3>. QED  BY <3>1, <3>2
  <2>5. /\ new \in Round /\ new.event = e /\ new.number = n
        /\ new.status = "Pending" /\ new.decidedAt = 0
    BY <2>4 DEF OpenRound, Round, RecordStatuses
  <2> HIDE DEF new
  <2>6. RecordsTypeOK'
    <3>1. \A j \in Live' : rounds'[j] \in Round
      BY <1>4, <2>3, <2>5, Rows DEF RecordsInv
    <3>2. rounds' \in [Live' -> Round]
      BY <2>3, <3>1
    <3>3. \A j \in Live \ {i} : rounds'[j].decidedAt <= clock
      BY <2>3 DEF RecordsInv, RecordsTypeOK
    <3>4. rounds'[next].decidedAt <= clock
      BY <1>3, <2>3, <2>5
    <3>5. \A j \in Live' : rounds'[j].decidedAt <= clock
      BY <1>5, <2>3, <3>3, <3>4
    <3>6. flagged' \subseteq Live'
      BY <1>1, <2>3 DEF RecordsInv, RecordsTypeOK
    <3>7. Live' \subseteq used' /\ used' \subseteq RoundIds
      BY <1>9, <2>1, <2>3
    <3>. QED  BY <1>1, <1>3, <3>2, <3>5, <3>6, <3>7 DEF RecordsTypeOK
  <2>7. UniqueNumbers'
    <3>1. \A j \in Live : rounds'[j].event = rounds[j].event /\ rounds'[j].number = rounds[j].number
      BY <1>4, <2>3
    <3>2. rounds'[next].event = e /\ rounds'[next].number = n /\ n \in Nat
      BY <2>3, <2>4, <2>5
    <3>. QED  BY <2>1, <2>3, <2>4, <3>1, <3>2, NewNumberIsUnique DEF RecordsInv
  <2>8. DecisionIsWhole'
    <3>1. next \notin flagged
      BY <2>1 DEF RecordsInv, RecordsTypeOK
    <3>. QED  BY <1>1, <1>6, <2>3, <2>5, <3>1 DEF RecordsInv, DecisionIsWhole, Whole
  <2>. QED  BY <2>6, <2>7, <2>8 DEF RecordsInv
<1>. QED  BY <1>7, <1>8, <1>9

(* restore_approval keeps the invariant.                                   *)
LEMMA RestoreApprovalKeepsInv ==
    ASSUME RecordsInv, NEW i \in RoundIds, NEW opened \in RoundOrNone, RestoreApproval(i, opened)
    PROVE  RecordsInv'
<1>1. /\ i \in Live /\ used' = used /\ clock' = clock /\ flagged' = flagged
      /\ AlreadyRestored(i) \/ CanReinstate(i, opened)
  BY DEF RestoreApproval, CanRestore
<1>2. CASE AlreadyRestored(i)
  <2>1. rounds' = rounds
    BY <1>2 DEF RestoreApproval
  <2>. QED  BY <1>1, <2>1 DEF RecordsInv, RecordsTypeOK, UniqueNumbers, DecisionIsWhole, Live
<1>3. CASE ~AlreadyRestored(i)
  <2>1. rounds[i].status = "Approval Withdrawn"
    BY <1>1, <1>3 DEF CanReinstate
  <2>2. opened \notin flagged /\ opened # i
    <3>1. NoRound \notin Live
      BY IdsAssumption DEF RecordsInv, RecordsTypeOK
    <3>2. CASE opened = NoRound
      BY <1>1, <3>1, <3>2 DEF RecordsInv, RecordsTypeOK
    <3>3. CASE opened # NoRound
      BY <1>1, <1>3, <2>1, <3>3 DEF CanReinstate, IsOpenSuccessor, Undecided, RecordsInv, DecisionIsWhole
    <3>. QED  BY <3>2, <3>3
  <2> DEFINE row == Reinstated(rounds[i])
             reinstated == [rounds EXCEPT ![i] = row]
  <2>3. /\ row \in Round /\ row.event = rounds[i].event /\ row.number = rounds[i].number
        /\ row.status = "Safety Approved" /\ row.decidedAt = rounds[i].decidedAt
    BY <1>1, Rows, ReinstatedRow DEF RecordsInv
  <2>4. rounds' = Without(reinstated, opened)
    BY <1>3 DEF RestoreApproval
  <2> HIDE DEF row
  <2>5. /\ Live' = Live \ {opened} /\ rounds'[i] = row
        /\ \A j \in Live' \ {i} : rounds'[j] = rounds[j]
        /\ rounds' = [j \in Live' |-> rounds'[j]]
    BY <1>1, <2>2, <2>4 DEF Without, Live
  <2>6. RecordsTypeOK'
    <3>1. \A j \in Live' : rounds'[j] \in Round
      BY <2>3, <2>5, Rows DEF RecordsInv
    <3>2. rounds' \in [Live' -> Round]
      BY <2>5, <3>1
    <3>3. \A j \in Live' : rounds'[j].decidedAt <= clock
      BY <1>1, <2>3, <2>5 DEF RecordsInv, RecordsTypeOK
    <3>4. flagged' \subseteq Live'
      BY <1>1, <2>2, <2>5 DEF RecordsInv, RecordsTypeOK
    <3>. QED  BY <1>1, <2>5, <3>2, <3>3, <3>4 DEF RecordsInv, RecordsTypeOK
  <2>7. UniqueNumbers'
    <3>1. \A j \in Live' : rounds'[j].event = rounds[j].event /\ rounds'[j].number = rounds[j].number
      BY <2>3, <2>5
    <3>. QED  BY <2>5, <3>1, NumbersStayUnique DEF RecordsInv
  <2>8. DecisionIsWhole'
    <3>1. Whole(row, i \in flagged)
      BY <1>1, <2>1, <2>3 DEF Whole, RecordsInv, DecisionIsWhole
    <3>. QED  BY <1>1, <2>5, <3>1 DEF RecordsInv, DecisionIsWhole, Whole
  <2>. QED  BY <2>6, <2>7, <2>8 DEF RecordsInv
<1>. QED  BY <1>2, <1>3

(* The empty table satisfies the invariant.                                *)
LEMMA RecordsInitHasInv ==
    ASSUME RecordsInit
    PROVE  RecordsInv
<1>1. rounds \in [Live -> Round] /\ Live = {}
  BY DEF RecordsInit, Live
<1>. QED  BY <1>1, RecordsAssumption
          DEF RecordsInit, RecordsInv, RecordsTypeOK, UniqueNumbers, DecisionIsWhole

(* Every step of the service keeps the invariant.                          *)
LEMMA RecordsNextKeepsInv ==
    ASSUME RecordsInv, [RecordsNext]_recordVars
    PROVE  RecordsInv'
<1>1. CASE \E e \in Events, i \in RoundIds : CreateRound(e, i)
  BY <1>1, CreateKeepsInv
<1>2. CASE \E i \in RoundIds : DeleteRound(i)
  BY <1>2, DeleteKeepsInv
<1>3. CASE \E i \in RoundIds, s \in DecisionStatuses : DecideRound(i, s)
  BY <1>3, DecideKeepsInv
<1>4. CASE \E i \in RoundIds, t \in 1..MaxDecisions : ReopenRound(i, t)
  BY <1>4, ReopenKeepsInv
<1>5. CASE \E i \in RoundIds, next \in RoundOrNone : WithdrawApproval(i, next)
  BY <1>5, WithdrawApprovalKeepsInv
<1>6. CASE \E i \in RoundIds, opened \in RoundOrNone : RestoreApproval(i, opened)
  BY <1>6, RestoreApprovalKeepsInv
<1>7. CASE UNCHANGED recordVars
  BY <1>7 DEF recordVars, RecordsInv, RecordsTypeOK, UniqueNumbers, DecisionIsWhole, Live
<1>. QED  BY <1>1, <1>2, <1>3, <1>4, <1>5, <1>6, <1>7 DEF RecordsNext

(* The three invariants hold together in every reachable table.            *)
THEOREM RecordsInvariant == RecordsSpec => []RecordsInv
<1>. QED  BY RecordsInitHasInv, RecordsNextKeepsInv, PTL DEF RecordsSpec

(* The table of rounds stays well formed, for any number of events, rounds *)
(* and decisions.                                                          *)
THEOREM RecordsTypeCorrect == RecordsSpec => []RecordsTypeOK
<1>1. RecordsInv => RecordsTypeOK
  BY DEF RecordsInv
<1>. QED  BY <1>1, RecordsInvariant, PTL

(* No sequence of calls makes the service number two rounds of an event    *)
(* alike, so no INSERT of it ever meets UNIQUE (event_id, round_number).   *)
THEOREM RoundNumbersAreUnique == RecordsSpec => []UniqueNumbers
<1>1. RecordsInv => UniqueNumbers
  BY DEF RecordsInv
<1>. QED  BY <1>1, RecordsInvariant, PTL

(* No sequence of calls leaves half a decision on a round.                 *)
THEOREM DecisionsAreWhole == RecordsSpec => []DecisionIsWhole
<1>1. RecordsInv => DecisionIsWhole
  BY DEF RecordsInv
<1>. QED  BY <1>1, RecordsInvariant, PTL

----------------------------------------------------------------------------
(* What HistoryIsKept says of a step.                                      *)
KeepsDecided ==
    \A i \in Live :
        rounds[i].status # "Pending" =>
           /\ i \in Live'
           /\ rounds'[i].event = rounds[i].event
           /\ rounds'[i].number = rounds[i].number

(* Every step keeps the rounds that are decided.                           *)
LEMMA NextKeepsDecided ==
    ASSUME RecordsInv, [RecordsNext]_recordVars
    PROVE  KeepsDecided
<1> SUFFICES ASSUME NEW k \in Live, rounds[k].status # "Pending"
             PROVE  /\ k \in Live'
                    /\ rounds'[k].event = rounds[k].event
                    /\ rounds'[k].number = rounds[k].number
  BY DEF KeepsDecided
<1>1. ASSUME NEW e \in Events, NEW i \in RoundIds, CreateRound(e, i)
      PROVE  k \in Live' /\ rounds'[k] = rounds[k]
  BY <1>1 DEF CreateRound, With, Live, Fresh, RecordsInv, RecordsTypeOK
<1>2. ASSUME NEW i \in RoundIds, DeleteRound(i)
      PROVE  k \in Live' /\ rounds'[k] = rounds[k]
  BY <1>2 DEF DeleteRound, CanDelete, Undecided, Without, Live
<1>3. ASSUME NEW i \in RoundIds, NEW s \in DecisionStatuses, DecideRound(i, s)
      PROVE  k \in Live' /\ rounds'[k] = rounds[k]
  BY <1>3 DEF DecideRound, CanDecide, Undecided, Live
<1>4. ASSUME NEW i \in RoundIds, NEW t \in 1..MaxDecisions, ReopenRound(i, t)
      PROVE  /\ k \in Live'
             /\ rounds'[k].event = rounds[k].event
             /\ rounds'[k].number = rounds[k].number
  <2>1. i \in Live /\ "Pending" \in RecordStatuses
    BY <1>4 DEF ReopenRound, CanReopen, RecordStatuses
  <2>2. rounds' = [rounds EXCEPT ![i] = Decided(rounds[i], "Pending", 0)]
    BY <1>4 DEF ReopenRound
  <2>3. /\ Decided(rounds[i], "Pending", 0).event = rounds[i].event
        /\ Decided(rounds[i], "Pending", 0).number = rounds[i].number
    BY <2>1, Rows, DecidedRow DEF RecordsInv
  <2>. QED  BY <2>1, <2>2, <2>3 DEF Live
<1>5. ASSUME NEW i \in RoundIds, NEW next \in RoundOrNone, WithdrawApproval(i, next)
      PROVE  /\ k \in Live'
             /\ rounds'[k].event = rounds[k].event
             /\ rounds'[k].number = rounds[k].number
  <2>1. i \in Live /\ (Fresh(next) => next # k)
    BY <1>5 DEF WithdrawApproval, CanWithdraw, Fresh, RecordsInv, RecordsTypeOK
  <2>2. Withdrawn(rounds[i]).event = rounds[i].event /\ Withdrawn(rounds[i]).number = rounds[i].number
    BY <2>1, Rows, WithdrawnRow DEF RecordsInv
  <2>. QED  BY <1>5, <2>1, <2>2 DEF WithdrawApproval, With, Live
<1>6. ASSUME NEW i \in RoundIds, NEW opened \in RoundOrNone, RestoreApproval(i, opened)
      PROVE  /\ k \in Live'
             /\ rounds'[k].event = rounds[k].event
             /\ rounds'[k].number = rounds[k].number
  <2>1. i \in Live /\ (AlreadyRestored(i) \/ CanReinstate(i, opened))
    BY <1>6 DEF RestoreApproval, CanRestore
  <2>2. CASE AlreadyRestored(i)
    BY <1>6, <2>2 DEF RestoreApproval, Live
  <2>3. CASE ~AlreadyRestored(i)
    <3>1. rounds' = Without([rounds EXCEPT ![i] = Reinstated(rounds[i])], opened)
      BY <1>6, <2>3 DEF RestoreApproval
    <3>2. Reinstated(rounds[i]).event = rounds[i].event /\ Reinstated(rounds[i]).number = rounds[i].number
      BY <2>1, Rows, ReinstatedRow DEF RecordsInv
    <3>3. opened # k
      BY <2>1, <2>3, IdsAssumption
         DEF CanReinstate, IsOpenSuccessor, Undecided, RecordsInv, RecordsTypeOK
    <3>. QED  BY <2>1, <3>1, <3>2, <3>3 DEF Without, Live
  <2>. QED  BY <2>2, <2>3
<1>7. CASE UNCHANGED recordVars
  BY <1>7 DEF recordVars, Live
<1>. QED  BY <1>1, <1>2, <1>3, <1>4, <1>5, <1>6, <1>7 DEF RecordsNext

(* Decided rounds are never removed and never move to another event or     *)
(* number, whatever the composite services ask for.                        *)
THEOREM DecidedRoundsAreKept == RecordsSpec => HistoryIsKept
<1>1. RecordsInv /\ [RecordsNext]_recordVars => [KeepsDecided]_recordVars
  BY NextKeepsDecided
<1>. QED  BY <1>1, RecordsInvariant, PTL DEF RecordsSpec, HistoryIsKept, KeepsDecided
============================================================================
