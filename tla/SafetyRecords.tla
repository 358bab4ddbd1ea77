--------------------------- MODULE SafetyRecords ---------------------------
(***************************************************************************)
(* The Safety Check Record Service: the table of Operational Safety Check  *)
(* rounds.  Every operation of the service is one database transaction     *)
(* that locks the round it names (or the event's latest round), so every   *)
(* operation is one action here.                                           *)
(*                                                                         *)
(* A round is a row: its number within the event, its status and the time  *)
(* of its decision (0 is NULL; a decision time is a value of the counter   *)
(* `clock`, so two decisions never carry the same one).  The columns only  *)
(* shown to people (notes, remarks, who decided, who withdrew and why) are *)
(* left out.  Ids are fresh UUIDs: `used` holds every id ever generated.   *)
(***************************************************************************)
EXTENDS Naturals, SafetyIds

CONSTANT MaxDecisions  \* bound: how many decisions the clock can stamp

ASSUME RecordsAssumption == MaxDecisions \in Nat

VARIABLES rounds,   \* the rows of public."SafetyCheck", by id
          flagged,  \* the rounds with rows in public."SafetyCheckFlag"
          used,     \* the ids generated so far
          clock     \* the database's now(), advanced by each decision

recordVars == <<rounds, flagged, used, clock>>

DecisionStatuses == {"Safety Approved", "Changes Requested", "Safety Rejected"}
RecordStatuses   == {"Pending", "Approval Withdrawn"} \cup DecisionStatuses

Round == [event     : Events,
          number    : Nat \ {0},
          status    : RecordStatuses,
          decidedAt : Nat]

RecordsInit ==
    /\ rounds = [i \in {} |-> {}]
    /\ flagged = {}
    /\ used = {}
    /\ clock = 0

----------------------------------------------------------------------------
Live == DOMAIN rounds

RoundsOf(e) == {i \in Live : rounds[i].event = e}

\* ORDER BY round_number DESC LIMIT 1
IsLatest(i) == \A j \in RoundsOf(rounds[i].event) : rounds[j].number <= rounds[i].number

\* list_rounds(event, "Pending")[0]: the open rounds come newest first
IsNewestOpen(i) ==
    /\ rounds[i].status = "Pending"
    /\ \A j \in RoundsOf(rounds[i].event) :
          rounds[j].status = "Pending" => rounds[j].number <= rounds[i].number

OpenRound(e, n) ==
    [event |-> e, number |-> n, status |-> "Pending", decidedAt |-> 0]

Decided(row, s, t) == [row EXCEPT !.status = s, !.decidedAt = t]

Undecided(i) == rounds[i].status = "Pending" /\ rounds[i].decidedAt = 0

\* The table after an INSERT, an UPDATE and a DELETE
With(table, i, row) == [j \in DOMAIN table \cup {i} |-> IF j = i THEN row ELSE table[j]]
Without(table, i)   == [j \in DOMAIN table \ {i} |-> table[j]]

Fresh(i) == i \in RoundIds \ used

----------------------------------------------------------------------------
(* create_round: one past the event's latest round, refused while that one *)
(* is Pending.                                                             *)
CanCreateAlways(e) == e \in Events  \* mutant: a pending round is no obstacle

CanCreate(e) == \A i \in RoundsOf(e) : IsLatest(i) => rounds[i].status # "Pending"

NextNumber(e, n) ==
    \/ RoundsOf(e) = {} /\ n = 1
    \/ \E i \in RoundsOf(e) : IsLatest(i) /\ n = rounds[i].number + 1

CreateRound(e, i) ==
    /\ CanCreate(e)
    /\ Fresh(i)
    /\ \E n \in {rounds[j].number + 1 : j \in RoundsOf(e)} \cup {1} :
          /\ NextNumber(e, n)
          /\ rounds' = With(rounds, i, OpenRound(e, n))
    /\ used' = used \cup {i}
    /\ UNCHANGED <<flagged, clock>>

(* delete_open_round: compensation of a submission.                        *)
CanDeleteAny(i) == i \in Live  \* mutant: the status is not checked

CanDelete(i) == i \in Live /\ Undecided(i)

DeleteRound(i) ==
    /\ CanDelete(i)
    /\ rounds' = Without(rounds, i)
    /\ UNCHANGED <<flagged, used, clock>>

(* decide_round: only an undecided round, and only the event's latest.     *)
CanDecideAgain(i) == i \in Live /\ IsLatest(i)  \* mutant: a decided round can be decided

CanDecide(i) == i \in Live /\ Undecided(i) /\ IsLatest(i)

DecideRound(i, s) ==
    /\ CanDecide(i)
    /\ clock < MaxDecisions
    /\ clock' = clock + 1
    /\ rounds' = [rounds EXCEPT ![i] = Decided(rounds[i], s, clock + 1)]
    /\ flagged' = IF s = "Changes Requested" THEN flagged \cup {i} ELSE flagged
    /\ UNCHANGED used

(* reopen_round: undoes the decision made at time t.  It looks at nothing  *)
(* but decided_at, and leaves the withdrawal columns alone.                *)
CanReopen(i, t) == i \in Live /\ t # 0 /\ rounds[i].decidedAt = t

ReopenKeepingFlags(i, t) ==  \* mutant: the SafetyCheckFlag rows stay
    /\ CanReopen(i, t)
    /\ rounds' = [rounds EXCEPT ![i] = Decided(rounds[i], "Pending", 0)]
    /\ UNCHANGED <<flagged, used, clock>>

ReopenRound(i, t) ==
    /\ CanReopen(i, t)
    /\ rounds' = [rounds EXCEPT ![i] = Decided(rounds[i], "Pending", 0)]
    /\ flagged' = flagged \ {i}
    /\ UNCHANGED <<used, clock>>

(* withdraw_approval: the approval of the latest round, with round N+1     *)
(* opened in the same transaction unless next is NoRound.                  *)
CanWithdrawOld(i) == i \in Live /\ rounds[i].status = "Safety Approved"  \* mutant: any round

CanWithdraw(i) == i \in Live /\ IsLatest(i) /\ rounds[i].status = "Safety Approved"

WithdrawnMisspelt(row) == [row EXCEPT !.status = "Withdrawn"]  \* mutant

Withdrawn(row) == [row EXCEPT !.status = "Approval Withdrawn"]

WithdrawApproval(i, next) ==
    /\ CanWithdraw(i)
    /\ LET withdrawn == [rounds EXCEPT ![i] = Withdrawn(rounds[i])]
       IN \/ /\ next = NoRound
             /\ rounds' = withdrawn
             /\ UNCHANGED used
          \/ /\ Fresh(next)
             /\ rounds' = With(withdrawn, next,
                               OpenRound(rounds[i].event, rounds[i].number + 1))
             /\ used' = used \cup {next}
    /\ UNCHANGED <<flagged, clock>>

(* restore_approval: undoes a withdrawal.  opened is the round N+1 the     *)
(* withdrawal opened, NoRound when it opened none.                         *)
AlreadyRestored(i) == rounds[i].status = "Safety Approved" /\ IsLatest(i)

IsOpenSuccessor(o, i) ==
    /\ o \in Live
    /\ rounds[o].event = rounds[i].event
    /\ rounds[o].number = rounds[i].number + 1
    /\ Undecided(o)

CanReinstate(i, opened) ==
    /\ rounds[i].status = "Approval Withdrawn"
    /\ IF opened = NoRound THEN IsLatest(i) ELSE IsOpenSuccessor(opened, i)

CanRestore(i, opened) == i \in Live /\ (AlreadyRestored(i) \/ CanReinstate(i, opened))

Reinstated(row) == [row EXCEPT !.status = "Safety Approved"]

RestoreApproval(i, opened) ==
    /\ CanRestore(i, opened)
    /\ rounds' = IF AlreadyRestored(i) THEN rounds
                 ELSE Without([rounds EXCEPT ![i] = Reinstated(rounds[i])], opened)
    /\ UNCHANGED <<flagged, used, clock>>

----------------------------------------------------------------------------
RecordsNext ==
    \/ \E e \in Events, i \in RoundIds : CreateRound(e, i)
    \/ \E i \in RoundIds : DeleteRound(i)
    \/ \E i \in RoundIds, s \in DecisionStatuses : DecideRound(i, s)
    \/ \E i \in RoundIds, t \in 1..MaxDecisions : ReopenRound(i, t)
    \/ \E i \in RoundIds, next \in RoundOrNone : WithdrawApproval(i, next)
    \/ \E i \in RoundIds, opened \in RoundOrNone : RestoreApproval(i, opened)

RecordsSpec == RecordsInit /\ [][RecordsNext]_recordVars

----------------------------------------------------------------------------
(* The table is well formed: rows only under generated ids, decision times *)
(* not in the future.                                                      *)
RecordsTypeOK ==
    /\ Live \subseteq used
    /\ used \subseteq RoundIds
    /\ rounds \in [Live -> Round]
    /\ flagged \subseteq Live
    /\ clock \in 0..MaxDecisions
    /\ \A i \in Live : rounds[i].decidedAt <= clock

(* No two rounds of an event carry the same number: the computation of the *)
(* next number never runs into UNIQUE (event_id, round_number), whatever   *)
(* sequence of creations, withdrawals, deletions and restorations the      *)
(* composite asks for.                                                     *)
UniqueNumbers ==
    \A i, j \in Live :
        rounds[i].event = rounds[j].event /\ rounds[i].number = rounds[j].number => i = j

(* A row reads as decided exactly when it carries a decision time, and has *)
(* flags exactly when the decision asked for changes: neither reopening    *)
(* nor withdrawing leaves half a decision behind.                          *)
DecisionIsWhole ==
    \A i \in Live :
        /\ rounds[i].status = "Pending" <=> rounds[i].decidedAt = 0
        /\ i \in flagged <=> rounds[i].status = "Changes Requested"

(* Decided rounds are the event's safety history: no operation, not even a *)
(* compensation, removes one or moves it to another event or number.       *)
HistoryIsKept ==
    [][\A i \in Live :
          rounds[i].status # "Pending" =>
             /\ i \in Live'
             /\ rounds'[i].event = rounds[i].event
             /\ rounds'[i].number = rounds[i].number]_recordVars
============================================================================
