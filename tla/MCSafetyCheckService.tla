------------------------ MODULE MCSafetyCheckService -----------------------
(* Instances of SafetyCheckService: who can fail, and what is symmetric.   *)
EXTENDS SafetyCheckService, TLC

Interchangeable == Permutations(RoundIds) \cup Permutations(Workers)
                   \cup Permutations(Details) \cup Permutations(Coordinators)

NoFault  == {}
AnyFault == AllFailures \X AllCalls

(* The calls that undo another: when one of them fails as well, the code   *)
(* logs the round's id for a repair by hand.                               *)
Compensations == {"delete", "reopen", "restore"}

(* The writes whose lost answer the handlers take for a failure: there is  *)
(* no way to tell a lost answer from a call that never arrived.            *)
Unreconciled == {"create", "withdraw", "submitEvent", "saveDetails"}

(* The failures of a single call that the handlers compensate: any but of  *)
(* these, and but a call that executes after its caller gave it up.        *)
HandledFaults ==
    (AllFailures \X AllCalls)
    \ (({"undelivered"} \X Compensations) \cup ({"lost"} \X Unreconciled)
       \cup ({"late"} \X (RecordCalls \cup EventCalls \cup {"changeBooking", "resetBooking"})))

(* Every failure but those of the decision itself, which two_officers has, *)
(* of a compensation that never arrives, and of a submission whose answer  *)
(* is not known: after these a round may be left decided, or deleted,      *)
(* while its event waits for it.                                           *)
ReviewFaults ==
    (AllFailures \X (AllCalls \ {"decide", "moveDecided"}))
    \ ({<<"undelivered", "reopen">>} \cup ({"lost", "late"} \X {"submitEvent", "saveDetails"}))

UndeliveredDecision == {<<"undelivered", "decide">>}
UndeliveredMove     == {<<"undelivered", "moveDecided">>}
============================================================================
