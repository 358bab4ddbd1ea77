----------------------------- MODULE SafetyIds -----------------------------
(* The identities the services of the safety workflow pass to one another. *)

CONSTANTS Events,    \* the events
          RoundIds,  \* the UUIDs of Operational Safety Check rounds
          NoRound    \* None, where a round id is optional

ASSUME IdsAssumption == NoRound \notin RoundIds

RoundOrNone == RoundIds \cup {NoRound}
============================================================================
