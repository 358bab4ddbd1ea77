------------------------------ MODULE Notices ------------------------------
(***************************************************************************)
(* What the notification path promises, without outboxes, leases, a broker *)
(* or workers.  Something happened, so somebody is owed a notice.  A notice*)
(* is addressed to one person once and for all; a notice to everyone who   *)
(* holds a role is split once into one notice for each of them; and the    *)
(* inbox of the addressee gains the notice at most once, after which only  *)
(* the addressee changes whether it has been read.                         *)
(*                                                                         *)
(* A step may address a notice that was owed before the step only:         *)
(* NotificationDelivery implements this module step by step.               *)
(***************************************************************************)
EXTENDS Sequences

CONSTANTS Ids,      \* the notices there can be
          Users,    \* the people they can be for
          Nobody,   \* the addressee of a notice that is not addressed yet
          Shares    \* per notice: the notices it can be split into, none of a notice to one

VARIABLES owed,       \* the notices that came to be
          split,      \* those that were split into notices for one person each
          addressee,  \* whom a notice is for
          inbox       \* per notice: <<>>, or the one entry that shows it

vars == <<owed, split, addressee, inbox>>

Entry == [to : Users, read : BOOLEAN]

Init ==
    /\ owed = {}
    /\ split = {}
    /\ addressee = [i \in Ids |-> Nobody]
    /\ inbox = [i \in Ids |-> <<>>]

(* Something happened that somebody is to be told of. Whom may already be settled. *)
Owe(i) ==
    /\ i \notin owed
    /\ owed' = owed \cup {i}
    /\ \E u \in Users \cup {Nobody} : addressee' = [addressee EXCEPT ![i] = u]
    /\ UNCHANGED <<split, inbox>>

(* A notice is addressed, once. *)
Address(i) ==
    /\ i \in owed \ split
    /\ addressee[i] = Nobody
    /\ \E u \in Users : addressee' = [addressee EXCEPT ![i] = u]
    /\ UNCHANGED <<owed, split, inbox>>

(* A notice to many becomes notices that nobody was owed before. *)
Split(i, parts) ==
    /\ Shares[i] # {}
    /\ i \in owed \ split
    /\ addressee[i] = Nobody
    /\ parts \cap owed = {}
    /\ split' = split \cup {i}
    /\ owed' = owed \cup parts
    /\ UNCHANGED <<addressee, inbox>>

(* The addressee is shown the notice, which no inbox has shown before. *)
Show(i) ==
    /\ i \in owed \ split
    /\ addressee[i] \in Users
    /\ inbox[i] = <<>>
    /\ inbox' = [inbox EXCEPT ![i] = <<[to |-> addressee[i], read |-> FALSE]>>]
    /\ UNCHANGED <<owed, split, addressee>>

(* The addressee marks it as read or unread. *)
Mark(i, b) ==
    /\ inbox[i] # <<>>
    /\ inbox' = [inbox EXCEPT ![i] = <<[@[1] EXCEPT !.read = b]>>]
    /\ UNCHANGED <<owed, split, addressee>>

Next ==
    \E i \in Ids :
        \/ Owe(i) \/ Address(i)
        \/ \E parts \in SUBSET Shares[i] : Split(i, parts)
        \/ Show(i)
        \/ \E b \in BOOLEAN : Mark(i, b)

Spec == Init /\ [][Next]_vars
=============================================================================
