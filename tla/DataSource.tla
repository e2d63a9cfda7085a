----------------------------- MODULE DataSource -----------------------------
(***************************************************************************)
(* What a data source with background threads promises to the user         *)
(* interface that owns it. Its process data behave as if they were one     *)
(* cell:                                                                   *)
(*   - the cell is replaced as a whole, and never by older data;           *)
(*   - a message shows one content of the cell for all slaves;             *)
(*   - both happen only between start and the return of stop, so that a    *)
(*     source at rest can be inspected, started again or deleted.          *)
(***************************************************************************)
EXTENDS Naturals

CONSTANT Slaves \* the slaves that a source can list

VARIABLES
  phase,    \* "absent", "rest" or "active"
  listed,   \* the slaves of the source
  cell,     \* number of the process image that the slaves hold, 0 for none
  message   \* the last message: slave -> process image

vars == <<phase, listed, cell, message>>

Nothing == [s \in {} |-> 0]

Init ==
  /\ phase = "absent"
  /\ listed = {}
  /\ cell = 0
  /\ message = Nothing

Discover ==
  /\ phase = "absent"
  /\ phase' = "rest"
  /\ listed' \in SUBSET Slaves
  /\ cell' = 0
  /\ message' = Nothing

Start ==
  /\ phase = "rest"
  /\ phase' = "active"
  /\ UNCHANGED <<listed, cell, message>>

Stop ==
  /\ phase = "active"
  /\ phase' = "rest"
  /\ UNCHANGED <<listed, cell, message>>

Delete ==
  /\ phase # "absent"
  /\ phase' = "absent"
  /\ listed' = {}
  /\ cell' = 0
  /\ message' = Nothing

Refresh ==
  /\ phase = "active"
  /\ cell' \in Nat /\ cell' >= cell
  /\ UNCHANGED <<phase, listed, message>>

Publish ==
  /\ phase = "active"
  /\ message' = [s \in listed |-> cell]
  /\ UNCHANGED <<phase, listed, cell>>

Next == Discover \/ Start \/ Stop \/ Delete \/ Refresh \/ Publish

Spec == Init /\ [][Next]_vars
=============================================================================
