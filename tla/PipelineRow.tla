---------------------------- MODULE PipelineRow ----------------------------
(***************************************************************************)
(* What a pipeline row promises its readers, whatever the backend: it is   *)
(* created once, as PENDING; afterwards it only follows the legal          *)
(* transition relation; and every write carries a later updated_at, so     *)
(* whoever compares updated_at compares versions.                          *)
(***************************************************************************)
EXTENDS Naturals, PipelineStatus

CONSTANT Stamp     \* the values updated_at may take

VARIABLE row

NoRow == [status |-> "NONE", updated_at |-> 0]

Init == row = NoRow

Create ==
  /\ row = NoRow
  /\ \E t \in Stamp : row' = [status |-> "PENDING", updated_at |-> t]

Update ==
  /\ row # NoRow
  /\ \E s \in LegalTransitions[row.status], t \in Stamp :
       /\ t > row.updated_at
       /\ row' = [status |-> s, updated_at |-> t]

Next == Create \/ Update

Spec == Init /\ [][Next]_row
=============================================================================
