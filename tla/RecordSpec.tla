----------------------------- MODULE RecordSpec -----------------------------
(***************************************************************************)
(* What JDRecordRepository promises for one record: every write operation  *)
(* takes effect at once, against the record as it is at that moment, or    *)
(* not at all; a power loss falls back at most to the record that was last *)
(* made durable, and never to a mixture of two.                            *)
(***************************************************************************)
EXTENDS RecordModel

CONSTANT Ops    \* the operations clients may ask for

VARIABLES
    record,     \* the record every reader sees, or None
    durable,    \* the record a power loss is sure to leave
    placed      \* the record's directory entry has reached the disk

vars == <<record, durable, placed>>

Init == /\ record = None
        /\ durable = None
        /\ placed = FALSE

Write(op) == /\ ~IsRead(op)
             /\ ~Refused(op, record)
             /\ record' = Applied(op, record)
             /\ UNCHANGED <<durable, placed>>

MakeDurable == /\ durable' = record
               /\ UNCHANGED <<record, placed>>

Place == /\ placed' = TRUE
         /\ UNCHANGED <<record, durable>>

PowerLoss == /\ record' \in {record, durable} \cup IF placed THEN {} ELSE {None}
             /\ durable' = record'
             /\ UNCHANGED placed

Next == (\E op \in Ops : Write(op)) \/ MakeDurable \/ Place \/ PowerLoss

Spec == Init /\ [][Next]_vars
=============================================================================
