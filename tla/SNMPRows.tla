------------------------------- MODULE SNMPRows -------------------------------
(***************************************************************************)
(* The tables of the SNMP agent as collectSNMP of snmp.go reads them:      *)
(* walkRows and what parseDisks and parseVolumes make of the rows.         *)
(*                                                                         *)
(* A walk gives all rows of a column before those of the next column.      *)
(* When a request fails for good the walk breaks off, and the rows read so *)
(* far are used all the same: collectSNMP reports an error only if all     *)
(* three walks broke off.  So a row may lack its later columns, and what   *)
(* was not read is zero to the parsers.                                    *)
(*                                                                         *)
(* A table is a function from its cells, <<column, index>>, to numbers;    *)
(* texts are left out.  Nothing is kept from one collection to the next.   *)
(***************************************************************************)
EXTENDS Integers

CONSTANT Indexes        \* the indexes that rows may have

ASSUME IndexesAssumption == Indexes \subseteq Nat

Cell  == Nat \X Indexes
Table == UNION {[S -> Int] : S \in SUBSET Cell}

(* The order of the object identifiers, in which a walk goes.              *)
Before(x, y) == x[1] < y[1] \/ (x[1] = y[1] /\ x[2] < y[2])

(* walkRows, where last is the cell after which the walk broke off, or one *)
(* behind the table if it did not.                                         *)
WalkRows(table, last) ==
    [x \in {y \in DOMAIN table : ~Before(last, y)} |-> table[x]]

(* number, int64Number: a cell that was not read is nil, and nil is zero.  *)
Number(rows, column, index) ==
    IF <<column, index>> \in DOMAIN rows THEN rows[<<column, index>>] ELSE 0

(* uintNumber                                                              *)
Unsigned(n) == IF n <= 0 THEN 0 ELSE n

(* rowIndexes: a row is there as soon as one of its cells is.              *)
RowIndexes(rows) == {x[2] : x \in DOMAIN rows}

(* The labels that the page translates; other numbers stay as they are.    *)
SmartLabel(n) ==
    CASE n = 0  -> "good"
      [] n = 1  -> "warning"
      [] n = 2  -> "bad"
      [] n = -1 -> "error"
      [] OTHER  -> "other"

(* parseDisks                                                              *)
Disks(rows) ==
    {[id       |-> i,
      smart    |-> SmartLabel(Number(rows, 5, i)),
      capacity |-> Unsigned(Number(rows, 9, i))] : i \in RowIndexes(rows)}

(* An unsigned difference, which must not wrap around.                     *)
UsedSpace(total, free) == IF total >= free THEN total - free ELSE 0

(* parseVolumes                                                            *)
Volumes(rows) ==
    {[id    |-> i,
      total |-> Unsigned(Number(rows, 4, i)),
      used  |-> UsedSpace(Unsigned(Number(rows, 4, i)), Unsigned(Number(rows, 5, i)))] :
        i \in RowIndexes(rows)}

-----------------------------------------------------------------------------
(* Correctness of the rows of a walk, wherever it broke off                *)

(* A disk that is shown with its capacity is shown with the SMART state    *)
(* that the agent gave: the zero of a state that was not read, which is    *)
(* the label of a good disk, comes only with a capacity of zero            *)
(* (snmp.go:124-140).                                                      *)
SmartVouched(table, last) ==
    \A d \in Disks(WalkRows(table, last)) :
        d.capacity > 0 => d.smart = SmartLabel(Number(table, 5, d.id))

(* The used space of a volume never exceeds its total, and the volume      *)
(* never looks to have more room than the agent gave it free space: what   *)
(* is lost of it makes it look full (snmp.go:148-153).                     *)
SpaceVouched(table, last) ==
    \A v \in Volumes(WalkRows(table, last)) :
        /\ v.used \in 0 .. v.total
        /\ v.total - v.used <= Unsigned(Number(table, 5, v.id))
=============================================================================
