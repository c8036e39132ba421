------------------------------- MODULE MCRound -------------------------------
(***************************************************************************)
(* Instance for TLC of what one round shows: the merge of the two systems  *)
(* in all orders, and as functions of what the workers find the device     *)
(* list, for every small machine, and the rows of the SNMP tables, for     *)
(* every small table and every cell after which a walk may break off.      *)
(***************************************************************************)
EXTENDS SystemMerge, PCIe, SNMPRows, TLC

(* Two devices at the same place of two domains.                           *)
MCDevices == {<<0, 1>>, <<1, 1>>}

(* The second one is absent, or a GPU with or without a sensor.            *)
SecondDevice ==
    {Absent} \cup
    {[class |-> "display", slot |-> FALSE, info |-> TRUE, vram |-> TRUE,
      temp |-> t] : t \in BOOLEAN}

SmallMachines ==
    {m \in [include : SUBSET MCDevices,
            exclude : SUBSET MCDevices,
            device  : {(<<0, 1>> :> f) @@ (<<1, 1>> :> g) :
                          f \in DeviceFiles \cup {Absent}, g \in SecondDevice},
            tool    : {"missing", "fails", "runs"},
            lines   : [MCDevices -> Line \cup {NoLine}]] :
        m.tool # "runs" => m.lines = [d \in MCDevices |-> NoLine]}

MCIndexes == {1, 2}

(* The columns of a table that matter, with a few values each.             *)
SmallTables(columns, values) ==
    UNION {[S -> values] : S \in SUBSET (columns \X MCIndexes)}

(* Where a walk breaks off, or that it does not.                           *)
Ends == {<<0, 2>>, <<9, 2>>} \cup ({4, 5} \X MCIndexes)

(* What RoundProofs proves, evaluated.                                       *)
ASSUME DevicesCorrect ==
    \A m \in SmallMachines :
        ShownTyped(m) /\ MetricsOfOwnDevice(m) /\ FailureHidesNothing(m)

ASSUME RowsCorrect ==
    \A last \in Ends :
        /\ \A t \in SmallTables({5, 9}, {0, 1, 7}) : SmartVouched(t, last)
        /\ \A t \in SmallTables({4, 5}, {-1, 0, 2, 3}) : SpaceVouched(t, last)
=============================================================================
