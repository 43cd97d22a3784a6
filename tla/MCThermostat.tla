---------------------------- MODULE MCThermostat ----------------------------
(* Furnaces of one and of three stages, with and without cooling. *)
EXTENDS Thermostat

MCEquipments == {[heat |-> 3, cool |-> 1], [heat |-> 1, cool |-> 1],
                 [heat |-> 2, cool |-> 0], [heat |-> 0, cool |-> 0]}
=============================================================================
