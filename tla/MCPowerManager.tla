--------------------------- MODULE MCPowerManager ---------------------------
(* Instances of PowerManager: a domain of each kind and the counters of      *)
(* example_power_manager, scaled down, in two orders of the reset.           *)
EXTENDS PowerManager

MCKind == [periph |-> "periph", ram |-> "ram", external |-> "external"]

MCCounterValues ==
    { [iso_off |-> 2, reset_off |-> 3, switch_off |-> 4,
       switch_on |-> 2, reset_on |-> 4, iso_on |-> 5],
      [iso_off |-> 3, reset_off |-> 5, switch_off |-> 4,
       switch_on |-> 4, reset_on |-> 2, iso_on |-> 2] }
=============================================================================
