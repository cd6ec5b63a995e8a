---------------------------- MODULE SpiTransfer ----------------------------
(***************************************************************************)
(* What the SPI SDK promises the application about one peripheral, without *)
(* FIFOs, segments or interrupts: a transfer is accepted when no other is  *)
(* in progress, moves its words, is DONE only when the last word has been  *)
(* sent and the last word received has been stored, and its done_cb is     *)
(* called at most once and only then.  A transfer that is reset, fails or  *)
(* times out owes nothing any more.                                        *)
(***************************************************************************)
EXTENDS Naturals

VARIABLES
  status,     \* spi_get_state
  out,        \* words the transfer in progress has still to send
  in,         \* words it has still to store for the application
  told        \* its done_cb has been called

vars == <<status, out, in, told>>

Init == status = "NONE" /\ out = 0 /\ in = 0 /\ told = FALSE

Accept ==
  /\ status # "BUSY"
  /\ status' = "BUSY"
  /\ out' \in Nat /\ in' \in Nat
  /\ told' = FALSE

Move ==
  /\ status = "BUSY"
  /\ out' \in 0..out /\ in' \in 0..in
  /\ UNCHANGED <<status, told>>

Finish ==
  /\ status = "BUSY"
  /\ out = 0 /\ in = 0
  /\ status' = "DONE"
  /\ UNCHANGED <<out, in, told>>

Tell ==
  /\ status = "DONE"
  /\ ~told
  /\ told' = TRUE
  /\ UNCHANGED <<status, out, in>>

(* spi_init, spi_reset, a timeout or an error *)
Stop ==
  /\ status' \in {"INIT", "ERROR", "TIMEOUT"}
  /\ status' = "ERROR" => status = "BUSY"
  /\ out' = 0 /\ in' = 0
  /\ UNCHANGED told

Next == Accept \/ Move \/ Finish \/ Tell \/ Stop

Spec == Init /\ [][Next]_vars
=============================================================================
