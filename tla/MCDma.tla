------------------------------- MODULE MCDma -------------------------------
(***************************************************************************)
(* Small instances of Dma for TLC.                                         *)
(***************************************************************************)
EXTENDS Dma

T(c, e, m, w, x) == [channel |-> c, end |-> e, mode |-> m, window |-> w,
                     critical |-> x]

(* A circular transaction on the channel of high priority; on the other    *)
(* one a transaction with windows, a polled one, and one that validation   *)
(* refused.                                                                *)
MCTrans == {T(0, "INTR", "CIRCULAR", FALSE, FALSE),
            T(1, "INTR_WAIT", "SINGLE", TRUE, FALSE),
            T(1, "POLLING", "SINGLE", FALSE, FALSE),
            T(1, "INTR", "SINGLE", FALSE, TRUE)}
=============================================================================
