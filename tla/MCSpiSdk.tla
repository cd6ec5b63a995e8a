------------------------------ MODULE MCSpiSdk ------------------------------
(***************************************************************************)
(* Small instances of SpiSdk for TLC.                                      *)
(***************************************************************************)
EXTENDS SpiSdkInv

Seg(d, k) == [dir |-> d, n |-> k]

(* What TLC reads behind the segment array or through NULL. *)
AnySegment == {Seg("DUMMY", 1), Seg("TX", 1)}

(* With FIFOs of two words (plus the word in byte select or byte merge):   *)
(* a transfer longer than the FIFOs in both directions, a second segment   *)
(* that is bidirectional, a long reception behind a command word, and a    *)
(* long transmission behind dummy cycles.                                  *)
PreTxns == {<<Seg("BIDIR", 4)>>,
            <<Seg("TX", 1), Seg("BIDIR", 2)>>,
            <<Seg("TX", 1), Seg("RX", 4)>>,
            <<Seg("DUMMY", 1), Seg("TX", 4)>>}

(* One segment, and two. *)
SmallTxns == {<<Seg("TX", 3)>>, <<Seg("TX", 1), Seg("RX", 3)>>}

(* A command word and the answer. *)
ReadTxns == {<<Seg("TX", 1), Seg("RX", 2)>>}

(* The second segment's first word is not in the controller yet when the   *)
(* segment is issued.                                                      *)
LateTxns == {<<Seg("BIDIR", 3), Seg("TX", 1)>>}
=============================================================================
