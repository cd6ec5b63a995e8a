----------------------------- MODULE SpiSdkInv -----------------------------
(***************************************************************************)
(* The inductive invariant behind the safety of SpiSdk on a peripheral     *)
(* behind the fast interrupt controller, up to the first access error,     *)
(* when no callback starts a transfer.                                     *)
(***************************************************************************)
EXTENDS SpiSdk

(* Every transmit segment but the first begins within the words that the   *)
(* controller can hold before the first command.  Without this the core    *)
(* may find no word for a segment it has been given and look idle.         *)
Preloaded(t) ==
  \A k \in 2..Len(t) : Writes(t[k]) => TxUpTo(t, k - 1) <= TxDepth

Assumptions ==
  /\ Fic /\ ~Relaunch
  /\ \A t \in Txns : Preloaded(t)

(* No command is queued and the core is idle. *)
Quiet == cmds = <<>> /\ ~busy

(* The controller works exactly when it has a command, the handler has not *)
(* met an error, the fast controller has no claim.                         *)
CoreInv ==
  /\ busy <=> cmds # <<>>
  /\ ~err /\ ~claimed

(* A latched event will be acknowledged by a handler that has begun or is  *)
(* about to; events are enabled only with the interrupt.                   *)
IrqInv ==
  /\ intr => pend \/ ipc \in {"errors", "ack"}
  /\ intr /\ intrEn => pend
  /\ evtEn => intrEn \/ mpc = "intr"

(* spi_peripheral_t and the controller hold nothing of a transaction. *)
PeriClear == txn = <<>> /\ scnt = 0 /\ txcnt = 0 /\ rxcnt = 0 /\ ~cb
HostClear == Quiet /\ txq = 0 /\ rxq = 0

(* The launch finds a clean peripheral and is not interrupted; it has      *)
(* filled the transmit FIFO before it enables the events.                  *)
LaunchInv ==
  /\ mpc \in LaunchSteps => ipc = "out" /\ ~pend /\ Quiet /\ rxq = 0 /\ sent = 0 /\ got = 0 /\ asked \in Txns
  /\ mpc \in {"launch", "txn"} => PeriClear /\ txq = 0
  /\ mpc \in LaunchSteps \ {"launch"} => state = "BUSY"
  /\ mpc \in LaunchSteps \ {"launch", "txn"} =>
       /\ txn = asked /\ rxcnt = 0 /\ txcnt = txq /\ txcnt <= TxLen(asked)
       /\ scnt = IF mpc = "cmd" THEN 1 ELSE 0
  /\ mpc \in LaunchSteps \ {"launch", "txn", "fill"} => ~FillsTx
  /\ mpc = "cmd" => seg = asked[1]

(* Where the handler is tells what it has found. *)
HandlerInv ==
  /\ ipc \in {"handle", "tx", "rx", "offevt", "offintr", "last", "done"} => state = "BUSY"
  /\ ipc \in {"cb", "clear"} => state = "DONE"
  /\ ipc \notin {"erroff", "errintr", "errreset"}
  /\ ipc = "handle" => (events.idle => Quiet) /\ (events.ready => Ready)
  /\ ipc \in {"offevt", "offintr", "last", "done", "cb", "clear"} =>
       Quiet /\ scnt = Len(txn)
  /\ ipc \in {"offintr", "last", "done", "cb", "clear"} => ~evtEn
  /\ ipc \in {"done", "cb", "clear"} => ~DrainsRx

(* Outside a transaction everything is clear. *)
ClearInv ==
  /\ state # "BUSY" /\ ipc \notin {"cb", "clear"} /\ mpc \notin {"launch", "swrst"} =>
       PeriClear /\ HostClear
  /\ mpc \in {"swrst", "init"} => PeriClear
  /\ mpc \in {"init", "timeout"} => HostClear
  /\ mpc = "timeout" => state = "INIT"

(* The transaction is under way: its segments have been issued in order,   *)
(* the controller works on the last of those issued, and every word is     *)
(* accounted for.                                                          *)
UnderWay ==
  /\ mpc \in {"app", "wait", "reset"}
  /\ state = "BUSY" \/ ipc \in {"cb", "clear"}

Over == scnt - Len(cmds)     \* segments the controller has finished

(* The words of the segment at the head that have been moved. *)
HeadTx == IF cmds # <<>> /\ Writes(txn[Over + 1]) THEN txn[Over + 1].n - cmds[1].n ELSE 0
HeadRx == IF cmds # <<>> /\ Reads(txn[Over + 1]) THEN txn[Over + 1].n - cmds[1].n ELSE 0

Accounted ==
  /\ txn = asked /\ txn \in Txns
  /\ scnt \in 1..Len(txn) /\ Over >= 0
  /\ \A i \in 1..Len(cmds) :
       /\ cmds[i].dir = txn[Over + i].dir
       /\ cmds[i].n <= txn[Over + i].n
       /\ i > 1 => cmds[i].n = txn[Over + i].n
  /\ sent = TxUpTo(txn, Over) + HeadTx
  /\ got + rxq = RxUpTo(txn, Over) + HeadRx
  /\ txcnt = sent + txq /\ rxcnt = got
  /\ txcnt <= TxLen(txn)
  /\ txcnt = TxLen(txn) \/ txcnt > TxDepth

AccountInv == UnderWay => Accounted

SoundInv ==
  TypeOK /\ CoreInv /\ IrqInv /\ LaunchInv /\ HandlerInv /\ ClearInv /\ AccountInv

(* How the handler's snapshot, the latched event, both program counters,   *)
(* the command queue and the words moved hang together, up to the first    *)
(* access error.                                                           *)
SdkInv == ~err => SoundInv
=============================================================================
