---------------------------- MODULE Sx126xProofs ----------------------------
(***************************************************************************)
(* Theorems about the radio driver, for every set of packets, every        *)
(* timeout, with and without failing vendor calls.                         *)
(*                                                                         *)
(* The inductive invariant is TypeOK and the named parts below. Each part  *)
(* has a lemma that every step preserves it, with one step per action that *)
(* can disturb the part and one for the actions that leave it alone.       *)
(***************************************************************************)
EXTENDS Sx126x, TLAPS

USE PacketsAssumption, TimeoutAssumption, FaultsAssumption
USE DEF ctlVars, txVars, rxVars, flagVars, chipVars, histVars

-----------------------------------------------------------------------------
(* Before and during init nothing is in flight, pending or signalled, and   *)
(* only init may run.                                                        *)
Lifecycle ==
  /\ pc # "idle" => initialized
  /\ (~initialized \/ pc = "config") =>
       /\ ~tx_in_flight /\ last_tx_status = "OK"
       /\ ~rx_pending /\ ~rx_overrun
       /\ chip_irq = {} /\ chip_mode \in {"off", "stdby"}

(* What start_tx has established before each of its vendor calls.           *)
TxSteps ==
  /\ pc \in {"tx_clear", "tx_standby", "tx_load"} =>
       ~tx_in_flight /\ chip_mask = IrqMaskTx
  /\ pc = "tx_go" => tx_in_flight /\ mode = "TX"
  /\ pc = "tx_load" => chip_mode = "stdby"
  /\ ~tx_overlap =>
       /\ pc \in {"tx_clear", "tx_standby"} => chip_mode # "tx"
       /\ pc \in {"tx_standby", "tx_load"} => chip_irq = {}

(* What start_rx has established before each of its vendor calls.           *)
RxSteps ==
  /\ pc \in {"rx_clear", "rx_go", "rx_commit"} => chip_mask = IrqMaskRx
  /\ pc = "rx_commit" => chip_mode = "rx"

(* Every trace of TX_DONE and TIMEOUT, in the chip, in the handler or in the *)
(* flags, is of the transmission in flight, which the chip ends once.        *)
Evidence ==
  /\ pc # "svc_dispatch" => svc = {}
  /\ tx_in_flight /\ ~tx_overlap =>
       /\ tx_done \/ "TX_DONE" \in svc \cup chip_irq => cur_end = "TX_DONE"
       /\ timeout \/ "TIMEOUT" \in svc \cup chip_irq => cur_end = "TIMEOUT"
       /\ pc = "tx_go" \/ chip_mode = "tx" => cur_end = "none"
  /\ pc = "tx_go" => chip_mode = "stdby"

(* What is signalled or latched as received is a packet.                    *)
Buffers ==
  /\ "RX_DONE" \in svc \cup chip_irq => chip_buf \in Packets
  /\ rx_pending => rx_buf \in Packets

IInv == /\ TypeOK /\ NoStuckTx /\ TxIrqNotLost
        /\ Lifecycle /\ TxSteps /\ RxSteps /\ Evidence /\ Buffers

LEMMA InitIInv == Init => IInv
<1> SUFFICES ASSUME Init PROVE IInv
  OBVIOUS
<1>1. FlagsOK
  BY Zenon DEF Init, FlagsOK
<1>2. DataOK
  BY DEF Init, DataOK, Steps, Modes, ChipModes, Status, Events
<1>3. Lifecycle /\ TxSteps /\ RxSteps /\ Evidence /\ Buffers
  BY DEF Init, Lifecycle, TxSteps, RxSteps, Evidence, Buffers
<1>4. NoStuckTx /\ TxIrqNotLost
  BY DEF Init, NoStuckTx, TxIrqNotLost
<1> QED
  BY <1>1, <1>2, <1>3, <1>4 DEF IInv, TypeOK

-----------------------------------------------------------------------------
(* Types.                                                                    *)

(* Every code of the vendor driver is reported as one of the statuses.      *)
LEMMA MapStatusType == \A rc : MapStatus(rc) \in Status
  BY DEF MapStatus, Status

(* A failed service ends the transmission in flight with some status, and   *)
(* takes a failing vendor call.                                              *)
LEMMA PollFailsEnds ==
  ASSUME NEW m, PollFails(m)
  PROVE  /\ VendorFaults
         /\ \/ tx_in_flight /\ \E s \in Status : EndTx(s)
            \/ ~tx_in_flight /\ mode' = m /\ UNCHANGED txVars
<1>1. PICK rc \in FailureCodes :
        IF tx_in_flight THEN EndTx(MapStatus(rc))
                        ELSE mode' = m /\ UNCHANGED txVars
  BY DEF PollFails
<1>2. MapStatus(rc) \in Status
  BY MapStatusType
<1>3. VendorFaults
  BY DEF FailureCodes
<1> QED
  BY <1>1, <1>2, <1>3

LEMMA FlagsStep ==
  FlagsOK /\ [Next]_vars
    => FlagsOK'
<1> SUFFICES ASSUME FlagsOK, [Next]_vars
             PROVE  FlagsOK'
  OBVIOUS
<1> USE DEF FlagsOK
<1>1. CASE InitCall
  BY <1>1, Zenon DEF InitCall, SetIrq
<1>2. CASE ApplyConfig
  BY <1>2, Zenon DEF ApplyConfig, SetIrq
<1>3. CASE StartTx
  BY <1>3, Zenon DEF StartTx, SetIrq, IrqMaskTx
<1>4. CASE TxClearIrq
  BY <1>4, Zenon DEF TxClearIrq, SetIrq
<1>5. CASE TxSetStandby
  BY <1>5, Zenon DEF TxSetStandby
<1>6. CASE TxLoad
  BY <1>6, Zenon DEF TxLoad, ArmTx, ResetFlags
<1>7. CASE TxGo
  BY <1>7, Zenon DEF TxGo, EndTx
<1>8. CASE StartRx
  BY <1>8, Zenon DEF StartRx, SetIrq, IrqMaskRx
<1>9. CASE RxClearIrq
  BY <1>9, Zenon DEF RxClearIrq, SetIrq
<1>10. CASE RxGo
  BY <1>10, Zenon DEF RxGo
<1>11. CASE RxCommit
  BY <1>11, Zenon DEF RxCommit
<1>12. CASE Standby
  BY <1>12, Zenon DEF Standby
<1>13. CASE Read
  BY <1>13, Zenon DEF Read
<1>14. CASE PollCall
  BY <1>14, Zenon DEF PollCall
<1>15. CASE SvcRead
  BY <1>15, Zenon DEF SvcRead, SetIrq, PollFails, EndTx
<1>16. CASE SvcDispatch
  BY <1>16, Zenon DEF SvcDispatch, Dispatch, PollFails, EndTx, ModeAfter,
        LatchRx
<1>17. CASE PollTxDone
  BY <1>17, Zenon DEF PollTxDone, EndTx
<1>18. CASE PollTxTimeout
  BY <1>18, Zenon DEF PollTxTimeout, EndTx
<1>19. CASE PollNothing
  BY <1>19, Zenon DEF PollNothing
<1>20. CASE AbandonCall
  BY <1>20, Zenon DEF AbandonCall
<1>21. CASE ChipTxEnds
  BY <1>21, Zenon DEF ChipTxEnds, Raise, SetIrq, IrqMaskTx
<1>22. CASE ChipRxFrame
  BY <1>22, Zenon DEF ChipRxFrame, Raise, SetIrq
<1>23. CASE HandleDio1Irq
  BY <1>23, Zenon DEF HandleDio1Irq
<1>24. CASE Tick
  BY <1>24, Zenon DEF Tick
<1>25. CASE UNCHANGED vars
  BY <1>25, Zenon DEF vars
<1> QED
  BY <1>1, <1>2, <1>3, <1>4, <1>5, <1>6, <1>7, <1>8, <1>9, <1>10, <1>11,
     <1>12, <1>13, <1>14, <1>15, <1>16, <1>17, <1>18, <1>19, <1>20, <1>21,
     <1>22, <1>23, <1>24, <1>25
  DEF Next, Operation, Continue, Environment

LEMMA DataStep ==
  TypeOK /\ [Next]_vars
    => DataOK'
<1> SUFFICES ASSUME TypeOK, [Next]_vars
             PROVE  DataOK'
  OBVIOUS
<1> USE DEF TypeOK, FlagsOK, DataOK, Steps, Modes, ChipModes, Events, Status
<1>1. CASE InitCall
  <2>1. CASE SetIrq({}, {}) /\ pc' = "config" /\ chip_mode' = "stdby"
    BY <1>1, <2>1 DEF InitCall, SetIrq
  <2>2. CASE UNCHANGED <<pc, chip_mode, chip_irq, chip_mask>>
    BY <1>1, <2>2 DEF InitCall
  <2> QED
    BY <1>1, <2>1, <2>2 DEF InitCall
<1>2. CASE ApplyConfig
  BY <1>2, MapStatusType DEF ApplyConfig, SetIrq
<1>3. CASE StartTx
  BY <1>3, MapStatusType DEF StartTx, SetIrq, IrqMaskTx
<1>4. CASE TxClearIrq
  BY <1>4, MapStatusType DEF TxClearIrq, SetIrq
<1>5. CASE TxSetStandby
  BY <1>5, MapStatusType DEF TxSetStandby
<1>6. CASE TxLoad
  BY <1>6, MapStatusType DEF TxLoad, ArmTx, ResetFlags
<1>7. CASE TxGo
  BY <1>7, MapStatusType DEF TxGo, EndTx
<1>8. CASE StartRx
  BY <1>8, MapStatusType DEF StartRx, SetIrq, IrqMaskRx
<1>9. CASE RxClearIrq
  BY <1>9, MapStatusType DEF RxClearIrq, SetIrq
<1>10. CASE RxGo
  BY <1>10, MapStatusType DEF RxGo
<1>11. CASE RxCommit
  BY <1>11, MapStatusType DEF RxCommit
<1>12. CASE Standby
  BY <1>12, MapStatusType DEF Standby
<1>13. CASE Read
  BY <1>13, MapStatusType DEF Read
<1>14. CASE PollCall
  BY <1>14, MapStatusType DEF PollCall
<1>15. CASE SvcRead
  <2>1. CASE /\ SetIrq({}, chip_mask) /\ svc' = chip_irq
             /\ pc' = "svc_dispatch" /\ UNCHANGED <<mode, txVars>>
    BY <1>15, <2>1 DEF SvcRead, SetIrq
  <2>2. CASE PollFails(mode) /\ UNCHANGED <<svc, chip_irq, chip_mask>>
    <3>1. pc' = "idle"
      BY <2>2 DEF PollFails
    <3>2. CASE tx_in_flight
      <4>1. PICK s \in Status : EndTx(s)
        BY <2>2, <3>2, PollFailsEnds
      <4> QED
        BY <1>15, <2>2, <3>1, <4>1 DEF SvcRead, EndTx
    <3>3. CASE ~tx_in_flight
      <4>1. mode' = mode /\ UNCHANGED txVars
        BY <2>2, <3>3, PollFailsEnds
      <4> QED
        BY <1>15, <2>2, <3>1, <4>1 DEF SvcRead
    <3> QED
      BY <3>2, <3>3
  <2> QED
    BY <1>15, <2>1, <2>2 DEF SvcRead
<1>16. CASE SvcDispatch
  BY <1>16, MapStatusType DEF SvcDispatch, Dispatch, PollFails, EndTx,
        ModeAfter, LatchRx
<1>17. CASE PollTxDone
  BY <1>17, MapStatusType DEF PollTxDone, EndTx
<1>18. CASE PollTxTimeout
  BY <1>18, MapStatusType DEF PollTxTimeout, EndTx
<1>19. CASE PollNothing
  BY <1>19, MapStatusType DEF PollNothing
<1>20. CASE AbandonCall
  BY <1>20, MapStatusType DEF AbandonCall
<1>21. CASE ChipTxEnds
  BY <1>21, MapStatusType DEF ChipTxEnds, Raise, SetIrq, IrqMaskTx
<1>22. CASE ChipRxFrame
  BY <1>22, MapStatusType DEF ChipRxFrame, Raise, SetIrq
<1>23. CASE HandleDio1Irq
  BY <1>23, MapStatusType DEF HandleDio1Irq
<1>24. CASE Tick
  BY <1>24, MapStatusType DEF Tick
<1>25. CASE UNCHANGED vars
  BY <1>25 DEF vars
<1> QED
  BY <1>1, <1>2, <1>3, <1>4, <1>5, <1>6, <1>7, <1>8, <1>9, <1>10, <1>11,
     <1>12, <1>13, <1>14, <1>15, <1>16, <1>17, <1>18, <1>19, <1>20, <1>21,
     <1>22, <1>23, <1>24, <1>25
  DEF Next, Operation, Continue, Environment

(* The fields always hold values of their types; in particular every status  *)
(* the driver stores is one that leos_sx126x_map_status can return.          *)
THEOREM TypeCorrect == Spec => []TypeOK
<1>1. Init => TypeOK
  BY InitIInv DEF IInv
<1>2. TypeOK /\ [Next]_vars => TypeOK'
  BY FlagsStep, DataStep DEF TypeOK
<1> QED
  BY <1>1, <1>2, PTL DEF Spec

-----------------------------------------------------------------------------
(* The parts of the inductive invariant.                                    *)

LEMMA NoStuckTxStep ==
  TypeOK /\ NoStuckTx /\ [Next]_vars
    => NoStuckTx'
<1> SUFFICES ASSUME TypeOK, NoStuckTx, [Next]_vars
             PROVE  NoStuckTx'
  OBVIOUS
<1> USE DEF TypeOK, FlagsOK, DataOK, NoStuckTx
<1>1. CASE InitCall
  BY <1>1 DEF InitCall, SetIrq
<1>2. CASE ApplyConfig
  BY <1>2 DEF ApplyConfig, SetIrq
<1>3. CASE TxLoad
  BY <1>3 DEF TxLoad, ArmTx, ResetFlags
<1>4. CASE TxGo
  BY <1>4 DEF TxGo, EndTx
<1>5. CASE RxCommit
  BY <1>5 DEF RxCommit
<1>6. CASE Standby
  BY <1>6 DEF Standby
<1>7. CASE SvcRead
  BY <1>7 DEF SvcRead, SetIrq, PollFails, EndTx
<1>8. CASE SvcDispatch
  BY <1>8 DEF SvcDispatch, Dispatch, PollFails, EndTx, ModeAfter, LatchRx
<1>9. CASE PollTxDone
  BY <1>9 DEF PollTxDone, EndTx
<1>10. CASE PollTxTimeout
  BY <1>10 DEF PollTxTimeout, EndTx
<1>11. CASE StartTx \/ TxClearIrq \/ TxSetStandby \/ StartRx \/ RxClearIrq
           \/ RxGo \/ Read
  BY <1>11 DEF StartTx, SetIrq, IrqMaskTx, TxClearIrq, TxSetStandby,
        StartRx, IrqMaskRx, RxClearIrq, RxGo, Read
<1>12. CASE PollCall \/ PollNothing \/ AbandonCall \/ ChipTxEnds \/
           ChipRxFrame \/ HandleDio1Irq \/ Tick
  BY <1>12 DEF PollCall, PollNothing, AbandonCall, ChipTxEnds, Raise,
        SetIrq, IrqMaskTx, ChipRxFrame, HandleDio1Irq, Tick
<1>13. CASE UNCHANGED vars
  BY <1>13 DEF vars
<1> QED
  BY <1>1, <1>2, <1>3, <1>4, <1>5, <1>6, <1>7, <1>8, <1>9, <1>10, <1>11,
     <1>12, <1>13
  DEF Next, Operation, Continue, Environment

LEMMA LifecycleStep ==
  TypeOK /\ Lifecycle /\ [Next]_vars
    => Lifecycle'
<1> SUFFICES ASSUME TypeOK, Lifecycle, [Next]_vars
             PROVE  Lifecycle'
  OBVIOUS
<1> USE DEF TypeOK, FlagsOK, DataOK, Lifecycle
<1>1. CASE InitCall
  BY <1>1 DEF InitCall, SetIrq
<1>2. CASE ApplyConfig
  BY <1>2 DEF ApplyConfig, SetIrq
<1>3. CASE SvcRead
  BY <1>3 DEF SvcRead, SetIrq, PollFails, EndTx
<1>4. CASE SvcDispatch
  BY <1>4 DEF SvcDispatch, Dispatch, PollFails, EndTx, ModeAfter, LatchRx
<1>5. CASE ChipTxEnds
  BY <1>5 DEF ChipTxEnds, Raise, SetIrq, IrqMaskTx
<1>6. CASE ChipRxFrame
  BY <1>6 DEF ChipRxFrame, Raise, SetIrq
<1>7. CASE HandleDio1Irq
  BY <1>7 DEF HandleDio1Irq
<1>8. CASE StartTx \/ TxClearIrq \/ TxSetStandby \/ TxLoad \/ TxGo \/
           StartRx \/ RxClearIrq
  BY <1>8 DEF StartTx, SetIrq, IrqMaskTx, TxClearIrq, TxSetStandby, TxLoad,
        ArmTx, ResetFlags, TxGo, EndTx, StartRx, IrqMaskRx, RxClearIrq
<1>9. CASE RxGo \/ RxCommit \/ Standby \/ Read \/ PollCall \/ PollTxDone \/
           PollTxTimeout
  BY <1>9 DEF RxGo, RxCommit, Standby, Read, PollCall, PollTxDone, EndTx,
        PollTxTimeout
<1>10. CASE PollNothing \/ AbandonCall \/ Tick
  BY <1>10 DEF PollNothing, AbandonCall, Tick
<1>11. CASE UNCHANGED vars
  BY <1>11 DEF vars
<1> QED
  BY <1>1, <1>2, <1>3, <1>4, <1>5, <1>6, <1>7, <1>8, <1>9, <1>10, <1>11
  DEF Next, Operation, Continue, Environment

LEMMA TxStepsStep ==
  TypeOK /\ Lifecycle /\ TxSteps /\ [Next]_vars
    => TxSteps'
<1> SUFFICES ASSUME TypeOK, Lifecycle, TxSteps, [Next]_vars
             PROVE  TxSteps'
  OBVIOUS
<1> USE DEF TypeOK, FlagsOK, DataOK, Lifecycle, TxSteps, IrqMaskTx
<1>1. CASE StartTx
  BY <1>1 DEF StartTx, SetIrq
<1>2. CASE TxClearIrq
  BY <1>2 DEF TxClearIrq, SetIrq
<1>3. CASE TxSetStandby
  BY <1>3 DEF TxSetStandby
<1>4. CASE TxLoad
  BY <1>4 DEF TxLoad, ArmTx, ResetFlags
<1>5. CASE TxGo
  BY <1>5 DEF TxGo, EndTx
<1>6. CASE AbandonCall
  BY <1>6 DEF AbandonCall
<1>7. CASE ChipTxEnds
  BY <1>7 DEF ChipTxEnds, Raise, SetIrq
<1>8. CASE ChipRxFrame
  BY <1>8 DEF ChipRxFrame, Raise, SetIrq
<1>9. CASE InitCall \/ ApplyConfig \/ StartRx \/ RxClearIrq \/ RxGo \/
           RxCommit \/ Standby
  BY <1>9 DEF InitCall, SetIrq, ApplyConfig, StartRx, IrqMaskRx, RxClearIrq,
        RxGo, RxCommit, Standby
<1>10. CASE Read \/ PollCall \/ SvcRead \/ SvcDispatch \/ PollTxDone \/
           PollTxTimeout \/ PollNothing
  BY <1>10 DEF Read, PollCall, SvcRead, SetIrq, PollFails, EndTx,
        SvcDispatch, Dispatch, ModeAfter, LatchRx, PollTxDone,
        PollTxTimeout, PollNothing
<1>11. CASE HandleDio1Irq \/ Tick
  BY <1>11 DEF HandleDio1Irq, Tick
<1>12. CASE UNCHANGED vars
  BY <1>12 DEF vars
<1> QED
  BY <1>1, <1>2, <1>3, <1>4, <1>5, <1>6, <1>7, <1>8, <1>9, <1>10, <1>11,
     <1>12
  DEF Next, Operation, Continue, Environment

LEMMA RxStepsStep ==
  TypeOK /\ Lifecycle /\ RxSteps /\ [Next]_vars
    => RxSteps'
<1> SUFFICES ASSUME TypeOK, Lifecycle, RxSteps, [Next]_vars
             PROVE  RxSteps'
  OBVIOUS
<1> USE DEF TypeOK, FlagsOK, DataOK, Lifecycle, RxSteps
<1>1. CASE StartRx
  BY <1>1 DEF StartRx, SetIrq, IrqMaskRx
<1>2. CASE RxClearIrq
  BY <1>2 DEF RxClearIrq, SetIrq
<1>3. CASE RxGo
  BY <1>3 DEF RxGo
<1>4. CASE RxCommit
  BY <1>4 DEF RxCommit
<1>5. CASE AbandonCall
  BY <1>5 DEF AbandonCall
<1>6. CASE ChipTxEnds
  BY <1>6 DEF ChipTxEnds, Raise, SetIrq, IrqMaskTx
<1>7. CASE ChipRxFrame
  BY <1>7 DEF ChipRxFrame, Raise, SetIrq
<1>8. CASE InitCall \/ ApplyConfig \/ StartTx \/ TxClearIrq \/ TxSetStandby
           \/ TxLoad \/ TxGo
  BY <1>8 DEF InitCall, SetIrq, ApplyConfig, StartTx, IrqMaskTx, TxClearIrq,
        TxSetStandby, TxLoad, ArmTx, ResetFlags, TxGo, EndTx
<1>9. CASE Standby \/ Read \/ PollCall \/ SvcRead \/ SvcDispatch \/
           PollTxDone \/ PollTxTimeout
  BY <1>9 DEF Standby, Read, PollCall, SvcRead, SetIrq, PollFails, EndTx,
        SvcDispatch, Dispatch, ModeAfter, LatchRx, PollTxDone, PollTxTimeout
<1>10. CASE PollNothing \/ HandleDio1Irq \/ Tick
  BY <1>10 DEF PollNothing, HandleDio1Irq, Tick
<1>11. CASE UNCHANGED vars
  BY <1>11 DEF vars
<1> QED
  BY <1>1, <1>2, <1>3, <1>4, <1>5, <1>6, <1>7, <1>8, <1>9, <1>10, <1>11
  DEF Next, Operation, Continue, Environment

LEMMA EvidenceStep ==
  TypeOK /\ TxSteps /\ Evidence /\ [Next]_vars
    => Evidence'
<1> SUFFICES ASSUME TypeOK, TxSteps, Evidence, [Next]_vars
             PROVE  Evidence'
  OBVIOUS
<1> USE DEF TypeOK, FlagsOK, DataOK, TxSteps, Evidence, IrqMaskTx
<1>1. CASE InitCall
  BY <1>1 DEF InitCall, SetIrq
<1>2. CASE StartTx
  BY <1>2 DEF StartTx, SetIrq
<1>3. CASE TxLoad
  BY <1>3 DEF TxLoad, ArmTx, ResetFlags
<1>4. CASE TxGo
  BY <1>4 DEF TxGo, EndTx
<1>5. CASE PollCall
  BY <1>5 DEF PollCall
<1>6. CASE SvcRead
  BY <1>6 DEF SvcRead, SetIrq, PollFails, EndTx
<1>7. CASE SvcDispatch
  BY <1>7 DEF SvcDispatch, Dispatch, PollFails, EndTx, ModeAfter, LatchRx
<1>8. CASE PollTxDone
  BY <1>8 DEF PollTxDone, EndTx
<1>9. CASE PollTxTimeout
  BY <1>9 DEF PollTxTimeout, EndTx
<1>10. CASE ChipTxEnds
  BY <1>10 DEF ChipTxEnds, Raise, SetIrq
<1>11. CASE ChipRxFrame
  BY <1>11 DEF ChipRxFrame, Raise, SetIrq
<1>12. CASE ApplyConfig \/ TxClearIrq \/ TxSetStandby \/ StartRx \/
           RxClearIrq \/ RxGo \/ RxCommit
  BY <1>12 DEF ApplyConfig, SetIrq, TxClearIrq, TxSetStandby, StartRx,
        IrqMaskRx, RxClearIrq, RxGo, RxCommit
<1>13. CASE Standby \/ Read \/ PollNothing \/ AbandonCall \/ HandleDio1Irq
           \/ Tick
  BY <1>13 DEF Standby, Read, PollNothing, AbandonCall, HandleDio1Irq, Tick
<1>14. CASE UNCHANGED vars
  BY <1>14 DEF vars
<1> QED
  BY <1>1, <1>2, <1>3, <1>4, <1>5, <1>6, <1>7, <1>8, <1>9, <1>10, <1>11,
     <1>12, <1>13, <1>14
  DEF Next, Operation, Continue, Environment

LEMMA BuffersStep ==
  TypeOK /\ Evidence /\ Buffers /\ [Next]_vars
    => Buffers'
<1> SUFFICES ASSUME TypeOK, Evidence, Buffers, [Next]_vars
             PROVE  Buffers'
  OBVIOUS
<1> USE DEF TypeOK, FlagsOK, DataOK, Evidence, Buffers
<1>1. CASE InitCall
  BY <1>1 DEF InitCall, SetIrq
<1>2. CASE StartTx
  BY <1>2 DEF StartTx, SetIrq, IrqMaskTx
<1>3. CASE StartRx
  BY <1>3 DEF StartRx, SetIrq, IrqMaskRx
<1>4. CASE Read
  BY <1>4 DEF Read
<1>5. CASE SvcRead
  BY <1>5 DEF SvcRead, SetIrq, PollFails, EndTx
<1>6. CASE SvcDispatch
  BY <1>6 DEF SvcDispatch, Dispatch, PollFails, EndTx, ModeAfter, LatchRx
<1>7. CASE ChipTxEnds
  BY <1>7 DEF ChipTxEnds, Raise, SetIrq, IrqMaskTx
<1>8. CASE ChipRxFrame
  BY <1>8 DEF ChipRxFrame, Raise, SetIrq
<1>9. CASE ApplyConfig \/ TxClearIrq \/ TxSetStandby \/ TxLoad \/ TxGo \/
           RxClearIrq \/ RxGo
  BY <1>9 DEF ApplyConfig, SetIrq, TxClearIrq, TxSetStandby, TxLoad, ArmTx,
        ResetFlags, TxGo, EndTx, RxClearIrq, RxGo
<1>10. CASE RxCommit \/ Standby \/ PollCall \/ PollTxDone \/ PollTxTimeout
           \/ PollNothing \/ AbandonCall
  BY <1>10 DEF RxCommit, Standby, PollCall, PollTxDone, EndTx,
        PollTxTimeout, PollNothing, AbandonCall
<1>11. CASE HandleDio1Irq \/ Tick
  BY <1>11 DEF HandleDio1Irq, Tick
<1>12. CASE UNCHANGED vars
  BY <1>12 DEF vars
<1> QED
  BY <1>1, <1>2, <1>3, <1>4, <1>5, <1>6, <1>7, <1>8, <1>9, <1>10, <1>11,
     <1>12
  DEF Next, Operation, Continue, Environment

LEMMA TxIrqNotLostStep ==
  TypeOK /\ Lifecycle /\ TxSteps /\ TxIrqNotLost /\ [Next]_vars
    => TxIrqNotLost'
<1> SUFFICES ASSUME TypeOK, Lifecycle, TxSteps, TxIrqNotLost, [Next]_vars
             PROVE  TxIrqNotLost'
  OBVIOUS
<1> USE DEF TypeOK, FlagsOK, DataOK, Lifecycle, TxSteps, IrqMaskTx,
    TxIrqNotLost, Unattended, Dio1
<1>1. CASE InitCall
  BY <1>1 DEF InitCall, SetIrq
<1>2. CASE StartTx
  BY <1>2 DEF StartTx, SetIrq
<1>3. CASE TxClearIrq
  BY <1>3 DEF TxClearIrq, SetIrq
<1>4. CASE TxLoad
  BY <1>4 DEF TxLoad, ArmTx, ResetFlags
<1>5. CASE TxGo
  BY <1>5 DEF TxGo, EndTx
<1>6. CASE StartRx
  BY <1>6 DEF StartRx, SetIrq, IrqMaskRx
<1>7. CASE RxCommit
  BY <1>7 DEF RxCommit
<1>8. CASE Standby
  BY <1>8 DEF Standby
<1>9. CASE PollCall
  BY <1>9 DEF PollCall
<1>10. CASE SvcRead
  BY <1>10 DEF SvcRead, SetIrq, PollFails, EndTx
<1>11. CASE SvcDispatch
  BY <1>11 DEF SvcDispatch, Dispatch, PollFails, EndTx, ModeAfter, LatchRx
<1>12. CASE ChipTxEnds
  BY <1>12 DEF ChipTxEnds, Raise, SetIrq
<1>13. CASE ChipRxFrame
  BY <1>13 DEF ChipRxFrame, Raise, SetIrq
<1>14. CASE HandleDio1Irq
  BY <1>14 DEF HandleDio1Irq
<1>15. CASE ApplyConfig \/ TxSetStandby \/ RxClearIrq \/ RxGo \/ Read \/
           PollTxDone \/ PollTxTimeout
  BY <1>15 DEF ApplyConfig, SetIrq, TxSetStandby, RxClearIrq, RxGo, Read,
        PollTxDone, EndTx, PollTxTimeout
<1>16. CASE PollNothing \/ AbandonCall \/ Tick
  BY <1>16 DEF PollNothing, AbandonCall, Tick
<1>17. CASE UNCHANGED vars
  BY <1>17 DEF vars
<1> QED
  BY <1>1, <1>2, <1>3, <1>4, <1>5, <1>6, <1>7, <1>8, <1>9, <1>10, <1>11,
     <1>12, <1>13, <1>14, <1>15, <1>16, <1>17
  DEF Next, Operation, Continue, Environment

LEMMA IInvStep == IInv /\ [Next]_vars => IInv'
<1> SUFFICES ASSUME IInv, [Next]_vars PROVE IInv'
  OBVIOUS
<1>1. TypeOK'
  BY FlagsStep, DataStep DEF IInv, TypeOK
<1>2. Lifecycle' /\ TxSteps' /\ RxSteps'
  BY LifecycleStep, TxStepsStep, RxStepsStep DEF IInv
<1>3. Evidence' /\ Buffers'
  BY EvidenceStep, BuffersStep DEF IInv
<1>4. NoStuckTx' /\ TxIrqNotLost'
  BY NoStuckTxStep, TxIrqNotLostStep DEF IInv
<1> QED
  BY <1>1, <1>2, <1>3, <1>4 DEF IInv

THEOREM IInvAlways == Spec => []IInv
  BY InitIInv, IInvStep, PTL DEF Spec

(* The driver never shows TX without a transmission in flight, so start_tx   *)
(* and start_rx never refuse for good.                                       *)
THEOREM NeverStuckInTx == Spec => []NoStuckTx
<1>1. IInv => NoStuckTx
  BY DEF IInv
<1> QED
  BY <1>1, IInvAlways, PTL

(* An event of the chip always has its edge or its latch while a             *)
(* transmission is in flight in mode TX, unless it overlapped another.       *)
THEOREM TxInterruptsReachPoll == Spec => []TxIrqNotLost
<1>1. IInv => TxIrqNotLost
  BY DEF IInv
<1> QED
  BY <1>1, IInvAlways, PTL

-----------------------------------------------------------------------------
(* Action properties.                                                        *)

OkStep ==
  tx_in_flight /\ ~tx_in_flight' /\ last_tx_status' = "OK" /\ ~tx_overlap
    => cur_end = "TX_DONE"

LEMMA OkStepHolds ==
  TypeOK /\ Lifecycle /\ Evidence /\ [Next]_vars
    => OkStep
<1> SUFFICES ASSUME TypeOK, Lifecycle, Evidence, [Next]_vars
             PROVE  OkStep
  OBVIOUS
<1> USE DEF TypeOK, FlagsOK, DataOK, Lifecycle, Evidence, OkStep
<1>1. CASE InitCall
  BY <1>1 DEF InitCall, SetIrq
<1>2. CASE TxLoad
  BY <1>2 DEF TxLoad, ArmTx, ResetFlags
<1>3. CASE TxGo
  <2>1. \A rc \in FailureCodes : MapStatus(rc) # "OK"
    BY DEF FailureCodes, MapStatus
  <2> QED
    BY <1>3, <2>1 DEF TxGo, EndTx
<1>4. CASE SvcRead
  <2>1. \A rc \in FailureCodes : MapStatus(rc) # "OK"
    BY DEF FailureCodes, MapStatus
  <2> QED
    BY <1>4, <2>1 DEF SvcRead, PollFails, EndTx
<1>5. CASE SvcDispatch
  <2>1. \A rc \in FailureCodes : MapStatus(rc) # "OK"
    BY DEF FailureCodes, MapStatus
  <2> QED
    BY <1>5, <2>1 DEF SvcDispatch, Dispatch, PollFails, EndTx
<1>6. CASE PollTxDone
  BY <1>6 DEF PollTxDone, EndTx
<1>7. CASE PollTxTimeout
  BY <1>7 DEF PollTxTimeout, EndTx
<1>8. CASE ApplyConfig \/ StartTx \/ TxClearIrq \/ TxSetStandby \/ StartRx
           \/ RxClearIrq \/ RxGo
  BY <1>8 DEF ApplyConfig, SetIrq, StartTx, IrqMaskTx, TxClearIrq,
        TxSetStandby, StartRx, IrqMaskRx, RxClearIrq, RxGo
<1>9. CASE RxCommit \/ Standby \/ Read \/ PollCall \/ PollNothing \/
           AbandonCall \/ ChipTxEnds
  BY <1>9 DEF RxCommit, Standby, Read, PollCall, PollNothing, AbandonCall,
        ChipTxEnds, Raise, SetIrq, IrqMaskTx
<1>10. CASE ChipRxFrame \/ HandleDio1Irq \/ Tick
  BY <1>10 DEF ChipRxFrame, Raise, SetIrq, HandleDio1Irq, Tick
<1>11. CASE UNCHANGED vars
  BY <1>11 DEF vars
<1> QED
  BY <1>1, <1>2, <1>3, <1>4, <1>5, <1>6, <1>7, <1>8, <1>9, <1>10, <1>11
  DEF Next, Operation, Continue, Environment

(* A transmission ends with LEOS_RADIO_OK only if its own frame went out,    *)
(* unless start_tx found the chip still sending the one before it.           *)
THEOREM OkIsEarned == Spec => OkMeansSent
<1>1. IInv /\ [Next]_vars => [OkStep]_vars
  BY OkStepHolds DEF IInv
<1> QED
  BY <1>1, IInvAlways, PTL DEF Spec, OkMeansSent, OkStep

TimeoutStep ==
  tx_in_flight /\ ~tx_in_flight' /\ last_tx_status' = "ERR_TIMEOUT" /\ ~tx_overlap
    => \/ tx_age = TxTimeout \/ cur_end = "TIMEOUT"
       \/ VendorFaults /\ pc # "poll_finish"

LEMMA TimeoutStepHolds ==
  TypeOK /\ Lifecycle /\ Evidence /\ [Next]_vars
    => TimeoutStep
<1> SUFFICES ASSUME TypeOK, Lifecycle, Evidence, [Next]_vars
             PROVE  TimeoutStep
  OBVIOUS
<1> USE DEF TypeOK, FlagsOK, DataOK, Lifecycle, Evidence, TimeoutStep
<1>1. CASE InitCall
  BY <1>1 DEF InitCall, SetIrq
<1>2. CASE TxLoad
  BY <1>2 DEF TxLoad, ArmTx, ResetFlags
<1>3. CASE TxGo
  BY <1>3 DEF TxGo, FailureCodes
<1>4. CASE SvcRead
  BY <1>4, PollFailsEnds DEF SvcRead
<1>5. CASE SvcDispatch
  BY <1>5, PollFailsEnds DEF SvcDispatch, Dispatch
<1>6. CASE PollTxDone
  BY <1>6 DEF PollTxDone, EndTx
<1>7. CASE PollTxTimeout
  BY <1>7 DEF PollTxTimeout, TxExpired, EndTx
<1>8. CASE ApplyConfig \/ StartTx \/ TxClearIrq \/ TxSetStandby \/ StartRx
           \/ RxClearIrq \/ RxGo
  BY <1>8 DEF ApplyConfig, SetIrq, StartTx, IrqMaskTx, TxClearIrq,
        TxSetStandby, StartRx, IrqMaskRx, RxClearIrq, RxGo
<1>9. CASE RxCommit \/ Standby \/ Read \/ PollCall \/ PollNothing \/
           AbandonCall \/ ChipTxEnds
  BY <1>9 DEF RxCommit, Standby, Read, PollCall, PollNothing, AbandonCall,
        ChipTxEnds, Raise, SetIrq, IrqMaskTx
<1>10. CASE ChipRxFrame \/ HandleDio1Irq \/ Tick
  BY <1>10 DEF ChipRxFrame, Raise, SetIrq, HandleDio1Irq, Tick
<1>11. CASE UNCHANGED vars
  BY <1>11 DEF vars
<1> QED
  BY <1>1, <1>2, <1>3, <1>4, <1>5, <1>6, <1>7, <1>8, <1>9, <1>10, <1>11
  DEF Next, Operation, Continue, Environment

(* A transmission ends with LEOS_RADIO_ERR_TIMEOUT only if its own time is   *)
(* up, the chip's timer ended its own frame or a failing vendor call reports *)
(* one, unless start_tx found the chip still sending the one before it.      *)
THEOREM TimeoutIsEarnedAlways == Spec => TimeoutIsEarned
<1>1. IInv /\ [Next]_vars => [TimeoutStep]_vars
  BY TimeoutStepHolds DEF IInv
<1> QED
  BY <1>1, IInvAlways, PTL DEF Spec, TimeoutIsEarned, TimeoutStep

StrandStep ==
  ~Unattended /\ Unattended' =>
    \/ pc = "rx_commit"
    \/ pc = "tx_load" /\ tx_overlap
    \/ pc = "svc_read" /\ VendorFaults

LEMMA StrandStepHolds ==
  TypeOK /\ Lifecycle /\ TxSteps /\ [Next]_vars
    => StrandStep
<1> SUFFICES ASSUME TypeOK, Lifecycle, TxSteps, [Next]_vars
             PROVE  StrandStep
  OBVIOUS
<1> USE DEF TypeOK, FlagsOK, DataOK, Lifecycle, TxSteps, IrqMaskTx,
    StrandStep, Unattended, Dio1
<1>1. CASE InitCall
  BY <1>1 DEF InitCall, SetIrq
<1>2. CASE StartTx
  BY <1>2 DEF StartTx, SetIrq
<1>3. CASE TxClearIrq
  BY <1>3 DEF TxClearIrq, SetIrq
<1>4. CASE TxLoad
  BY <1>4 DEF TxLoad, ArmTx, ResetFlags
<1>5. CASE TxGo
  BY <1>5 DEF TxGo, EndTx
<1>6. CASE StartRx
  BY <1>6 DEF StartRx, SetIrq, IrqMaskRx
<1>7. CASE RxClearIrq
  BY <1>7 DEF RxClearIrq, SetIrq
<1>8. CASE RxCommit
  BY <1>8 DEF RxCommit
<1>9. CASE PollCall
  BY <1>9 DEF PollCall
<1>10. CASE SvcRead
  <2>1. CASE PollFails(mode)
    BY <1>10, <2>1, PollFailsEnds DEF SvcRead
  <2>2. CASE SetIrq({}, chip_mask)
    BY <1>10, <2>2 DEF SetIrq
  <2> QED
    BY <1>10, <2>1, <2>2 DEF SvcRead
<1>11. CASE SvcDispatch
  BY <1>11 DEF SvcDispatch, Dispatch, PollFails, EndTx, ModeAfter, LatchRx
<1>12. CASE ChipTxEnds
  BY <1>12 DEF ChipTxEnds, Raise, SetIrq
<1>13. CASE ChipRxFrame
  BY <1>13 DEF ChipRxFrame, Raise, SetIrq
<1>14. CASE HandleDio1Irq
  BY <1>14 DEF HandleDio1Irq
<1>15. CASE ApplyConfig \/ TxSetStandby \/ RxGo \/ Standby \/ Read \/
           PollTxDone \/ PollTxTimeout
  BY <1>15 DEF ApplyConfig, SetIrq, TxSetStandby, RxGo, Standby, Read,
        PollTxDone, EndTx, PollTxTimeout
<1>16. CASE PollNothing \/ AbandonCall \/ Tick
  BY <1>16 DEF PollNothing, AbandonCall, Tick
<1>17. CASE UNCHANGED vars
  BY <1>17 DEF vars
<1> QED
  BY <1>1, <1>2, <1>3, <1>4, <1>5, <1>6, <1>7, <1>8, <1>9, <1>10, <1>11,
     <1>12, <1>13, <1>14, <1>15, <1>16, <1>17
  DEF Next, Operation, Continue, Environment

(* An interrupt is stranded only at the end of start_rx, by start_tx over a   *)
(* chip still sending, or by a failure to read it.                           *)
THEOREM NoOtherStranding == Spec => StrandedOnlyBy
<1>1. IInv /\ [Next]_vars => [StrandStep]_vars
  BY StrandStepHolds DEF IInv
<1> QED
  BY <1>1, IInvAlways, PTL DEF Spec, StrandedOnlyBy, StrandStep

(* While mode is RX the chip does not send and no trace of a sent frame is    *)
(* left that the interrupt handler could take for the end of one; start_rx    *)
(* establishes it before it sets the mode.                                   *)
RxQuiet ==
  /\ pc \in {"rx_go", "rx_commit"} => "TX_DONE" \notin chip_irq
  /\ mode = "RX" => chip_mode # "tx" /\ "TX_DONE" \notin chip_irq \cup svc

LEMMA RxQuietStep ==
  TypeOK /\ Lifecycle /\ TxSteps /\ RxSteps /\ Evidence /\ RxQuiet /\ [Next]_vars
    => RxQuiet'
<1> SUFFICES ASSUME TypeOK, Lifecycle, TxSteps, RxSteps, Evidence, RxQuiet, [Next]_vars
             PROVE  RxQuiet'
  OBVIOUS
<1> USE DEF TypeOK, FlagsOK, DataOK, Lifecycle, TxSteps, RxSteps, Evidence, RxQuiet
<1>1. CASE RxClearIrq
  BY <1>1 DEF RxClearIrq, SetIrq
<1>2. CASE RxGo
  BY <1>2 DEF RxGo
<1>3. CASE RxCommit
  BY <1>3 DEF RxCommit
<1>4. CASE TxLoad
  BY <1>4 DEF TxLoad, ArmTx, ResetFlags
<1>5. CASE TxGo
  BY <1>5 DEF TxGo, EndTx
<1>6. CASE ChipTxEnds
  BY <1>6 DEF ChipTxEnds, Raise, SetIrq, IrqMaskRx
<1>7. CASE ChipRxFrame
  BY <1>7 DEF ChipRxFrame, Raise, SetIrq
<1>8. CASE SvcRead
  BY <1>8 DEF SvcRead, SetIrq, PollFails, EndTx
<1>9. CASE SvcDispatch
  BY <1>9 DEF SvcDispatch, Dispatch, PollFails, EndTx, ModeAfter
<1>10. CASE InitCall \/ ApplyConfig \/ StartTx \/ StartRx \/ Standby
  BY <1>10 DEF InitCall, ApplyConfig, StartTx, StartRx, Standby, SetIrq
<1>11. CASE TxClearIrq \/ TxSetStandby \/ Read \/ PollCall
  BY <1>11 DEF TxClearIrq, TxSetStandby, Read, PollCall, SetIrq
<1>12. CASE PollTxDone \/ PollTxTimeout
  BY <1>12 DEF PollTxDone, PollTxTimeout, EndTx
<1>13. CASE PollNothing \/ AbandonCall \/ HandleDio1Irq \/ Tick
  BY <1>13 DEF PollNothing, AbandonCall, HandleDio1Irq, Tick
<1>14. CASE UNCHANGED vars
  BY <1>14 DEF vars
<1> QED
  BY <1>1, <1>2, <1>3, <1>4, <1>5, <1>6, <1>7, <1>8, <1>9, <1>10, <1>11,
     <1>12, <1>13, <1>14
  DEF Next, Operation, Continue, Environment

LeaveRxStep ==
  mode = "RX" /\ mode' # "RX" /\ chip_mode' = "rx" => tx_in_flight /\ ~tx_in_flight'

(* Only poll changes the mode while the chip receives; the callback leaves RX *)
(* only for a TX_DONE, and there is none.                                    *)
LEMMA LeaveRxStepHolds ==
  TypeOK /\ Lifecycle /\ TxSteps /\ Evidence /\ RxQuiet /\ [Next]_vars => LeaveRxStep
<1> SUFFICES ASSUME TypeOK, Lifecycle, TxSteps, Evidence, RxQuiet, [Next]_vars
             PROVE  LeaveRxStep
  OBVIOUS
<1> USE DEF TypeOK, FlagsOK, DataOK, Lifecycle, TxSteps, Evidence, RxQuiet, LeaveRxStep
<1>1. CASE InitCall \/ ApplyConfig \/ Standby
  BY <1>1 DEF InitCall, ApplyConfig, Standby
<1>2. CASE TxLoad
  BY <1>2 DEF TxLoad, ArmTx
<1>3. CASE TxGo
  BY <1>3 DEF TxGo, EndTx
<1>4. CASE SvcRead
  BY <1>4 DEF SvcRead, PollFails, EndTx
<1>5. CASE SvcDispatch
  <2>1. mode = "RX" => \A events \in SUBSET svc : ModeAfter(events) = "RX"
    BY DEF ModeAfter
  <2> QED
    BY <1>5, <2>1 DEF SvcDispatch, Dispatch, PollFails, EndTx
<1>6. CASE PollTxDone \/ PollTxTimeout
  BY <1>6 DEF PollTxDone, PollTxTimeout, EndTx
<1>7. CASE StartTx \/ TxClearIrq \/ TxSetStandby \/ StartRx \/ RxClearIrq \/ RxGo
           \/ RxCommit \/ Read \/ PollCall
  BY <1>7 DEF StartTx, TxClearIrq, TxSetStandby, StartRx, RxClearIrq, RxGo, RxCommit,
        Read, PollCall
<1>8. CASE PollNothing \/ AbandonCall \/ ChipTxEnds \/ ChipRxFrame \/ HandleDio1Irq
           \/ Tick
  BY <1>8 DEF PollNothing, AbandonCall, ChipTxEnds, ChipRxFrame, HandleDio1Irq, Tick
<1>9. CASE UNCHANGED vars
  BY <1>9 DEF vars
<1> QED
  BY <1>1, <1>2, <1>3, <1>4, <1>5, <1>6, <1>7, <1>8, <1>9
  DEF Next, Operation, Continue, Environment

(* While the chip receives, the mode leaves RX only with the end of a          *)
(* transmission that was in flight when reception was started.               *)
THEOREM RxModeLeavesWithTx == Spec => RxLeftOnlyByTxEnd
<1>1. Init => RxQuiet
  BY DEF Init, RxQuiet
<1>2. IInv /\ RxQuiet /\ [Next]_vars => RxQuiet'
  BY RxQuietStep DEF IInv
<1>3. IInv /\ RxQuiet /\ [Next]_vars => [LeaveRxStep]_vars
  BY LeaveRxStepHolds DEF IInv
<1> QED
  BY <1>1, <1>2, <1>3, IInvAlways, PTL DEF Spec, RxLeftOnlyByTxEnd, LeaveRxStep

LEMMA RxArmedStep ==
  ~VendorFaults /\ TypeOK /\ Lifecycle /\ TxSteps /\ RxSteps /\ RxArmed /\ [Next]_vars
    => RxArmed'
<1> SUFFICES ASSUME ~VendorFaults, TypeOK, Lifecycle, TxSteps, RxSteps, RxArmed, [Next]_vars
             PROVE  RxArmed'
  OBVIOUS
<1> USE DEF TypeOK, FlagsOK, DataOK, Lifecycle, TxSteps, RxSteps, RxArmed,
    FailureCodes
<1>1. CASE StartTx
  BY <1>1 DEF StartTx, SetIrq, IrqMaskTx
<1>2. CASE TxLoad
  BY <1>2 DEF TxLoad, ArmTx, ResetFlags
<1>3. CASE TxGo
  BY <1>3 DEF TxGo, EndTx
<1>4. CASE StartRx
  BY <1>4 DEF StartRx, SetIrq, IrqMaskRx
<1>5. CASE RxGo
  BY <1>5 DEF RxGo
<1>6. CASE RxCommit
  BY <1>6 DEF RxCommit
<1>7. CASE Standby
  BY <1>7 DEF Standby
<1>8. CASE SvcRead
  BY <1>8 DEF SvcRead, SetIrq, PollFails, EndTx
<1>9. CASE SvcDispatch
  BY <1>9 DEF SvcDispatch, Dispatch, PollFails, EndTx, ModeAfter, LatchRx
<1>10. CASE PollTxDone
  BY <1>10 DEF PollTxDone, EndTx
<1>11. CASE PollTxTimeout
  BY <1>11 DEF PollTxTimeout, EndTx
<1>12. CASE ChipTxEnds
  BY <1>12 DEF ChipTxEnds, Raise, SetIrq, IrqMaskTx
<1>13. CASE InitCall \/ ApplyConfig \/ TxClearIrq \/ TxSetStandby \/
           RxClearIrq \/ Read \/ PollCall
  BY <1>13 DEF InitCall, SetIrq, ApplyConfig, TxClearIrq, TxSetStandby,
        RxClearIrq, Read, PollCall
<1>14. CASE PollNothing \/ AbandonCall \/ ChipRxFrame \/ HandleDio1Irq \/
           Tick
  BY <1>14 DEF PollNothing, AbandonCall, ChipRxFrame, Raise, SetIrq,
        HandleDio1Irq, Tick
<1>15. CASE UNCHANGED vars
  BY <1>15 DEF vars
<1> QED
  BY <1>1, <1>2, <1>3, <1>4, <1>5, <1>6, <1>7, <1>8, <1>9, <1>10, <1>11,
     <1>12, <1>13, <1>14, <1>15
  DEF Next, Operation, Continue, Environment

(* Without vendor faults a driver in RX has a chip that receives and          *)
(* signals packets on DIO1.                                                  *)
THEOREM RxStaysArmed == ~VendorFaults => (Spec => []RxArmed)
<1> SUFFICES ASSUME ~VendorFaults PROVE Spec => []RxArmed
  OBVIOUS
<1>1. Init => RxArmed
  BY DEF Init, RxArmed
<1>2. IInv /\ RxArmed /\ [Next]_vars => RxArmed'
  BY RxArmedStep DEF IInv
<1> QED
  BY <1>1, <1>2, IInvAlways, PTL DEF Spec

-----------------------------------------------------------------------------
(* Refinement.                                                               *)

LEMMA EndTxEnds ==
  ASSUME TypeOK, tx_in_flight, NEW s \in Status, EndTx(s)
  PROVE  Session!End
  BY DEF EndTx, Session!End, TypeOK, FlagsOK

LEMMA PollFailsRefines ==
  ASSUME TypeOK, NEW m, PollFails(m)
  PROVE  [Session!Next]_<<tx_in_flight, last_tx_status>>
  BY PollFailsEnds, EndTxEnds DEF Session!Next

LEMMA SessionStep ==
  TypeOK /\ Lifecycle /\ TxSteps /\ [Next]_vars
    => [Session!Next]_<<tx_in_flight, last_tx_status>>
<1> SUFFICES ASSUME TypeOK, Lifecycle, TxSteps, [Next]_vars
             PROVE  [Session!Next]_<<tx_in_flight, last_tx_status>>
  OBVIOUS
<1> USE DEF TypeOK, FlagsOK, DataOK, Lifecycle, TxSteps, Status,
    Session!Next, Session!Begin, Session!End
<1>1. CASE InitCall
  BY <1>1 DEF InitCall, SetIrq
<1>2. CASE TxLoad
  BY <1>2 DEF TxLoad, ArmTx, ResetFlags
<1>3. CASE TxGo
  <2>1. ASSUME NEW rc, EndTx(MapStatus(rc)) PROVE Session!Next
    <3>1. MapStatus(rc) \in Status
      BY MapStatusType
    <3>2. tx_in_flight
      BY <1>3 DEF TxGo
    <3> QED
      BY <2>1, <3>1, <3>2, EndTxEnds
  <2> QED
    BY <1>3, <2>1 DEF TxGo
<1>4. CASE SvcRead
  BY <1>4, PollFailsRefines DEF SvcRead
<1>5. CASE SvcDispatch
  BY <1>5, PollFailsRefines DEF SvcDispatch, Dispatch
<1>6. CASE PollTxDone
  BY <1>6 DEF PollTxDone, EndTx
<1>7. CASE PollTxTimeout
  BY <1>7 DEF PollTxTimeout, EndTx
<1>8. CASE ApplyConfig \/ StartTx \/ TxClearIrq \/ TxSetStandby \/ StartRx
           \/ RxClearIrq \/ RxGo
  BY <1>8 DEF ApplyConfig, SetIrq, StartTx, IrqMaskTx, TxClearIrq,
        TxSetStandby, StartRx, IrqMaskRx, RxClearIrq, RxGo
<1>9. CASE RxCommit \/ Standby \/ Read \/ PollCall \/ PollNothing \/
           AbandonCall \/ ChipTxEnds
  BY <1>9 DEF RxCommit, Standby, Read, PollCall, PollNothing, AbandonCall,
        ChipTxEnds, Raise, SetIrq, IrqMaskTx
<1>10. CASE ChipRxFrame \/ HandleDio1Irq \/ Tick
  BY <1>10 DEF ChipRxFrame, Raise, SetIrq, HandleDio1Irq, Tick
<1>11. CASE UNCHANGED vars
  BY <1>11 DEF vars
<1> QED
  BY <1>1, <1>2, <1>3, <1>4, <1>5, <1>6, <1>7, <1>8, <1>9, <1>10, <1>11
  DEF Next, Operation, Continue, Environment

(* Transmissions are accepted one at a time, each is ended once, and its      *)
(* status stays readable until the next one begins.                          *)
THEOREM RefinesTxSession == Spec => TxSessionSafe
<1>1. Init => Session!Init
  BY DEF Init, Session!Init
<1>2. IInv /\ [Next]_vars => [Session!Next]_<<tx_in_flight, last_tx_status>>
  BY SessionStep DEF IInv
<1> QED
  BY <1>1, <1>2, IInvAlways, PTL DEF Spec, TxSessionSafe, Session!Spec

LEMMA MailboxStep ==
  TypeOK /\ Lifecycle /\ Buffers /\ [Next]_vars
    => [Mailbox!Next]_<<IF rx_pending THEN rx_buf ELSE NoPacket, rx_overrun>>
<1> SUFFICES ASSUME TypeOK, Lifecycle, Buffers, [Next]_vars
             PROVE  [Mailbox!Next]_<<IF rx_pending THEN rx_buf ELSE NoPacket, rx_overrun>>
  OBVIOUS
<1> USE DEF TypeOK, FlagsOK, DataOK, Lifecycle, Buffers, Mailbox!Next,
    Mailbox!Put, Mailbox!Drop, Mailbox!Take
<1>1. CASE InitCall
  BY <1>1 DEF InitCall, SetIrq
<1>2. CASE Read
  BY <1>2 DEF Read
<1>3. CASE SvcDispatch
  BY <1>3 DEF SvcDispatch, Dispatch, PollFails, EndTx, ModeAfter, LatchRx
<1>4. CASE ApplyConfig \/ StartTx \/ TxClearIrq \/ TxSetStandby \/ TxLoad \/
           TxGo \/ StartRx
  BY <1>4 DEF ApplyConfig, SetIrq, StartTx, IrqMaskTx, TxClearIrq,
        TxSetStandby, TxLoad, ArmTx, ResetFlags, TxGo, EndTx, StartRx,
        IrqMaskRx
<1>5. CASE RxClearIrq \/ RxGo \/ RxCommit \/ Standby \/ PollCall \/ SvcRead
           \/ PollTxDone
  BY <1>5 DEF RxClearIrq, SetIrq, RxGo, RxCommit, Standby, PollCall,
        SvcRead, PollFails, EndTx, PollTxDone
<1>6. CASE PollTxTimeout \/ PollNothing \/ AbandonCall \/ ChipTxEnds \/
           ChipRxFrame \/ HandleDio1Irq \/ Tick
  BY <1>6 DEF PollTxTimeout, EndTx, PollNothing, AbandonCall, ChipTxEnds,
        Raise, SetIrq, IrqMaskTx, ChipRxFrame, HandleDio1Irq, Tick
<1>7. CASE UNCHANGED vars
  BY <1>7 DEF vars
<1> QED
  BY <1>1, <1>2, <1>3, <1>4, <1>5, <1>6, <1>7
  DEF Next, Operation, Continue, Environment

(* Reception is a one-packet mailbox: the oldest unread packet is kept, a      *)
(* drop is remembered, no packet is read twice out of one latch.             *)
THEOREM RefinesRxMailbox == Spec => RxIsMailbox
<1>1. Init => Mailbox!Init
  BY DEF Init, Mailbox!Init
<1>2. IInv /\ [Next]_vars =>
        [Mailbox!Next]_<<IF rx_pending THEN rx_buf ELSE NoPacket, rx_overrun>>
  BY MailboxStep DEF IInv
<1> QED
  BY <1>1, <1>2, IInvAlways, PTL DEF Spec, RxIsMailbox, Mailbox!Spec
=============================================================================
