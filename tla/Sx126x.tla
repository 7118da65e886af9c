------------------------------- MODULE Sx126x -------------------------------
(***************************************************************************)
(* The SX126x radio driver (src/leos_sx126x/sx126x.c): the context of one  *)
(* radio, the public operations, the DIO1 interrupt handler that may       *)
(* preempt them, and the radio chip they talk to over SPI.                 *)
(*                                                                         *)
(* The application runs one thread, so at most one operation is active.    *)
(* An operation is split where the chip or the interrupt handler can run   *)
(* between two of its effects: pc names the vendor call it does next.      *)
(* Operations refused by a guard (ERR_ARG, ERR_STATE, ERR_BUSY) change     *)
(* nothing and appear as stuttering steps.                                 *)
(***************************************************************************)
EXTENDS Naturals

CONSTANTS
  Packets,        \* packets that can arrive over the air
  Damaged,        \* those of them whose checksum does not match
  NoPacket,       \* content of a buffer that never held a packet
  TxTimeout,      \* config.tx_timeout_ms, in clock ticks
  VendorFaults    \* may a call of the vendor driver return an error?

ASSUME PacketsAssumption == Damaged \subseteq Packets /\ NoPacket \notin Packets
ASSUME TimeoutAssumption == TxTimeout \in Nat
ASSUME FaultsAssumption  == VendorFaults \in BOOLEAN

VARIABLES
  pc,             \* "idle", or the vendor call the application does next
  initialized, mode, irq_pending,
  tx_in_flight, last_tx_status,
  tx_age,         \* now_ms - tx_started_at_ms, saturated at TxTimeout
  rx_pending, rx_buf, rx_overrun,
  tx_done, timeout,  \* flags of the vendor handle
  svc,            \* events the vendor interrupt handler is dispatching
  chip_mode, chip_mask, chip_irq,  \* operating mode, DIO1 mask, IRQ status
  chip_buf,       \* receive buffer of the chip
  dio_edge,       \* DIO1 rose and the application's ISR has not run yet
  cur_end,        \* history: how the chip ended the last accepted start_tx
  tx_overlap      \* history: the last start_tx found the chip still sending

ctlVars  == <<pc, initialized, mode, irq_pending, svc>>
txVars   == <<tx_in_flight, last_tx_status, tx_age>>
rxVars   == <<rx_pending, rx_buf, rx_overrun>>
flagVars == <<tx_done, timeout>>
chipVars == <<chip_mode, chip_mask, chip_irq, chip_buf, dio_edge>>
histVars == <<cur_end, tx_overlap>>
vars == <<ctlVars, txVars, rxVars, flagVars, chipVars, histVars>>

Events    == {"TX_DONE", "RX_DONE", "TIMEOUT", "CRC_ERR"}
IrqMaskTx == {"TX_DONE", "TIMEOUT"}
IrqMaskRx == {"RX_DONE", "TIMEOUT", "CRC_ERR"}

Modes     == {"UNINIT", "STANDBY", "RX", "TX"}
ChipModes == {"off", "stdby", "rx", "tx"}
Status    == {"OK", "ERR_TIMEOUT", "ERR_BUSY", "ERR_DRIVER"}
Steps     == {"idle", "config", "tx_clear", "tx_standby", "tx_load", "tx_go",
              "rx_clear", "rx_go", "rx_commit",
              "svc_read", "svc_dispatch", "poll_finish"}

MapStatus_DefaultArg(rc) ==
  CASE rc = 0        -> "OK"
    [] rc = 4        -> "ERR_BUSY"
    [] rc \in {5, 6} -> "ERR_TIMEOUT"
    [] OTHER         -> "ERR_ARG"

MapStatus(rc) ==
  CASE rc = 0        -> "OK"
    [] rc = 4        -> "ERR_BUSY"
    [] rc \in {5, 6} -> "ERR_TIMEOUT"
    [] OTHER         -> "ERR_DRIVER"

(* Return codes of a failing vendor call, one per status they map to.      *)
FailureCodes == IF VendorFaults THEN {1, 4, 5} ELSE {}

-----------------------------------------------------------------------------
(* The chip's interrupt registers and the DIO1 line (vendor and chip).     *)

Dio1 == chip_irq \cap chip_mask # {}

(* Write the IRQ status and the mask; a rising DIO1 leaves an edge for the *)
(* application's GPIO interrupt, which is edge triggered: the handler the  *)
(* driver offers does not clear the cause, so a level would never end.     *)
SetIrq(irq, mask) ==
  /\ chip_irq'  = irq
  /\ chip_mask' = mask
  /\ dio_edge'  = (dio_edge \/ (~Dio1 /\ irq \cap mask # {}))

Raise(events) == SetIrq(chip_irq \cup (events \cap chip_mask), chip_mask)

(* The chip finishes sending, or its own TX timer expires; either way it   *)
(* falls back to standby (RX_TX_FALLBACK_MODE_STDBY_XOSC).                  *)
ChipTxEnds ==
  /\ chip_mode = "tx"
  /\ chip_mode' = "stdby"
  /\ \E event \in IrqMaskTx :
       /\ Raise({event})
       /\ cur_end' = event
  /\ UNCHANGED <<ctlVars, txVars, rxVars, flagVars, chip_buf, tx_overlap>>

(* A packet arrives in continuous reception and overwrites the buffer.     *)
ChipRxFrame ==
  /\ chip_mode = "rx"
  /\ \E p \in Packets :
       /\ chip_buf' = p
       /\ Raise({"RX_DONE"} \cup (IF p \in Damaged THEN {"CRC_ERR"} ELSE {}))
  /\ UNCHANGED <<ctlVars, txVars, rxVars, flagVars, chip_mode, histVars>>

(* The application's ISR calls leos_sx126x_handle_dio1_irq.                *)
HandleDio1Irq ==
  /\ dio_edge
  /\ dio_edge' = FALSE
  /\ irq_pending' = (irq_pending \/ initialized)
  /\ UNCHANGED <<pc, initialized, mode, svc, txVars, rxVars, flagVars,
                 chip_mode, chip_mask, chip_irq, chip_buf, histVars>>

Tick ==
  /\ tx_in_flight
  /\ tx_age < TxTimeout
  /\ tx_age' = tx_age + 1
  /\ UNCHANGED <<ctlVars, tx_in_flight, last_tx_status, rxVars, flagVars,
                 chipVars, histVars>>

-----------------------------------------------------------------------------
(* leos_sx126x_init: reset the context, reset the chip, configure it.      *)

Init ==
  /\ pc = "idle" /\ initialized = FALSE /\ mode = "UNINIT"
  /\ irq_pending = FALSE /\ svc = {}
  /\ tx_in_flight = FALSE /\ last_tx_status = "OK" /\ tx_age = 0
  /\ rx_pending = FALSE /\ rx_buf = NoPacket /\ rx_overrun = FALSE
  /\ tx_done = FALSE /\ timeout = FALSE
  /\ chip_mode = "off" /\ chip_mask = {} /\ chip_irq = {}
  /\ chip_buf = NoPacket /\ dio_edge = FALSE
  /\ cur_end = "none" /\ tx_overlap = FALSE

InitCall ==
  /\ pc = "idle"
  /\ ~initialized
  /\ mode' = "UNINIT" /\ irq_pending' = FALSE
  /\ tx_in_flight' = FALSE /\ last_tx_status' = "OK" /\ tx_age' = 0
  /\ rx_pending' = FALSE /\ rx_buf' = NoPacket /\ rx_overrun' = FALSE
  /\ tx_done' = FALSE /\ timeout' = FALSE   \* link_handle clears the handle
  /\ \/ /\ initialized' = TRUE
        /\ pc' = "config"
        /\ chip_mode' = "stdby"
        /\ SetIrq({}, {})
     \/ /\ VendorFaults                     \* sx1262_init failed
        /\ UNCHANGED <<initialized, pc, chip_mode, chip_irq, chip_mask, dio_edge>>
  /\ UNCHANGED <<svc, chip_buf, histVars>>

ApplyConfig ==
  /\ pc = "config"
  /\ pc' = "idle"
  /\ SetIrq({}, chip_mask)
  /\ \/ /\ mode' = "STANDBY"
        /\ chip_mode' = "stdby"
        /\ UNCHANGED initialized
     \/ /\ VendorFaults                     \* sx1262_deinit, and start over
        /\ mode' = "UNINIT"
        /\ chip_mode' = "off"
        /\ initialized' = FALSE
  /\ UNCHANGED <<irq_pending, svc, txVars, rxVars, flagVars, chip_buf, histVars>>

-----------------------------------------------------------------------------
(* Failing vendor calls.                                                    *)

(* "if (status != LEOS_RADIO_OK) return status": the operation stops and    *)
(* what it has already told the chip stays.                                 *)
AbandonCall ==
  /\ VendorFaults
  /\ pc \in {"tx_clear", "tx_standby", "tx_load", "rx_clear", "rx_go"}
  /\ pc' = "idle"
  /\ UNCHANGED <<initialized, mode, irq_pending, svc, txVars, rxVars, flagVars,
                 chipVars, histVars>>

EndTx_KeepInFlight(status) ==
  /\ UNCHANGED <<tx_in_flight, tx_age>>
  /\ last_tx_status' = status
  /\ mode' = "STANDBY"

EndTx(status) ==
  /\ tx_in_flight' = FALSE
  /\ tx_age' = 0
  /\ last_tx_status' = status
  /\ mode' = "STANDBY"

-----------------------------------------------------------------------------
(* leos_sx126x_start_tx                                                     *)

StartTx ==
  /\ pc = "idle"
  /\ initialized
  /\ ~tx_in_flight /\ mode # "TX"
  /\ pc' = "tx_clear"
  /\ SetIrq(chip_irq, IrqMaskTx)
  /\ tx_overlap' = (chip_mode = "tx")
  /\ UNCHANGED <<initialized, mode, irq_pending, svc, txVars, rxVars, flagVars,
                 chip_mode, chip_buf, cur_end>>

TxClearIrq_Skipped ==
  /\ pc = "tx_clear"
  /\ pc' = "tx_standby"
  /\ UNCHANGED <<initialized, mode, irq_pending, svc, txVars, rxVars, flagVars,
                 chipVars, histVars>>

TxClearIrq ==
  /\ pc = "tx_clear"
  /\ pc' = "tx_standby"
  /\ SetIrq({}, chip_mask)
  /\ UNCHANGED <<initialized, mode, irq_pending, svc, txVars, rxVars, flagVars,
                 chip_mode, chip_buf, histVars>>

TxSetStandby ==
  /\ pc = "tx_standby"
  /\ pc' = "tx_load"
  /\ chip_mode' = "stdby"
  /\ UNCHANGED <<initialized, mode, irq_pending, svc, txVars, rxVars, flagVars,
                 chip_mask, chip_irq, chip_buf, dio_edge, histVars>>

ResetFlags_None == UNCHANGED flagVars

ResetFlags_DoneOnly == tx_done' = FALSE /\ UNCHANGED timeout

ResetFlags == tx_done' = FALSE /\ timeout' = FALSE

ArmTx_KeepMode ==
  /\ tx_in_flight' = TRUE /\ tx_age' = 0 /\ last_tx_status' = "OK"
  /\ UNCHANGED mode

ArmTx ==
  /\ tx_in_flight' = TRUE /\ tx_age' = 0 /\ last_tx_status' = "OK"
  /\ mode' = "TX"

(* Load packet parameters and payload, then arm the context.               *)
TxLoad ==
  /\ pc = "tx_load"
  /\ pc' = "tx_go"
  /\ ResetFlags
  /\ irq_pending' = FALSE
  /\ ArmTx
  /\ cur_end' = "none"
  /\ UNCHANGED <<initialized, svc, rxVars, chipVars, tx_overlap>>

TxGo ==
  /\ pc = "tx_go"
  /\ pc' = "idle"
  /\ \/ /\ chip_mode' = "tx"
        /\ UNCHANGED <<mode, txVars>>
     \/ /\ \E rc \in FailureCodes : EndTx(MapStatus(rc))
        /\ UNCHANGED chip_mode
  /\ UNCHANGED <<initialized, irq_pending, svc, rxVars, flagVars,
                 chip_mask, chip_irq, chip_buf, dio_edge, histVars>>

-----------------------------------------------------------------------------
(* leos_sx126x_start_rx                                                     *)

StartRx ==
  /\ pc = "idle"
  /\ initialized
  /\ mode # "TX"
  /\ pc' = "rx_clear"
  /\ SetIrq(chip_irq, IrqMaskRx)
  /\ UNCHANGED <<initialized, mode, irq_pending, svc, txVars, rxVars, flagVars,
                 chip_mode, chip_buf, histVars>>

RxClearIrq_Skipped ==
  /\ pc = "rx_clear"
  /\ pc' = "rx_go"
  /\ UNCHANGED <<initialized, mode, irq_pending, svc, txVars, rxVars, flagVars,
                 chipVars, histVars>>

RxClearIrq ==
  /\ pc = "rx_clear"
  /\ pc' = "rx_go"
  /\ SetIrq({}, chip_mask)
  /\ UNCHANGED <<initialized, mode, irq_pending, svc, txVars, rxVars, flagVars,
                 chip_mode, chip_buf, histVars>>

RxGo ==
  /\ pc = "rx_go"
  /\ pc' = "rx_commit"
  /\ chip_mode' = "rx"
  /\ UNCHANGED <<initialized, mode, irq_pending, svc, txVars, rxVars, flagVars,
                 chip_mask, chip_irq, chip_buf, dio_edge, histVars>>

RxCommit ==
  /\ pc = "rx_commit"
  /\ pc' = "idle"
  /\ irq_pending' = FALSE
  /\ mode' = "RX"
  /\ UNCHANGED <<initialized, svc, txVars, rxVars, flagVars, chipVars, histVars>>

-----------------------------------------------------------------------------
(* leos_sx126x_standby and leos_sx126x_read                                 *)

Standby ==
  /\ pc = "idle"
  /\ initialized
  /\ chip_mode' = "stdby"
  /\ mode' = "STANDBY"
  /\ UNCHANGED <<pc, initialized, irq_pending, svc, txVars, rxVars, flagVars,
                 chip_mask, chip_irq, chip_buf, dio_edge, histVars>>

Read ==
  /\ pc = "idle"
  /\ initialized
  /\ rx_pending
  /\ rx_pending' = FALSE
  /\ UNCHANGED <<ctlVars, txVars, rx_buf, rx_overrun, flagVars, chipVars,
                 histVars>>

-----------------------------------------------------------------------------
(* leos_sx126x_poll: service the latched interrupt, then settle the TX.     *)

PollCall ==
  /\ pc = "idle"
  /\ initialized
  /\ irq_pending' = FALSE
  /\ pc' = IF irq_pending THEN "svc_read" ELSE "poll_finish"
  /\ UNCHANGED <<initialized, mode, svc, txVars, rxVars, flagVars, chipVars,
                 histVars>>

(* The service failed: poll ends the transmission with the mapped error.   *)
(* m is the mode the callbacks have left.                                   *)
PollFails_KeepMode(m) ==
  /\ pc' = "idle"
  /\ \E rc \in FailureCodes :
       IF tx_in_flight
       THEN /\ tx_in_flight' = FALSE /\ tx_age' = 0
            /\ last_tx_status' = MapStatus(rc)
            /\ mode' = m
       ELSE mode' = m /\ UNCHANGED txVars

PollFails(m) ==
  /\ pc' = "idle"
  /\ \E rc \in FailureCodes :
       IF tx_in_flight THEN EndTx(MapStatus(rc))
                       ELSE mode' = m /\ UNCHANGED txVars

(* sx1262_irq_handler, first half: read and clear the IRQ status.          *)
SvcRead ==
  /\ pc = "svc_read"
  /\ \/ /\ pc' = "svc_dispatch"
        /\ svc' = chip_irq
        /\ SetIrq({}, chip_mask)
        /\ UNCHANGED <<mode, txVars>>
     \/ /\ PollFails(mode)
        /\ UNCHANGED <<svc, chip_irq, chip_mask, dio_edge>>
  /\ UNCHANGED <<initialized, irq_pending, rxVars, flagVars, chip_mode,
                 chip_buf, histVars>>

(* leos_sx126x_receive_callback_impl: the mode after these events.          *)
ModeAfter(events) ==
  IF \/ "TX_DONE" \in events
     \/ mode = "TX" /\ events \cap {"CRC_ERR", "TIMEOUT"} # {}
  THEN "STANDBY" ELSE mode

LatchRx_Overwrite ==
  /\ rx_pending' = TRUE
  /\ rx_buf' = chip_buf
  /\ rx_overrun' = (rx_overrun \/ rx_pending)

LatchRx ==
  \/ /\ ~rx_pending
     /\ rx_pending' = TRUE
     /\ rx_buf' = chip_buf
     /\ UNCHANGED rx_overrun
  \/ /\ rx_pending
     /\ rx_overrun' = TRUE
     /\ UNCHANGED <<rx_pending, rx_buf>>

(* Second half: set the flags, read a received packet, call the callback;   *)
(* a packet that cannot be read fails the handler, its event already gone.  *)
Dispatch ==
  /\ pc = "svc_dispatch"
  /\ svc' = {}
  /\ tx_done' = (tx_done \/ "TX_DONE" \in svc)
  /\ \/ /\ pc' = "poll_finish"
        /\ mode' = ModeAfter(svc)
        /\ timeout' = (timeout \/ "TIMEOUT" \in svc)
        /\ IF "RX_DONE" \in svc THEN LatchRx ELSE UNCHANGED rxVars
        /\ UNCHANGED txVars
     \/ /\ "RX_DONE" \in svc
        /\ PollFails(ModeAfter(svc \ {"CRC_ERR", "TIMEOUT"}))
        /\ UNCHANGED <<rxVars, timeout>>
  /\ UNCHANGED <<initialized, chipVars, histVars>>

SvcDispatch_LateFlagClear == Dispatch /\ irq_pending' = FALSE

SvcDispatch == Dispatch /\ UNCHANGED irq_pending

PollTxDone ==
  /\ pc = "poll_finish"
  /\ tx_in_flight /\ tx_done
  /\ pc' = "idle"
  /\ EndTx("OK")
  /\ UNCHANGED <<initialized, irq_pending, svc, rxVars, flagVars, chipVars,
                 histVars>>

TxExpired_ChipOnly == timeout

TxExpired == timeout \/ tx_age >= TxTimeout

PollTxTimeout ==
  /\ pc = "poll_finish"
  /\ tx_in_flight /\ ~tx_done /\ TxExpired
  /\ pc' = "idle"
  /\ EndTx("ERR_TIMEOUT")
  /\ UNCHANGED <<initialized, irq_pending, svc, rxVars, flagVars, chipVars,
                 histVars>>

PollNothing ==
  /\ pc = "poll_finish"
  /\ tx_in_flight => ~tx_done /\ ~TxExpired
  /\ pc' = "idle"
  /\ UNCHANGED <<initialized, mode, irq_pending, svc, txVars, rxVars, flagVars,
                 chipVars, histVars>>

-----------------------------------------------------------------------------
Operation ==     \* the application calls an operation
  InitCall \/ StartTx \/ StartRx \/ Standby \/ Read \/ PollCall

Continue ==      \* the operation it called goes on
  \/ ApplyConfig \/ AbandonCall
  \/ TxClearIrq \/ TxSetStandby \/ TxLoad \/ TxGo
  \/ RxClearIrq \/ RxGo \/ RxCommit
  \/ SvcRead \/ SvcDispatch \/ PollTxDone \/ PollTxTimeout \/ PollNothing

Environment == ChipTxEnds \/ ChipRxFrame \/ HandleDio1Irq \/ Tick

Next == Operation \/ Continue \/ Environment

Spec == Init /\ [][Next]_vars

(* Time passes, a raised interrupt is taken, a called operation returns and *)
(* the main loop keeps polling, as leos_sx126x_poll's contract asks of it;  *)
(* nothing is assumed of the chip or of the other calls.                    *)
FairSpec ==
  /\ Spec
  /\ WF_vars(Continue) /\ SF_vars(PollCall)
  /\ WF_vars(Tick) /\ WF_vars(HandleDio1Irq)

-----------------------------------------------------------------------------
FlagsOK ==
  /\ initialized \in BOOLEAN /\ irq_pending \in BOOLEAN
  /\ tx_in_flight \in BOOLEAN
  /\ rx_pending \in BOOLEAN /\ rx_overrun \in BOOLEAN
  /\ tx_done \in BOOLEAN /\ timeout \in BOOLEAN
  /\ dio_edge \in BOOLEAN
  /\ tx_overlap \in BOOLEAN

DataOK ==
  /\ pc \in Steps /\ mode \in Modes
  /\ svc \subseteq Events
  /\ last_tx_status \in Status
  /\ tx_age \in 0 .. TxTimeout
  /\ rx_buf \in Packets \cup {NoPacket}
  /\ chip_mode \in ChipModes
  /\ chip_mask \subseteq Events /\ chip_irq \subseteq Events
  /\ chip_buf \in Packets \cup {NoPacket}
  /\ cur_end \in {"none"} \cup IrqMaskTx

(* The fields hold values of their C types; in particular every status the  *)
(* driver stores is one that leos_sx126x_map_status can return.             *)
TypeOK == FlagsOK /\ DataOK

(* start_tx and start_rx refuse while mode is TX and only poll can leave     *)
(* that mode, which it does only for a transmission in flight: the driver    *)
(* never shows TX without one, whichever vendor call has failed.             *)
NoStuckTx == mode = "TX" => tx_in_flight

(* A transmission ends with LEOS_RADIO_OK only if its own frame went out,     *)
(* unless start_tx found the chip still sending the frame before it: stale    *)
(* flags, stale IRQ status and an error return between them never count.      *)
OkMeansSent ==
  [][tx_in_flight /\ ~tx_in_flight' /\ last_tx_status' = "OK" /\ ~tx_overlap
       => cur_end = "TX_DONE"]_vars

(* ... and with LEOS_RADIO_ERR_TIMEOUT only if its own time is up, the chip's *)
(* timer ended its own frame or a failing vendor call reports one.           *)
TimeoutIsEarned ==
  [][tx_in_flight /\ ~tx_in_flight' /\ last_tx_status' = "ERR_TIMEOUT" /\ ~tx_overlap
       => \/ tx_age = TxTimeout \/ cur_end = "TIMEOUT"
          \/ VendorFaults /\ pc # "poll_finish"]_vars

(* DIO1 is high and nobody is going to look: no edge, nothing latched.       *)
Unattended == Dio1 /\ ~dio_edge /\ ~irq_pending /\ pc # "svc_read"

(* While a transmission is in flight in mode TX, an event of the chip always  *)
(* has its edge or its latch: handle_dio1_irq and poll never drop it between  *)
(* them. Excluded are a transmission that standby or start_rx has taken out   *)
(* of mode TX and one whose start_tx found the chip still sending.           *)
TxIrqNotLost == (tx_in_flight /\ mode = "TX" /\ ~tx_overlap) => ~Unattended

(* The interrupt latch is cleared before the status is read, so an event can *)
(* be stranded only where the code clears the latch without reading it (the  *)
(* end of start_rx; start_tx over a chip still sending) or fails to read it. *)
StrandedOnlyBy ==
  [][~Unattended /\ Unattended' =>
       \/ pc = "rx_commit"
       \/ pc = "tx_load" /\ tx_overlap
       \/ pc = "svc_read" /\ VendorFaults]_vars

(* Without vendor faults, a driver in RX has a chip that is receiving and    *)
(* signals packets on DIO1, however standby, timeouts and start_tx mix.      *)
RxArmed ==
  mode = "RX" /\ pc \notin {"tx_clear", "tx_standby", "tx_load"} =>
    chip_mode = "rx" /\ chip_mask = IrqMaskRx

(* While the chip receives, the mode leaves RX only with the end of a          *)
(* transmission that standby had left in flight when start_rx was called:     *)
(* no stale event of the chip and no failing vendor call ever does it.        *)
RxLeftOnlyByTxEnd ==
  [][mode = "RX" /\ mode' # "RX" /\ chip_mode' = "rx"
       => tx_in_flight /\ ~tx_in_flight']_vars

-----------------------------------------------------------------------------
Session == INSTANCE TxSession
  WITH busy <- tx_in_flight, result <- last_tx_status, Terminal <- Status

Mailbox == INSTANCE RxMailbox
  WITH slot <- IF rx_pending THEN rx_buf ELSE NoPacket, overrun <- rx_overrun

(* Transmissions are accepted one at a time, each is ended once, and its     *)
(* status stays readable until the next one begins.                          *)
TxSessionSafe == Session!Spec

(* ... and, as long as the main loop polls, each of them does end.           *)
TxSessionLive == Session!FairSpec

(* Reception is a one-packet mailbox: the oldest unread packet is kept, a     *)
(* drop is remembered, no packet is read twice out of one latch.             *)
RxIsMailbox == Mailbox!Spec

(* A packet whose interrupt is up or latched while no operation runs is       *)
(* eventually drained, or cleared by the next start call: what is lost is    *)
(* only what is latched inside start_rx.                                     *)
IdleLatchIsDrained ==
  (pc = "idle" /\ (dio_edge \/ irq_pending) /\ "RX_DONE" \in chip_irq)
    ~> "RX_DONE" \notin chip_irq

-----------------------------------------------------------------------------
(* What the comments say and the code does not do.                           *)

(* last_tx_status is of the most recent TX, also when start_tx overlaps.     *)
StatusOfMostRecentTx ==
  [][tx_in_flight /\ ~tx_in_flight' /\ last_tx_status' = "OK"
       => cur_end = "TX_DONE"]_vars

(* A latched packet remains in the chip until poll drains it.                *)
LatchedIsDrained ==
  irq_pending /\ "RX_DONE" \in chip_irq ~> "RX_DONE" \notin chip_irq

(* mode() tells the mode of the radio. Of that, one direction: while the      *)
(* radio receives and no operation is active, it is RX.                      *)
ModeIsRadioMode == pc = "idle" /\ chip_mode = "rx" => mode = "RX"
=============================================================================
