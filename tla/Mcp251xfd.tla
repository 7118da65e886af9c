----------------------------- MODULE Mcp251xfd -----------------------------
(***************************************************************************)
(* Interrupt service of the MCP251XFD CAN controller driver                *)
(* (src/leos_mcp251xfd/mcp251xfd.c): the driver context of one device, the *)
(* GPIO interrupt that latches INT, the task that serves it and the chip.  *)
(*                                                                         *)
(* INT is a level, low while any event is pending; the GPIO interrupt sees *)
(* only its falling edge. The application runs one thread; pc names the    *)
(* access to the chip it does next.                                        *)
(***************************************************************************)
EXTENDS Naturals

CONSTANTS
  SysEvents,      \* events other than a received frame that the chip may raise
  FifoDepth,      \* frames FIFO1 holds
  EarlyFrames,    \* may a frame arrive or wait while no receive handler is set?
  MaxArrivals,    \* bound: events and frames after an init
  MaxFaults       \* bound: accesses to the chip that fail

ASSUME EventsAssumption ==
  SysEvents \subseteq {"ERROR", "WAKEUP", "OPMODE", "OTHER", "TXQ_EXHAUSTED"}
ASSUME BoundsAssumption ==
  /\ FifoDepth \in Nat /\ MaxArrivals \in Nat /\ MaxFaults \in Nat
  /\ EarlyFrames \in BOOLEAN

VARIABLES
  pc,             \* "idle", or the chip access the application does next
  code,           \* the event the task is handling
  bound,          \* device->UserDriverData points to a context
  listed,         \* s_ctx_by_gpio[pin_irq]: NULL, a lost context, the device's
  irq_pending, rx_cb,
  gpio_on,        \* the GPIO interrupt is enabled
  edge,           \* INT fell and the handler has not run yet
  running,        \* the chip is out of configuration mode
  events, fifo,   \* pending events and received frames of the chip
  arrivals, faults  \* what is left of the bounds

drvVars  == <<bound, listed, irq_pending, rx_cb, gpio_on>>
chipVars == <<running, events, fifo, edge>>
vars == <<pc, code, drvVars, chipVars, arrivals, faults>>

Steps == {"idle", "init_list", "init_chip", "init_mode",
          "query", "handle", "drain", "rx_clear"}
Codes == SysEvents \cup {"FIFO1", "NONE"}

Int == events # {} \/ fifo > 0

(* Change what is pending; INT falling leaves an edge if it is enabled.      *)
SetPending(ev, n) ==
  /\ events' = ev
  /\ fifo' = n
  /\ edge' = (edge \/ (gpio_on /\ ~Int /\ (ev # {} \/ n > 0)))

Fault ==
  /\ faults > 0
  /\ faults' = faults - 1

-----------------------------------------------------------------------------
(* The chip and the interrupt.                                              *)

ChipEvent ==
  /\ running /\ arrivals > 0
  /\ arrivals' = arrivals - 1
  /\ \E e \in SysEvents \ events : SetPending(events \cup {e}, fifo)
  /\ UNCHANGED <<pc, code, drvVars, running, faults>>

ChipFrame ==
  /\ running /\ arrivals > 0
  /\ rx_cb \/ EarlyFrames
  /\ fifo < FifoDepth
  /\ arrivals' = arrivals - 1
  /\ SetPending(events, fifo + 1)
  /\ UNCHANGED <<pc, code, drvVars, running, faults>>

IrqHandler ==
  /\ edge
  /\ edge' = FALSE
  /\ irq_pending' = (irq_pending \/ listed = "device")
  /\ UNCHANGED <<pc, code, bound, listed, rx_cb, gpio_on, running, events, fifo,
                 arrivals, faults>>

-----------------------------------------------------------------------------
(* leos_mcp251xfd_init, leos_mcp251xfd_deinit, leos_mcp251xfd_set_rx_handler *)

Init ==
  /\ pc = "idle" /\ code = "NONE"
  /\ bound = FALSE /\ listed = "none"
  /\ irq_pending = FALSE /\ rx_cb = FALSE /\ gpio_on = FALSE
  /\ edge = FALSE /\ running = FALSE /\ events = {} /\ fifo = 0
  /\ arrivals = 0 /\ faults = MaxFaults

(* A context is allocated and the GPIO interrupt enabled, which discards a   *)
(* stale edge; a context the device had before is lost but may stay listed.  *)
InitCall ==
  /\ pc = "idle"
  /\ pc' = "init_list"
  /\ bound' = TRUE /\ irq_pending' = FALSE /\ rx_cb' = FALSE
  /\ listed' = IF listed = "none" THEN "none" ELSE "lost"
  /\ gpio_on' = TRUE
  /\ edge' = FALSE
  /\ UNCHANGED <<code, running, events, fifo, arrivals, faults>>

(* The allocation fails: the device is zeroed all the same, but a GPIO       *)
(* interrupt and a table entry that it had stay as they are.                 *)
InitNoMemory ==
  /\ pc = "idle"
  /\ bound' = FALSE /\ irq_pending' = FALSE /\ rx_cb' = FALSE
  /\ listed' = IF listed = "none" THEN "none" ELSE "lost"
  /\ UNCHANGED <<pc, code, gpio_on, chipVars, arrivals, faults>>

InitList ==
  /\ pc = "init_list"
  /\ pc' = "init_chip"
  /\ listed' = "device"
  /\ UNCHANGED <<code, bound, irq_pending, rx_cb, gpio_on, chipVars, arrivals,
                 faults>>

(* Init_MCP251XFD resets the chip.                                           *)
InitChip ==
  /\ pc = "init_chip"
  /\ \/ /\ pc' = "init_mode"
        /\ running' = FALSE
        /\ SetPending({}, 0)
        /\ UNCHANGED faults
     \/ /\ Fault                            \* before or after the reset
        /\ pc' = "idle"
        /\ UNCHANGED chipVars \/ (running' = FALSE /\ SetPending({}, 0))
  /\ UNCHANGED <<code, drvVars, arrivals>>

(* Time stamps, FIFOs and filters, then the operating mode.                 *)
InitMode ==
  /\ pc = "init_mode"
  /\ pc' = "idle"
  /\ \/ running' = TRUE /\ arrivals' = MaxArrivals /\ UNCHANGED faults
     \/ Fault /\ UNCHANGED <<running, arrivals>>
  /\ UNCHANGED <<code, drvVars, events, fifo, edge>>

Deinit_KeepListed ==
  /\ pc = "idle" /\ bound
  /\ bound' = FALSE /\ gpio_on' = FALSE
  /\ irq_pending' = FALSE /\ rx_cb' = FALSE
  /\ edge' = FALSE
  /\ UNCHANGED <<pc, code, listed, running, events, fifo, arrivals, faults>>

Deinit ==
  /\ pc = "idle" /\ bound
  /\ bound' = FALSE /\ listed' = "none" /\ gpio_on' = FALSE
  /\ irq_pending' = FALSE /\ rx_cb' = FALSE
  /\ edge' = FALSE
  /\ UNCHANGED <<pc, code, running, events, fifo, arrivals, faults>>

(* A handler, or NULL, which removes it.                                     *)
SetRxHandler ==
  /\ pc = "idle" /\ bound
  /\ rx_cb' \in BOOLEAN
  /\ rx_cb' \/ fifo = 0 \/ EarlyFrames
  /\ UNCHANGED <<pc, code, bound, listed, irq_pending, gpio_on, chipVars,
                 arrivals, faults>>

-----------------------------------------------------------------------------
(* leos_mcp251xfd_task                                                       *)

TaskCall_NeedsHandler ==
  /\ pc = "idle" /\ bound /\ irq_pending /\ rx_cb
  /\ pc' = "query"
  /\ irq_pending' = FALSE
  /\ UNCHANGED <<code, bound, listed, rx_cb, gpio_on, chipVars, arrivals, faults>>

TaskCall ==
  /\ pc = "idle" /\ bound /\ irq_pending
  /\ pc' = "query"
  /\ irq_pending' = FALSE
  /\ UNCHANGED <<code, bound, listed, rx_cb, gpio_on, chipVars, arrivals, faults>>

(* GetCurrentInterruptEvent: some pending event, or none and the task ends.  *)
TaskQuery ==
  /\ pc = "query"
  /\ \/ \E c \in events \cup (IF fifo > 0 THEN {"FIFO1"} ELSE {}) :
          /\ code' = c
          /\ pc' = "handle"
          /\ UNCHANGED faults
     \/ /\ ~Int
        /\ pc' = "idle" /\ code' = "NONE"
        /\ UNCHANGED faults
     \/ /\ Fault
        /\ pc' = "idle" /\ code' = "NONE"
  /\ UNCHANGED <<drvVars, chipVars, arrivals>>

(* What handling an event that is not a frame leaves pending.                *)
Cleared_NoDefault(c) == IF c = "OTHER" THEN {} ELSE {c}

Cleared(c) == IF c = "OTHER" THEN SysEvents \ {"TXQ_EXHAUSTED"} ELSE {c}

HandleEvent ==
  /\ pc = "handle" /\ code # "FIFO1"
  /\ pc' = "query"
  /\ \/ SetPending(events \ Cleared(code), fifo) /\ UNCHANGED faults
     \/ Fault /\ UNCHANGED <<events, fifo, edge>>
  /\ UNCHANGED <<code, drvVars, running, arrivals>>

HandleFifo1 ==
  /\ pc = "handle" /\ code = "FIFO1"
  /\ \/ /\ pc' = IF fifo > 0 /\ rx_cb THEN "drain" ELSE "rx_clear"
        /\ UNCHANGED faults
     \/ Fault /\ pc' = "query"
  /\ UNCHANGED <<code, drvVars, chipVars, arrivals>>

DrainFrame_Unchecked ==
  /\ pc = "drain"
  /\ \/ fifo' = fifo - 1 /\ UNCHANGED <<pc, faults>>
     \/ Fault /\ pc' = "rx_clear" /\ UNCHANGED fifo
  /\ UNCHANGED <<code, drvVars, running, events, edge, arrivals>>

(* The receive handler reads frames until the FIFO is empty.                 *)
DrainFrame ==
  /\ pc = "drain"
  /\ \/ fifo > 0 /\ SetPending(events, fifo - 1) /\ UNCHANGED <<pc, faults>>
     \/ fifo = 0 /\ pc' = "rx_clear" /\ UNCHANGED <<events, fifo, edge, faults>>
     \/ Fault /\ pc' = "rx_clear" /\ UNCHANGED <<events, fifo, edge>>
  /\ UNCHANGED <<code, drvVars, running, arrivals>>

(* Clearing the FIFO events has no effect on "not empty", which is a level.  *)
RxClear_EndTask ==
  /\ pc = "rx_clear"
  /\ pc' = "idle"
  /\ UNCHANGED <<code, drvVars, chipVars, arrivals, faults>>

RxClear ==
  /\ pc = "rx_clear"
  /\ pc' = "query"
  /\ UNCHANGED <<code, drvVars, chipVars, arrivals, faults>>

Continue ==
  \/ InitList \/ InitChip \/ InitMode
  \/ TaskQuery \/ HandleEvent \/ HandleFifo1 \/ DrainFrame \/ RxClear

Next ==
  \/ InitCall \/ InitNoMemory \/ Deinit \/ SetRxHandler \/ TaskCall
  \/ Continue
  \/ ChipEvent \/ ChipFrame \/ IrqHandler

Spec == Init /\ [][Next]_vars

(* A called operation goes on, an interrupt is taken, and the main loop      *)
(* calls the task again and again, as its contract asks.                     *)
FairSpec ==
  Spec /\ WF_vars(Continue) /\ WF_vars(IrqHandler) /\ SF_vars(TaskCall)

-----------------------------------------------------------------------------
TypeOK ==
  /\ pc \in Steps /\ code \in Codes
  /\ bound \in BOOLEAN /\ listed \in {"none", "lost", "device"}
  /\ irq_pending \in BOOLEAN /\ rx_cb \in BOOLEAN /\ gpio_on \in BOOLEAN
  /\ edge \in BOOLEAN /\ running \in BOOLEAN
  /\ events \subseteq SysEvents /\ fifo \in 0 .. FifoDepth
  /\ arrivals \in 0 .. MaxArrivals /\ faults \in 0 .. MaxFaults

(* INT is low, and neither edge, latch nor a running operation will notice.  *)
Stalled == Int /\ bound /\ pc = "idle" /\ ~edge /\ ~irq_pending

(* The latch is cleared before the first query and the task leaves its loop  *)
(* only when nothing is pending, so a device in use loses the interrupt only *)
(* by an access to the chip that fails.                                      *)
StalledOnlyByFault == [][~Stalled /\ Stalled' => faults' < faults]_vars

(* Unless init is between the two, a device with a context has it listed and *)
(* its interrupt enabled; one without is listed by no context of its own,    *)
(* least of all a freed one, and an interrupt that an init without memory    *)
(* has left enabled latches into the context it lost, which is never freed.  *)
ListedWhileBound ==
  pc # "init_list" =>
    IF bound THEN listed = "device" /\ gpio_on
    ELSE listed # "device" /\ (gpio_on <=> listed = "lost")

(* With a receive handler wherever there is a frame, the task ends, whatever *)
(* the order of events, frames and failing accesses.                         *)
TaskReturns == (pc # "idle") ~> (pc = "idle")

(* ... and what is pending is served, unless an access has failed or the     *)
(* device is shut down.                                                      *)
ServedOrStalled == Int ~> (~Int \/ Stalled \/ ~bound)
=============================================================================
