--------------------------- MODULE Mcp251xfdProofs ---------------------------
(***************************************************************************)
(* Theorems about the interrupt service of the MCP251XFD driver, for every *)
(* set of events, FIFO depth and number of arrivals and failing accesses.  *)
(***************************************************************************)
EXTENDS Mcp251xfd, TLAPS

USE EventsAssumption, BoundsAssumption
USE DEF drvVars, chipVars

-----------------------------------------------------------------------------
(* The parts of the inductive invariant.                                    *)

FlagsOK ==
  /\ bound \in BOOLEAN /\ irq_pending \in BOOLEAN /\ rx_cb \in BOOLEAN
  /\ gpio_on \in BOOLEAN /\ edge \in BOOLEAN /\ running \in BOOLEAN

DataOK ==
  /\ pc \in Steps /\ code \in Codes
  /\ listed \in {"none", "lost", "device"}
  /\ events \subseteq SysEvents /\ fifo \in 0 .. FifoDepth
  /\ arrivals \in 0 .. MaxArrivals /\ faults \in 0 .. MaxFaults

(* An operation is only ever active on a device with a context, and the chip *)
(* that init has reset stays silent until init starts it.                    *)
Lifecycle ==
  /\ pc # "idle" => bound /\ gpio_on
  /\ pc = "init_mode" => ~running /\ ~Int

IInv == FlagsOK /\ DataOK /\ Lifecycle /\ ListedWhileBound

LEMMA InitIInv == Init => IInv
<1> SUFFICES ASSUME Init PROVE IInv
  OBVIOUS
<1>1. FlagsOK
  BY Zenon DEF Init, FlagsOK
<1>2. DataOK
  BY DEF Init, DataOK, Steps, Codes
<1>3. Lifecycle /\ ListedWhileBound
  BY DEF Init, Lifecycle, ListedWhileBound
<1> QED
  BY <1>1, <1>2, <1>3 DEF IInv

LEMMA FlagsStep == FlagsOK /\ [Next]_vars => FlagsOK'
<1> SUFFICES ASSUME FlagsOK, [Next]_vars PROVE FlagsOK'
  OBVIOUS
<1> USE DEF FlagsOK
<1>1. CASE InitCall
  BY <1>1, Zenon DEF InitCall
<1>2. CASE InitList
  BY <1>2, Zenon DEF InitList
<1>3. CASE InitChip
  BY <1>3, Zenon DEF InitChip, SetPending, Fault
<1>4. CASE InitMode
  BY <1>4, Zenon DEF InitMode, Fault
<1>5. CASE Deinit
  BY <1>5, Zenon DEF Deinit
<1>6. CASE SetRxHandler
  BY <1>6, Zenon DEF SetRxHandler
<1>7. CASE TaskCall
  BY <1>7, Zenon DEF TaskCall
<1>8. CASE TaskQuery
  BY <1>8, Zenon DEF TaskQuery, Fault
<1>9. CASE HandleEvent
  BY <1>9, Zenon DEF HandleEvent, SetPending, Fault
<1>10. CASE HandleFifo1
  BY <1>10, Zenon DEF HandleFifo1, Fault
<1>11. CASE DrainFrame
  BY <1>11, Zenon DEF DrainFrame, SetPending, Fault
<1>12. CASE RxClear
  BY <1>12, Zenon DEF RxClear
<1>13. CASE ChipEvent
  BY <1>13, Zenon DEF ChipEvent, SetPending
<1>14. CASE ChipFrame
  BY <1>14, Zenon DEF ChipFrame, SetPending
<1>15. CASE IrqHandler
  BY <1>15, Zenon DEF IrqHandler
<1>16. CASE UNCHANGED vars
  BY <1>16, Zenon DEF vars
<1>17. CASE InitNoMemory
  BY <1>17, Zenon DEF InitNoMemory
<1> QED
  BY <1>1, <1>2, <1>3, <1>4, <1>5, <1>6, <1>7, <1>8, <1>9, <1>10,
     <1>11, <1>12, <1>13, <1>14, <1>15, <1>16, <1>17
  DEF Next, Continue

LEMMA FaultData ==
  ASSUME faults \in 0 .. MaxFaults, Fault \/ UNCHANGED faults
  PROVE  faults' \in 0 .. MaxFaults
  BY DEF Fault

LEMMA DataStep == FlagsOK /\ DataOK /\ [Next]_vars => DataOK'
<1> SUFFICES ASSUME FlagsOK, DataOK, [Next]_vars PROVE DataOK'
  OBVIOUS
<1> USE DEF FlagsOK, DataOK, Steps, Codes
<1>1. CASE InitCall
  BY <1>1 DEF InitCall
<1>2. CASE InitList
  BY <1>2 DEF InitList
<1>3. CASE InitChip
  <2>1. events' \subseteq SysEvents /\ fifo' \in 0 .. FifoDepth
    <3>1. CASE UNCHANGED chipVars
      BY <3>1
    <3>2. CASE SetPending({}, 0)
      BY <3>2 DEF SetPending
    <3> QED
      BY <1>3, <3>1, <3>2, Zenon DEF InitChip
  <2>2. faults' \in 0 .. MaxFaults
    BY <1>3, FaultData, Zenon DEF InitChip
  <2>3. pc' \in Steps /\ UNCHANGED <<code, listed, arrivals>>
    BY <1>3, Zenon DEF InitChip
  <2> QED
    BY <2>1, <2>2, <2>3
<1>4. CASE InitMode
  BY <1>4 DEF InitMode, Fault
<1>5. CASE Deinit
  BY <1>5 DEF Deinit
<1>6. CASE SetRxHandler
  BY <1>6 DEF SetRxHandler
<1>7. CASE TaskCall
  BY <1>7 DEF TaskCall
<1>8. CASE TaskQuery
  BY <1>8 DEF TaskQuery, Fault
<1>9. CASE HandleEvent
  <2>1. events' \subseteq SysEvents /\ fifo' \in 0 .. FifoDepth
    <3>1. CASE UNCHANGED <<events, fifo, edge>>
      BY <3>1
    <3>2. CASE SetPending(events \ Cleared(code), fifo)
      BY <3>2 DEF SetPending
    <3> QED
      BY <1>9, <3>1, <3>2, Zenon DEF HandleEvent
  <2>2. faults' \in 0 .. MaxFaults
    BY <1>9, FaultData, Zenon DEF HandleEvent
  <2>3. pc' \in Steps /\ UNCHANGED <<code, listed, arrivals>>
    BY <1>9, Zenon DEF HandleEvent
  <2> QED
    BY <2>1, <2>2, <2>3
<1>10. CASE HandleFifo1
  BY <1>10 DEF HandleFifo1, Fault
<1>11. CASE DrainFrame
  <2>1. events' \subseteq SysEvents /\ fifo' \in 0 .. FifoDepth
    <3>1. CASE UNCHANGED <<events, fifo, edge>>
      BY <3>1
    <3>2. CASE fifo > 0 /\ SetPending(events, fifo - 1)
      BY <3>2 DEF SetPending
    <3> QED
      BY <1>11, <3>1, <3>2, Zenon DEF DrainFrame
  <2>2. faults' \in 0 .. MaxFaults
    BY <1>11, FaultData, Zenon DEF DrainFrame
  <2>3. pc' \in Steps /\ UNCHANGED <<code, listed, arrivals>>
    BY <1>11, Zenon DEF DrainFrame
  <2> QED
    BY <2>1, <2>2, <2>3
<1>12. CASE RxClear
  BY <1>12 DEF RxClear
<1>13. CASE ChipEvent
  BY <1>13 DEF ChipEvent, SetPending
<1>14. CASE ChipFrame
  BY <1>14 DEF ChipFrame, SetPending
<1>15. CASE IrqHandler
  BY <1>15 DEF IrqHandler
<1>16. CASE UNCHANGED vars
  BY <1>16 DEF vars
<1>17. CASE InitNoMemory
  BY <1>17 DEF InitNoMemory
<1> QED
  BY <1>1, <1>2, <1>3, <1>4, <1>5, <1>6, <1>7, <1>8, <1>9, <1>10,
     <1>11, <1>12, <1>13, <1>14, <1>15, <1>16, <1>17
  DEF Next, Continue

LEMMA LifecycleStep ==
  FlagsOK /\ DataOK /\ Lifecycle /\ ListedWhileBound /\ [Next]_vars
    => Lifecycle'
<1> SUFFICES ASSUME FlagsOK, DataOK, Lifecycle, ListedWhileBound, [Next]_vars
             PROVE  Lifecycle'
  OBVIOUS
<1> USE DEF FlagsOK, DataOK, Lifecycle, ListedWhileBound, Int
<1>1. CASE InitCall
  BY <1>1 DEF InitCall
<1>2. CASE InitList
  BY <1>2 DEF InitList
<1>3. CASE InitChip
  BY <1>3 DEF InitChip, SetPending, Fault
<1>4. CASE InitMode
  BY <1>4 DEF InitMode, Fault
<1>5. CASE Deinit
  BY <1>5 DEF Deinit
<1>6. CASE SetRxHandler
  BY <1>6 DEF SetRxHandler
<1>7. CASE TaskCall
  BY <1>7 DEF TaskCall
<1>8. CASE TaskQuery
  BY <1>8 DEF TaskQuery, Fault
<1>9. CASE HandleEvent
  BY <1>9 DEF HandleEvent, SetPending, Fault
<1>10. CASE HandleFifo1
  BY <1>10 DEF HandleFifo1, Fault
<1>11. CASE DrainFrame
  BY <1>11 DEF DrainFrame, SetPending, Fault
<1>12. CASE RxClear
  BY <1>12 DEF RxClear
<1>13. CASE ChipEvent
  BY <1>13 DEF ChipEvent, SetPending
<1>14. CASE ChipFrame
  BY <1>14 DEF ChipFrame, SetPending
<1>15. CASE IrqHandler
  BY <1>15 DEF IrqHandler
<1>16. CASE UNCHANGED vars
  BY <1>16 DEF vars
<1>17. CASE InitNoMemory
  BY <1>17 DEF InitNoMemory
<1> QED
  BY <1>1, <1>2, <1>3, <1>4, <1>5, <1>6, <1>7, <1>8, <1>9, <1>10,
     <1>11, <1>12, <1>13, <1>14, <1>15, <1>16, <1>17
  DEF Next, Continue

LEMMA ListedStep ==
  FlagsOK /\ DataOK /\ Lifecycle /\ ListedWhileBound /\ [Next]_vars
    => ListedWhileBound'
<1> SUFFICES ASSUME FlagsOK, DataOK, Lifecycle, ListedWhileBound, [Next]_vars
             PROVE  ListedWhileBound'
  OBVIOUS
<1> USE DEF FlagsOK, DataOK, Lifecycle, ListedWhileBound
<1>1. CASE InitCall
  BY <1>1 DEF InitCall
<1>2. CASE InitList
  BY <1>2 DEF InitList
<1>3. CASE InitChip
  BY <1>3 DEF InitChip, SetPending, Fault
<1>4. CASE InitMode
  BY <1>4 DEF InitMode, Fault
<1>5. CASE Deinit
  BY <1>5 DEF Deinit
<1>6. CASE SetRxHandler
  BY <1>6 DEF SetRxHandler
<1>7. CASE TaskCall
  BY <1>7 DEF TaskCall
<1>8. CASE TaskQuery
  BY <1>8 DEF TaskQuery, Fault
<1>9. CASE HandleEvent
  BY <1>9 DEF HandleEvent, SetPending, Fault
<1>10. CASE HandleFifo1
  BY <1>10 DEF HandleFifo1, Fault
<1>11. CASE DrainFrame
  BY <1>11 DEF DrainFrame, SetPending, Fault
<1>12. CASE RxClear
  BY <1>12 DEF RxClear
<1>13. CASE ChipEvent
  BY <1>13 DEF ChipEvent, SetPending
<1>14. CASE ChipFrame
  BY <1>14 DEF ChipFrame, SetPending
<1>15. CASE IrqHandler
  BY <1>15 DEF IrqHandler
<1>16. CASE UNCHANGED vars
  BY <1>16 DEF vars
<1>17. CASE InitNoMemory
  BY <1>17 DEF InitNoMemory
<1> QED
  BY <1>1, <1>2, <1>3, <1>4, <1>5, <1>6, <1>7, <1>8, <1>9, <1>10,
     <1>11, <1>12, <1>13, <1>14, <1>15, <1>16, <1>17
  DEF Next, Continue

LEMMA IInvStep == IInv /\ [Next]_vars => IInv'
  BY FlagsStep, DataStep, LifecycleStep, ListedStep DEF IInv

THEOREM IInvAlways == Spec => []IInv
  BY InitIInv, IInvStep, PTL DEF Spec

(* Every variable keeps its type; the FIFO never counts below zero.          *)
THEOREM TypeCorrect == Spec => []TypeOK
<1>1. IInv => TypeOK
  BY DEF IInv, FlagsOK, DataOK, TypeOK
<1> QED
  BY <1>1, IInvAlways, PTL

(* The handler never latches into a freed context, whatever the order of     *)
(* inits, also failing ones and inits without a deinit before, and deinits.  *)
THEOREM ListedAlways == Spec => []ListedWhileBound
<1>1. IInv => ListedWhileBound
  BY DEF IInv
<1> QED
  BY <1>1, IInvAlways, PTL

-----------------------------------------------------------------------------
(* The interrupt.                                                            *)

StallStep == ~Stalled /\ Stalled' => faults' < faults

LEMMA StallStepHolds == IInv /\ [Next]_vars => StallStep
<1> SUFFICES ASSUME IInv, [Next]_vars PROVE StallStep
  OBVIOUS
<1> USE DEF IInv, FlagsOK, DataOK, Lifecycle, ListedWhileBound, StallStep,
            Stalled, Int
<1>1. CASE InitCall
  BY <1>1 DEF InitCall
<1>2. CASE InitList
  BY <1>2 DEF InitList
<1>3. CASE InitChip
  BY <1>3 DEF InitChip, SetPending, Fault
<1>4. CASE InitMode
  BY <1>4 DEF InitMode, Fault
<1>5. CASE Deinit
  BY <1>5 DEF Deinit
<1>6. CASE SetRxHandler
  BY <1>6 DEF SetRxHandler
<1>7. CASE TaskCall
  BY <1>7 DEF TaskCall
<1>8. CASE TaskQuery
  BY <1>8 DEF TaskQuery, Fault
<1>9. CASE HandleEvent
  BY <1>9 DEF HandleEvent, SetPending, Fault
<1>10. CASE HandleFifo1
  BY <1>10 DEF HandleFifo1, Fault
<1>11. CASE DrainFrame
  BY <1>11 DEF DrainFrame, SetPending, Fault
<1>12. CASE RxClear
  BY <1>12 DEF RxClear
<1>13. CASE ChipEvent
  BY <1>13 DEF ChipEvent, SetPending
<1>14. CASE ChipFrame
  BY <1>14 DEF ChipFrame, SetPending
<1>15. CASE IrqHandler
  BY <1>15 DEF IrqHandler
<1>16. CASE UNCHANGED vars
  BY <1>16 DEF vars
<1>17. CASE InitNoMemory
  BY <1>17 DEF InitNoMemory
<1> QED
  BY <1>1, <1>2, <1>3, <1>4, <1>5, <1>6, <1>7, <1>8, <1>9, <1>10,
     <1>11, <1>12, <1>13, <1>14, <1>15, <1>16, <1>17
  DEF Next, Continue

(* Only an access to the chip that fails leaves INT low with nobody to look. *)
THEOREM NoStallWithoutFault == Spec => StalledOnlyByFault
<1>1. IInv /\ [Next]_vars => [StallStep]_vars
  BY StallStepHolds
<1> QED
  BY <1>1, IInvAlways, PTL DEF Spec, StalledOnlyByFault, StallStep
-----------------------------------------------------------------------------
(* The loop of the task ends. TaskReturns needs fairness and stays with TLC;  *)
(* what can be proved is the measure its argument rests on. The loop has no   *)
(* counter of its own: it goes on while the chip reports events.             *)

TaskSteps == {"query", "handle", "drain", "rx_clear"}

(* What the loop has picked is still pending, and whoever is going to run the *)
(* loop, or is running it, has a receive handler for the frames there are.    *)
Handled ==
  /\ pc = "handle" => IF code = "FIFO1" THEN fifo > 0 ELSE code \in events
  /\ fifo > 0 /\ bound /\ (edge \/ irq_pending \/ pc \in TaskSteps) => rx_cb

(* Frames and faults that may still come, and the steps left until the next   *)
(* event is picked; a drained frame pays for the way back to the query.       *)
Budget == arrivals + faults

Work ==
  8 * fifo +
    CASE pc = "drain"    -> IF fifo > 0 THEN 0 ELSE 4
      [] pc = "rx_clear" -> 3
      [] pc = "query"    -> 2
      [] OTHER           -> 1

LessWork ==
  \/ Budget' < Budget
  \/ /\ Budget' = Budget
     /\ \/ events' \subseteq events /\ events' # events
        \/ events' = events /\ Work' < Work

(* A step during the task ends it, brings it nearer to its end or is an       *)
(* interrupt.                                                                *)
TaskStep ==
  pc \in TaskSteps =>
    pc' = "idle" \/ LessWork \/ UNCHANGED <<pc, events, fifo, arrivals, faults>>

LEMMA HandledStep == ~EarlyFrames /\ IInv /\ Handled /\ [Next]_vars => Handled'
<1> SUFFICES ASSUME ~EarlyFrames, IInv, Handled, [Next]_vars PROVE Handled'
  OBVIOUS
<1> USE DEF IInv, FlagsOK, DataOK, Lifecycle, ListedWhileBound, Handled,
            TaskSteps, Int
<1>1. CASE InitCall
  BY <1>1 DEF InitCall
<1>2. CASE InitList
  BY <1>2 DEF InitList
<1>3. CASE InitChip
  BY <1>3 DEF InitChip, SetPending, Fault
<1>4. CASE InitMode
  BY <1>4 DEF InitMode, Fault
<1>5. CASE Deinit
  BY <1>5 DEF Deinit
<1>6. CASE SetRxHandler
  BY <1>6 DEF SetRxHandler
<1>7. CASE TaskCall
  BY <1>7 DEF TaskCall
<1>8. CASE TaskQuery
  BY <1>8 DEF TaskQuery, Fault
<1>9. CASE HandleEvent
  BY <1>9 DEF HandleEvent, SetPending, Fault
<1>10. CASE HandleFifo1
  BY <1>10 DEF HandleFifo1, Fault
<1>11. CASE DrainFrame
  BY <1>11 DEF DrainFrame, SetPending, Fault
<1>12. CASE RxClear
  BY <1>12 DEF RxClear
<1>13. CASE ChipEvent
  BY <1>13 DEF ChipEvent, SetPending
<1>14. CASE ChipFrame
  BY <1>14 DEF ChipFrame, SetPending
<1>15. CASE IrqHandler
  BY <1>15 DEF IrqHandler
<1>16. CASE UNCHANGED vars
  BY <1>16 DEF vars
<1>17. CASE InitNoMemory
  BY <1>17 DEF InitNoMemory
<1> QED
  BY <1>1, <1>2, <1>3, <1>4, <1>5, <1>6, <1>7, <1>8, <1>9, <1>10,
     <1>11, <1>12, <1>13, <1>14, <1>15, <1>16, <1>17
  DEF Next, Continue

LEMMA TaskStepHolds == IInv /\ Handled /\ [Next]_vars => TaskStep
<1> SUFFICES ASSUME IInv, Handled, [Next]_vars, pc \in TaskSteps
             PROVE  \/ pc' = "idle" \/ LessWork
                    \/ UNCHANGED <<pc, events, fifo, arrivals, faults>>
  BY DEF TaskStep
<1> USE DEF IInv, FlagsOK, DataOK, Lifecycle, Handled, TaskSteps, LessWork, Budget,
            Work
<1>1. CASE InitCall
  BY <1>1 DEF InitCall
<1>2. CASE InitList
  BY <1>2 DEF InitList
<1>3. CASE InitChip
  BY <1>3 DEF InitChip, SetPending, Fault
<1>4. CASE InitMode
  BY <1>4 DEF InitMode, Fault
<1>5. CASE Deinit
  BY <1>5 DEF Deinit
<1>6. CASE SetRxHandler
  BY <1>6 DEF SetRxHandler
<1>7. CASE TaskCall
  BY <1>7 DEF TaskCall
<1>8. CASE TaskQuery
  BY <1>8 DEF TaskQuery, Fault
<1>9. CASE HandleEvent
  BY <1>9 DEF HandleEvent, SetPending, Fault, Cleared, Codes
<1>10. CASE HandleFifo1
  BY <1>10 DEF HandleFifo1, Fault
<1>11. CASE DrainFrame
  BY <1>11 DEF DrainFrame, SetPending, Fault
<1>12. CASE RxClear
  BY <1>12 DEF RxClear
<1>13. CASE ChipEvent
  BY <1>13 DEF ChipEvent, SetPending
<1>14. CASE ChipFrame
  BY <1>14 DEF ChipFrame, SetPending
<1>15. CASE IrqHandler
  BY <1>15 DEF IrqHandler
<1>16. CASE UNCHANGED vars
  BY <1>16 DEF vars
<1>17. CASE InitNoMemory
  BY <1>17 DEF InitNoMemory
<1> QED
  BY <1>1, <1>2, <1>3, <1>4, <1>5, <1>6, <1>7, <1>8, <1>9, <1>10,
     <1>11, <1>12, <1>13, <1>14, <1>15, <1>16, <1>17
  DEF Next, Continue

(* When no frame comes before there is a handler for it, every step of the    *)
(* task's loop uses up a fault or an arrival, an event or some of the work on *)
(* the frames, in that order of weight: the loop of leos_mcp251xfd_task has   *)
(* no cycle it could stay in.                                                *)
THEOREM TaskHasNoCycle == ~EarlyFrames => (Spec => [][TaskStep]_vars)
<1> SUFFICES ASSUME ~EarlyFrames PROVE Spec => [][TaskStep]_vars
  OBVIOUS
<1>1. Init => Handled
  BY DEF Init, Handled, TaskSteps
<1>2. IInv /\ Handled /\ [Next]_vars => Handled'
  BY HandledStep
<1>3. IInv /\ Handled /\ [Next]_vars => [TaskStep]_vars
  BY TaskStepHolds
<1> QED
  BY <1>1, <1>2, <1>3, IInvAlways, PTL DEF Spec
=============================================================================
