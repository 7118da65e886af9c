--------------------------- MODULE Mcp342xProofs ---------------------------
(***************************************************************************)
(* Theorems about the MCP342x driver, for every set of fields and every    *)
(* number of values of a field.                                            *)
(***************************************************************************)
EXTENDS Mcp342x, TLAPS

USE SettingsAssumption, WidthAssumption

-----------------------------------------------------------------------------
(* The copy is the chip's register unless they are known to have diverged,  *)
(* and a result that can be read was made under the chip's register.        *)
CopyAgrees ==
  /\ pc = "poll" => config # None
  /\ config # None /\ ~diverged => chip_config = config
  /\ conversion = "ready" => measured = chip_config

IInv == TypeOK /\ CopyAgrees /\ OneShotHeals

LEMMA DefaultIsConfig == Default \in Configs
  BY DEF Default, Configs

LEMMA MaskedIsValue ==
  ASSUME NEW v \in Nat
  PROVE  Masked(v) \in Values
  BY DEF Masked, Values

LEMMA InitIInv == Init => IInv
<1> SUFFICES ASSUME Init PROVE IInv
  OBVIOUS
<1>1. TypeOK
  BY DefaultIsConfig DEF Init, TypeOK
<1>2. CopyAgrees /\ OneShotHeals
  BY DEF Init, CopyAgrees, OneShotHeals
<1> QED
  BY <1>1, <1>2 DEF IInv

(* What a write leaves, whether or not it is acknowledged.                  *)
LEMMA WriteResult ==
  ASSUME NEW c \in Configs, Write(c), TypeOK,
         conversion = "ready" => measured = chip_config
  PROVE  /\ chip_config' \in Configs /\ measured' \in Configs
         /\ conversion' \in {"busy", "ready", "stopped"}
         /\ diverged' \in BOOLEAN
         /\ ~diverged' => chip_config' = c
         /\ conversion' = "ready" => measured' = chip_config'
<1>1. CASE ChipWritten(c) /\ diverged' = FALSE
  BY <1>1 DEF ChipWritten, TypeOK
<1>2. CASE UNCHANGED chipVars /\ diverged' = TRUE
  BY <1>2 DEF chipVars, TypeOK
<1> QED
  BY <1>1, <1>2, Zenon DEF Write

LEMMA SetKeeps ==
  ASSUME NEW c \in Configs, Set(c), IInv
  PROVE  IInv'
<1>1. /\ chip_config' \in Configs /\ measured' \in Configs
      /\ conversion' \in {"busy", "ready", "stopped"}
      /\ diverged' \in BOOLEAN
      /\ ~diverged' => chip_config' = c
      /\ conversion' = "ready" => measured' = chip_config'
  BY WriteResult, Zenon DEF Set, IInv, CopyAgrees
<1>2. pc' = "idle" /\ config' = c /\ reading' = reading
  BY DEF Set
<1>3. TypeOK'
  BY <1>1, <1>2, Zenon DEF TypeOK, IInv
<1>4. CopyAgrees' /\ OneShotHeals'
  BY <1>1, <1>2 DEF CopyAgrees, OneShotHeals
<1> QED
  BY <1>3, <1>4 DEF IInv

LEMMA Step == IInv /\ [Next]_vars => IInv'
<1> SUFFICES ASSUME IInv, [Next]_vars PROVE IInv'
  OBVIOUS
<1> USE DEF IInv, TypeOK, CopyAgrees, OneShotHeals, chipVars
<1>1. CASE InitCall
  BY <1>1, DefaultIsConfig DEF InitCall
<1>2. CASE SetField
  <2>1. PICK f \in Fields, v \in 0 .. MaxArg :
          Set([config EXCEPT !.set[f] = Masked(v)])
    BY <1>2 DEF SetField
  <2>2. config \in Configs
    BY <2>1 DEF Set
  <2>3. [config EXCEPT !.set[f] = Masked(v)] \in Configs
    BY <2>2, MaskedIsValue DEF Configs
  <2> QED
    BY <2>1, <2>3, SetKeeps
<1>3. CASE SetMode
  <2>1. PICK m \in {"one_shot", "continuous"} : Set([config EXCEPT !.mode = m])
    BY <1>3 DEF SetMode
  <2>2. config \in Configs
    BY <2>1 DEF Set
  <2>3. [config EXCEPT !.mode = m] \in Configs
    BY <2>2 DEF Configs
  <2> QED
    BY <2>1, <2>3, SetKeeps
<1>4. CASE ReadCall
  BY <1>4 DEF ReadCall, ChipWritten
<1>5. CASE PollReady
  BY <1>5 DEF PollReady, Consumed
<1>6. CASE PollFails
  BY <1>6 DEF PollFails
<1>7. CASE ReadRaw
  BY <1>7 DEF ReadRaw, Consumed
<1>8. CASE ChipConverts
  BY <1>8 DEF ChipConverts
<1>9. CASE UNCHANGED vars
  BY <1>9 DEF vars
<1> QED
  BY <1>1, <1>2, <1>3, <1>4, <1>5, <1>6, <1>7, <1>8, <1>9, Zenon DEF Next

(* The inductive invariant holds in every reachable state.                  *)
THEOREM IInvAlways == Spec => []IInv
<1>1. Init => IInv
  BY InitIInv
<1>2. IInv /\ [Next]_vars => IInv'
  BY Step
<1> QED
  BY <1>1, <1>2, PTL DEF Spec

(* The register copy and the chip's register hold legal settings only, also *)
(* for arguments of the setters that are too large.                         *)
THEOREM TypeCorrect == Spec => []TypeOK
<1>1. IInv => TypeOK
  BY DEF IInv
<1> QED
  BY IInvAlways, <1>1, PTL

(* The loop of read_blocking in one-shot mode waits for a conversion made   *)
(* with the settings of the copy.                                           *)
THEOREM OneShotIsSafe == Spec => []OneShotHeals
<1>1. IInv => OneShotHeals
  BY DEF IInv
<1> QED
  BY IInvAlways, <1>1, PTL

(* A value scaled by other settings than it was measured with is returned   *)
(* only after a failed write or an init that found other settings.          *)
THEOREM ReadingsAreScaledRight == Spec => ReadingFitsSettings
<1>1. IInv /\ [Next]_vars
        => [reading # "wrong" /\ reading' = "wrong" => diverged]_vars
  <2> SUFFICES ASSUME IInv, [Next]_vars, reading # "wrong", reading' = "wrong"
               PROVE  diverged
    BY Zenon
  <2>1. PollReady
    BY DEF Next, InitCall, SetField, SetMode, Set, ReadCall, PollFails, ReadRaw,
           ChipConverts, vars
  <2> QED
    BY <2>1 DEF PollReady, IInv, CopyAgrees, TypeOK
<1> QED
  BY IInvAlways, <1>1, PTL DEF Spec, ReadingFitsSettings
-----------------------------------------------------------------------------
(* The loop of read_blocking. ReadReturns needs fairness and stays with TLC; *)
(* what can be proved is that the loop has something to wait for.           *)

(* A chip that converts on its own never stops, so read_blocking never waits *)
(* for a conversion that nobody has started, unless copy and chip diverge.  *)
RunsOn == conversion = "stopped" => chip_config.mode = "one_shot"

WaitIsServed == pc = "poll" /\ ~diverged => conversion # "stopped"

LEMMA WaitStep ==
  IInv /\ RunsOn /\ WaitIsServed /\ [Next]_vars => (RunsOn /\ WaitIsServed)'
<1> SUFFICES ASSUME IInv, RunsOn, WaitIsServed, [Next]_vars
             PROVE  (RunsOn /\ WaitIsServed)'
  OBVIOUS
<1> USE DEF IInv, TypeOK, CopyAgrees, RunsOn, WaitIsServed, chipVars
<1>1. CASE InitCall
  BY <1>1 DEF InitCall
<1>2. ASSUME NEW c, Set(c) PROVE (RunsOn /\ WaitIsServed)'
  BY <1>2 DEF Set, Write, ChipWritten
<1>3. CASE SetField \/ SetMode
  BY <1>2, <1>3, Zenon DEF SetField, SetMode
<1>4. CASE ReadCall
  BY <1>4 DEF ReadCall, ChipWritten, Configs
<1>5. CASE PollReady
  BY <1>5 DEF PollReady, Consumed, Configs
<1>6. CASE PollFails
  BY <1>6 DEF PollFails
<1>7. CASE ReadRaw
  BY <1>7 DEF ReadRaw, Consumed, Configs
<1>8. CASE ChipConverts
  BY <1>8 DEF ChipConverts
<1>9. CASE UNCHANGED vars
  BY <1>9 DEF vars
<1> QED
  BY <1>1, <1>3, <1>4, <1>5, <1>6, <1>7, <1>8, <1>9, Zenon DEF Next

(* While read_blocking polls and the copy is the chip's register, a          *)
(* conversion is under way or its result is there: the trigger is sent in    *)
(* one-shot mode, and in continuous mode a read result starts the next one.  *)
THEOREM PollIsServed == Spec => []WaitIsServed
<1>1. Init => RunsOn /\ WaitIsServed
  BY DEF Init, RunsOn, WaitIsServed
<1>2. IInv /\ RunsOn /\ WaitIsServed /\ [Next]_vars
        => (RunsOn /\ WaitIsServed)'
  BY WaitStep
<1> QED
  BY <1>1, <1>2, IInvAlways, PTL DEF Spec
=============================================================================
