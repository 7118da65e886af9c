------------------------------ MODULE Mcp342x ------------------------------
(***************************************************************************)
(* The MCP342x ADC driver (src/leos_mcp342x/src/mcp342x.c): the copy of    *)
(* the configuration register the driver keeps, the register in the chip,  *)
(* and the conversions the chip makes under it.                            *)
(*                                                                         *)
(* The copy is changed before it is written, every write sends all of it,  *)
(* and a reading is scaled by the copy: what a reading means depends on    *)
(* the two being the same.                                                 *)
(***************************************************************************)

EXTENDS Naturals

CONSTANTS
  Fields,         \* the fields besides the mode: channel, gain, resolution
  Width,          \* number of values of such a field
  MaxArg,         \* bound: largest argument of a setter
  ResetSet,       \* their values after a reset of the chip
  None            \* no configuration yet

VARIABLES
  pc,             \* "idle", or "poll": read_blocking waits for a conversion
  config,         \* dev->config, or None before mcp342x_init
  chip_config,    \* configuration register of the chip
  conversion,     \* "busy", "ready", or "stopped": the last result was read
  measured,       \* settings under which the last conversion was made
  reading,        \* history: was the value that read_blocking returned measured
                  \* with the settings it is scaled by?
  diverged        \* history: no write has succeeded since the last one that
                  \* failed, or since an init that found other settings

vars == <<pc, config, chip_config, conversion, measured, reading, diverged>>
chipVars == <<chip_config, conversion, measured>>

Values == 0 .. Width - 1

Configs == [mode : {"one_shot", "continuous"}, set : [Fields -> Values]]

(* MCP342X_DEFAULT_CONFIG, the configuration of the chip after its reset.    *)
Default == [mode |-> "continuous", set |-> ResetSet]

ASSUME WidthAssumption == Width \in Nat \ {0} /\ MaxArg \in Nat
ASSUME SettingsAssumption == ResetSet \in [Fields -> Values] /\ None \notin Configs

Init ==
  /\ pc = "idle" /\ config = None
  /\ chip_config = Default /\ conversion = "busy" /\ measured = Default
  /\ reading = "none" /\ diverged = FALSE

-----------------------------------------------------------------------------
(* The chip: a write with RDY set starts a conversion anew, in either mode;  *)
(* in one-shot mode nothing follows the result until the next write.         *)

ChipWritten(c) ==
  /\ chip_config' = c
  /\ conversion' = "busy"
  /\ UNCHANGED measured

ChipConverts ==
  /\ conversion = "busy"
  /\ conversion' = "ready"
  /\ measured' = chip_config
  /\ UNCHANGED <<pc, config, chip_config, reading, diverged>>

-----------------------------------------------------------------------------
(* mcp342x_init assumes the reset default and does not write it.            *)
InitCall ==
  /\ pc = "idle"
  /\ config' = Default
  /\ diverged' = (chip_config # Default)
  /\ UNCHANGED <<pc, chipVars, reading>>

(* The setters: change the copy, then write it; the write may find no        *)
(* acknowledgement, and the copy keeps the change.                           *)
Write_FieldOnly(c) ==
  \/ ChipWritten([c EXCEPT !.mode = chip_config.mode]) /\ diverged' = FALSE
  \/ UNCHANGED chipVars /\ diverged' = TRUE

Write(c) ==
  \/ ChipWritten(c) /\ diverged' = FALSE
  \/ UNCHANGED chipVars /\ diverged' = TRUE

Set(c) ==
  /\ pc = "idle" /\ config # None
  /\ config' = c
  /\ Write(c)
  /\ UNCHANGED <<pc, reading>>

Masked_None(v) == v

Masked(v) == v % Width

SetField ==
  \E f \in Fields, v \in 0 .. MaxArg : Set([config EXCEPT !.set[f] = Masked(v)])

SetMode == \E m \in {"one_shot", "continuous"} : Set([config EXCEPT !.mode = m])

(* mcp342x_read_blocking triggers a conversion if the copy says one-shot.    *)
ReadCall_NoTrigger ==
  /\ pc = "idle" /\ config # None
  /\ pc' = "poll" /\ reading' = "none"
  /\ UNCHANGED <<config, chipVars, diverged>>

ReadCall ==
  /\ pc = "idle" /\ config # None
  /\ IF config.mode = "one_shot"
     THEN \/ ChipWritten(config) /\ diverged' = FALSE /\ pc' = "poll"
          \/ UNCHANGED <<pc, chipVars, diverged>>          \* no acknowledgement
     ELSE pc' = "poll" /\ UNCHANGED <<chipVars, diverged>>
  /\ reading' = "none"
  /\ UNCHANGED config

(* What a read of the result leaves of it.                                  *)
Consumed ==
  IF chip_config.mode = "continuous" THEN "busy" ELSE "stopped"

(* mcp342x_read_raw, until RDY is clear; the value is scaled by the copy.   *)
PollReady_IgnoreRdy ==
  /\ pc = "poll"
  /\ pc' = "idle"
  /\ reading' = IF measured = config THEN "right" ELSE "wrong"
  /\ UNCHANGED <<config, chipVars, diverged>>

PollReady ==
  /\ pc = "poll" /\ conversion = "ready"
  /\ pc' = "idle"
  /\ reading' = IF measured = config THEN "right" ELSE "wrong"
  /\ conversion' = Consumed
  /\ UNCHANGED <<config, chip_config, measured, diverged>>

PollFails ==
  /\ pc = "poll"                                    \* no acknowledgement
  /\ pc' = "idle"
  /\ UNCHANGED <<config, chipVars, reading, diverged>>

(* mcp342x_read_raw called by the application takes the result away.        *)
ReadRaw ==
  /\ pc = "idle" /\ config # None
  /\ conversion = "ready"
  /\ conversion' = Consumed
  /\ UNCHANGED <<pc, config, chip_config, measured, reading, diverged>>

Next ==
  \/ InitCall \/ SetField \/ SetMode
  \/ ReadCall \/ PollReady \/ PollFails \/ ReadRaw
  \/ ChipConverts

Spec == Init /\ [][Next]_vars

(* A conversion ends, and the loop of read_blocking goes on; the bus is not  *)
(* assumed to fail, which would end the loop as well.                        *)
FairSpec == Spec /\ WF_vars(ChipConverts) /\ WF_vars(PollReady)

-----------------------------------------------------------------------------
TypeOK ==
  /\ pc \in {"idle", "poll"}
  /\ config \in Configs \cup {None}
  /\ chip_config \in Configs /\ measured \in Configs
  /\ conversion \in {"busy", "ready", "stopped"}
  /\ reading \in {"none", "right", "wrong"}
  /\ diverged \in BOOLEAN

(* A value that read_blocking returns was measured on the channel and with   *)
(* the gain and resolution it is scaled by, unless the copy and the chip     *)
(* have diverged: no result of earlier settings survives a write.            *)
ReadingFitsSettings ==
  [][reading # "wrong" /\ reading' = "wrong" => diverged]_vars

(* In one-shot mode a failed write does no lasting harm: the trigger sends   *)
(* the whole copy, so a reading always has the settings it is scaled by.     *)
OneShotHeals ==
  pc = "poll" /\ config.mode = "one_shot" => chip_config = config

(* read_blocking has no limit on its loop; it ends all the same, unless the  *)
(* copy says continuous and the chip does not convert on its own.            *)
ReadReturns == (pc = "poll" /\ ~diverged) ~> (pc = "idle")
=============================================================================
