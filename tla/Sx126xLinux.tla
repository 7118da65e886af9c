---------------------------- MODULE Sx126xLinux ----------------------------
(***************************************************************************)
(* The Linux port of the radio driver                                      *)
(* (src/leos_sx126x/sx126x_port_linux.c) under leos_sx126x_init            *)
(* (src/leos_sx126x/sx126x.c) for the radios of one board: they share an    *)
(* SPI bus, each has its own NSS and BUSY line, and one reset line is       *)
(* requested for all of them. Any system call and any allocation may fail.  *)
(*                                                                         *)
(* The driver has one thread; between two steps of an operation only its    *)
(* own code runs.                                                           *)
(***************************************************************************)
EXTENDS Naturals

CONSTANTS
  Radios,         \* leos_radio_t
  Lines,          \* GPIO lines of the chip
  Boards,         \* ways to wire the radios: the hw_config each is given
  None            \* NULL

ASSUME LinesAssumption == None \notin Lines
ASSUME BoardsAssumption ==
  Boards \subseteq [Radios -> [nss : Lines, busy : Lines, reset : Lines]]

VARIABLES
  board,          \* hw_config of each radio
  op,             \* "idle" or the operation that runs
  pc,             \* what it does next
  radio,          \* the radio it is for
  chip_open,      \* g_gpio_chip # NULL
  reset_line,     \* the line behind g_reset_req, None if NULL
  nss, busy,      \* the lines behind nss_req and busy_req, None if NULL
  requested,      \* leos_sx126x_linux_gpio_t.requested
  initialized,    \* ctx->initialized
  held,           \* lines the kernel has granted to this process
  selected,       \* is the NSS line of the radio low?
  chip,           \* "raw" since power on, "reset" or "configured"
  abandoned,      \* history: NSS lines granted to an init that failed after it
  stuck           \* history: the last write of NSS high has failed

gpioVars == <<chip_open, reset_line, nss, busy, requested, held, abandoned>>
busVars == <<selected, stuck>>
vars == <<board, op, pc, radio, initialized, chip, gpioVars, busVars>>

Ops == {"idle", "init", "config", "deinit", "use"}
Steps == {"idle", "open", "reset", "nss", "busy", "spi", "pulse", "vendor",
          "transfer", "deselect"}

Init ==
  /\ board \in Boards
  /\ op = "idle" /\ pc = "idle" /\ radio \in Radios
  /\ chip_open = FALSE /\ reset_line = None
  /\ nss = [r \in Radios |-> None] /\ busy = [r \in Radios |-> None]
  /\ requested = [r \in Radios |-> FALSE]
  /\ initialized = [r \in Radios |-> FALSE]
  /\ held = {} /\ selected = [r \in Radios |-> FALSE]
  /\ chip = [r \in Radios |-> "raw"]
  /\ abandoned = {} /\ stuck = [r \in Radios |-> FALSE]

Wiring == board[radio]

Return == op' = "idle" /\ pc' = "idle"
GoTo(step) == op' = op /\ pc' = step

-----------------------------------------------------------------------------
(* leos_sx126x_init and leos_sx126x_gpio_init_ctx.                          *)

InitCall(r) ==
  /\ pc = "idle" /\ ~initialized[r]
  /\ radio' = r /\ op' = "init" /\ pc' = "open"
  /\ UNCHANGED <<board, initialized, chip, gpioVars, busVars>>

OpenChip_IgnoreError ==
  /\ pc = "open"
  /\ GoTo(IF requested[radio] THEN "spi" ELSE "reset")
  /\ chip_open' \in {chip_open, TRUE}
  /\ UNCHANGED <<board, radio, initialized, chip, reset_line, nss, busy,
                 requested, held, abandoned, busVars>>

(* Lines left requested by an earlier attempt are used as they are.         *)
OpenChip ==
  /\ pc = "open"
  /\ \/ /\ chip_open' = TRUE
        /\ GoTo(IF requested[radio] THEN "spi" ELSE "reset")
     \/ ~chip_open /\ Return /\ UNCHANGED chip_open
  /\ UNCHANGED <<board, radio, initialized, chip, reset_line, nss, busy,
                 requested, held, abandoned, busVars>>

EnsureReset_AnyLine ==
  /\ pc = "reset"
  /\ \/ reset_line # None /\ GoTo("nss") /\ UNCHANGED <<reset_line, held>>
     \/ /\ reset_line = None /\ Wiring.reset \notin held
        /\ reset_line' = Wiring.reset /\ held' = held \cup {Wiring.reset}
        /\ GoTo("nss")
     \/ reset_line = None /\ Return /\ UNCHANGED <<reset_line, held>>
  /\ UNCHANGED <<board, radio, initialized, chip, chip_open, nss, busy,
                 requested, abandoned, busVars>>

(* The reset line is requested once and serves every radio that names it.   *)
EnsureReset ==
  /\ pc = "reset"
  /\ \/ /\ reset_line = Wiring.reset
        /\ GoTo("nss") /\ UNCHANGED <<reset_line, held>>
     \/ /\ reset_line = None /\ Wiring.reset \notin held
        /\ reset_line' = Wiring.reset /\ held' = held \cup {Wiring.reset}
        /\ GoTo("nss")
     \/ /\ reset_line # Wiring.reset      \* a mismatch, or a request that fails
        /\ Return /\ UNCHANGED <<reset_line, held>>
  /\ UNCHANGED <<board, radio, initialized, chip, chip_open, nss, busy,
                 requested, abandoned, busVars>>

(* NSS is requested as an output and driven high.                           *)
RequestNss ==
  /\ pc = "nss"
  /\ \/ /\ Wiring.nss \notin held
        /\ nss' = [nss EXCEPT ![radio] = Wiring.nss]
        /\ held' = held \cup {Wiring.nss}
        /\ selected' = [selected EXCEPT ![radio] = FALSE]
        /\ stuck' = [stuck EXCEPT ![radio] = FALSE]
        /\ GoTo("busy")
     \/ /\ nss' = [nss EXCEPT ![radio] = None]      \* the request fails
        /\ Return /\ UNCHANGED <<held, busVars>>
     \/ Return /\ UNCHANGED <<nss, held, busVars>>  \* an allocation fails
  /\ UNCHANGED <<board, radio, initialized, chip, chip_open, reset_line, busy,
                 requested, abandoned>>

RequestBusy_KeepNss ==
  /\ pc = "busy"
  /\ \/ /\ Wiring.busy \notin held
        /\ busy' = [busy EXCEPT ![radio] = Wiring.busy]
        /\ held' = held \cup {Wiring.busy}
        /\ requested' = [requested EXCEPT ![radio] = TRUE]
        /\ GoTo("spi") /\ UNCHANGED <<nss, abandoned>>
     \/ /\ busy' = [busy EXCEPT ![radio] = None]
        /\ Return /\ UNCHANGED <<nss, held, requested, abandoned>>
     \/ /\ abandoned' = abandoned \cup {nss[radio]}
        /\ Return /\ UNCHANGED <<nss, busy, held, requested>>
  /\ UNCHANGED <<board, radio, initialized, chip, chip_open, reset_line, busVars>>

(* The refused request gives NSS back; an allocation that fails does not.    *)
RequestBusy ==
  /\ pc = "busy"
  /\ \/ /\ Wiring.busy \notin held
        /\ busy' = [busy EXCEPT ![radio] = Wiring.busy]
        /\ held' = held \cup {Wiring.busy}
        /\ requested' = [requested EXCEPT ![radio] = TRUE]
        /\ GoTo("spi") /\ UNCHANGED <<nss, abandoned>>
     \/ /\ busy' = [busy EXCEPT ![radio] = None]
        /\ nss' = [nss EXCEPT ![radio] = None]
        /\ held' = held \ {nss[radio]}
        /\ Return /\ UNCHANGED <<requested, abandoned>>
     \/ /\ abandoned' = abandoned \cup {nss[radio]}
        /\ Return /\ UNCHANGED <<nss, busy, held, requested>>
  /\ UNCHANGED <<board, radio, initialized, chip, chip_open, reset_line, busVars>>

(* leos_sx126x_gpio_deinit_ctx. The reset line is kept.                      *)
GpioDeinit ==
  /\ nss' = [nss EXCEPT ![radio] = None]
  /\ busy' = [busy EXCEPT ![radio] = None]
  /\ held' = held \ {nss[radio], busy[radio]}
  /\ requested' = [requested EXCEPT ![radio] = FALSE]
  /\ UNCHANGED <<chip_open, reset_line, abandoned>>

(* The vendor driver ends with an error, having released the lines or not.   *)
GiveUp ==
  /\ Return
  /\ GpioDeinit \/ UNCHANGED gpioVars

-----------------------------------------------------------------------------
(* The vendor driver (external): sx1262_init sets up SPI and pulses the       *)
(* reset line; then, as in any other operation, it does transfers.           *)

SpiInit ==
  /\ pc = "spi"
  /\ \/ GoTo("pulse") /\ UNCHANGED gpioVars
     \/ GiveUp
  /\ UNCHANGED <<board, radio, initialized, chip, busVars>>

(* Every chip behind the line loses its configuration.                      *)
ResetChips ==
  chip' = [r \in Radios |-> IF board[r].reset = reset_line THEN "reset" ELSE chip[r]]

Pulse ==
  /\ pc = "pulse"
  /\ \/ ResetChips /\ GoTo("vendor") /\ UNCHANGED gpioVars
     \/ (ResetChips \/ UNCHANGED chip) /\ GiveUp
  /\ UNCHANGED <<board, radio, initialized, busVars>>

(* sx1262_init returns to leos_sx126x_init.                                  *)
InitReturns ==
  /\ pc = "vendor" /\ op = "init"
  /\ \/ /\ initialized' = [initialized EXCEPT ![radio] = TRUE]
        /\ op' = "config" /\ UNCHANGED <<pc, gpioVars>>
     \/ GiveUp /\ UNCHANGED initialized
  /\ UNCHANGED <<board, radio, chip, busVars>>

ApplyConfig_StayInitialized ==
  /\ pc = "vendor" /\ op = "config"
  /\ \/ chip' = [chip EXCEPT ![radio] = "configured"] /\ Return
     \/ Return /\ UNCHANGED chip
  /\ UNCHANGED <<board, radio, initialized, gpioVars, busVars>>

(* leos_sx126x_apply_config returns; on an error sx1262_deinit is called.    *)
ApplyConfig ==
  /\ pc = "vendor" /\ op = "config"
  /\ \/ chip' = [chip EXCEPT ![radio] = "configured"] /\ Return
     \/ op' = "deinit" /\ UNCHANGED <<pc, chip>>
  /\ UNCHANGED <<board, radio, initialized, gpioVars, busVars>>

DeinitReturns ==
  /\ pc = "vendor" /\ op = "deinit"
  /\ initialized' = [initialized EXCEPT ![radio] = FALSE]
  /\ GiveUp
  /\ UNCHANGED <<board, radio, chip, busVars>>

(* Any operation on an initialized radio.                                    *)
UseCall(r) ==
  /\ pc = "idle" /\ initialized[r]
  /\ radio' = r /\ op' = "use" /\ pc' = "vendor"
  /\ UNCHANGED <<board, initialized, chip, gpioVars, busVars>>

UseReturns ==
  /\ pc = "vendor" /\ op = "use"
  /\ Return
  /\ UNCHANGED <<board, radio, initialized, chip, gpioVars, busVars>>

-----------------------------------------------------------------------------
(* leos_sx126x_spi_write_read_ctx. A transfer that could not select the chip *)
(* changes nothing.                                                          *)

Select ==
  /\ pc = "vendor" /\ nss[radio] # None
  /\ selected' = [selected EXCEPT ![radio] = TRUE]
  /\ GoTo("transfer")
  /\ UNCHANGED <<board, radio, initialized, chip, gpioVars, stuck>>

Transfer_ReturnError ==
  /\ pc = "transfer"
  /\ GoTo("deselect") \/ GoTo("vendor")
  /\ UNCHANGED <<board, radio, initialized, chip, gpioVars, busVars>>

(* Whether or not the ioctl fails, the chip is deselected.                   *)
Transfer ==
  /\ pc = "transfer"
  /\ GoTo("deselect")
  /\ UNCHANGED <<board, radio, initialized, chip, gpioVars, busVars>>

Deselect ==
  /\ pc = "deselect"
  /\ GoTo("vendor")
  /\ \E failed \in BOOLEAN :
       /\ selected' = [selected EXCEPT ![radio] = failed]
       /\ stuck' = [stuck EXCEPT ![radio] = failed]
  /\ UNCHANGED <<board, radio, initialized, chip, gpioVars>>

Next ==
  \/ \E r \in Radios : InitCall(r) \/ UseCall(r)
  \/ OpenChip \/ EnsureReset \/ RequestNss \/ RequestBusy
  \/ SpiInit \/ Pulse \/ InitReturns \/ ApplyConfig \/ DeinitReturns \/ UseReturns
  \/ Select \/ Transfer \/ Deselect

Spec == Init /\ [][Next]_vars

-----------------------------------------------------------------------------
(* Every field keeps its type, and lines are used only once the GPIO chip is *)
(* open.                                                                     *)
TypeOK ==
  /\ board \in Boards /\ op \in Ops /\ pc \in Steps /\ radio \in Radios
  /\ chip_open \in BOOLEAN /\ reset_line \in Lines \cup {None}
  /\ nss \in [Radios -> Lines \cup {None}]
  /\ busy \in [Radios -> Lines \cup {None}]
  /\ requested \in [Radios -> BOOLEAN] /\ initialized \in [Radios -> BOOLEAN]
  /\ held \subseteq Lines /\ selected \in [Radios -> BOOLEAN]
  /\ chip \in [Radios -> {"raw", "reset", "configured"}]
  /\ abandoned \subseteq Lines /\ stuck \in [Radios -> BOOLEAN]
  /\ op = "idle" <=> pc = "idle"
  /\ pc \notin {"idle", "open"} => chip_open

Handles ==
  ({reset_line} \cup {nss[r] : r \in Radios} \cup {busy[r] : r \in Radios}) \ {None}

(* Over any sequence of inits that fail at any point and are tried again,    *)
(* the process holds exactly the lines it has a handle for, and a radio has  *)
(* both its lines or none. The one exception is an allocation that fails     *)
(* between the requests of NSS and BUSY: that NSS stays granted for ever, its *)
(* radio is never requested again, and nothing else is lost with it.         *)
LinesAccounted ==
  pc = "idle" =>
    /\ held = Handles \cup abandoned
    /\ \A r \in Radios : requested[r] <=> busy[r] # None
    /\ \A r \in Radios : nss[r] # None <=> requested[r] \/ nss[r] \in abandoned
    /\ \A r \in Radios : board[r].nss \in abandoned => ~requested[r]

(* A radio that the driver calls initialized is reached over its own lines,  *)
(* and its chip has been reset.                                              *)
InitializedIsWired ==
  \A r \in Radios : initialized[r] =>
    /\ board[r] = [nss |-> nss[r], busy |-> busy[r], reset |-> reset_line]
    /\ chip[r] # "raw"

(* It stays configured, unless its reset line is also that of another radio. *)
ConfigLostOnlyBySharing ==
  \A r \in Radios :
    initialized[r] /\ chip[r] # "configured" =>
      \/ radio = r /\ op \in {"config", "deinit"}
      \/ \E s \in Radios \ {r} : board[s].reset = board[r].reset

(* Two chips answer on the shared bus at a time only if deselecting one has  *)
(* failed.                                                                   *)
BusIsShared ==
  \A r \in Radios : selected[r] =>
    \/ radio = r /\ pc \in {"transfer", "deselect"}
    \/ stuck[r]

=============================================================================
