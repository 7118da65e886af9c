------------------------- MODULE Sx126xLinuxProofs -------------------------
(***************************************************************************)
(* Theorems about the Linux port, for any number of radios, any lines and  *)
(* any wiring of the board.                                                *)
(***************************************************************************)
EXTENDS Sx126xLinux, TLAPS

USE LinesAssumption, BoardsAssumption

LEMMA WiringTyped ==
  ASSUME board \in Boards, NEW r \in Radios
  PROVE  /\ board[r] \in [nss : Lines, busy : Lines, reset : Lines]
         /\ board[r].nss \in Lines /\ board[r].busy \in Lines
         /\ board[r].reset \in Lines
  OBVIOUS

(* Which operation each step belongs to, and what it may rely on.            *)
Progress ==
  /\ pc \in {"open", "reset", "nss", "busy", "spi", "pulse"} => op = "init"
  /\ op = "init" => ~initialized[radio]
  /\ op \in {"config", "deinit", "use"} => initialized[radio]
  /\ pc \in {"reset", "nss", "busy"} => ~requested[radio]
  /\ pc \in {"nss", "busy"} => reset_line = board[radio].reset
  /\ pc = "busy" => nss[radio] = board[radio].nss
  /\ pc \in {"spi", "pulse", "vendor", "transfer", "deselect"} => requested[radio]
  /\ pc \in {"vendor", "transfer", "deselect"} => chip[radio] # "raw"

(* Requested means that the handles are for the lines of the board.          *)
Wired ==
  /\ \A r \in Radios : requested[r] => chip_open
  /\ \A r \in Radios : requested[r] =>
       /\ nss[r] = board[r].nss /\ busy[r] = board[r].busy
       /\ reset_line = board[r].reset
  /\ \A r \in Radios : initialized[r] => requested[r] /\ chip[r] # "raw"

(* Each handle is to a line the kernel has granted, and to no other's line.  *)
HandlesOwn ==
  /\ \A r \in Radios : nss[r] # None => nss[r] \in held /\ nss[r] # reset_line
  /\ \A r \in Radios : busy[r] # None => busy[r] \in held /\ busy[r] # reset_line
  /\ reset_line # None => reset_line \in held
  /\ \A r, s \in Radios : nss[r] = nss[s] /\ nss[r] # None => r = s
  /\ \A r, s \in Radios : busy[r] = busy[s] /\ busy[r] # None => r = s
  /\ \A r, s \in Radios : nss[r] = busy[s] => nss[r] = None

HasHandle(l) ==
  l = reset_line \/ \E r \in Radios : l = nss[r] \/ l = busy[r]

(* Nothing is granted without a handle, in the middle of an init either, but *)
(* for the abandoned lines; and those are never released.                    *)
NothingLost ==
  /\ \A r \in Radios : requested[r] <=> busy[r] # None
  /\ \A l \in held : HasHandle(l) \/ l \in abandoned
  /\ \A r \in Radios :
       nss[r] # None <=>
         requested[r] \/ nss[r] \in abandoned \/ (r = radio /\ pc = "busy")
  /\ abandoned \subseteq held
  /\ \A r \in Radios : busy[r] \notin abandoned
  /\ \A r \in Radios :
       requested[r] \/ (r = radio /\ pc = "busy") => nss[r] \notin abandoned

IInv ==
  /\ TypeOK /\ Progress /\ Wired /\ HandlesOwn /\ NothingLost
  /\ ConfigLostOnlyBySharing /\ BusIsShared

LEMMA InitInv == Init => IInv
  BY DEF Init, IInv, TypeOK, Ops, Steps, Progress, Wired, HandlesOwn,
         NothingLost, ConfigLostOnlyBySharing, BusIsShared

-----------------------------------------------------------------------------
(* Releasing the lines of a radio that is not initialized.                   *)
LEMMA GpioDeinitKeeps ==
  ASSUME IInv, GpioDeinit, ~initialized'[radio], UNCHANGED <<board, radio>>,
         \A r \in Radios \ {radio} : initialized'[r] = initialized[r],
         \A r \in Radios : chip[r] # "raw" => chip'[r] # "raw",
         requested[radio], pc # "busy", pc' = "idle"
  PROVE  Wired' /\ HandlesOwn' /\ NothingLost'
<1> USE DEF IInv, TypeOK, GpioDeinit
<1>1. /\ \A r \in Radios : nss'[r] = IF r = radio THEN None ELSE nss[r]
      /\ \A r \in Radios : busy'[r] = IF r = radio THEN None ELSE busy[r]
      /\ \A r \in Radios : requested'[r] = IF r = radio THEN FALSE ELSE requested[r]
  OBVIOUS
<1>2. Wired'
  BY <1>1 DEF Wired
<1>3. HandlesOwn'
  BY <1>1 DEF HandlesOwn
<1>4. NothingLost'
  <2> USE DEF NothingLost
  <2>1. \A r \in Radios : requested'[r] <=> busy'[r] # None
    BY <1>1
  <2>2. \A l \in held' : HasHandle(l)' \/ l \in abandoned'
    BY <1>1 DEF HasHandle
  <2>3. \A r \in Radios : nss'[r] # None <=> requested'[r] \/ nss'[r] \in abandoned'
    BY <1>1
  <2>4. abandoned' \subseteq held'
    BY <1>1
  <2>5. \A r \in Radios : busy'[r] \notin abandoned'
    BY <1>1
  <2>6. \A r \in Radios : requested'[r] => nss'[r] \notin abandoned'
    BY <1>1
  <2> QED
    BY <2>1, <2>2, <2>3, <2>4, <2>5, <2>6
<1> QED
  BY <1>2, <1>3, <1>4

LEMMA GpioKept ==
  ASSUME IInv, UNCHANGED <<board, radio, gpioVars>>,
         \A r \in Radios : initialized'[r] => initialized[r]
                             \/ (requested[r] /\ chip'[r] # "raw"),
         \A r \in Radios : chip[r] # "raw" => chip'[r] # "raw",
         pc # "busy", pc' # "busy"
  PROVE  Wired' /\ HandlesOwn' /\ NothingLost'
<1> USE DEF IInv, TypeOK, gpioVars
<1>1. Wired'
  BY DEF Wired
<1>2. HandlesOwn'
  BY DEF HandlesOwn
<1>3. NothingLost'
  BY DEF NothingLost, HasHandle
<1> QED
  BY <1>1, <1>2, <1>3

LEMMA GpioTyped ==
  ASSUME TypeOK, GpioDeinit \/ UNCHANGED gpioVars
  PROVE  /\ chip_open' = chip_open /\ reset_line' \in Lines \cup {None}
         /\ nss' \in [Radios -> Lines \cup {None}]
         /\ busy' \in [Radios -> Lines \cup {None}]
         /\ requested' \in [Radios -> BOOLEAN] /\ held' \subseteq Lines
         /\ abandoned' \subseteq Lines
<1>1. CASE UNCHANGED gpioVars
  BY <1>1 DEF TypeOK, gpioVars
<1>2. CASE GpioDeinit
  BY <1>2 DEF TypeOK, GpioDeinit
<1> QED
  BY <1>1, <1>2

-----------------------------------------------------------------------------
(* One lemma per step of an operation.                                       *)

LEMMA CallKeeps ==
  ASSUME IInv, NEW r \in Radios, InitCall(r) \/ UseCall(r)
  PROVE  IInv'
<1> USE DEF IInv, InitCall, UseCall, gpioVars, busVars
<1>1. TypeOK'
  BY DEF TypeOK, Ops, Steps, Wired
<1>2. Progress'
  BY DEF Progress, Wired, TypeOK
<1>3. Wired' /\ HandlesOwn'
  BY DEF Wired, HandlesOwn
<1>4. NothingLost'
  BY DEF NothingLost, HasHandle
<1>5. ConfigLostOnlyBySharing' /\ BusIsShared'
  BY DEF ConfigLostOnlyBySharing, BusIsShared, TypeOK
<1> QED
  BY <1>1, <1>2, <1>3, <1>4, <1>5

LEMMA OpenChipKeeps == IInv /\ OpenChip => IInv'
<1> SUFFICES ASSUME IInv, OpenChip PROVE IInv'
  OBVIOUS
<1> USE DEF IInv, OpenChip, GoTo, Return, busVars
<1>1. TypeOK'
  BY DEF TypeOK, Ops, Steps, Progress
<1>2. Progress'
  BY DEF Progress, TypeOK
<1>3. Wired' /\ HandlesOwn'
  BY DEF Wired, HandlesOwn
<1>4. NothingLost'
  BY DEF NothingLost, HasHandle
<1>5. ConfigLostOnlyBySharing' /\ BusIsShared'
  BY DEF ConfigLostOnlyBySharing, BusIsShared, Progress
<1> QED
  BY <1>1, <1>2, <1>3, <1>4, <1>5

LEMMA EnsureResetKeeps == IInv /\ EnsureReset => IInv'
<1> SUFFICES ASSUME IInv, EnsureReset PROVE IInv'
  OBVIOUS
<1> USE DEF IInv, EnsureReset, GoTo, Return, busVars, Wiring
<1>0. board[radio].reset \in Lines
  BY WiringTyped DEF TypeOK
<1>1. TypeOK'
  BY <1>0 DEF TypeOK, Ops, Steps, Progress
<1>2. Progress'
  BY <1>0 DEF Progress, TypeOK
<1>3. Wired'
  <2>1. \A r \in Radios : requested[r] => reset_line # None
    BY WiringTyped DEF Wired, TypeOK
  <2> QED
    BY <2>1 DEF Wired
<1>4. HandlesOwn'
  BY <1>0 DEF HandlesOwn, TypeOK
<1>5. NothingLost'
  <2>1. \A l \in held : l # None
    BY DEF TypeOK
  <2>2. \A l \in held' : l \in held \/ l = reset_line'
    OBVIOUS
  <2>3. reset_line' = reset_line \/ reset_line = None
    OBVIOUS
  <2> QED
    BY <2>1, <2>2, <2>3 DEF NothingLost, HasHandle
<1>6. ConfigLostOnlyBySharing' /\ BusIsShared'
  BY DEF ConfigLostOnlyBySharing, BusIsShared, Progress
<1> QED
  BY <1>1, <1>2, <1>3, <1>4, <1>5, <1>6

LEMMA RequestNssKeeps == IInv /\ RequestNss => IInv'
<1> SUFFICES ASSUME IInv, RequestNss PROVE IInv'
  OBVIOUS
<1> USE DEF IInv, RequestNss, GoTo, Return, busVars, Wiring
<1>0. board[radio].nss \in Lines
  BY WiringTyped DEF TypeOK
<1>1. TypeOK'
  BY <1>0 DEF TypeOK, Ops, Steps, Progress
<1>2. Progress'
  BY DEF Progress, TypeOK
<1>3. Wired'
  BY DEF Wired, TypeOK, Progress
<1>4. CASE UNCHANGED <<nss, held, selected, stuck>> /\ pc' = "idle"
  <2>1. HandlesOwn' /\ NothingLost'
    BY <1>4 DEF HandlesOwn, NothingLost, HasHandle
  <2> QED
    BY <1>1, <1>2, <1>3, <2>1 DEF ConfigLostOnlyBySharing, BusIsShared, Progress, TypeOK
<1>5. CASE nss' = [nss EXCEPT ![radio] = None] /\ held' = held /\ pc' = "idle"
  <2>1. \A r \in Radios : nss'[r] = IF r = radio THEN None ELSE nss[r]
    BY <1>5 DEF TypeOK
  <2>2. HandlesOwn'
    BY <1>5, <2>1 DEF HandlesOwn
  <2>3. nss[radio] = None \/ nss[radio] \in abandoned
    BY DEF NothingLost, Progress, TypeOK
  <2>4. NothingLost'
    BY <1>5, <2>1, <2>3 DEF NothingLost, HasHandle
  <2> QED
    BY <1>1, <1>2, <1>3, <1>5, <2>2, <2>4
       DEF ConfigLostOnlyBySharing, BusIsShared, Progress, TypeOK
<1>6. CASE /\ Wiring.nss \notin held
           /\ nss' = [nss EXCEPT ![radio] = Wiring.nss]
           /\ held' = held \cup {Wiring.nss}
           /\ selected' = [selected EXCEPT ![radio] = FALSE]
           /\ pc' = "busy"
  <2>1. \A r \in Radios : nss'[r] = IF r = radio THEN board[radio].nss ELSE nss[r]
    BY <1>6 DEF TypeOK
  <2>2. HandlesOwn'
    BY <1>0, <1>6, <2>1 DEF HandlesOwn
  <2>3. nss[radio] = None \/ nss[radio] \in abandoned
    BY DEF NothingLost, Progress, TypeOK
  <2>4. NothingLost'
    BY <1>0, <1>6, <2>1, <2>3 DEF NothingLost, HasHandle, Progress, TypeOK
  <2>5. BusIsShared'
    BY <1>6 DEF BusIsShared, TypeOK
  <2> QED
    BY <1>1, <1>2, <1>3, <1>6, <2>2, <2>4, <2>5 DEF ConfigLostOnlyBySharing, Progress
<1> QED
  BY <1>4, <1>5, <1>6

LEMMA RequestBusyKeeps == IInv /\ RequestBusy => IInv'
<1> SUFFICES ASSUME IInv, RequestBusy PROVE IInv'
  OBVIOUS
<1> USE DEF IInv, RequestBusy, GoTo, Return, busVars, Wiring
<1>0. /\ board[radio].busy \in Lines /\ board[radio].nss \in Lines
      /\ nss[radio] = board[radio].nss
  BY WiringTyped DEF TypeOK, Progress
<1>1. TypeOK'
  BY <1>0 DEF TypeOK, Ops, Steps, Progress
<1>2. Progress'
  BY DEF Progress, TypeOK
<1>3. ~initialized[radio] /\ ~requested[radio] /\ busy[radio] = None
  BY DEF Progress, NothingLost, TypeOK
<1>8. /\ UNCHANGED <<board, radio, initialized, chip, chip_open, reset_line>>
       /\ pc = "busy" /\ chip_open
  BY DEF TypeOK
<1>4. ConfigLostOnlyBySharing' /\ BusIsShared'
  BY DEF ConfigLostOnlyBySharing, BusIsShared, Progress
<1>5. CASE /\ UNCHANGED <<nss, busy, held, requested>> /\ pc' = "idle"
           /\ abandoned' = abandoned \cup {nss[radio]}
  <2>1. nss[radio] \in held /\ \A r \in Radios : busy[r] # nss[radio]
    BY <1>0 DEF HandlesOwn, TypeOK
  <2>2. \A r \in Radios : nss[r] = nss[radio] => r = radio
    BY <1>0 DEF HandlesOwn, TypeOK
  <2>3. Wired' /\ HandlesOwn'
    BY <1>5, <1>8 DEF Wired, HandlesOwn
  <2>4. NothingLost'
    <3> HIDE DEF RequestBusy
    <3>1. /\ \A l \in held' : HasHandle(l)' \/ l \in abandoned'
          /\ abandoned' \subseteq held'
          /\ \A r \in Radios : busy'[r] \notin abandoned'
      BY <1>5, <1>8, <2>1 DEF NothingLost, HasHandle
    <3>2. \A r \in Radios :
            /\ nss'[r] # None <=> requested'[r] \/ nss'[r] \in abandoned'
            /\ requested'[r] => nss'[r] \notin abandoned'
      BY <1>0, <1>3, <1>5, <1>8, <2>2 DEF NothingLost, TypeOK
    <3> QED
      BY <1>5, <3>1, <3>2 DEF NothingLost
  <2> QED
    BY <1>1, <1>2, <1>4, <2>3, <2>4
<1>6. CASE /\ busy' = [busy EXCEPT ![radio] = None]
           /\ nss' = [nss EXCEPT ![radio] = None]
           /\ held' = held \ {nss[radio]}
           /\ UNCHANGED <<requested, abandoned>> /\ pc' = "idle"
  <2>1. /\ \A r \in Radios : nss'[r] = IF r = radio THEN None ELSE nss[r]
        /\ \A r \in Radios : busy'[r] = busy[r]
    BY <1>3, <1>6 DEF TypeOK
  <2>2. Wired'
    BY <1>3, <1>6, <2>1 DEF Wired
  <2>3. HandlesOwn'
    <3> HIDE DEF RequestBusy
    <3> QED
      BY <1>6, <1>8, <2>1 DEF HandlesOwn, TypeOK
  <2>4. NothingLost'
    <3> HIDE DEF RequestBusy
    <3>1. \A l \in held' : HasHandle(l)' \/ l \in abandoned'
      BY <1>3, <1>6, <1>8, <2>1 DEF NothingLost, HasHandle
    <3>2. \A r \in Radios : nss'[r] # None <=> requested'[r] \/ nss'[r] \in abandoned'
      BY <1>3, <1>6, <1>8, <2>1 DEF NothingLost, TypeOK
    <3>3. /\ abandoned' \subseteq held'
          /\ \A r \in Radios : busy'[r] \notin abandoned'
          /\ \A r \in Radios : requested'[r] => nss'[r] \notin abandoned'
      BY <1>3, <1>6, <1>8, <2>1 DEF NothingLost, TypeOK
    <3>4. \A r \in Radios : requested'[r] <=> busy'[r] # None
      BY <1>3, <1>6, <2>1 DEF NothingLost
    <3> QED
      BY <1>6, <3>1, <3>2, <3>3, <3>4 DEF NothingLost
  <2> QED
    BY <1>1, <1>2, <1>4, <2>2, <2>3, <2>4
<1>7. CASE /\ Wiring.busy \notin held
           /\ busy' = [busy EXCEPT ![radio] = Wiring.busy]
           /\ held' = held \cup {Wiring.busy}
           /\ requested' = [requested EXCEPT ![radio] = TRUE]
           /\ UNCHANGED <<nss, abandoned>> /\ pc' = "spi"
  <2>1. /\ \A r \in Radios : busy'[r] = IF r = radio THEN board[radio].busy ELSE busy[r]
        /\ \A r \in Radios : requested'[r] = (r = radio \/ requested[r])
    BY <1>7 DEF TypeOK
  <2>2. nss[radio] = board[radio].nss /\ reset_line = board[radio].reset
    BY DEF Progress
  <2>3. Wired'
    BY <1>7, <1>8, <2>1, <2>2 DEF Wired
  <2>4. HandlesOwn'
    BY <1>0, <1>7, <2>1 DEF HandlesOwn
  <2>5. \A l \in held' : l \in held \/ l = busy'[radio]
    BY <1>7, <2>1 DEF TypeOK
  <2>6. \A l \in held : HasHandle(l) => HasHandle(l)'
    BY <1>3, <1>7, <1>8, <2>1 DEF HasHandle, TypeOK
  <2>7. board[radio].busy # None
    BY <1>0
  <2>8. NothingLost'
    <3> HIDE DEF RequestBusy
    <3> QED
      BY <1>3, <1>7, <1>8, <2>1, <2>5, <2>6, <2>7 DEF NothingLost, HasHandle, Progress, TypeOK
  <2> QED
    BY <1>1, <1>2, <1>4, <2>3, <2>4, <2>8
<1> QED
  BY <1>5, <1>6, <1>7

(* The steps that may end with the vendor driver giving up: the lines of a   *)
(* radio that is not, or no longer, initialized are released or kept.        *)
LEMMA SpiInitKeeps == IInv /\ SpiInit => IInv'
<1> SUFFICES ASSUME IInv, SpiInit PROVE IInv'
  OBVIOUS
<1>1. /\ pc = "spi" /\ op = "init" /\ ~initialized[radio] /\ requested[radio]
      /\ UNCHANGED <<board, radio, initialized, chip, busVars>>
      /\ \/ op' = op /\ pc' = "pulse" /\ UNCHANGED gpioVars
         \/ op' = "idle" /\ pc' = "idle" /\ (GpioDeinit \/ UNCHANGED gpioVars)
  BY DEF SpiInit, GiveUp, Return, GoTo, IInv, Progress
<1>2. Wired' /\ HandlesOwn' /\ NothingLost'
  BY <1>1, GpioDeinitKeeps, GpioKept
<1>3. TypeOK'
  <2>1. TypeOK /\ (GpioDeinit \/ UNCHANGED gpioVars)
    BY <1>1 DEF IInv
  <2> QED
    BY <1>1, <2>1, GpioTyped DEF TypeOK, Ops, Steps, busVars
<1>4. Progress'
  BY <1>1 DEF IInv, Progress, gpioVars
<1>5. ConfigLostOnlyBySharing' /\ BusIsShared'
  BY <1>1 DEF IInv, ConfigLostOnlyBySharing, BusIsShared, busVars
<1> QED
  BY <1>2, <1>3, <1>4, <1>5 DEF IInv

LEMMA PulseKeeps == IInv /\ Pulse => IInv'
<1> SUFFICES ASSUME IInv, Pulse PROVE IInv'
  OBVIOUS
<1>1. /\ pc = "pulse" /\ op = "init" /\ ~initialized[radio] /\ requested[radio]
      /\ UNCHANGED <<board, radio, initialized, busVars>>
      /\ ResetChips \/ UNCHANGED chip
      /\ \/ op' = op /\ pc' = "vendor" /\ ResetChips /\ UNCHANGED gpioVars
         \/ op' = "idle" /\ pc' = "idle" /\ (GpioDeinit \/ UNCHANGED gpioVars)
  BY DEF Pulse, GiveUp, Return, GoTo, IInv, Progress
<1>2. reset_line = board[radio].reset
  BY <1>1 DEF IInv, Wired, TypeOK
<1>3. \A r \in Radios :
        \/ chip'[r] = chip[r]
        \/ chip'[r] = "reset" /\ board[r].reset = board[radio].reset
  BY <1>1, <1>2 DEF ResetChips, IInv, TypeOK
<1>4. Wired' /\ HandlesOwn' /\ NothingLost'
  BY <1>1, <1>3, GpioDeinitKeeps, GpioKept
<1>5. chip' \in [Radios -> {"raw", "reset", "configured"}]
  BY <1>1 DEF ResetChips, IInv, TypeOK
<1>6. TypeOK'
  <2>1. TypeOK /\ (GpioDeinit \/ UNCHANGED gpioVars)
    BY <1>1 DEF IInv
  <2> QED
    BY <1>1, <1>5, <2>1, GpioTyped DEF TypeOK, Ops, Steps, busVars
<1>7. ResetChips => chip'[radio] = "reset"
  BY <1>1, <1>2 DEF ResetChips, IInv, TypeOK
<1>8. Progress'
  BY <1>1, <1>7 DEF IInv, Progress, gpioVars
<1>9. ConfigLostOnlyBySharing'
  <2> SUFFICES ASSUME NEW r \in Radios, initialized'[r], chip'[r] # "configured"
               PROVE  \/ radio' = r /\ op' \in {"config", "deinit"}
                      \/ \E s \in Radios \ {r} : board'[s].reset = board'[r].reset
    BY DEF ConfigLostOnlyBySharing
  <2>1. r # radio /\ initialized[r]
    BY <1>1
  <2>2. CASE chip'[r] = chip[r]
    BY <1>1, <2>1, <2>2 DEF IInv, ConfigLostOnlyBySharing
  <2>3. CASE board[r].reset = board[radio].reset
    BY <1>1, <2>1, <2>3 DEF IInv, TypeOK
  <2> QED
    BY <1>3, <2>2, <2>3
<1>10. BusIsShared'
  BY <1>1 DEF IInv, BusIsShared, busVars
<1> QED
  BY <1>4, <1>6, <1>8, <1>9, <1>10 DEF IInv

LEMMA InitReturnsKeeps == IInv /\ InitReturns => IInv'
<1> SUFFICES ASSUME IInv, InitReturns PROVE IInv'
  OBVIOUS
<1>1. /\ pc = "vendor" /\ op = "init" /\ ~initialized[radio] /\ requested[radio]
      /\ chip[radio] # "raw" /\ UNCHANGED <<board, radio, chip, busVars>>
      /\ \/ /\ initialized' = [initialized EXCEPT ![radio] = TRUE]
            /\ op' = "config" /\ pc' = "vendor" /\ UNCHANGED gpioVars
         \/ /\ op' = "idle" /\ pc' = "idle" /\ initialized' = initialized
            /\ GpioDeinit \/ UNCHANGED gpioVars
  BY DEF InitReturns, GiveUp, Return, IInv, Progress
<1>2. \A r \in Radios : initialized'[r] = initialized[r]
                         \/ (r = radio /\ op' = "config" /\ initialized'[r])
  BY <1>1 DEF IInv, TypeOK
<1>3. Wired' /\ HandlesOwn' /\ NothingLost'
  BY <1>1, <1>2, GpioDeinitKeeps, GpioKept
<1>4. TypeOK'
  <2>1. TypeOK /\ (GpioDeinit \/ UNCHANGED gpioVars)
    BY <1>1 DEF IInv
  <2>2. initialized' \in [Radios -> BOOLEAN]
    BY <1>1 DEF IInv, TypeOK
  <2> QED
    BY <1>1, <2>1, <2>2, GpioTyped DEF TypeOK, Ops, Steps, busVars
<1>5. Progress'
  BY <1>1 DEF IInv, Progress, gpioVars, TypeOK
<1>6. ConfigLostOnlyBySharing' /\ BusIsShared'
  BY <1>1, <1>2 DEF IInv, ConfigLostOnlyBySharing, BusIsShared, busVars
<1> QED
  BY <1>3, <1>4, <1>5, <1>6 DEF IInv

LEMMA ApplyConfigKeeps == IInv /\ ApplyConfig => IInv'
<1> SUFFICES ASSUME IInv, ApplyConfig PROVE IInv'
  OBVIOUS
<1>1. /\ pc = "vendor" /\ op = "config" /\ requested[radio] /\ initialized[radio]
      /\ UNCHANGED <<board, radio, initialized, gpioVars, busVars>>
      /\ \/ /\ chip' = [chip EXCEPT ![radio] = "configured"]
            /\ op' = "idle" /\ pc' = "idle"
         \/ op' = "deinit" /\ pc' = "vendor" /\ chip' = chip
  BY DEF ApplyConfig, Return, IInv, Progress
<1>2. \A r \in Radios : chip'[r] = chip[r] \/ chip'[r] = "configured"
  BY <1>1 DEF IInv, TypeOK
<1>3. op' = "idle" => chip'[radio] = "configured"
  BY <1>1 DEF IInv, TypeOK
<1>4. Wired' /\ HandlesOwn' /\ NothingLost'
  BY <1>1, <1>2, GpioKept
<1>5. TypeOK'
  BY <1>1 DEF IInv, TypeOK, Ops, Steps, gpioVars, busVars
<1>6. Progress'
  BY <1>1, <1>2 DEF IInv, Progress, gpioVars
<1>7. ConfigLostOnlyBySharing' /\ BusIsShared'
  BY <1>1, <1>2, <1>3 DEF IInv, ConfigLostOnlyBySharing, BusIsShared, busVars
<1> QED
  BY <1>4, <1>5, <1>6, <1>7 DEF IInv

LEMMA DeinitReturnsKeeps == IInv /\ DeinitReturns => IInv'
<1> SUFFICES ASSUME IInv, DeinitReturns PROVE IInv'
  OBVIOUS
<1>1. /\ pc = "vendor" /\ op = "deinit" /\ requested[radio]
      /\ UNCHANGED <<board, radio, chip, busVars>>
      /\ op' = "idle" /\ pc' = "idle"
      /\ initialized' = [initialized EXCEPT ![radio] = FALSE]
      /\ GpioDeinit \/ UNCHANGED gpioVars
  BY DEF DeinitReturns, GiveUp, Return, IInv, Progress
<1>2. \A r \in Radios : initialized'[r] = (r # radio /\ initialized[r])
  BY <1>1 DEF IInv, TypeOK
<1>3. radio \in Radios
  BY DEF IInv, TypeOK
<1>4. Wired' /\ HandlesOwn' /\ NothingLost'
  <2>1. /\ ~initialized'[radio]
        /\ \A r \in Radios \ {radio} : initialized'[r] = initialized[r]
        /\ \A r \in Radios : initialized'[r] => initialized[r]
        /\ \A r \in Radios : chip[r] # "raw" => chip'[r] # "raw"
        /\ requested[radio] /\ pc # "busy" /\ pc' = "idle" /\ UNCHANGED <<board, radio>>
    <3>1. initialized \in [Radios -> BOOLEAN]
      BY DEF IInv, TypeOK
    <3>2. ~initialized'[radio]
      BY <1>1, <1>3, <3>1
    <3>3. \A r \in Radios \ {radio} : initialized'[r] = initialized[r]
      BY <1>1, <3>1
    <3>4. \A r \in Radios : initialized'[r] => initialized[r]
      BY <1>2
    <3> QED
      BY <1>1, <3>2, <3>3, <3>4
  <2>2. CASE GpioDeinit
    BY <2>1, <2>2, GpioDeinitKeeps
  <2>3. CASE UNCHANGED gpioVars
    BY <2>1, <2>3, GpioKept
  <2> QED
    BY <1>1, <2>2, <2>3
<1>5. TypeOK'
  <2>1. TypeOK /\ (GpioDeinit \/ UNCHANGED gpioVars)
    BY <1>1 DEF IInv
  <2>2. initialized' \in [Radios -> BOOLEAN]
    BY <1>1 DEF IInv, TypeOK
  <2> QED
    BY <1>1, <2>1, <2>2, GpioTyped DEF TypeOK, Ops, Steps, busVars
<1>6. Progress'
  BY <1>1 DEF Progress
<1>7. ConfigLostOnlyBySharing' /\ BusIsShared'
  BY <1>1, <1>2 DEF IInv, ConfigLostOnlyBySharing, BusIsShared, busVars
<1> QED
  BY <1>4, <1>5, <1>6, <1>7 DEF IInv

(* Transfers and the return of an operation leave the lines alone.           *)
LEMMA TransferKeeps ==
  IInv /\ (UseReturns \/ Select \/ Transfer \/ Deselect) => IInv'
<1> SUFFICES ASSUME IInv, UseReturns \/ Select \/ Transfer \/ Deselect PROVE IInv'
  OBVIOUS
<1>1. /\ pc \in {"vendor", "transfer", "deselect"} /\ requested[radio]
      /\ UNCHANGED <<board, radio, initialized, chip, gpioVars>>
      /\ \/ pc = "vendor" /\ op = "use" /\ op' = "idle" /\ pc' = "idle"
         \/ op' = op /\ pc' \in {"vendor", "transfer", "deselect"}
  BY DEF UseReturns, Select, Transfer, Deselect, Return, GoTo, IInv, Progress
<1>2. Wired' /\ HandlesOwn' /\ NothingLost'
  BY <1>1, GpioKept
<1>3. TypeOK'
  BY <1>1 DEF IInv, TypeOK, Ops, Steps, gpioVars, busVars, UseReturns, Select,
              Transfer, Deselect, Return, GoTo
<1>4. Progress'
  BY <1>1 DEF IInv, Progress, gpioVars
<1>5. ConfigLostOnlyBySharing'
  BY <1>1 DEF IInv, ConfigLostOnlyBySharing
<1>6. BusIsShared'
  BY <1>1 DEF IInv, BusIsShared, busVars, UseReturns, Select, Transfer, Deselect,
              Return, GoTo, TypeOK
<1> QED
  BY <1>2, <1>3, <1>4, <1>5, <1>6 DEF IInv

LEMMA IInvStep == IInv /\ [Next]_vars => IInv'
<1> SUFFICES ASSUME IInv, [Next]_vars PROVE IInv'
  OBVIOUS
<1>1. CASE UNCHANGED vars
  BY <1>1 DEF vars, gpioVars, busVars, IInv, TypeOK, Progress, Wired, HandlesOwn,
              NothingLost, HasHandle, ConfigLostOnlyBySharing, BusIsShared
<1>2. CASE Next
  BY <1>2, CallKeeps, OpenChipKeeps, EnsureResetKeeps, RequestNssKeeps,
     RequestBusyKeeps, SpiInitKeeps, PulseKeeps, InitReturnsKeeps,
     ApplyConfigKeeps, DeinitReturnsKeeps, TransferKeeps DEF Next
<1> QED
  BY <1>1, <1>2

LEMMA IInvHolds == Spec => []IInv
  BY InitInv, IInvStep, PTL DEF Spec

-----------------------------------------------------------------------------
(* Every field keeps its type, and lines are used only once the chip is open.*)
THEOREM TypeCorrect == Spec => []TypeOK
  BY IInvHolds, PTL DEF IInv

(* However often inits fail and are tried again, the lines that are granted   *)
(* are those of the handles and the NSS lines an init abandoned between its   *)
(* two requests, and no radio runs on one of those.                          *)
THEOREM NoLineLost == Spec => []LinesAccounted
<1>1. IInv => LinesAccounted
  <2> SUFFICES ASSUME IInv, pc = "idle"
               PROVE  /\ held = Handles \cup abandoned
                      /\ \A r \in Radios : requested[r] <=> busy[r] # None
                      /\ \A r \in Radios :
                           nss[r] # None <=> requested[r] \/ nss[r] \in abandoned
                      /\ \A r \in Radios : board[r].nss \in abandoned => ~requested[r]
    BY DEF LinesAccounted
  <2>1. \A l \in held : l \in Handles \cup abandoned
    BY DEF IInv, NothingLost, HasHandle, Handles, TypeOK
  <2>2. \A l \in Handles \cup abandoned : l \in held
    BY DEF IInv, HandlesOwn, NothingLost, Handles
  <2>3. \A r \in Radios : requested[r] => board[r].nss \notin abandoned
    BY DEF IInv, Wired, NothingLost
  <2>4. \A r \in Radios : nss[r] # None <=> requested[r] \/ nss[r] \in abandoned
    BY DEF IInv, NothingLost
  <2> QED
    BY <2>1, <2>2, <2>3, <2>4 DEF IInv, NothingLost
<1> QED
  BY <1>1, IInvHolds, PTL

(* An initialized radio is reached over its own lines and has been reset.    *)
THEOREM OwnLines == Spec => []InitializedIsWired
<1>1. IInv => InitializedIsWired
  BY WiringTyped DEF IInv, Wired, InitializedIsWired, TypeOK
<1> QED
  BY <1>1, IInvHolds, PTL

(* Only a radio that shares its reset line can lose its configuration.       *)
THEOREM ConfigIsKept == Spec => []ConfigLostOnlyBySharing
  BY IInvHolds, PTL DEF IInv

(* No two chips are selected together unless a deselect has failed.          *)
THEOREM OneChipSelected == Spec => []BusIsShared
  BY IInvHolds, PTL DEF IInv
=============================================================================
