----------------------------- MODULE TxSession -----------------------------
(***************************************************************************)
(* What the radio driver promises about transmissions: one at a time, each *)
(* accepted transmission ends exactly once with a terminal status, and the *)
(* status stays readable until the next transmission begins.               *)
(***************************************************************************)
CONSTANT Terminal   \* statuses a transmission can end with

VARIABLES
  busy,             \* a transmission has been accepted and has not ended
  result            \* status of the most recent transmission

Init == busy = FALSE /\ result = "OK"

Begin ==
  /\ ~busy
  /\ busy' = TRUE
  /\ result' = "OK"

End ==
  /\ busy
  /\ busy' = FALSE
  /\ result' \in Terminal

Next == Begin \/ End

Spec == Init /\ [][Next]_<<busy, result>>

(* Every accepted transmission is eventually ended.                        *)
FairSpec == Spec /\ WF_<<busy, result>>(End)
=============================================================================
