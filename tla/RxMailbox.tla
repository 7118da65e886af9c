----------------------------- MODULE RxMailbox -----------------------------
(***************************************************************************)
(* What the radio driver promises about reception: a one-packet mailbox.   *)
(* The oldest unread packet is kept, a packet that finds the mailbox full  *)
(* is dropped and the drop is remembered, a packet is taken at most once.  *)
(***************************************************************************)
CONSTANTS Packets, NoPacket

VARIABLES
  slot,             \* the unread packet, or NoPacket
  overrun           \* a packet has been dropped because the slot was taken

Init == slot = NoPacket /\ overrun = FALSE

Put ==
  /\ slot = NoPacket
  /\ slot' \in Packets
  /\ UNCHANGED overrun

Drop ==
  /\ slot # NoPacket
  /\ overrun' = TRUE
  /\ UNCHANGED slot

Take ==
  /\ slot # NoPacket
  /\ slot' = NoPacket
  /\ UNCHANGED overrun

Next == Put \/ Drop \/ Take

Spec == Init /\ [][Next]_<<slot, overrun>>
=============================================================================
