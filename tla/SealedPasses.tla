---------------------------- MODULE SealedPasses ----------------------------
(***************************************************************************)
(* What the archive promises: a pass is sealed once, with one content, and *)
(* what is sealed stays.                                                   *)
(***************************************************************************)
CONSTANTS PassIds, Packets

VARIABLE sealed  \* the packet of every sealed pass

Init == sealed = <<>>

SealPass(p) ==
  /\ p \notin DOMAIN sealed
  /\ DOMAIN sealed' = DOMAIN sealed \cup {p}
  /\ sealed'[p] \in Packets
  /\ \A q \in DOMAIN sealed : sealed'[q] = sealed[q]

Spec == Init /\ [][\E p \in PassIds : SealPass(p)]_sealed
=============================================================================
