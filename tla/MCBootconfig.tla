----------------------------- MODULE MCBootconfig -----------------------------
(* Small instances of Bootconfig: ages modulo three, MTD and MMC. *)
EXTENDS Bootconfig, TLC
=============================================================================
