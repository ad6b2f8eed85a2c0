--------------------------- MODULE MCMpdRemoteproc ---------------------------
(* One or two user domains on one root: the AHB radio and the PCIe radio   *)
(* that the device trees list.                                             *)
EXTENDS MpdRemoteproc, TLC

CONSTANTS root, ahb, pcie

MCOrder1 == <<ahb>>
MCOrder2 == <<ahb, pcie>>
=============================================================================
