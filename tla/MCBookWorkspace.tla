-------------------------- MODULE MCBookWorkspace ---------------------------
(* Two documents of the catalog that name the same SSID and the same DXID. *)
EXTENDS BookWorkspace

CONSTANTS b1, b2, ssid, dxid
SameIdentities == [b \in {b1, b2} |-> <<ssid, dxid>>]
=============================================================================
