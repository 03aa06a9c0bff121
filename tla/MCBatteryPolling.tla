--------------------------- MODULE MCBatteryPolling ---------------------------
EXTENDS BatteryPolling

CONSTANTS anchor, tag, client, server

MCDevice == {anchor, tag}
MCThread == {client, server}

(* The tag has never sent its version: no session is known for it. *)
MCRouted == {anchor}
==============================================================================
