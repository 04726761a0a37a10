----------------------------- MODULE MCSoundPlays -----------------------------
(* A channel with a short queue.                                           *)
EXTENDS SoundPlays
AllConsumers == {"device", "script", "job"}
=============================================================================
