----------------------------- MODULE MCCapture -----------------------------
(* Two usable interfaces of three; one or both of them can be activated.    *)
(* Symmetry is not used: it is not sound for the liveness properties.       *)
EXTENDS CaptureProperties
=============================================================================
