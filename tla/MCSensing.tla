------------------------------ MODULE MCSensing ------------------------------
(* An instance of Sensing for TLC, with the window and the offsets of      *)
(* evidence_frames scaled down to a ring of three frames.                   *)
EXTENDS Sensing

FourOffsets == <<-2, -1, 1, 2>>
==============================================================================
