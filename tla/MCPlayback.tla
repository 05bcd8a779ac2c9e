----------------------------- MODULE MCPlayback -----------------------------
(***************************************************************************)
(* Playback for TLC: the callers of the runs.  Every other bound is a      *)
(* number of the .cfg.                                                     *)
(***************************************************************************)
EXTENDS Playback

(* The main task alone: it plays, then goes back to monitoring.            *)
MainTask == {"start_play", "start_mon"}

(* A user of the library that also pauses and resumes.                     *)
AnyCaller == MainTask \cup {"pause", "resume"}
=============================================================================
