---------------------------- MODULE MCSupervisor ----------------------------
(* Instances of the supervisor for TLC: short backoffs, so that they expire *)
(* inside a poll and across one.                                            *)
EXTENDS Supervisor

AllOps == {"restart", "stop", "start", "other"}
=============================================================================
