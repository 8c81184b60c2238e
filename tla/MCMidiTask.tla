------------------------------- MODULE MCMidiTask -------------------------------
(* An instance of MidiTask: a small bucket, passes longer than HEARTBEAT_STOP_MS, *)
(* over more than a wrap of millis().                                             *)
EXTENDS MidiTask
===============================================================================
