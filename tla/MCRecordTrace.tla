----------------------------- MODULE MCRecordTrace -----------------------------
(* A target with two processors, an idle thread and another one, for TLC.    *)
EXTENDS RecordTrace

MCUserEvents == {"THREAD_SWITCH_OUT", "THREAD_SWITCH_IN", "THREAD_CREATE"}
MCInfoEvents == {"THREAD_NAME"}
================================================================================
