---------------------------- MODULE MCRecordClient ----------------------------
(* Small instances of RecordClient for TLC: two processors, time stamps of   *)
(* two bits, binary times of five bits.                                      *)
EXTENDS RecordClient

MCItem(event, time, data) ==
  [event |-> event, time |-> time, data |-> data, seq |-> 0]

(* The items that set up a stream, good and bad.                             *)
MCHeader ==
  {MCItem("PROCESSOR_MAXIMUM", 0, d) : d \in 1 .. MaxCpu} \cup
  {MCItem("PER_CPU_COUNT", 0, d) : d \in {1, CountMod \div 2}} \cup
  {MCItem("FREQUENCY", 0, 2)} \cup
  {MCItem("VERSION", 0, TheVersion + d) : d \in 0 .. 1}

(* The items that carry times, and those that switch and interrupt them.     *)
MCTimed ==
  {MCItem("PROCESSOR", 0, d) : d \in 0 .. MaxCpu} \cup
  {MCItem("PER_CPU_OVERFLOW", 0, 0)} \cup
  {MCItem("UPTIME_LOW", t, 1) : t \in {0, TimeMod - 1}} \cup
  {MCItem("UPTIME_HIGH", t, d) : t \in {0, TimeMod - 1}, d \in 0 .. 1} \cup
  {MCItem(e, t, 0) : e \in UserEvents, t \in {1, TimeMod - 1}} \cup
  {MCItem(e, 0, 0) : e \in InfoEvents}

MCStreamItems == MCHeader \cup MCTimed
=============================================================================
