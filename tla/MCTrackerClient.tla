-------------------------- MODULE MCTrackerClient ---------------------------
(* Small instances of TrackerClient for TLC.                               *)
EXTENDS TrackerClient

\* Two levels, of three trackers and of one.
TwoLevels == <<{"a", "b", "c"}, {"d"}>>
TwoLevelSizes == <<3, 1>>
=============================================================================
