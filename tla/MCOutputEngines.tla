--------------------------- MODULE MCOutputEngines ---------------------------
(* Small instances of OutputEngines.                                        *)
EXTENDS OutputEngines

(* Two monitors that stay and a third that comes and goes; each of the two  *)
(* has its videos, and slideshows are for them.                             *)
TwoMonitors == {<<"A", "B">>}
AllOrOne    == {{}, {"A"}, {"C"}}
StayingOnes == {{"A"}, {"A", "B"}}
OwnVideos   == {<<{"A"}, "f1">>, <<{"A"}, "f3">>, <<{"B"}, "f2">>, <<{"B"}, "broken">>}

(* One video for the monitor that comes and goes. *)
OneMonitor == {<<"A", "B">>}
One        == {{"B"}}
NoSpecs    == {}
ItsVideo   == {<<{"A"}, "f1">>}
==============================================================================
