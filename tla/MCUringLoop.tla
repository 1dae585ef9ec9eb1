----------------------------- MODULE MCUringLoop -----------------------------
(* Small instances of UringLoop: the Wayland descriptor and one or two      *)
(* others, of which one number is also used for a second kind of event.     *)
EXTENDS UringLoop

CONSTANTS display, timer, accept

MCInterest == {<<display, Wayland>>, <<timer, "timer">>}
MCReuse    == {<<display, Wayland>>, <<timer, "timer">>, <<timer, "inotify">>}
MCTypes    == {"wayland", "timer", "inotify"}
=============================================================================
