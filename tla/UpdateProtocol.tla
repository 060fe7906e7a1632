--------------------------- MODULE UpdateProtocol ---------------------------
(***************************************************************************)
(* What nw.AutoUpdater promises an application: every call of              *)
(* CheckForUpdates that is announced with 'checking-for-update' runs       *)
(* through the events in one order and ends at most once, and the          *)
(* application is only made to quit for an update that some check found.   *)
(***************************************************************************)
CONSTANT Checks    \* the calls of CheckForUpdates

VARIABLES
  heard,           \* heard[c]: the last event of check c, "none" before
  updateAvailable, \* some check has announced an update
  quitting         \* QuitAndInstall has called nw.App.quit

vars == <<heard, updateAvailable, quitting>>

\* The events that may come next.
After(e) ==
  CASE e = "none"                -> {"checking-for-update"}
    [] e = "checking-for-update" -> {"update-available", "update-not-available", "error"}
    [] e = "update-available"    -> {"update-downloaded", "error"}
    [] OTHER                     -> {}

Init ==
  /\ heard = [c \in Checks |-> "none"]
  /\ updateAvailable = FALSE
  /\ quitting = FALSE

Hear(c) ==
  /\ ~quitting
  /\ \E e \in After(heard[c]) :
       /\ heard' = [heard EXCEPT ![c] = e]
       /\ updateAvailable' = (updateAvailable \/ e = "update-available")
  /\ UNCHANGED quitting

Quit ==
  /\ ~quitting
  /\ updateAvailable
  /\ quitting' = TRUE
  /\ UNCHANGED <<heard, updateAvailable>>

Next == Quit \/ \E c \in Checks : Hear(c)

Spec == Init /\ [][Next]_vars
=============================================================================
