------------------------------- MODULE OneShot -------------------------------
(***************************************************************************)
(* What a request kept in .noinit memory over a reset promises: it is      *)
(* honoured by at most one boot, and only a boot that follows the request. *)
(* reboot_in_safemode() and reboot_st_bootloader() are two of them.        *)
(***************************************************************************)

VARIABLES armed,   \* a request waits for the next boot
          active   \* the boot in progress is honouring a request

vars == <<armed, active>>

Init == ~armed /\ ~active

\* The application asks and resets.
Request == armed' = TRUE /\ active' = FALSE

\* A boot takes the request there is, and with it the right to a second one.
Take == active' = armed /\ armed' = FALSE

\* A reset ends the boot in progress and keeps the request.
Restart == active' = FALSE /\ UNCHANGED armed

\* The memory loses power: so does the request.
Lose == ~armed' /\ ~active'

Next == Request \/ Take \/ Restart \/ Lose

Spec == Init /\ [][Next]_vars
=============================================================================
