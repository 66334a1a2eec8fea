------------------------------ MODULE BootState ------------------------------
(***************************************************************************)
(* The state error.c and board.c carry over a reset in .noinit memory: the *)
(* magic values that ask for the safemode and for the ST bootloader, and   *)
(* the panic buffer with its CRC.  One action per step another reset can   *)
(* fall between.  A magic value is "magic", "zero" or "garbage"; the panic *)
(* buffer is Size pieces of text; a CRC is the content it was computed of  *)
(* and whether it has been complemented (distinct contents have distinct   *)
(* CRCs, and garbage matches none of them).                                *)
(***************************************************************************)
EXTENDS Naturals

CONSTANTS Texts,  \* pieces of text a fault report or a panic reason prints
          Size,   \* bound: the pieces that fit in panic_buffer[700]
          DEBUG   \* the Makefile defines it: panic_handler() then blocks

ASSUME BootAssumption == /\ Size \in Nat \ {0}
                         /\ DEBUG \in BOOLEAN
                         /\ Texts \cap {"nul", "noise", "no CRC"} = {}

VARIABLES
  phase,                 \* what the CPU executes
  safemode_magic_value, st_bootloader_magic,  \* .noinit
  panic_buffer, panic_buffer_crc,             \* .noinit
  panic_eos,             \* panic_bss.eos
  safemode,              \* error.c's static bool
  panic_buffer_crc_matched,
  ended,                 \* history: what the last run of the application asked for
  kept                   \* history: no power loss or bootloader since it ended

ramVars  == <<safemode_magic_value, st_bootloader_magic, panic_buffer, panic_buffer_crc>>
bootVars == <<safemode, panic_buffer_crc_matched>>
vars == <<phase, ramVars, panic_eos, bootVars, ended, kept>>

Magics   == {"magic", "zero", "garbage"}
Contents == [1..Size -> Texts \cup {"nul", "noise"}]

crc32(buffer) == [of |-> buffer, inverted |-> FALSE]
Garbage == crc32([i \in 1..Size |-> "no CRC"])
Crcs    == [of : Contents \cup {Garbage.of}, inverted : BOOLEAN]
Complement(crc) == [crc EXCEPT !.inverted = ~@]

(***************************************************************************)
(* Resets.  The memory survives a reset of the CPU; after a power cycle,   *)
(* or under the ST bootloader, each part of it does or does not.           *)
(***************************************************************************)
\* error_init() is done, the run has no end yet.
Live == {"running", "panic", "terminated"}

\* What a reset nobody asked for leaves of the requests of the last run.
Interrupted == IF phase \in Live THEN {}
               ELSE IF phase = "starting" THEN ended \ {"safemode"} ELSE ended

\* The reset button, or NVIC_SystemReset() of cmd_reboot().
Reset == /\ phase' = "reset"
         /\ ended' = Interrupted
         /\ kept' = (kept \/ phase \in Live)
         /\ UNCHANGED <<ramVars, panic_eos, bootVars>>

PowerCycle ==
  /\ phase' = "reset"
  /\ ended' = Interrupted
  /\ kept' = FALSE
  /\ safemode_magic_value' \in {safemode_magic_value, "garbage"}
  /\ st_bootloader_magic' \in {st_bootloader_magic, "garbage"}
  /\ \/ UNCHANGED <<panic_buffer, panic_buffer_crc>>
     \/ /\ panic_buffer' = [i \in 1..Size |-> "noise"]
        /\ panic_buffer_crc' \in {panic_buffer_crc, Garbage}
  /\ UNCHANGED <<panic_eos, bootVars>>

(***************************************************************************)
(* Boot.  Reset_Handler calls __very_early_init() first; main() calls      *)
(* error_init(), which reads the safemode magic and then the panic buffer. *)
(***************************************************************************)

\* Mutant of VeryEarlyInit: the magic is left for the bootloader to clear.
VeryEarlyInitKeeps ==
  /\ phase = "reset"
  /\ phase' = IF st_bootloader_magic = "magic" THEN "loader" ELSE "boot"
  /\ UNCHANGED <<ramVars, panic_eos, bootVars, ended, kept>>

VeryEarlyInit ==
  LET asked == st_bootloader_magic = "magic" IN
  /\ phase = "reset"
  /\ phase' = IF asked THEN "loader" ELSE "boot"
  /\ st_bootloader_magic' = IF asked THEN "zero" ELSE st_bootloader_magic
  /\ UNCHANGED <<safemode_magic_value, panic_buffer, panic_buffer_crc>>
  /\ UNCHANGED <<panic_eos, bootVars, ended, kept>>

\* Mutant of SafemodeRead: the magic is not cleared.
SafemodeReadKeeps ==
  /\ phase = "boot"
  /\ phase' = "starting"
  /\ safemode' = (safemode_magic_value = "magic")
  /\ UNCHANGED <<ramVars, panic_eos, panic_buffer_crc_matched, ended, kept>>

\* safemode_read()
SafemodeRead ==
  /\ phase = "boot"
  /\ phase' = "starting"
  /\ safemode' = (safemode_magic_value = "magic")
  /\ safemode_magic_value' = "zero"
  /\ UNCHANGED <<st_bootloader_magic, panic_buffer, panic_buffer_crc>>
  /\ UNCHANGED <<panic_eos, panic_buffer_crc_matched, ended, kept>>

\* Mutant of PanicMsgInit: the CRC is "cleared" before it is compared.
PanicMsgInitClears ==
  /\ phase = "starting"
  /\ phase' = "running"
  /\ panic_eos' = 0
  /\ panic_buffer_crc' = Complement(panic_buffer_crc)
  /\ panic_buffer_crc_matched' = (crc32(panic_buffer) = panic_buffer_crc')
  /\ UNCHANGED <<safemode_magic_value, st_bootloader_magic, panic_buffer>>
  /\ UNCHANGED <<safemode, ended, kept>>

\* panic_msg_init(): compares the CRC, then "clears" it.
PanicMsgInit ==
  /\ phase = "starting"
  /\ phase' = "running"
  /\ panic_eos' = 0
  /\ panic_buffer_crc_matched' = (crc32(panic_buffer) = panic_buffer_crc)
  /\ panic_buffer_crc' = Complement(panic_buffer_crc)
  /\ UNCHANGED <<safemode_magic_value, st_bootloader_magic, panic_buffer>>
  /\ UNCHANGED <<safemode, ended, kept>>

(***************************************************************************)
(* The running application.                                                *)
(***************************************************************************)

\* reboot_in_safemode(), called by cmd_safemode() and by panic_handler().
RebootInSafemode == /\ safemode_magic_value' = "magic"
                    /\ phase' = "reset"
                    /\ kept' = TRUE

CmdSafemode == /\ phase = "running"
               /\ RebootInSafemode
               /\ ended' = {"safemode"}
               /\ UNCHANGED <<st_bootloader_magic, panic_buffer, panic_buffer_crc>>
               /\ UNCHANGED <<panic_eos, bootVars>>

\* reboot_st_bootloader(), called by cmd_bootloader().
CmdBootloader == /\ phase = "running"
                 /\ st_bootloader_magic' = "magic"
                 /\ phase' = "reset"
                 /\ ended' = {"bootloader"} /\ kept' = TRUE
                 /\ UNCHANGED <<safemode_magic_value, panic_buffer, panic_buffer_crc>>
                 /\ UNCHANGED <<panic_eos, bootVars>>

\* A fault, chSysHalt() or cmd_panic(): nothing else runs any more.
Panic == /\ phase = "running"
         /\ phase' = "panic"
         /\ UNCHANGED <<ramVars, panic_eos, bootVars, ended, kept>>

\* fault_printf() and the chprintf() of panic_handler() append to panic_bss;
\* a MemoryStream that is full drops what does not fit.
PanicPrint ==
  /\ phase = "panic" /\ panic_eos < Size
  /\ \E text \in Texts :
       panic_buffer' = [panic_buffer EXCEPT ![panic_eos + 1] = text]
  /\ panic_eos' = panic_eos + 1
  /\ UNCHANGED <<phase, safemode_magic_value, st_bootloader_magic, panic_buffer_crc>>
  /\ UNCHANGED <<bootVars, ended, kept>>

Terminated == [panic_buffer EXCEPT ![IF panic_eos < Size THEN panic_eos + 1 ELSE Size] = "nul"]

\* Mutant of PanicTerminate: a full buffer is not terminated.
PanicTerminateShort ==
  /\ phase = "panic"
  /\ panic_buffer' = IF panic_eos < Size THEN Terminated ELSE panic_buffer
  /\ phase' = "terminated"
  /\ UNCHANGED <<safemode_magic_value, st_bootloader_magic, panic_buffer_crc>>
  /\ UNCHANGED <<panic_eos, bootVars, ended, kept>>

\* The end of panic_handler(): the terminating NUL,
PanicTerminate ==
  /\ phase = "panic"
  /\ panic_buffer' = Terminated
  /\ phase' = "terminated"
  /\ UNCHANGED <<safemode_magic_value, st_bootloader_magic, panic_buffer_crc>>
  /\ UNCHANGED <<panic_eos, bootVars, ended, kept>>

\* and the CRC, which makes the message valid.
PanicStore ==
  /\ phase = "terminated"
  /\ panic_buffer_crc' = crc32(panic_buffer)
  /\ phase' = "halted"
  /\ ended' = {"panic"} /\ kept' = TRUE
  /\ UNCHANGED <<safemode_magic_value, st_bootloader_magic, panic_buffer, panic_eos, bootVars>>

\* A debug build then blocks until somebody resets it, the others reboot.
PanicReboot ==
  /\ phase = "halted" /\ ~DEBUG
  /\ RebootInSafemode
  /\ ended' = ended \cup {"safemode"}
  /\ UNCHANGED <<st_bootloader_magic, panic_buffer, panic_buffer_crc>>
  /\ UNCHANGED <<panic_eos, bootVars>>

(***************************************************************************)
(* The specification.                                                      *)
(***************************************************************************)

\* First power-up: the memory holds anything but the values that match.
Init == /\ phase = "reset"
        /\ safemode_magic_value = "garbage" /\ st_bootloader_magic = "garbage"
        /\ panic_buffer = [i \in 1..Size |-> "noise"] /\ panic_buffer_crc = Garbage
        /\ panic_eos = 0
        /\ safemode = FALSE /\ panic_buffer_crc_matched = FALSE
        /\ ended = {} /\ kept = FALSE

Next == \/ Reset \/ PowerCycle
        \/ VeryEarlyInit \/ SafemodeRead \/ PanicMsgInit
        \/ CmdSafemode \/ CmdBootloader
        \/ Panic \/ PanicPrint \/ PanicTerminate \/ PanicStore \/ PanicReboot

Spec == Init /\ [][Next]_vars

(***************************************************************************)
(* Properties.                                                             *)
(***************************************************************************)

\* The types of the variables of the boot state.
TypeOK ==
  /\ phase \in {"reset", "loader", "boot", "starting", "running", "panic",
             "terminated", "halted"}
  /\ safemode_magic_value \in Magics /\ st_bootloader_magic \in Magics
  /\ panic_buffer \in Contents /\ panic_buffer_crc \in Crcs
  /\ panic_eos \in 0..Size
  /\ safemode \in BOOLEAN /\ panic_buffer_crc_matched \in BOOLEAN
  /\ ended \in SUBSET {"panic", "safemode", "bootloader"} /\ kept \in BOOLEAN

\* The application runs in safemode only if the run before it asked for it,
\* with the shell command or by a panic of a release build, and always then
\* unless the memory lost power in between (safemode_active(), error.h:25).
SafemodeAsAsked ==
  phase \in Live \cup {"starting"}
    => /\ safemode => "safemode" \in ended
       /\ ("safemode" \in ended /\ kept) => safemode

\* The first boot that gets through error_init() after a panic whose message was
\* stored has it to report, also when the attempts before it were cut short by a
\* reset.  When one cuts that boot short before main prints the message, nothing
\* reports it: the CRC is complemented by then.
PanicIsReported ==
  (phase = "running" /\ "panic" \in ended /\ kept) => panic_buffer_crc_matched

IsText(buffer) == \E n \in 1..Size : /\ buffer[n] = "nul"
                                     /\ \A i \in 1..(n - 1) : buffer[i] \in Texts

\* What get_panic_message() returns is text up to a terminating NUL: never the
\* noise of a power-up, nor what an interrupted panic left behind.
MessageIsText ==
  (phase = "running" /\ panic_buffer_crc_matched) => IsText(panic_buffer)

\* The boot honours a safemode request once (error.c:60, error.c:75).
SafemodeRequest == INSTANCE OneShot
  WITH armed <- safemode_magic_value = "magic",
       active <- safemode /\ phase \notin {"reset", "loader", "boot"}
SafemodeIsOneShot == SafemodeRequest!Spec

\* The reset honours a bootloader request once (board.c:48, board.c:54), so the
\* board comes back to the application after the update.
LoaderRequest == INSTANCE OneShot
  WITH armed <- st_bootloader_magic = "magic", active <- phase = "loader"
LoaderIsOneShot == LoaderRequest!Spec

\* error.h:32 "returns the panic message when rebooted after a panic or NULL if
\* there was no panic": without a panic in the last run there is no message.
NoMessageWithoutPanic ==
  (phase = "running" /\ panic_buffer_crc_matched) => "panic" \in ended
=============================================================================
