--------------------------- MODULE BootStateProofs ---------------------------
(***************************************************************************)
(* Proofs about BootState, for every set of texts, every size of the panic *)
(* buffer and both builds.                                                 *)
(***************************************************************************)
EXTENDS BootState, TLAPS

\* The panic buffer has room for a piece of text.
LEMMA SizeFacts == Size \in Nat /\ Size >= 1
<1>1. Size \in Nat \ {0}
  BY BootAssumption
<1> QED
  BY <1>1

\* No text is one of the markers.
LEMMA TextFacts == "nul" \notin Texts /\ "noise" \notin Texts /\ "no CRC" \notin Texts
BY BootAssumption

\* The CRC word of a power-up is a CRC of no content.
LEMMA GarbageFacts == Garbage \in Crcs /\ Garbage.of \notin Contents
<1> DEFINE none == [i \in 1..Size |-> "no CRC"]
<1>1. Garbage = [of |-> none, inverted |-> FALSE]
  BY DEF Garbage, crc32
<1>2. Garbage.of = none
  BY <1>1
<1>3. Garbage \in Crcs
  <2> HIDE DEF none
  <2> QED
    BY <1>1, <1>2 DEF Crcs
<1>4. none \notin Contents
  <2>1. none[1] = "no CRC" /\ 1 \in 1..Size
    BY SizeFacts
  <2>2. \A c \in Contents : c[1] \in Texts \cup {"nul", "noise"}
    BY <2>1 DEF Contents
  <2> HIDE DEF none
  <2> QED
    BY <2>1, <2>2, TextFacts
<1> QED
  BY <1>2, <1>3, <1>4

\* The type invariant holds when the board is powered up first.
LEMMA TypeInit == Init => TypeOK
<1> SUFFICES ASSUME Init PROVE TypeOK
  OBVIOUS
<1>1. panic_buffer \in Contents
  BY DEF Init, Contents
<1>2. panic_buffer_crc \in Crcs
  BY GarbageFacts DEF Init
<1> QED
  <2>1. panic_eos \in 0..Size
    BY SizeFacts DEF Init
  <2> QED
    BY <1>1, <1>2, <2>1 DEF Init, TypeOK, Magics

\* A content with a terminator is a content.
LEMMA TerminatedType == TypeOK => Terminated \in Contents
BY SizeFacts DEF TypeOK, Contents, Terminated

\* Every step keeps the type invariant.
LEMMA TypeStep == TypeOK /\ [Next]_vars => TypeOK'
<1> SUFFICES ASSUME TypeOK, [Next]_vars PROVE TypeOK'
  OBVIOUS
<1> USE DEF TypeOK, Magics
<1>1. CASE Reset
  BY <1>1 DEF Reset, Interrupted, Live, ramVars, bootVars
<1>2. CASE PowerCycle
  <2>1. [i \in 1..Size |-> "noise"] \in Contents
    BY DEF Contents
  <2>3. panic_buffer' \in Contents /\ panic_buffer_crc' \in Crcs
    BY <1>2, <2>1, GarbageFacts DEF PowerCycle
  <2> QED
    BY <1>2, <2>3 DEF PowerCycle, Interrupted, Live, bootVars
<1>3. CASE VeryEarlyInit
  BY <1>3 DEF VeryEarlyInit, bootVars
<1>4. CASE SafemodeRead
  BY <1>4 DEF SafemodeRead
<1>5. CASE PanicMsgInit
  <2>1. panic_buffer_crc' \in Crcs
    BY <1>5 DEF PanicMsgInit, Complement, Crcs
  <2> QED
    BY <1>5, <2>1, SizeFacts DEF PanicMsgInit
<1>6. CASE CmdSafemode
  BY <1>6 DEF CmdSafemode, RebootInSafemode, bootVars
<1>7. CASE CmdBootloader
  BY <1>7 DEF CmdBootloader, bootVars
<1>8. CASE Panic
  BY <1>8 DEF Panic, ramVars, bootVars
<1>9. CASE PanicPrint
  <2>1. panic_buffer' \in Contents
    BY <1>9 DEF PanicPrint, Contents
  <2>2. panic_eos' \in 0..Size
    BY <1>9, SizeFacts DEF PanicPrint, TypeOK
  <2> QED
    BY <1>9, <2>1, <2>2 DEF PanicPrint, bootVars
<1>10. CASE PanicTerminate
  BY <1>10, TerminatedType DEF PanicTerminate, bootVars
<1>11. CASE PanicStore
  <2>1. crc32(panic_buffer) \in Crcs
    BY DEF Crcs, crc32
  <2> QED
    BY <1>11, <2>1 DEF PanicStore, bootVars
<1>12. CASE PanicReboot
  BY <1>12 DEF PanicReboot, RebootInSafemode, bootVars
<1>13. CASE UNCHANGED vars
  BY <1>13 DEF vars, ramVars, bootVars
<1> QED
  BY <1>1, <1>2, <1>3, <1>4, <1>5, <1>6, <1>7, <1>8, <1>9, <1>10, <1>11, <1>12,
     <1>13 DEF Next

\* The variables of error.c and board.c keep their types.
THEOREM TypeCorrect == Spec => []TypeOK
BY TypeInit, TypeStep, PTL DEF Spec

(***************************************************************************)
(* Safemode.  Until safemode_read() the magic stands for the request of    *)
(* the last run; from then on it is gone.                                  *)
(***************************************************************************)
Waiting == {"reset", "loader", "boot"}

SafemodeInv ==
  /\ SafemodeAsAsked
  /\ phase \in Waiting
       => /\ safemode_magic_value = "magic" => "safemode" \in ended
          /\ ("safemode" \in ended /\ kept) => safemode_magic_value = "magic"
  /\ phase \notin Waiting => safemode_magic_value # "magic"
  /\ phase = "halted" => "safemode" \notin ended

\* The invariant holds at the first power-up.
LEMMA SafemodeInit == Init => SafemodeInv
BY DEF Init, SafemodeInv, SafemodeAsAsked, Waiting, Live

\* Every step keeps the invariant.
LEMMA SafemodeStep == TypeOK /\ SafemodeInv /\ [Next]_vars => SafemodeInv'
<1> SUFFICES ASSUME TypeOK, SafemodeInv, [Next]_vars PROVE SafemodeInv'
  OBVIOUS
<1> USE DEF SafemodeInv, SafemodeAsAsked, Waiting, Live
<1>0. phase \in {"reset", "loader", "boot", "starting", "running", "panic", "terminated",
               "halted"}
  BY DEF TypeOK
<1>1. CASE Reset
  BY <1>0, <1>1 DEF Reset, Interrupted, ramVars, bootVars
<1>2. CASE PowerCycle
  BY <1>0, <1>2 DEF PowerCycle, Interrupted, bootVars
<1>3. CASE VeryEarlyInit
  BY <1>3 DEF VeryEarlyInit, bootVars
<1>4. CASE SafemodeRead
  BY <1>4 DEF SafemodeRead
<1>5. CASE PanicMsgInit
  BY <1>5 DEF PanicMsgInit
<1>6. CASE CmdSafemode
  BY <1>6 DEF CmdSafemode, RebootInSafemode
<1>7. CASE CmdBootloader
  BY <1>7 DEF CmdBootloader
<1>8. CASE Panic
  BY <1>8 DEF Panic, ramVars, bootVars
<1>9. CASE PanicPrint
  BY <1>9 DEF PanicPrint, bootVars
<1>10. CASE PanicTerminate
  BY <1>10 DEF PanicTerminate, bootVars
<1>11. CASE PanicStore
  BY <1>11 DEF PanicStore, bootVars
<1>12. CASE PanicReboot
  BY <1>12 DEF PanicReboot, RebootInSafemode
<1>13. CASE UNCHANGED vars
  BY <1>13 DEF vars, ramVars, bootVars
<1> QED
  BY <1>1, <1>2, <1>3, <1>4, <1>5, <1>6, <1>7, <1>8, <1>9, <1>10, <1>11, <1>12,
     <1>13 DEF Next

\* The board is in safemode exactly when the last run asked for it and the
\* memory kept the request (reboot_in_safemode() and safemode_read()).
THEOREM SafemodeCorrect == Spec => []SafemodeAsAsked
<1>1. SafemodeInv => SafemodeAsAsked
  BY DEF SafemodeInv
<1> QED
  BY <1>1, TypeCorrect, SafemodeInit, SafemodeStep, PTL DEF Spec

(***************************************************************************)
(* Both requests implement OneShot.                                        *)
(***************************************************************************)

\* The safemode magic is a one-shot request: no boot takes it twice.
THEOREM SafemodeRefines == Spec => SafemodeIsOneShot
<1>1. Init => SafemodeRequest!Init
  BY DEF Init, SafemodeRequest!Init
<1>2. TypeOK /\ [Next]_vars => [SafemodeRequest!Next]_SafemodeRequest!vars
  <2> SUFFICES ASSUME TypeOK, [Next]_vars
               PROVE [SafemodeRequest!Next]_SafemodeRequest!vars
    OBVIOUS
  <2> USE DEF SafemodeRequest!Next, SafemodeRequest!Request, SafemodeRequest!Take,
              SafemodeRequest!Restart, SafemodeRequest!Lose, SafemodeRequest!vars
  <2>1. CASE Reset
    BY <2>1 DEF Reset, ramVars
  <2>2. CASE PowerCycle
    BY <2>2 DEF PowerCycle
  <2>3. CASE VeryEarlyInit
    BY <2>3 DEF VeryEarlyInit
  <2>4. CASE SafemodeRead
    BY <2>4 DEF SafemodeRead
  <2>5. CASE PanicMsgInit \/ Panic \/ PanicPrint \/ PanicTerminate \/ PanicStore
    BY <2>5 DEF PanicMsgInit, Panic, PanicPrint, PanicTerminate, PanicStore, ramVars, bootVars
  <2>6. CASE CmdSafemode \/ PanicReboot
    BY <2>6 DEF CmdSafemode, PanicReboot, RebootInSafemode
  <2>7. CASE CmdBootloader
    BY <2>7 DEF CmdBootloader
  <2>8. CASE UNCHANGED vars
    BY <2>8 DEF vars, ramVars, bootVars
  <2> QED
    BY <2>1, <2>2, <2>3, <2>4, <2>5, <2>6, <2>7, <2>8 DEF Next
<1> QED
  BY <1>1, <1>2, TypeCorrect, PTL DEF Spec, SafemodeIsOneShot, SafemodeRequest!Spec

\* The bootloader magic is a one-shot request: leaving the bootloader starts
\* the application.
THEOREM LoaderRefines == Spec => LoaderIsOneShot
<1>1. Init => LoaderRequest!Init
  BY DEF Init, LoaderRequest!Init
<1>2. [Next]_vars => [LoaderRequest!Next]_LoaderRequest!vars
  <2> SUFFICES ASSUME [Next]_vars
               PROVE [LoaderRequest!Next]_LoaderRequest!vars
    OBVIOUS
  <2> USE DEF LoaderRequest!Next, LoaderRequest!Request, LoaderRequest!Take,
              LoaderRequest!Restart, LoaderRequest!Lose, LoaderRequest!vars
  <2>1. CASE Reset
    BY <2>1 DEF Reset, ramVars
  <2>2. CASE PowerCycle
    BY <2>2 DEF PowerCycle
  <2>3. CASE VeryEarlyInit
    BY <2>3 DEF VeryEarlyInit
  <2>4. CASE SafemodeRead \/ PanicMsgInit
    BY <2>4 DEF SafemodeRead, PanicMsgInit
  <2>5. CASE Panic \/ PanicPrint \/ PanicTerminate \/ PanicStore
    BY <2>5 DEF Panic, PanicPrint, PanicTerminate, PanicStore, ramVars
  <2>6. CASE CmdSafemode \/ PanicReboot
    BY <2>6 DEF CmdSafemode, PanicReboot, RebootInSafemode
  <2>7. CASE CmdBootloader
    BY <2>7 DEF CmdBootloader
  <2>8. CASE UNCHANGED vars
    BY <2>8 DEF vars, ramVars
  <2> QED
    BY <2>1, <2>2, <2>3, <2>4, <2>5, <2>6, <2>7, <2>8 DEF Next
<1> QED
  BY <1>1, <1>2, PTL DEF Spec, LoaderIsOneShot, LoaderRequest!Spec

(***************************************************************************)
(* The panic message.  The CRC vouches for text only, and until            *)
(* panic_msg_init() it vouches for the message of a panic that was stored. *)
(***************************************************************************)
PanicInv ==
  /\ PanicIsReported
  /\ (phase \notin Live /\ "panic" \in ended /\ kept)
       => panic_buffer_crc = crc32(panic_buffer)
  /\ phase = "halted" => kept

MessageInv ==
  /\ MessageIsText
  /\ panic_buffer_crc.of = Garbage.of \/ IsText(panic_buffer_crc.of)
  /\ phase = "running" => panic_eos = 0
  /\ phase = "panic" => \A i \in 1..panic_eos : panic_buffer[i] \in Texts
  /\ phase = "terminated" => IsText(panic_buffer)

\* Both invariants hold at the first power-up.
LEMMA PanicInit == Init => PanicInv /\ MessageInv
BY DEF Init, PanicInv, PanicIsReported, MessageInv, MessageIsText, Live, Garbage, crc32

\* Every step keeps the report of the last panic.
LEMMA PanicStep == TypeOK /\ PanicInv /\ [Next]_vars => PanicInv'
<1> SUFFICES ASSUME TypeOK, PanicInv, [Next]_vars PROVE PanicInv'
  OBVIOUS
<1> USE DEF PanicInv, PanicIsReported, Live
<1>1. CASE Reset
  BY <1>1 DEF Reset, Interrupted, ramVars, bootVars
<1>2. CASE PowerCycle
  BY <1>2 DEF PowerCycle, Interrupted, bootVars
<1>3. CASE VeryEarlyInit
  BY <1>3 DEF VeryEarlyInit, bootVars
<1>4. CASE SafemodeRead
  BY <1>4 DEF SafemodeRead
<1>5. CASE PanicMsgInit
  BY <1>5 DEF PanicMsgInit
<1>6. CASE CmdSafemode
  BY <1>6 DEF CmdSafemode, RebootInSafemode
<1>7. CASE CmdBootloader
  BY <1>7 DEF CmdBootloader
<1>8. CASE Panic
  BY <1>8 DEF Panic, ramVars, bootVars
<1>9. CASE PanicPrint
  BY <1>9 DEF PanicPrint, bootVars
<1>10. CASE PanicTerminate
  BY <1>10 DEF PanicTerminate, bootVars
<1>11. CASE PanicStore
  BY <1>11 DEF PanicStore, bootVars
<1>12. CASE PanicReboot
  BY <1>12 DEF PanicReboot, RebootInSafemode, bootVars
<1>13. CASE UNCHANGED vars
  BY <1>13 DEF vars, ramVars, bootVars
<1> QED
  BY <1>1, <1>2, <1>3, <1>4, <1>5, <1>6, <1>7, <1>8, <1>9, <1>10, <1>11, <1>12,
     <1>13 DEF Next

\* What a panic leaves is text: its pieces, and a NUL in or after them.
LEMMA TerminatedIsText ==
  ASSUME TypeOK, \A i \in 1..panic_eos : panic_buffer[i] \in Texts
  PROVE  IsText(Terminated)
<1> DEFINE n == IF panic_eos < Size THEN panic_eos + 1 ELSE Size
<1>1. n \in 1..Size /\ \A i \in 1..(n - 1) : i \in 1..panic_eos /\ i \in 1..Size /\ i # n
  BY SizeFacts DEF TypeOK
<1>2. Terminated = [panic_buffer EXCEPT ![n] = "nul"] /\ DOMAIN panic_buffer = 1..Size
  BY DEF Terminated, TypeOK, Contents
<1> HIDE DEF n
<1>3. Terminated[n] = "nul" /\ \A i \in 1..(n - 1) : Terminated[i] \in Texts
  BY <1>1, <1>2
<1> QED
  BY <1>1, <1>3 DEF IsText

\* Every step keeps the message text.
LEMMA MessageStep == TypeOK /\ MessageInv /\ [Next]_vars => MessageInv'
<1> SUFFICES ASSUME TypeOK, MessageInv, [Next]_vars PROVE MessageInv'
  OBVIOUS
<1> USE DEF MessageInv, MessageIsText
<1>1. CASE Reset \/ VeryEarlyInit \/ SafemodeRead \/ CmdSafemode \/ CmdBootloader \/ PanicReboot
  BY <1>1 DEF Reset, VeryEarlyInit, SafemodeRead, CmdSafemode, CmdBootloader,
              PanicReboot, RebootInSafemode, ramVars, bootVars
<1>2. CASE PowerCycle
  BY <1>2 DEF PowerCycle
<1>3. CASE PanicMsgInit
  <2>1. panic_buffer_crc'.of = panic_buffer_crc.of
    BY <1>3 DEF PanicMsgInit, Complement, TypeOK, Crcs
  <2>2. panic_buffer # Garbage.of
    BY GarbageFacts DEF TypeOK
  <2>3. crc32(panic_buffer) = panic_buffer_crc => IsText(panic_buffer)
    <3> SUFFICES ASSUME crc32(panic_buffer) = panic_buffer_crc PROVE IsText(panic_buffer)
      OBVIOUS
    <3>1. panic_buffer_crc.of = panic_buffer
      BY DEF crc32
    <3> QED
      BY <2>2, <3>1
  <2> QED
    BY <1>3, <2>1, <2>3 DEF PanicMsgInit
<1>4. CASE Panic
  <2>1. panic_eos = 0 /\ UNCHANGED <<panic_eos, panic_buffer, panic_buffer_crc>>
    BY <1>4 DEF Panic, ramVars
  <2>2. \A i \in 1..0 : panic_buffer[i] \in Texts
    OBVIOUS
  <2> QED
    BY <1>4, <2>1, <2>2 DEF Panic
<1>5. CASE PanicPrint
  <2>1. PICK text \in Texts : panic_buffer' = [panic_buffer EXCEPT ![panic_eos + 1] = text]
    BY <1>5 DEF PanicPrint
  <2>2. panic_eos \in Nat /\ panic_eos < Size /\ DOMAIN panic_buffer = 1..Size
    BY <1>5, SizeFacts DEF PanicPrint, TypeOK, Contents
  <2>3. ASSUME NEW i \in 1..(panic_eos + 1) PROVE panic_buffer'[i] \in Texts
    <3>1. i = panic_eos + 1 \/ (i \in 1..panic_eos /\ i # panic_eos + 1)
      BY <2>2
    <3>2. i \in 1..Size
      BY <2>2, SizeFacts
    <3> QED
      BY <1>5, <2>1, <2>2, <3>1, <3>2 DEF PanicPrint
  <2> QED
    BY <1>5, <2>3 DEF PanicPrint
<1>6. CASE PanicTerminate
  BY <1>6, TerminatedIsText DEF PanicTerminate
<1>7. CASE PanicStore
  BY <1>7 DEF PanicStore, crc32
<1>8. CASE UNCHANGED vars
  BY <1>8 DEF vars, ramVars, bootVars
<1> QED
  BY <1>1, <1>2, <1>3, <1>4, <1>5, <1>6, <1>7, <1>8 DEF Next

\* A stored panic message is reported by the next boot (get_panic_message()).
THEOREM PanicReported == Spec => []PanicIsReported
<1>1. PanicInv => PanicIsReported
  BY DEF PanicInv
<1> QED
  BY <1>1, TypeCorrect, PanicInit, PanicStep, PTL DEF Spec

\* A reported message is terminated text of a panic.
THEOREM MessageCorrect == Spec => []MessageIsText
<1>1. MessageInv => MessageIsText
  BY DEF MessageInv
<1> QED
  BY <1>1, TypeCorrect, PanicInit, MessageStep, PTL DEF Spec
=============================================================================
