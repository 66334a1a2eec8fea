------------------------------ MODULE DurableLog ------------------------------
(***************************************************************************)
(* What a log promises over a loss of power: a file found on the card is   *)
(* what the program had written to it up to some point, which only moves   *)
(* forward, or the file is empty because the program has begun it anew.    *)
(***************************************************************************)
EXTENDS Sequences, SequencesExt

CONSTANT Logs

VARIABLES written,  \* what the program has written to each log
          durable   \* what would be found if the power failed now

vars == <<written, durable>>

\* The program may add to the log only when nothing of an earlier one is left.
Append_(l) == /\ IsPrefix(durable[l], written[l])
              /\ IsPrefix(written[l], written'[l])
              /\ durable'[l] = durable[l]

Recreate(l) == written'[l] = <<>> /\ durable'[l] = durable[l]

Truncate(l) == written[l] = <<>> /\ durable'[l] = <<>> /\ written'[l] = <<>>

Commit(l) == /\ IsPrefix(durable[l], durable'[l])
             /\ IsPrefix(durable'[l], written[l])
             /\ written'[l] = written[l]

\* The program starts again, or opens the file again.
Lose(l) == written'[l] = durable[l] /\ durable'[l] = durable[l]

Init == /\ durable \in [Logs -> {<<>>}]
        /\ written = durable

Next == \A l \in Logs : Append_(l) \/ Recreate(l) \/ Truncate(l) \/ Commit(l) \/ Lose(l)

Spec == Init /\ [][Next]_vars
=============================================================================
