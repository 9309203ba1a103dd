----------------------------- MODULE DeltaCycle -----------------------------
(***************************************************************************)
(* What a delta cycle promises to the processes of a design: the values    *)
(* change all at once, and a change is announced in the very step that     *)
(* makes it, for exactly the signals that changed.                         *)
(***************************************************************************)
CONSTANTS Names, Contents

VARIABLES values,      \* current value of each signal
          announced    \* signals whose change still has to wake processes

Init == values \in [Names -> Contents] /\ announced \subseteq Names

(* All assignments of a delta at once.                                     *)
Assign ==
    /\ values' \in [Names -> Contents]
    /\ announced' = {s \in Names : values'[s] # values[s]}

(* The next delta takes the announcements up.                              *)
TakeUp == announced' = {} /\ UNCHANGED values

Spec == Init /\ [][Assign \/ TakeUp]_<<values, announced>>
=============================================================================
