----------------------------- MODULE WriteOnce ------------------------------
(***************************************************************************)
(* What the effect journal promises about remote writes, with nothing of   *)
(* how: each write takes effect at the provider at most once, and what the *)
(* journal claims about it is true whenever it claims something definite.  *)
(***************************************************************************)
EXTENDS Naturals

CONSTANT Writes     \* exact action instances

VARIABLES claim,    \* what the durable journal says of each write
          applied   \* how often the provider performed it

vars == <<claim, applied>>

Claims == {"none", "open", "applied", "absent"}

Init == /\ claim = [w \in Writes |-> "none"]
        /\ applied = [w \in Writes |-> 0]

(* The journal admits that the write may happen.  A write proven absent    *)
(* may be tried again; an applied one may not.                             *)
Open(w) == /\ claim[w] \in {"none", "absent"}
           /\ claim' = [claim EXCEPT ![w] = "open"]
           /\ UNCHANGED applied

Apply(w) == /\ claim[w] = "open"
            /\ applied[w] = 0
            /\ applied' = [applied EXCEPT ![w] = 1]
            /\ UNCHANGED claim

Settle(w) == /\ claim[w] = "open"
             /\ claim' = [claim EXCEPT ![w] = IF applied[w] = 1 THEN "applied" ELSE "absent"]
             /\ UNCHANGED applied

Next == \E w \in Writes : Open(w) \/ Apply(w) \/ Settle(w)

Spec == Init /\ [][Next]_vars
=============================================================================
