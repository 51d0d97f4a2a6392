------------------------------- MODULE Register -------------------------------
(* What the snapshots of the driver promise: an atomic register. The RT thread *)
(* writes it, any number of threads read it, a read returns the whole value of *)
(* the moment it returns (feedback_tap.h, Seqlock).                            *)
CONSTANTS Readers, Values, First
VARIABLES reg, got      \* the value, and what each reader read last

TypeOK == reg \in Values /\ got \in [Readers -> Values]
Init   == reg = First /\ got = [r \in Readers |-> First]
Write  == reg' \in Values /\ UNCHANGED got
Read(r) == got' = [got EXCEPT ![r] = reg] /\ UNCHANGED reg
Next   == Write \/ \E r \in Readers : Read(r)
Spec   == Init /\ [][Next]_<<reg, got>>
=============================================================================
