------------------------------ MODULE ArmSession ------------------------------
(* What every program on top of the driver owes the arm: it takes it at most   *)
(* once, never in a dry run, and is not over before it has given it back.      *)
VARIABLES dry, arm, over

Init == dry \in BOOLEAN /\ arm = "free" /\ over = FALSE
Take == ~dry /\ ~over /\ arm = "free" /\ arm' = "taken" /\ UNCHANGED <<dry, over>>
Give == arm' = "given" /\ ~over /\ UNCHANGED <<dry, over>>
End  == arm # "taken" /\ over' = TRUE /\ UNCHANGED <<dry, arm>>
Next == Take \/ Give \/ End
Spec == Init /\ [][Next]_<<dry, arm, over>>
=============================================================================
