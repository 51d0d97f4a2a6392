---------------------------- MODULE EmergencyStop ----------------------------
(***************************************************************************)
(* What an emergency stop promises, with no locks and no threads: once a    *)
(* stop has completed nothing moves the arm until somebody clears it.       *)
(* Arbiter.tla is shown to implement this specification.                    *)
(***************************************************************************)
CONSTANT Owner            \* whoever a motion command may be attributed to

VARIABLES stopped,        \* a stop has completed and has not been cleared
          moving          \* those whose commands reached the arm since the last halt

vars == <<stopped, moving>>

Init == /\ stopped = FALSE
        /\ moving = {}

Stop == /\ stopped' = TRUE
        /\ moving' = {}

Clear == /\ stopped' = FALSE
         /\ UNCHANGED moving

Halt == /\ moving' = {}
        /\ UNCHANGED stopped

Command == /\ ~stopped
           /\ \E o \in Owner : moving' = moving \cup {o}
           /\ UNCHANGED stopped

Next == Stop \/ Clear \/ Halt \/ Command

Spec == Init /\ [][Next]_vars
=============================================================================
