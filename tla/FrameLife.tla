----------------------------- MODULE FrameLife ------------------------------
(***************************************************************************)
(* What the transmit path promises about a frame, without work items,      *)
(* return codes or callbacks: a frame is with the network stack, then with *)
(* the driver, perhaps with the radio, and is released exactly once. The   *)
(* driver may discard a frame as long as the radio has not accepted it; an *)
(* accepted frame is released by the radio's confirmation and by nothing   *)
(* else.                                                                   *)
(***************************************************************************)
CONSTANT Frames

VARIABLE place    \* place[f]: who has to release frame f

Places == {"stack", "driver", "radio", "released"}

Init == place = [f \in Frames |-> "stack"]

Moves(f, from, to) ==
  /\ place[f] = from
  /\ place' = [place EXCEPT ![f] = to]

Take(f)     == Moves(f, "stack", "driver")
Discard(f)  == Moves(f, "stack", "released") \/ Moves(f, "driver", "released")
Transmit(f) == Moves(f, "driver", "radio")
Confirm(f)  == Moves(f, "radio", "released")

Next == \E f \in Frames : Take(f) \/ Discard(f) \/ Transmit(f) \/ Confirm(f)

Spec == Init /\ [][Next]_place
=============================================================================
