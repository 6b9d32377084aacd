---------------------------- MODULE TxRefinement ----------------------------
(***************************************************************************)
(* The transmit path implements FrameLife: whose duty a frame is follows   *)
(* from the state of WCH11P_tx, of the work item and of the LLC. A frame   *)
(* the LLC has confirmed and nobody freed stays with the radio; one freed  *)
(* twice maps to a place FrameLife does not have.                          *)
(***************************************************************************)
EXTENDS TxPath

PlaceOf(s) ==
  CASE frees[s] = 1                                      -> "released"
    [] frees[s] = 0 /\ llc[s] # "none"                   -> "radio"
    [] frees[s] = 0 /\ llc[s] = "none" /\ tx[s] = "idle" -> "stack"
    [] frees[s] = 0 /\ llc[s] = "none" /\ tx[s] # "idle" -> "driver"
    [] OTHER                                             -> "freed twice"

FL == INSTANCE FrameLife
        WITH Frames <- Skbs, place <- [s \in Skbs |-> PlaceOf(s)]

\* Every step of WCH11P_tx, the work callback and TxCnf moves one frame
\* along FrameLife or leaves every frame where it is: a frame is released
\* once, and one the radio accepted only by TxCnf ("pSkb freed in TxCnf()
\* callback", mac80211-ops.c:88).
ImplementsFrameLife == FL!Spec
=============================================================================
