------------------------------- MODULE MCLink -------------------------------
(***************************************************************************)
(* Link with two radios in reach of each other: rA, whose driver was       *)
(* loaded with adaptBSSID, and rB, whose was not.                          *)
(***************************************************************************)
EXTENDS Link

CONSTANTS rA, rB

MCRadios == {rA, rB}
MCadaptBSSID == [r \in MCRadios |-> r = rA]

\* The numbers IEEE 802.11 gives the eight rates in the field RATE: they do not
\* rise with the table, and some are below 10.
RATE == <<11, 15, 10, 14, 9, 13, 8, 12>>
MCOBUMCS ==
  [m \in {bitrates[i] : i \in 1..8} |-> RATE[CHOOSE i \in 1..8 : bitrates[i] = m]]
=============================================================================
