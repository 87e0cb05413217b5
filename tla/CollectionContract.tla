------------------------- MODULE CollectionContract -------------------------
(***************************************************************************)
(* What the collection of a product's log promises the rest of the case:   *)
(* it may stay without a conclusion, but a detection it reports rests on   *)
(* evidence in the log, and a log it calls clear holds none, unless the    *)
(* collection overlooked part of it.  What is evidence is each collector's *)
(* own rule.  GuestCase and SingleRun rely on no more than this;           *)
(* Collectors implements it.                                               *)
(***************************************************************************)

VARIABLES
  logged,      \* the log holds evidence of the case
  finding,     \* the last conclusion
  overlooked   \* that collection missed part of the log and did not notice

contractVars == <<logged, finding, overlooked>>

ContractInit == logged \in BOOLEAN /\ finding = "inconclusive" /\ overlooked = FALSE

\* The product writes, or the window moves.
LogChanges == logged' \in BOOLEAN /\ UNCHANGED <<finding, overlooked>>

\* A collection concludes from the log as it is at one moment.
Conclude ==
  /\ overlooked' \in BOOLEAN
  /\ \/ finding' = "inconclusive"
     \/ finding' = "detected" /\ logged
     \/ finding' = "clear" /\ (logged => overlooked')
  /\ logged' \in BOOLEAN

ContractNext == LogChanges \/ Conclude

ContractSpec == ContractInit /\ [][ContractNext]_contractVars
=============================================================================
