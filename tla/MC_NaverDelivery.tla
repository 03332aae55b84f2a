--------------------------- MODULE MC_NaverDelivery ---------------------------
(***************************************************************************)
(* Instances of NaverDelivery for TLC.                                     *)
(***************************************************************************)
EXTENDS NaverDelivery

AnySlot == [b \in Naver |-> Slots]
=============================================================================
