------------------------- MODULE MCStackerSetUpdator -------------------------
(* Two cycles the node never answers for, as many as there are slots, one of
   before PoX-4 and one it answers for. *)
EXTENDS StackerSetUpdator, TLC

CONSTANTS early, good, lost1, lost2

MCCycles == {early, good, lost1, lost2}
MCPrePox4 == {early}
MCUnavailable == {lost1, lost2}
==============================================================================
