------------------------------ MODULE MCRing ------------------------------
(* The values TLC gives to the constants of Ring that a .cfg cannot write.  *)
EXTENDS RingQueue

OneLength == {60}
RxLengths == {20, 60}
SecondIsForeign == {2}
None == {}
=============================================================================
