------------------------------ MODULE MCTunnel ------------------------------
(* Lengths on both sides of every limit: 14 | 15 is the worker's, 26 the    *)
(* padding's; 46 and 66 are what the MTUs leave behind the headers.  60 can *)
(* be stripped once more and still be written, 40 cannot.  A foreign frame  *)
(* of 20 bytes does not reach the sender's address.                         *)
EXTENDS Tunnel

TwoMtus == {80, 100}
TapSizes == {14, 15, 40, 60}
ForeignSizes == {20, 60}
=============================================================================
