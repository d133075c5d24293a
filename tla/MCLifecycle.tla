---------------------------- MODULE MCLifecycle ----------------------------
(* The peers of sample.yaml: one of each direction.                  *)
EXTENDS Lifecycle

InTwoOutOne == <<[dir |-> "IN", threads |-> 2],
                 [dir |-> "OUT", threads |-> 1]>>
AsSample == <<[dir |-> "IN", threads |-> 1],
              [dir |-> "OUT", threads |-> 1]>>
InTwo == <<[dir |-> "IN", threads |-> 2]>>
AnyId == {0, 1}
Zero == {0}
=============================================================================
