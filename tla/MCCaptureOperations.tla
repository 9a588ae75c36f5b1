------------------------ MODULE MCCaptureOperations ------------------------
(***************************************************************************)
(* Small instances of CaptureOperations.                                   *)
(***************************************************************************)
EXTENDS CaptureOperations, TLC

CONSTANTS front, back

RequestOf(kind, groups, count) == [kind |-> kind, groups |-> groups, count |-> count]

(* Two groups a cycle and two cycles, so that several half-answered cycles *)
(* are under way at once; a sequence that only stops when told to.         *)
EveryRequest ==
  {RequestOf("sequence", {front, back}, 2), RequestOf("sequence", {front}, 0),
   RequestOf("batch", {front, back}, 1), RequestOf("test_shot", {back}, 1)}

(* Several operations at once, each as short as it can be.                 *)
SmallRequest == {RequestOf("sequence", {front}, 1), RequestOf("test_shot", {back}, 1)}

(* Operation ids are only compared; the run that uses this checks no       *)
(* liveness.                                                               *)
OperationIds == Permutations(Operation)
============================================================================
