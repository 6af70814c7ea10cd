----------------------- MODULE MCIterationControllers -----------------------
(***************************************************************************)
(* Every kind of controller, with budgets of one to three attempts and a   *)
(* target in the middle of the scores; the patience controller, the only   *)
(* one that reads it, with patience one or two.  max_rounds must be 9 at    *)
(* least, so that RoundsSuffice three attempts.                            *)
(***************************************************************************)
EXTENDS IterationControllers

Impatient == [kind : {"patience"}, maxAttempts : 1..3, target : {1}, patience : {1}]

SomePolicies ==
  Impatient \cup [kind : Kinds, maxAttempts : 1..3, target : {1}, patience : {2}]

(* The patience controller alone, with its defaults' shape: patience well   *)
(* below max_attempts.                                                      *)
PatientPolicies ==
  [kind : {"patience"}, maxAttempts : {3}, target : {1}, patience : {2}]

(* The threshold controller alone.                                          *)
ThresholdPolicies ==
  [kind : {"threshold"}, maxAttempts : {2, 3}, target : {1}, patience : {2}]

ASSUME EnoughRounds == RoundsSuffice
=============================================================================
