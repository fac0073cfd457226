------------------------- MODULE MCConcurrencyLimit -------------------------
(* Instances of ConcurrencyLimit for TLC. *)
EXTENDS ConcurrencyLimit, TLC

CONSTANTS c1, c2, m1, g1

MCChannels == {c1, c2}
MCModels == {m1}
MCRules == {g1}
MCRoutes == { [rule |-> g1, channel |-> c1, model |-> m1],
              [rule |-> g1, channel |-> c2, model |-> m1],
              [rule |-> NoRule, channel |-> c2, model |-> m1] }
MCLimits == 0..2
MCSymmetry == Permutations(Requests)
=============================================================================
