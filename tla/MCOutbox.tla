------------------------------ MODULE MCOutbox ------------------------------
(* Small instances of Outbox for TLC.                                        *)
EXTENDS Outbox, TLC

CONSTANTS e1, e2, w1, w2

MCShare == [w \in Worker |-> Event]

MCSymmetry == Permutations(Worker)

=============================================================================
