--------------------------- MODULE MCTaskLifecycle --------------------------
(* Small instances of TaskLifecycle for TLC *)
EXTENDS TaskLifecycle, TLC

Alike == Permutations(Worker)

(* A second request comes after the first, and not together with a mishap *)
Few ==
    queue[<<"again", 0>>] # "none" => queue[<<"first", 0>>] # "none" /\ mishaps = <<>>
=============================================================================
