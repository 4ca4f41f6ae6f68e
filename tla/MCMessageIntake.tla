-------------------------- MODULE MCMessageIntake ---------------------------
(* Small instances of MessageIntake for TLC *)
EXTENDS MessageIntake, TLC

(* Three people decide about a suggestion while requests or a worker die *)
Decide == [calls |-> 3, rows |-> 1, messages |-> 1, entries |-> 0, workers |-> 1,
           manual |-> 0, txn |-> TRUE, faults |-> {"crash"}, mishaps |-> 1]
Falter == [Decide EXCEPT !.calls = 2, !.mishaps = 2]

(* Two workers have the same event, and people decide in between *)
Repeat == [calls |-> 1, rows |-> 2, messages |-> 1, entries |-> 0, workers |-> 2,
           manual |-> 1, txn |-> TRUE, faults |-> {"crash", "overrun", "emit"}, mishaps |-> 2]

(* Messages that are typed offline may be stored twice, or, for one of     *)
(* them, without an event                                                  *)
Send == [calls |-> 0, rows |-> 0, messages |-> 2, entries |-> 2, workers |-> 0,
         manual |-> 0, txn |-> TRUE, faults |-> {"web", "reply", "removal", "reload"},
         mishaps |-> 2]
Halfway == [Send EXCEPT !.entries = 1, !.txn = FALSE]

(* One that is typed offline is sent and classified *)
Whole == [calls |-> 0, rows |-> 1, messages |-> 1, entries |-> 1, workers |-> 1,
          manual |-> 0, txn |-> TRUE, faults |-> {"crash", "reply", "removal"}, mishaps |-> 2]

Scenes == {Decide, Falter, Repeat, Send, Halfway, Whole}

Alike == Permutations(Call) \cup Permutations(Row) \cup Permutations(Message)
             \cup Permutations(Worker)
=============================================================================
