----------------------------- MODULE CallLedger -----------------------------
(***************************************************************************)
(* What the reservations of tool calls promise to whoever plans a call     *)
(* again in a later run: a call is made only while it is reserved; once it *)
(* has been made its reservation is never given up, whatever became of the *)
(* worker that made it; and what is replayed as a result was made.         *)
(***************************************************************************)
EXTENDS Naturals

CONSTANT Call

VARIABLES
    book,  \* book[c]: "free", "held" by a reservation, or "kept" for replay
    made   \* made[c]: how often c was made

vars == <<book, made>>

Init ==
    /\ book = [c \in Call |-> "free"]
    /\ made = [c \in Call |-> 0]

Move(c, from, to) ==
    /\ book[c] = from
    /\ book' = [book EXCEPT ![c] = to]

Reserve(c) == Move(c, "free", "held") /\ UNCHANGED made
Make(c) ==
    /\ book[c] = "held" /\ made[c] = 0
    /\ made' = [made EXCEPT ![c] = 1]
    /\ UNCHANGED book
Keep(c) == Move(c, "held", "kept") /\ made[c] = 1 /\ UNCHANGED made
Free(c) == Move(c, "held", "free") /\ made[c] = 0 /\ UNCHANGED made

Next == \E c \in Call : Reserve(c) \/ Make(c) \/ Keep(c) \/ Free(c)

Spec == Init /\ [][Next]_vars

=============================================================================
