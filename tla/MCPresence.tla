----------------------------- MODULE MCPresence -----------------------------
(* Ann, whose tab connects twice, Bob, whose tab connects once, and one pod: *)
(* with the second connection a user has two sockets for a while, the old    *)
(* one, whose end the pod has not learned of, and the new one                *)
EXTENDS Presence

CONSTANTS ann, bob, a1, b1, p1

MCOwner == [t \in Tab |-> IF t = b1 THEN bob ELSE ann]
MCHome == [t \in Tab |-> p1]
MCPeers == [u \in User |-> User \ {u}]
MCConnects == [t \in Tab |-> IF t = a1 THEN 2 ELSE 1]
=============================================================================
