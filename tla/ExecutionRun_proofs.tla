------------------------ MODULE ExecutionRun_proofs ------------------------
(***************************************************************************)
(* What the lease and the reservations of ExecutionRun guarantee, for any  *)
(* number of workers and calls.                                            *)
(***************************************************************************)
EXTENDS ExecutionRun, TLAPS

USE DEF setting, lease, books, worker, vars, Goto, Get, Drop, Mishap

-----------------------------------------------------------------------------
(* Types. Flags are kept apart from the rest, which takes another prover.    *)

Flags ==
    /\ live \in BOOLEAN
    /\ keyed \in [Worker -> BOOLEAN]
    /\ lost \in [Worker -> BOOLEAN]

Data ==
    /\ loop \in Loops
    /\ faults \in FaultSets
    /\ work \in {"queued", "done"}
    /\ owner \in Worker \cup {Nobody, Gone}
    /\ row \in [Call -> RowStates]
    /\ effects \in [Call -> 0..MaxEffects]
    /\ pc \in [Worker -> Points]
    /\ call \in [Worker -> Call \cup {NoCall}]
    /\ got \in [Worker -> RowStates \cup {"none", "return", "throw"}]
    /\ mishaps \in 0..MaxMishaps

(* A worker that is about a call has one, and has read what it acts on.      *)
Control ==
    \A w \in Worker :
        /\ pc[w] \in {"prepare", "reserve", "call", "called", "settle", "spoil"} => call[w] \in Call
        /\ pc[w] = "reserve" => got[w] \in {"absent", "failed"}
        /\ pc[w] = "settle" => got[w] \in {"succeeded", "failed"}

LEMMA TypeParts == TypeOK <=> Flags /\ Data
    BY DEF TypeOK, Flags, Data

LEMMA DataInit == Init => Data
    BY RunAssumption DEF Init, Data, Points, RowStates

LEMMA FlagsInit == Init => Flags
    BY Zenon DEF Init, Flags

LEMMA DataStep == TypeOK /\ Control /\ [Next]_vars => Data'
<1> SUFFICES ASSUME TypeOK, Control, [Next]_vars PROVE Data'
    OBVIOUS
<1> Data
    BY TypeParts
<1>1. CASE UNCHANGED vars
    BY RunAssumption, <1>1 DEF Data
<1>2. CASE NewWork
    BY RunAssumption, <1>2 DEF Data, NewWork, Points, RowStates
<1>3. CASE LeaseRunsOut
    BY RunAssumption, <1>3 DEF Data, LeaseRunsOut, Points, RowStates
<1>4. CASE LeaseRunsOutInUse
    BY RunAssumption, <1>4 DEF Data, LeaseRunsOutInUse, Points, RowStates
<1>5. ASSUME NEW w \in Worker, Acquire(w) PROVE Data'
    BY RunAssumption, <1>5 DEF Data, Acquire, Points, RowStates
<1>6. ASSUME NEW w \in Worker, HeartbeatFindsNoLease(w) PROVE Data'
    BY RunAssumption, <1>6 DEF Data, HeartbeatFindsNoLease, Points, RowStates
<1>7. ASSUME NEW w \in Worker, GiveUp(w) PROVE Data'
    BY RunAssumption, <1>7 DEF Data, GiveUp, Points, RowStates
<1>8. ASSUME NEW w \in Worker, Leave(w) PROVE Data'
    BY RunAssumption, <1>8 DEF Data, Leave, Points, RowStates
<1>9. ASSUME NEW w \in Worker, Release(w) PROVE Data'
    BY RunAssumption, <1>9 DEF Data, Release, Points, RowStates
<1>10. ASSUME NEW w \in Worker, NEW c \in Call, Lookup(w, c) PROVE Data'
    BY RunAssumption, <1>10 DEF Data, Lookup, Points, RowStates
<1>11. ASSUME NEW w \in Worker, NEW c \in Call, SkipLookup(w, c) PROVE Data'
    BY RunAssumption, <1>11 DEF Data, SkipLookup, Points, RowStates
<1>12. ASSUME NEW w \in Worker, ReadReservation(w) PROVE Data'
    BY RunAssumption, <1>12 DEF Data, Control, ReadReservation, Points, RowStates
<1>13. ASSUME NEW w \in Worker, Reserve(w) PROVE Data'
    BY RunAssumption, <1>13 DEF Data, Reserve, Points, RowStates
<1>14. ASSUME NEW w \in Worker, Decline(w) PROVE Data'
    BY RunAssumption, <1>14 DEF Data, Decline, Points, RowStates
<1>15. ASSUME NEW w \in Worker, PrepareFails(w) PROVE Data'
    BY RunAssumption, <1>15 DEF Data, PrepareFails, Points, RowStates
<1>16. ASSUME NEW w \in Worker, Effect(w) PROVE Data'
    <2>1. effects' \in [Call -> 0..MaxEffects]
        <3> DEFINE n == IF effects[call[w]] < MaxEffects
                        THEN effects[call[w]] + 1 ELSE effects[call[w]]
        <3>1. call[w] \in Call
            BY <1>16 DEF Control, Effect
        <3>2. effects[call[w]] \in Nat /\ effects[call[w]] <= MaxEffects
            BY <3>1, RunAssumption DEF Data
        <3>3. n \in 0..MaxEffects
            BY <3>2, RunAssumption
        <3>4. effects' = [effects EXCEPT ![call[w]] = n]
            BY <1>16 DEF Effect
        <3> HIDE DEF n
        <3> QED
            BY <3>3, <3>4 DEF Data
    <2> QED
        BY <2>1, <1>16 DEF Data, Effect, Points
<1>17. ASSUME NEW w \in Worker, ToolFails(w) PROVE Data'
    BY RunAssumption, <1>17 DEF Data, ToolFails, Points, RowStates
<1>18. ASSUME NEW w \in Worker, ToolSucceeds(w) PROVE Data'
    BY RunAssumption, <1>18 DEF Data, ToolSucceeds, Points, RowStates
<1>19. ASSUME NEW w \in Worker, Abort(w) PROVE Data'
    BY RunAssumption, <1>19 DEF Data, Abort, Points, RowStates
<1>20. ASSUME NEW w \in Worker, Settle(w) PROVE Data'
    BY RunAssumption, <1>20 DEF Data, Control, Settle, Points, RowStates
<1>21. ASSUME NEW w \in Worker, Spoil(w) PROVE Data'
    BY RunAssumption, <1>21 DEF Data, Spoil, Points, RowStates
<1>22. ASSUME NEW w \in Worker, SettleFails(w) PROVE Data'
    BY RunAssumption, <1>22 DEF Data, SettleFails, Points, RowStates
<1>23. ASSUME NEW w \in Worker, HeartbeatFails(w) PROVE Data'
    BY RunAssumption, <1>23 DEF Data, HeartbeatFails, Points, RowStates
<1>24. ASSUME NEW w \in Worker, Throw(w) PROVE Data'
    BY RunAssumption, <1>24 DEF Data, Throw, Points, RowStates
<1>25. ASSUME NEW w \in Worker, ReleaseFails(w) PROVE Data'
    BY RunAssumption, <1>25 DEF Data, ReleaseFails, Points, RowStates
<1>26. ASSUME NEW w \in Worker, Crash(w) PROVE Data'
    BY RunAssumption, <1>26 DEF Data, Crash, Points, RowStates
<1> QED
    BY <1>1, <1>2, <1>3, <1>4, <1>5, <1>6, <1>7, <1>8, <1>9, <1>10, <1>11, <1>12, <1>13, <1>14, <1>15, <1>16, <1>17, <1>18, <1>19, <1>20, <1>21, <1>22, <1>23, <1>24, <1>25, <1>26 DEF Next, LeaseStep, CallStep, MishapStep

LEMMA FlagsStep == TypeOK /\ [Next]_vars => Flags'
<1> SUFFICES ASSUME TypeOK, [Next]_vars PROVE Flags'
    OBVIOUS
<1> Flags
    BY TypeParts
<1>1. CASE UNCHANGED vars
    BY Zenon, <1>1 DEF Flags
<1>2. CASE NewWork
    BY Zenon, <1>2 DEF Flags, NewWork
<1>3. CASE LeaseRunsOut
    BY Zenon, <1>3 DEF Flags, LeaseRunsOut
<1>4. CASE LeaseRunsOutInUse
    BY Zenon, <1>4 DEF Flags, LeaseRunsOutInUse
<1>5. ASSUME NEW w \in Worker, Acquire(w) PROVE Flags'
    BY Zenon, <1>5 DEF Flags, Acquire
<1>6. ASSUME NEW w \in Worker, HeartbeatFindsNoLease(w) PROVE Flags'
    BY Zenon, <1>6 DEF Flags, HeartbeatFindsNoLease
<1>7. ASSUME NEW w \in Worker, GiveUp(w) PROVE Flags'
    BY Zenon, <1>7 DEF Flags, GiveUp
<1>8. ASSUME NEW w \in Worker, Leave(w) PROVE Flags'
    BY Zenon, <1>8 DEF Flags, Leave
<1>9. ASSUME NEW w \in Worker, Release(w) PROVE Flags'
    BY Zenon, <1>9 DEF Flags, Release
<1>10. ASSUME NEW w \in Worker, NEW c \in Call, Lookup(w, c) PROVE Flags'
    BY Zenon, <1>10 DEF Flags, Lookup
<1>11. ASSUME NEW w \in Worker, NEW c \in Call, SkipLookup(w, c) PROVE Flags'
    BY Zenon, <1>11 DEF Flags, SkipLookup
<1>12. ASSUME NEW w \in Worker, ReadReservation(w) PROVE Flags'
    BY Zenon, <1>12 DEF Flags, ReadReservation
<1>13. ASSUME NEW w \in Worker, Reserve(w) PROVE Flags'
    BY Zenon, <1>13 DEF Flags, Reserve
<1>14. ASSUME NEW w \in Worker, Decline(w) PROVE Flags'
    BY Zenon, <1>14 DEF Flags, Decline
<1>15. ASSUME NEW w \in Worker, PrepareFails(w) PROVE Flags'
    BY Zenon, <1>15 DEF Flags, PrepareFails
<1>16. ASSUME NEW w \in Worker, Effect(w) PROVE Flags'
    BY Zenon, <1>16 DEF Flags, Effect
<1>17. ASSUME NEW w \in Worker, ToolFails(w) PROVE Flags'
    BY Zenon, <1>17 DEF Flags, ToolFails
<1>18. ASSUME NEW w \in Worker, ToolSucceeds(w) PROVE Flags'
    BY Zenon, <1>18 DEF Flags, ToolSucceeds
<1>19. ASSUME NEW w \in Worker, Abort(w) PROVE Flags'
    BY Zenon, <1>19 DEF Flags, Abort
<1>20. ASSUME NEW w \in Worker, Settle(w) PROVE Flags'
    BY Zenon, <1>20 DEF Flags, Settle
<1>21. ASSUME NEW w \in Worker, Spoil(w) PROVE Flags'
    BY Zenon, <1>21 DEF Flags, Spoil
<1>22. ASSUME NEW w \in Worker, SettleFails(w) PROVE Flags'
    BY Zenon, <1>22 DEF Flags, SettleFails
<1>23. ASSUME NEW w \in Worker, HeartbeatFails(w) PROVE Flags'
    BY Zenon, <1>23 DEF Flags, HeartbeatFails
<1>24. ASSUME NEW w \in Worker, Throw(w) PROVE Flags'
    BY Zenon, <1>24 DEF Flags, Throw
<1>25. ASSUME NEW w \in Worker, ReleaseFails(w) PROVE Flags'
    BY Zenon, <1>25 DEF Flags, ReleaseFails
<1>26. ASSUME NEW w \in Worker, Crash(w) PROVE Flags'
    BY Zenon, <1>26 DEF Flags, Crash
<1> QED
    BY <1>1, <1>2, <1>3, <1>4, <1>5, <1>6, <1>7, <1>8, <1>9, <1>10, <1>11, <1>12, <1>13, <1>14, <1>15, <1>16, <1>17, <1>18, <1>19, <1>20, <1>21, <1>22, <1>23, <1>24, <1>25, <1>26 DEF Next, LeaseStep, CallStep, MishapStep

(* What may go wrong is settled at the start.                                *)
LEMMA FaultsFixed == [Next]_vars => faults' = faults
    BY DEF Next, LeaseStep, CallStep, MishapStep, NewWork, LeaseRunsOut, LeaseRunsOutInUse,
        Acquire, HeartbeatFindsNoLease, GiveUp, Leave, Release, Lookup, SkipLookup,
        ReadReservation, Reserve, Decline, PrepareFails, Effect, ToolFails, ToolSucceeds,
        Abort, Settle, Spoil, SettleFails, HeartbeatFails, Throw, ReleaseFails, Crash

LEMMA ControlInit == Init => Control
    BY DEF Init, Control

LEMMA ControlStep == TypeOK /\ Control /\ [Next]_vars => Control'
<1> SUFFICES ASSUME TypeOK, Control, [Next]_vars PROVE Control'
    OBVIOUS
<1> Data
    BY TypeParts
<1>1. CASE UNCHANGED <<pc, call, got>>
    BY <1>1 DEF Control
<1>2. ASSUME NEW w \in Worker, Acquire(w) PROVE Control'
    BY <1>2 DEF Control, Data, Acquire, RowStates
<1>3. ASSUME NEW w \in Worker, GiveUp(w) PROVE Control'
    BY <1>3 DEF Control, Data, GiveUp, RowStates
<1>4. ASSUME NEW w \in Worker, Leave(w) PROVE Control'
    BY <1>4 DEF Control, Data, Leave, RowStates
<1>5. ASSUME NEW w \in Worker, Release(w) PROVE Control'
    BY <1>5 DEF Control, Data, Release, RowStates
<1>6. ASSUME NEW w \in Worker, NEW c \in Call, Lookup(w, c) PROVE Control'
    BY <1>6 DEF Control, Data, Lookup, RowStates
<1>7. ASSUME NEW w \in Worker, NEW c \in Call, SkipLookup(w, c) PROVE Control'
    BY <1>7 DEF Control, Data, SkipLookup, RowStates
<1>8. ASSUME NEW w \in Worker, ReadReservation(w) PROVE Control'
    BY <1>8 DEF Control, Data, ReadReservation, RowStates
<1>9. ASSUME NEW w \in Worker, Reserve(w) PROVE Control'
    BY <1>9 DEF Control, Data, Reserve, RowStates
<1>10. ASSUME NEW w \in Worker, Decline(w) PROVE Control'
    BY <1>10 DEF Control, Data, Decline, RowStates
<1>11. ASSUME NEW w \in Worker, PrepareFails(w) PROVE Control'
    BY <1>11 DEF Control, Data, PrepareFails, RowStates
<1>12. ASSUME NEW w \in Worker, Effect(w) PROVE Control'
    BY <1>12 DEF Control, Data, Effect, RowStates
<1>13. ASSUME NEW w \in Worker, ToolFails(w) PROVE Control'
    BY <1>13 DEF Control, Data, ToolFails, RowStates
<1>14. ASSUME NEW w \in Worker, ToolSucceeds(w) PROVE Control'
    BY <1>14 DEF Control, Data, ToolSucceeds, RowStates
<1>15. ASSUME NEW w \in Worker, Abort(w) PROVE Control'
    BY <1>15 DEF Control, Data, Abort, RowStates
<1>16. ASSUME NEW w \in Worker, Settle(w) PROVE Control'
    BY <1>16 DEF Control, Data, Settle, RowStates
<1>17. ASSUME NEW w \in Worker, Spoil(w) PROVE Control'
    BY <1>17 DEF Control, Data, Spoil, RowStates
<1>18. ASSUME NEW w \in Worker, SettleFails(w) PROVE Control'
    BY <1>18 DEF Control, Data, SettleFails, RowStates
<1>19. ASSUME NEW w \in Worker, Throw(w) PROVE Control'
    BY <1>19 DEF Control, Data, Throw, RowStates
<1>20. ASSUME NEW w \in Worker, ReleaseFails(w) PROVE Control'
    BY <1>20 DEF Control, Data, ReleaseFails, RowStates
<1>21. ASSUME NEW w \in Worker, Crash(w) PROVE Control'
    BY <1>21 DEF Control, Data, Crash, RowStates
<1> QED
    BY <1>1, <1>2, <1>3, <1>4, <1>5, <1>6, <1>7, <1>8, <1>9, <1>10, <1>11, <1>12, <1>13, <1>14, <1>15, <1>16, <1>17, <1>18, <1>19, <1>20, <1>21
    DEF Next, LeaseStep, CallStep, MishapStep, NewWork, LeaseRunsOut, LeaseRunsOutInUse,
        HeartbeatFindsNoLease, HeartbeatFails

LEMMA TypeStep == TypeOK /\ Control /\ [Next]_vars => TypeOK' /\ Control'
<1> SUFFICES ASSUME TypeOK, Control, [Next]_vars PROVE TypeOK' /\ Control'
    OBVIOUS
<1>1. Data' /\ Flags' /\ Control'
    BY DataStep, FlagsStep, ControlStep
<1> QED
    BY <1>1 DEF TypeOK, Data, Flags

(* Types of all variables.                                                   *)
THEOREM TypeCorrect == Spec => []TypeOK
<1>1. Init => TypeOK /\ Control
    BY DataInit, FlagsInit, ControlInit, TypeParts
<1> QED
    BY <1>1, TypeStep, PTL DEF Spec

-----------------------------------------------------------------------------
(* The lease                                                                 *)

Exclusive == \A v \in Worker : Renews(v) => owner = v /\ live

LEMMA ExclusiveStep ==
    ASSUME TypeOK, Exclusive, "slow" \notin faults, [Next]_vars
    PROVE  Exclusive'
<1> USE DEF Exclusive, Renews, Running
<1> Data /\ Flags
    BY TypeParts
<1>1. CASE UNCHANGED <<lease, pc, lost>>
    BY <1>1
<1>2. CASE LeaseRunsOut
    BY <1>2 DEF LeaseRunsOut, Data
<1>3. CASE LeaseRunsOutInUse
    BY <1>3 DEF LeaseRunsOutInUse
<1>4. ASSUME NEW w \in Worker, Acquire(w) PROVE Exclusive'
    BY <1>4, RunAssumption DEF Data, Flags, Acquire
<1>5. ASSUME NEW w \in Worker, HeartbeatFindsNoLease(w) PROVE Exclusive'
    BY <1>5, RunAssumption DEF Data, Flags, HeartbeatFindsNoLease
<1>6. ASSUME NEW w \in Worker, GiveUp(w) PROVE Exclusive'
    BY <1>6, RunAssumption DEF Data, Flags, GiveUp
<1>7. ASSUME NEW w \in Worker, Leave(w) PROVE Exclusive'
    BY <1>7, RunAssumption DEF Data, Flags, Leave
<1>8. ASSUME NEW w \in Worker, Release(w) PROVE Exclusive'
    BY <1>8, RunAssumption DEF Data, Flags, Release
<1>9. ASSUME NEW w \in Worker, NEW c \in Call, Lookup(w, c) PROVE Exclusive'
    BY <1>9, RunAssumption DEF Data, Flags, Lookup
<1>10. ASSUME NEW w \in Worker, NEW c \in Call, SkipLookup(w, c) PROVE Exclusive'
    BY <1>10, RunAssumption DEF Data, Flags, SkipLookup
<1>11. ASSUME NEW w \in Worker, ReadReservation(w) PROVE Exclusive'
    BY <1>11, RunAssumption DEF Data, Flags, ReadReservation
<1>12. ASSUME NEW w \in Worker, Reserve(w) PROVE Exclusive'
    BY <1>12, RunAssumption DEF Data, Flags, Reserve
<1>13. ASSUME NEW w \in Worker, Decline(w) PROVE Exclusive'
    BY <1>13, RunAssumption DEF Data, Flags, Decline
<1>14. ASSUME NEW w \in Worker, PrepareFails(w) PROVE Exclusive'
    BY <1>14, RunAssumption DEF Data, Flags, PrepareFails
<1>15. ASSUME NEW w \in Worker, Effect(w) PROVE Exclusive'
    BY <1>15, RunAssumption DEF Data, Flags, Effect
<1>16. ASSUME NEW w \in Worker, ToolFails(w) PROVE Exclusive'
    BY <1>16, RunAssumption DEF Data, Flags, ToolFails
<1>17. ASSUME NEW w \in Worker, ToolSucceeds(w) PROVE Exclusive'
    BY <1>17, RunAssumption DEF Data, Flags, ToolSucceeds
<1>18. ASSUME NEW w \in Worker, Abort(w) PROVE Exclusive'
    BY <1>18, RunAssumption DEF Data, Flags, Abort
<1>19. ASSUME NEW w \in Worker, Settle(w) PROVE Exclusive'
    BY <1>19, RunAssumption DEF Data, Flags, Settle
<1>20. ASSUME NEW w \in Worker, Spoil(w) PROVE Exclusive'
    BY <1>20, RunAssumption DEF Data, Flags, Spoil
<1>21. ASSUME NEW w \in Worker, SettleFails(w) PROVE Exclusive'
    BY <1>21, RunAssumption DEF Data, Flags, SettleFails
<1>22. ASSUME NEW w \in Worker, HeartbeatFails(w) PROVE Exclusive'
    BY <1>22, RunAssumption DEF Data, Flags, HeartbeatFails
<1>23. ASSUME NEW w \in Worker, Throw(w) PROVE Exclusive'
    BY <1>23, RunAssumption DEF Data, Flags, Throw
<1>24. ASSUME NEW w \in Worker, ReleaseFails(w) PROVE Exclusive'
    BY <1>24, RunAssumption DEF Data, Flags, ReleaseFails
<1>25. ASSUME NEW w \in Worker, Crash(w) PROVE Exclusive'
    BY <1>25, RunAssumption DEF Data, Flags, Crash
<1> QED
    BY <1>1, <1>2, <1>3, <1>4, <1>5, <1>6, <1>7, <1>8, <1>9, <1>10, <1>11, <1>12, <1>13, <1>14, <1>15, <1>16, <1>17, <1>18, <1>19, <1>20, <1>21, <1>22, <1>23, <1>24, <1>25
    DEF Next, LeaseStep, CallStep, MishapStep, NewWork

(* A worker that has not been told otherwise has the lease, unless a         *)
(* heartbeat comes late.                                                     *)
THEOREM LeaseIsExclusive == Spec => []LeaseExcludes
<1> DEFINE IInv == TypeOK /\ Control /\ ("slow" \notin faults => Exclusive)
<1>1. Init => IInv
    <2> SUFFICES ASSUME Init PROVE IInv
        OBVIOUS
    <2>1. TypeOK /\ Control
        BY DataInit, FlagsInit, ControlInit, TypeParts
    <2>2. Exclusive
        BY DEF Init, Exclusive, Renews, Running
    <2> QED
        BY <2>1, <2>2
<1>2. IInv /\ [Next]_vars => IInv'
    BY TypeStep, ExclusiveStep, FaultsFixed
<1>3. IInv => LeaseExcludes
    BY DEF LeaseExcludes, Exclusive
<1> QED
    BY <1>1, <1>2, <1>3, PTL DEF Spec

-----------------------------------------------------------------------------
(* What a row says                                                           *)

Made ==
    /\ \A c \in Call : row[c] = "succeeded" => effects[c] > 0
    /\ \A w \in Worker :
          /\ pc[w] = "called" => effects[call[w]] > 0
          /\ pc[w] = "settle" /\ got[w] = "succeeded" => effects[call[w]] > 0

LEMMA MadeStep ==
    ASSUME TypeOK, Control, Made, [Next]_vars
    PROVE  Made'
<1> Data
    BY TypeParts
<1>1. CASE UNCHANGED <<books, pc, call, got>>
    BY <1>1 DEF Made
<1>2. ASSUME NEW w \in Worker, Acquire(w) PROVE Made'
    BY <1>2, RunAssumption DEF Data, Control, Made, RowStates, Acquire
<1>3. ASSUME NEW w \in Worker, GiveUp(w) PROVE Made'
    BY <1>3, RunAssumption DEF Data, Control, Made, RowStates, GiveUp
<1>4. ASSUME NEW w \in Worker, Leave(w) PROVE Made'
    BY <1>4, RunAssumption DEF Data, Control, Made, RowStates, Leave
<1>5. ASSUME NEW w \in Worker, Release(w) PROVE Made'
    BY <1>5, RunAssumption DEF Data, Control, Made, RowStates, Release
<1>6. ASSUME NEW w \in Worker, NEW c \in Call, Lookup(w, c) PROVE Made'
    BY <1>6, RunAssumption DEF Data, Control, Made, RowStates, Lookup
<1>7. ASSUME NEW w \in Worker, NEW c \in Call, SkipLookup(w, c) PROVE Made'
    BY <1>7, RunAssumption DEF Data, Control, Made, RowStates, SkipLookup
<1>8. ASSUME NEW w \in Worker, ReadReservation(w) PROVE Made'
    BY <1>8, RunAssumption DEF Data, Control, Made, RowStates, ReadReservation
<1>9. ASSUME NEW w \in Worker, Reserve(w) PROVE Made'
    BY <1>9, RunAssumption DEF Data, Control, Made, RowStates, Reserve
<1>10. ASSUME NEW w \in Worker, Decline(w) PROVE Made'
    BY <1>10, RunAssumption DEF Data, Control, Made, RowStates, Decline
<1>11. ASSUME NEW w \in Worker, PrepareFails(w) PROVE Made'
    BY <1>11, RunAssumption DEF Data, Control, Made, RowStates, PrepareFails
<1>12. ASSUME NEW w \in Worker, Effect(w) PROVE Made'
    <2>1. call[w] \in Call
        BY <1>12 DEF Control, Effect
    <2>2. /\ effects'[call[w]] > 0
          /\ \A c \in Call \ {call[w]} : effects'[c] = effects[c]
        <3>1. effects[call[w]] \in 0..MaxEffects
            BY <2>1 DEF Data
        <3> QED
            BY <2>1, <3>1, <1>12, RunAssumption DEF Data, Effect
    <2> QED
        BY <1>12, <2>1, <2>2 DEF Data, Control, Made, Effect
<1>13. ASSUME NEW w \in Worker, ToolFails(w) PROVE Made'
    BY <1>13, RunAssumption DEF Data, Control, Made, RowStates, ToolFails
<1>14. ASSUME NEW w \in Worker, ToolSucceeds(w) PROVE Made'
    BY <1>14, RunAssumption DEF Data, Control, Made, RowStates, ToolSucceeds
<1>15. ASSUME NEW w \in Worker, Abort(w) PROVE Made'
    BY <1>15, RunAssumption DEF Data, Control, Made, RowStates, Abort
<1>16. ASSUME NEW w \in Worker, Settle(w) PROVE Made'
    BY <1>16, RunAssumption DEF Data, Control, Made, RowStates, Settle
<1>17. ASSUME NEW w \in Worker, Spoil(w) PROVE Made'
    BY <1>17, RunAssumption DEF Data, Control, Made, RowStates, Spoil
<1>18. ASSUME NEW w \in Worker, SettleFails(w) PROVE Made'
    BY <1>18, RunAssumption DEF Data, Control, Made, RowStates, SettleFails
<1>19. ASSUME NEW w \in Worker, Throw(w) PROVE Made'
    BY <1>19, RunAssumption DEF Data, Control, Made, RowStates, Throw
<1>20. ASSUME NEW w \in Worker, ReleaseFails(w) PROVE Made'
    BY <1>20, RunAssumption DEF Data, Control, Made, RowStates, ReleaseFails
<1>21. ASSUME NEW w \in Worker, Crash(w) PROVE Made'
    BY <1>21, RunAssumption DEF Data, Control, Made, RowStates, Crash
<1> QED
    BY <1>1, <1>2, <1>3, <1>4, <1>5, <1>6, <1>7, <1>8, <1>9, <1>10, <1>11, <1>12, <1>13, <1>14, <1>15, <1>16, <1>17, <1>18, <1>19, <1>20, <1>21
    DEF Next, LeaseStep, CallStep, MishapStep, NewWork, LeaseRunsOut, LeaseRunsOutInUse,
        HeartbeatFindsNoLease, HeartbeatFails

(* A call that is replayed was made, whatever goes wrong.                    *)
THEOREM SuccessReal == Spec => []SuccessIsReal
<1>1. Init => TypeOK /\ Control /\ Made
    BY DataInit, FlagsInit, ControlInit, TypeParts DEF Init, Made
<1>2. TypeOK /\ Control /\ Made /\ [Next]_vars => (TypeOK /\ Control /\ Made)'
    BY TypeStep, MadeStep
<1>3. Made => SuccessIsReal
    BY DEF Made, SuccessIsReal
<1> QED
    BY <1>1, <1>2, <1>3, PTL DEF Spec

-----------------------------------------------------------------------------
(* Never told to stop, a run has the lease to itself.                        *)

NeverLost == \A w \in Worker : ~lost[w]

LEMMA NeverLostStep ==
    ASSUME TypeOK, Exclusive, NeverLost, faults \cap {"slow", "db"} = {}, [Next]_vars
    PROVE  NeverLost'
<1> USE DEF NeverLost
<1> Flags
    BY TypeParts
<1>1. CASE UNCHANGED lost
    BY <1>1
<1>2. ASSUME NEW w \in Worker, Acquire(w) PROVE NeverLost'
    BY <1>2, Zenon DEF Flags, Acquire
<1>3. ASSUME NEW w \in Worker, HeartbeatFindsNoLease(w) PROVE NeverLost'
    BY <1>3 DEF Exclusive, HeartbeatFindsNoLease
<1>4. ASSUME NEW w \in Worker, HeartbeatFails(w) PROVE NeverLost'
    BY <1>4 DEF HeartbeatFails
<1>5. ASSUME NEW w \in Worker, Crash(w) PROVE NeverLost'
    BY <1>5, Zenon DEF Flags, Crash
<1> QED
    BY <1>1, <1>2, <1>3, <1>4, <1>5
    DEF Next, LeaseStep, CallStep, MishapStep, NewWork, LeaseRunsOut, LeaseRunsOutInUse,
        GiveUp, Leave, Release, Lookup, SkipLookup, ReadReservation, Reserve, Decline,
        PrepareFails, Effect, ToolFails, ToolSucceeds, Abort, Settle, Spoil, SettleFails,
        Throw, ReleaseFails

(* One worker at most is in a run of the task.                               *)
OneRunner == \A v, w \in Worker : Running(v) /\ Running(w) => v = w

LEMMA NeverLostAlone == Exclusive /\ NeverLost => OneRunner
    BY DEF Exclusive, NeverLost, OneRunner, Renews

Keyed == \A w \in Worker : keyed[w]

LEMMA KeyedStep ==
    ASSUME TypeOK, Keyed, "disconnect" \notin faults, [Next]_vars
    PROVE  Keyed'
<1> USE DEF Keyed
<1> Flags
    BY TypeParts
<1>1. CASE UNCHANGED keyed
    BY <1>1
<1>2. ASSUME NEW w \in Worker, Leave(w) PROVE Keyed'
    BY <1>2, Zenon DEF Flags, Leave
<1>3. ASSUME NEW w \in Worker, Release(w) PROVE Keyed'
    BY <1>3, Zenon DEF Flags, Release
<1>4. ASSUME NEW w \in Worker, NEW c \in Call, Lookup(w, c) PROVE Keyed'
    BY <1>4, Zenon DEF Flags, Lookup
<1>5. ASSUME NEW w \in Worker, ReadReservation(w) PROVE Keyed'
    BY <1>5, Zenon DEF Flags, ReadReservation
<1>6. ASSUME NEW w \in Worker, Decline(w) PROVE Keyed'
    BY <1>6, Zenon DEF Flags, Decline
<1>7. ASSUME NEW w \in Worker, PrepareFails(w) PROVE Keyed'
    BY <1>7, Zenon DEF Flags, PrepareFails
<1>8. ASSUME NEW w \in Worker, Abort(w) PROVE Keyed'
    BY <1>8, Zenon DEF Flags, Abort
<1>9. ASSUME NEW w \in Worker, Settle(w) PROVE Keyed'
    BY <1>9, Zenon DEF Flags, Settle
<1>10. ASSUME NEW w \in Worker, Spoil(w) PROVE Keyed'
    BY <1>10, Zenon DEF Flags, Spoil
<1>11. ASSUME NEW w \in Worker, SettleFails(w) PROVE Keyed'
    BY <1>11, Zenon DEF Flags, SettleFails
<1>12. ASSUME NEW w \in Worker, Throw(w) PROVE Keyed'
    BY <1>12, Zenon DEF Flags, Throw
<1>13. ASSUME NEW w \in Worker, ReleaseFails(w) PROVE Keyed'
    BY <1>13, Zenon DEF Flags, ReleaseFails
<1>14. ASSUME NEW w \in Worker, Crash(w) PROVE Keyed'
    BY <1>14, Zenon DEF Flags, Crash
<1>15. ASSUME NEW w \in Worker, NEW c \in Call, SkipLookup(w, c) PROVE Keyed'
    BY <1>15 DEF SkipLookup
<1> QED
    BY <1>1, <1>2, <1>3, <1>4, <1>5, <1>6, <1>7, <1>8, <1>9, <1>10, <1>11, <1>12, <1>13, <1>14, <1>15
    DEF Next, LeaseStep, CallStep, MishapStep, NewWork, LeaseRunsOut, LeaseRunsOutInUse,
        Acquire, GiveUp, HeartbeatFindsNoLease, HeartbeatFails, Reserve, Effect, ToolFails,
        ToolSucceeds

-----------------------------------------------------------------------------
(* Reservations                                                              *)

(* A worker in a call has its row, alone; one that may still spoil the row   *)
(* of a call has the task to itself, so that the row is not in use.          *)
Reserved ==
    /\ \A w \in Worker : InFlight(w) => row[call[w]] = "running"
    /\ \A v, w \in Worker : InFlight(v) /\ InFlight(w) /\ v # w => call[v] # call[w]
    /\ \A w \in Worker : pc[w] = "spoil" => "prepare" \in faults
    /\ "prepare" \in faults =>
          \A w \in Worker : pc[w] \in {"prepare", "reserve", "spoil"} =>
              row[call[w]] \in {"absent", "failed"}

LEMMA ReservedStep ==
    ASSUME TypeOK, Control, Reserved, Keyed, "disconnect" \notin faults,
           "prepare" \in faults => OneRunner, [Next]_vars
    PROVE  Reserved'
<1> Data
    BY TypeParts
<1>1. CASE UNCHANGED <<row, pc, call, got>>
    BY <1>1, FaultsFixed DEF Reserved, InFlight
<1>2. ASSUME NEW w \in Worker, Acquire(w) PROVE Reserved'
    BY <1>2, RunAssumption DEF Reserved, InFlight, Data, Control, Keyed, OneRunner, Running, RowStates, Acquire
<1>3. ASSUME NEW w \in Worker, GiveUp(w) PROVE Reserved'
    BY <1>3, RunAssumption DEF Reserved, InFlight, Data, Control, Keyed, OneRunner, Running, RowStates, GiveUp
<1>4. ASSUME NEW w \in Worker, Leave(w) PROVE Reserved'
    BY <1>4, RunAssumption DEF Reserved, InFlight, Data, Control, Keyed, OneRunner, Running, RowStates, Leave
<1>5. ASSUME NEW w \in Worker, Release(w) PROVE Reserved'
    BY <1>5, RunAssumption DEF Reserved, InFlight, Data, Control, Keyed, OneRunner, Running, RowStates, Release
<1>6. ASSUME NEW w \in Worker, NEW c \in Call, Lookup(w, c) PROVE Reserved'
    BY <1>6, RunAssumption DEF Reserved, InFlight, Data, Control, Keyed, OneRunner, Running, RowStates, Lookup
<1>7. ASSUME NEW w \in Worker, NEW c \in Call, SkipLookup(w, c) PROVE Reserved'
    BY <1>7, RunAssumption DEF Reserved, InFlight, Data, Control, Keyed, OneRunner, Running, RowStates, SkipLookup
<1>8. ASSUME NEW w \in Worker, ReadReservation(w) PROVE Reserved'
    BY <1>8, RunAssumption DEF Reserved, InFlight, Data, Control, Keyed, OneRunner, Running, RowStates, ReadReservation
<1>9. ASSUME NEW w \in Worker, Reserve(w) PROVE Reserved'
    BY <1>9, RunAssumption DEF Reserved, InFlight, Data, Control, Keyed, OneRunner, Running, RowStates, Reserve
<1>10. ASSUME NEW w \in Worker, Decline(w) PROVE Reserved'
    BY <1>10, RunAssumption DEF Reserved, InFlight, Data, Control, Keyed, OneRunner, Running, RowStates, Decline
<1>11. ASSUME NEW w \in Worker, PrepareFails(w) PROVE Reserved'
    BY <1>11, RunAssumption DEF Reserved, InFlight, Data, Control, Keyed, OneRunner, Running, RowStates, PrepareFails
<1>12. ASSUME NEW w \in Worker, Effect(w) PROVE Reserved'
    BY <1>12, RunAssumption DEF Reserved, InFlight, Data, Control, Keyed, OneRunner, Running, RowStates, Effect
<1>13. ASSUME NEW w \in Worker, ToolFails(w) PROVE Reserved'
    BY <1>13, RunAssumption DEF Reserved, InFlight, Data, Control, Keyed, OneRunner, Running, RowStates, ToolFails
<1>14. ASSUME NEW w \in Worker, ToolSucceeds(w) PROVE Reserved'
    BY <1>14, RunAssumption DEF Reserved, InFlight, Data, Control, Keyed, OneRunner, Running, RowStates, ToolSucceeds
<1>15. ASSUME NEW w \in Worker, Abort(w) PROVE Reserved'
    BY <1>15, RunAssumption DEF Reserved, InFlight, Data, Control, Keyed, OneRunner, Running, RowStates, Abort
<1>16. ASSUME NEW w \in Worker, Settle(w) PROVE Reserved'
    BY <1>16, RunAssumption DEF Reserved, InFlight, Data, Control, Keyed, OneRunner, Running, RowStates, Settle
<1>17. ASSUME NEW w \in Worker, Spoil(w) PROVE Reserved'
    BY <1>17, RunAssumption DEF Reserved, InFlight, Data, Control, Keyed, OneRunner, Running, RowStates, Spoil
<1>18. ASSUME NEW w \in Worker, SettleFails(w) PROVE Reserved'
    BY <1>18, RunAssumption DEF Reserved, InFlight, Data, Control, Keyed, OneRunner, Running, RowStates, SettleFails
<1>19. ASSUME NEW w \in Worker, Throw(w) PROVE Reserved'
    BY <1>19, RunAssumption DEF Reserved, InFlight, Data, Control, Keyed, OneRunner, Running, RowStates, Throw
<1>20. ASSUME NEW w \in Worker, ReleaseFails(w) PROVE Reserved'
    BY <1>20, RunAssumption DEF Reserved, InFlight, Data, Control, Keyed, OneRunner, Running, RowStates, ReleaseFails
<1>21. ASSUME NEW w \in Worker, Crash(w) PROVE Reserved'
    BY <1>21, RunAssumption DEF Reserved, InFlight, Data, Control, Keyed, OneRunner, Running, RowStates, Crash
<1> QED
    BY <1>1, <1>2, <1>3, <1>4, <1>5, <1>6, <1>7, <1>8, <1>9, <1>10, <1>11, <1>12, <1>13, <1>14, <1>15, <1>16, <1>17, <1>18, <1>19, <1>20, <1>21
    DEF Next, LeaseStep, CallStep, MishapStep, NewWork, LeaseRunsOut, LeaseRunsOutInUse,
        HeartbeatFindsNoLease, HeartbeatFails

(* What the reservations rest on                                             *)
Kept ==
    /\ TypeOK
    /\ Control
    /\ "slow" \notin faults => Exclusive
    /\ faults \cap {"slow", "db"} = {} => NeverLost
    /\ "disconnect" \notin faults => Keyed
    /\ Guarded => Reserved

LEMMA KeptInit == Init => Kept
<1> SUFFICES ASSUME Init PROVE Kept
    OBVIOUS
<1>1. TypeOK /\ Control
    BY DataInit, FlagsInit, ControlInit, TypeParts
<1>2. Exclusive /\ NeverLost /\ Reserved
    BY DEF Init, Exclusive, NeverLost, Reserved, Renews, Running, InFlight
<1>3. Keyed
    BY Zenon DEF Init, Keyed
<1> QED
    BY <1>1, <1>2, <1>3 DEF Kept

LEMMA KeptAlone == Kept /\ Guarded /\ "prepare" \in faults => OneRunner
    BY NeverLostAlone DEF Kept, Guarded

LEMMA KeptStep == Kept /\ [Next]_vars => Kept'
<1> SUFFICES ASSUME Kept, [Next]_vars PROVE Kept'
    OBVIOUS
<1> USE DEF Kept
<1>1. TypeOK' /\ Control'
    BY TypeStep
<1>2. "slow" \notin faults => Exclusive'
    BY ExclusiveStep
<1>3. faults \cap {"slow", "db"} = {} => NeverLost'
    BY NeverLostStep
<1>4. "disconnect" \notin faults => Keyed'
    BY KeyedStep
<1>5. Guarded => Reserved'
    BY ReservedStep, KeptAlone DEF Guarded
<1>6. faults' = faults /\ Guarded' = Guarded
    BY FaultsFixed DEF Guarded
<1> QED
    BY <1>1, <1>2, <1>3, <1>4, <1>5, <1>6

LEMMA KeptAlways == Spec => []Kept
    BY KeptInit, KeptStep, PTL DEF Spec

(* Two workers are never in the same call together.                          *)
THEOREM OneInFlight == Spec => []OneReservation
<1>1. Kept => OneReservation
    BY DEF Kept, OneReservation, Reserved
<1> QED
    BY <1>1, KeptAlways, PTL

(* What succeeded is kept for replay: an update by key alone can only hit it *)
(* when the worker that makes it has been overtaken.                         *)
THEOREM SucceededStays == Spec => SucceededIsFinal
<1> DEFINE Final == Guarded => \A c \in Call : row[c] = "succeeded" => row'[c] = "succeeded"
<1>1. Kept /\ [Next]_vars => Final
    <2> SUFFICES ASSUME Kept, [Next]_vars, Guarded,
                        NEW c \in Call, row[c] = "succeeded"
                 PROVE  row'[c] = "succeeded"
        OBVIOUS
    <2> USE DEF Kept
    <2> Data
        BY TypeParts
    <2>1. CASE UNCHANGED row
        BY <2>1
    <2>2. ASSUME NEW w \in Worker, Reserve(w) PROVE row'[c] = "succeeded"
        BY <2>2 DEF Data, Control, Reserve
    <2>3. ASSUME NEW w \in Worker, Settle(w) PROVE row'[c] = "succeeded"
        BY <2>3 DEF Data, Control, Reserved, InFlight, Settle
    <2>4. ASSUME NEW w \in Worker, Spoil(w) PROVE row'[c] = "succeeded"
        BY <2>4 DEF Data, Control, Reserved, Spoil
    <2> QED
        BY <2>1, <2>2, <2>3, <2>4
        DEF Next, LeaseStep, CallStep, MishapStep, NewWork, LeaseRunsOut, LeaseRunsOutInUse,
            Acquire, HeartbeatFindsNoLease, GiveUp, Leave, Release, Lookup, SkipLookup,
            ReadReservation, Decline, PrepareFails, Effect, ToolFails, ToolSucceeds, Abort,
            SettleFails, HeartbeatFails, Throw, ReleaseFails, Crash
<1>2. Spec => [][Final]_vars
    BY <1>1, KeptAlways, PTL DEF Spec
<1> QED
    BY <1>2 DEF SucceededIsFinal

-----------------------------------------------------------------------------
(* Effects                                                                   *)

(* Where a call has had its effect, its row keeps it from being made again.  *)
Once ==
    /\ \A c \in Call : effects[c] \in {0, 1}
    /\ \A c \in Call : effects[c] = 1 => row[c] \in {"running", "succeeded"}
    /\ \A w \in Worker :
          /\ pc[w] = "call" => effects[call[w]] = 0
          /\ pc[w] = "settle" /\ got[w] = "failed" => effects[call[w]] = 0

(* The effect of a call is its first                                         *)
LEMMA FirstEffect ==
    ASSUME Control, Reserved, Once, NEW w \in Worker, Effect(w)
    PROVE  /\ call[w] \in Call /\ effects[call[w]] = 0 /\ row[call[w]] = "running"
           /\ effects' = [effects EXCEPT ![call[w]] = 1]
<1>1. call[w] \in Call /\ effects[call[w]] = 0 /\ row[call[w]] = "running"
    BY DEF Control, Once, Reserved, InFlight, Effect
<1>2. effects' = [effects EXCEPT ![call[w]] = IF effects[call[w]] < MaxEffects
                                              THEN effects[call[w]] + 1
                                              ELSE effects[call[w]]]
    BY DEF Effect
<1>3. 0 < MaxEffects
    BY RunAssumption
<1> QED
    BY <1>1, <1>2, <1>3

LEMMA OnceStep ==
    ASSUME TypeOK, Control, Reserved, Keyed, Once, "disconnect" \notin faults,
           "reply" \notin faults, [Next]_vars
    PROVE  Once'
<1> Data
    BY TypeParts
<1>1. CASE UNCHANGED <<books, pc, call, got>>
    BY <1>1 DEF Once
<1>2. ASSUME NEW w \in Worker, Acquire(w) PROVE Once'
    BY <1>2, RunAssumption DEF Once, Reserved, InFlight, Data, Control, Keyed, RowStates, Acquire
<1>3. ASSUME NEW w \in Worker, GiveUp(w) PROVE Once'
    BY <1>3, RunAssumption DEF Once, Reserved, InFlight, Data, Control, Keyed, RowStates, GiveUp
<1>4. ASSUME NEW w \in Worker, Leave(w) PROVE Once'
    BY <1>4, RunAssumption DEF Once, Reserved, InFlight, Data, Control, Keyed, RowStates, Leave
<1>5. ASSUME NEW w \in Worker, Release(w) PROVE Once'
    BY <1>5, RunAssumption DEF Once, Reserved, InFlight, Data, Control, Keyed, RowStates, Release
<1>6. ASSUME NEW w \in Worker, NEW c \in Call, Lookup(w, c) PROVE Once'
    BY <1>6, RunAssumption DEF Once, Reserved, InFlight, Data, Control, Keyed, RowStates, Lookup
<1>7. ASSUME NEW w \in Worker, NEW c \in Call, SkipLookup(w, c) PROVE Once'
    BY <1>7, RunAssumption DEF Once, Reserved, InFlight, Data, Control, Keyed, RowStates, SkipLookup
<1>8. ASSUME NEW w \in Worker, ReadReservation(w) PROVE Once'
    BY <1>8, RunAssumption DEF Once, Reserved, InFlight, Data, Control, Keyed, RowStates, ReadReservation
<1>9. ASSUME NEW w \in Worker, Reserve(w) PROVE Once'
    BY <1>9, RunAssumption DEF Once, Reserved, InFlight, Data, Control, Keyed, RowStates, Reserve
<1>10. ASSUME NEW w \in Worker, Decline(w) PROVE Once'
    BY <1>10, RunAssumption DEF Once, Reserved, InFlight, Data, Control, Keyed, RowStates, Decline
<1>11. ASSUME NEW w \in Worker, PrepareFails(w) PROVE Once'
    BY <1>11, RunAssumption DEF Once, Reserved, InFlight, Data, Control, Keyed, RowStates, PrepareFails
<1>12. ASSUME NEW w \in Worker, Effect(w) PROVE Once'
    <2>1. /\ call[w] \in Call /\ effects[call[w]] = 0 /\ row[call[w]] = "running"
          /\ effects' = [effects EXCEPT ![call[w]] = 1]
        BY <1>12, FirstEffect
    <2>2. \A v \in Worker \ {w} : InFlight(v) => call[v] # call[w]
        BY <1>12 DEF Reserved, InFlight, Effect
    <2> QED
        BY <1>12, <2>1, <2>2 DEF Data, Control, Once, InFlight, Effect
<1>13. ASSUME NEW w \in Worker, ToolFails(w) PROVE Once'
    BY <1>13, RunAssumption DEF Once, Reserved, InFlight, Data, Control, Keyed, RowStates, ToolFails
<1>14. ASSUME NEW w \in Worker, ToolSucceeds(w) PROVE Once'
    BY <1>14, RunAssumption DEF Once, Reserved, InFlight, Data, Control, Keyed, RowStates, ToolSucceeds
<1>15. ASSUME NEW w \in Worker, Abort(w) PROVE Once'
    BY <1>15, RunAssumption DEF Once, Reserved, InFlight, Data, Control, Keyed, RowStates, Abort
<1>16. ASSUME NEW w \in Worker, Settle(w) PROVE Once'
    BY <1>16, RunAssumption DEF Once, Reserved, InFlight, Data, Control, Keyed, RowStates, Settle
<1>17. ASSUME NEW w \in Worker, Spoil(w) PROVE Once'
    BY <1>17, RunAssumption DEF Once, Reserved, InFlight, Data, Control, Keyed, RowStates, Spoil
<1>18. ASSUME NEW w \in Worker, SettleFails(w) PROVE Once'
    BY <1>18, RunAssumption DEF Once, Reserved, InFlight, Data, Control, Keyed, RowStates, SettleFails
<1>19. ASSUME NEW w \in Worker, Throw(w) PROVE Once'
    BY <1>19, RunAssumption DEF Once, Reserved, InFlight, Data, Control, Keyed, RowStates, Throw
<1>20. ASSUME NEW w \in Worker, ReleaseFails(w) PROVE Once'
    BY <1>20, RunAssumption DEF Once, Reserved, InFlight, Data, Control, Keyed, RowStates, ReleaseFails
<1>21. ASSUME NEW w \in Worker, Crash(w) PROVE Once'
    BY <1>21, RunAssumption DEF Once, Reserved, InFlight, Data, Control, Keyed, RowStates, Crash
<1> QED
    BY <1>1, <1>2, <1>3, <1>4, <1>5, <1>6, <1>7, <1>8, <1>9, <1>10, <1>11, <1>12, <1>13, <1>14, <1>15, <1>16, <1>17, <1>18, <1>19, <1>20, <1>21
    DEF Next, LeaseStep, CallStep, MishapStep, NewWork, LeaseRunsOut, LeaseRunsOutInUse,
        HeartbeatFindsNoLease, HeartbeatFails

(* All that is known of reservations and effects                             *)
Account == Kept /\ Made /\ (Guarded /\ "reply" \notin faults => Once)

LEMMA AccountInit == Init => Account
    BY KeptInit DEF Init, Account, Made, Once

LEMMA AccountStep == Account /\ [Next]_vars => Account'
<1> SUFFICES ASSUME Account, [Next]_vars PROVE Account'
    OBVIOUS
<1>1. Kept'
    BY KeptStep DEF Account
<1>2. Made'
    BY MadeStep DEF Account, Kept
<1>3. Guarded /\ "reply" \notin faults => Once'
    BY OnceStep DEF Account, Kept, Guarded
<1>4. faults' = faults /\ Guarded' = Guarded
    BY FaultsFixed DEF Guarded
<1> QED
    BY <1>1, <1>2, <1>3, <1>4 DEF Account

LEMMA AccountAlways == Spec => []Account
    BY AccountInit, AccountStep, PTL DEF Spec

(* A call has its effect once, however many runs, takeovers, crashes and     *)
(* timeouts there are.                                                       *)
THEOREM AtMostOnce == Spec => []EffectAtMostOnce
<1>1. Account => EffectAtMostOnce
    BY DEF Account, EffectAtMostOnce, Once
<1> QED
    BY <1>1, AccountAlways, PTL

-----------------------------------------------------------------------------
(* The reservations as a ledger                                              *)

(* A row that says failed is as good as none: the call may be made again.    *)
Entry(state) == CASE state = "succeeded" -> "kept"
                  [] state = "running" -> "held"
                  [] OTHER -> "free"
Book == [c \in Call |-> Entry(row[c])]

Ledger == INSTANCE CallLedger WITH book <- Book, made <- effects

LEMMA BookMoves ==
    ASSUME Data, NEW c \in Call, NEW s \in RowStates, row' = [row EXCEPT ![c] = s]
    PROVE  Book' = [Book EXCEPT ![c] = Entry(s)] /\ Book[c] = Entry(row[c])
<1>1. row'[c] = s /\ \A d \in Call \ {c} : row'[d] = row[d]
    BY DEF Data
<1>2. \A d \in Call : Entry(row'[d]) = IF d = c THEN Entry(s) ELSE Entry(row[d])
    BY <1>1
<1>3. Book' = [d \in Call |-> Entry(row'[d])]
    BY DEF Book
<1> QED
    BY <1>2, <1>3 DEF Book

(* Every step that touches the reservation or the effects of a call is one   *)
(* of the ledger.                                                            *)
LEMMA LedgerStep ==
    ASSUME Account, Guarded, "reply" \notin faults, [Next]_vars
    PROVE  Ledger!Next \/ UNCHANGED (Ledger!vars)
<1> Data /\ Control /\ Reserved /\ Keyed /\ Made /\ Once
    BY TypeParts DEF Account, Kept, Guarded
<1>1. CASE UNCHANGED books
    BY <1>1 DEF Ledger!vars, Book
<1>2. ASSUME NEW w \in Worker, Reserve(w) PROVE Ledger!Next \/ UNCHANGED (Ledger!vars)
    <2>1. CASE UNCHANGED row
        BY <1>1, <1>2, <2>1 DEF Reserve
    <2>2. CASE row[call[w]] = got[w] /\ row' = [row EXCEPT ![call[w]] = "running"]
        <3>1. call[w] \in Call /\ row[call[w]] \in {"absent", "failed"}
            BY <1>2, <2>2 DEF Control, Reserve
        <3>2. Book' = [Book EXCEPT ![call[w]] = "held"] /\ Book[call[w]] = "free"
            BY <2>2, <3>1, BookMoves DEF RowStates, Entry
        <3> QED
            BY <1>2, <3>1, <3>2 DEF Reserve, Ledger!Next, Ledger!Reserve, Ledger!Move
    <2> QED
        BY <1>2, <2>1, <2>2 DEF Reserve
<1>3. ASSUME NEW w \in Worker, Effect(w) PROVE Ledger!Next
    <2>1. /\ call[w] \in Call /\ effects[call[w]] = 0 /\ row[call[w]] = "running"
          /\ effects' = [effects EXCEPT ![call[w]] = 1]
        BY <1>3, FirstEffect
    <2>2. Book[call[w]] = "held" /\ UNCHANGED Book
        BY <1>3, <2>1 DEF Effect, Book, Entry
    <2> QED
        BY <2>1, <2>2 DEF Ledger!Next, Ledger!Make
<1>4. ASSUME NEW w \in Worker, Settle(w) PROVE Ledger!Next
    <2>1. /\ call[w] \in Call /\ row[call[w]] = "running"
          /\ row' = [row EXCEPT ![call[w]] = got[w]] /\ UNCHANGED effects
        BY <1>4 DEF Control, Reserved, Keyed, InFlight, Settle
    <2>2. CASE got[w] = "succeeded"
        <3>1. Book' = [Book EXCEPT ![call[w]] = "kept"] /\ Book[call[w]] = "held"
            BY <2>1, <2>2, BookMoves DEF RowStates, Entry
        <3>2. effects[call[w]] = 1
            BY <1>4, <2>1, <2>2 DEF Made, Once, Settle
        <3> QED
            BY <2>1, <3>1, <3>2 DEF Ledger!Next, Ledger!Keep, Ledger!Move
    <2>3. CASE got[w] = "failed"
        <3>1. Book' = [Book EXCEPT ![call[w]] = "free"] /\ Book[call[w]] = "held"
            BY <2>1, <2>3, BookMoves DEF RowStates, Entry
        <3>2. effects[call[w]] = 0
            BY <1>4, <2>3 DEF Once, Settle
        <3> QED
            BY <2>1, <3>1, <3>2 DEF Ledger!Next, Ledger!Free, Ledger!Move
    <2> QED
        BY <1>4, <2>2, <2>3 DEF Control, Settle
<1>5. ASSUME NEW w \in Worker, Spoil(w) PROVE UNCHANGED (Ledger!vars)
    <2> DEFINE s == IF row[call[w]] = "absent" THEN row[call[w]] ELSE "failed"
    <2>1. call[w] \in Call /\ row[call[w]] \in {"absent", "failed"} /\ UNCHANGED effects
        BY <1>5 DEF Control, Reserved, Spoil
    <2>2. row' = [row EXCEPT ![call[w]] = s] /\ s \in RowStates
        BY <1>5, <2>1 DEF Spoil, RowStates
    <2>3. Entry(s) = "free" /\ Entry(row[call[w]]) = "free"
        BY <2>1 DEF Entry
    <2> HIDE DEF s
    <2>4. Book' = [Book EXCEPT ![call[w]] = "free"] /\ Book[call[w]] = "free"
        BY <2>1, <2>2, <2>3, BookMoves
    <2> QED
        BY <2>1, <2>4 DEF Ledger!vars, Book
<1> QED
    BY <1>1, <1>2, <1>3, <1>4, <1>5
    DEF Next, LeaseStep, CallStep, MishapStep, NewWork, LeaseRunsOut, LeaseRunsOutInUse,
        Acquire, HeartbeatFindsNoLease, GiveUp, Leave, Release, Lookup, SkipLookup,
        ReadReservation, Decline, PrepareFails, ToolFails, ToolSucceeds, Abort,
        SettleFails, HeartbeatFails, Throw, ReleaseFails, Crash

(* Where tools report what they did, the reservations of a task keep a       *)
(* CallLedger: a call that was made is never free again, be its worker dead, *)
(* overtaken or told to stop, and only a call that was made is replayed.     *)
(* (ToolExecutor.execute, lookup-, reserve- and finalizeIdempotentTool-      *)
(* Execution)                                                                *)
THEOREM ImplementsLedger ==
    Spec => /\ Ledger!Init
            /\ [][Guarded /\ "reply" \notin faults => Ledger!Next]_(Ledger!vars)
<1>1. Init => Ledger!Init
    BY DEF Init, Ledger!Init, Book, Entry
<1>2. Account /\ [Next]_vars =>
          [Guarded /\ "reply" \notin faults => Ledger!Next]_(Ledger!vars)
    BY LedgerStep
<1> QED
    BY <1>1, <1>2, AccountAlways, PTL DEF Spec

=============================================================================
