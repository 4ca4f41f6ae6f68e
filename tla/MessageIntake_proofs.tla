------------------------ MODULE MessageIntake_proofs ------------------------
(***************************************************************************)
(* Proofs about MessageIntake, for any number of requests, suggestions,    *)
(* messages, workers and queued entries, and under every mishap.           *)
(***************************************************************************)
EXTENDS MessageIntake, FiniteSetTheorems, TLAPS

-----------------------------------------------------------------------------
(* Types *)

CallTypes ==
    /\ pc \in [Call -> PCs]
    /\ at \in [Call -> Row \cup {NoRow}]
    /\ mine \in [Call -> Call \cup {NoTask}]
    /\ made \in [Call -> BOOLEAN]
    /\ \A c \in Call : pc[c] \notin {"new", "over", "dead"} => at[c] \in Row

LEMMA ProceedTypes ==
    ASSUME CallTypes, NEW c \in Call, NEW l \in PCs \ {"new", "dead"}, NEW r \in Row \cup {NoRow},
           NEW t \in Call \cup {NoTask}, NEW new \in BOOLEAN, Proceed(c, l, r, t, new),
           l # "over" => r \in Row
    PROVE  CallTypes'
<1>1. (pc \in [Call -> PCs])' BY DEF Proceed, CallTypes
<1>2. (at \in [Call -> Row \cup {NoRow}])' BY DEF Proceed, CallTypes
<1>3. (mine \in [Call -> Call \cup {NoTask}])' BY DEF Proceed, CallTypes
<1>4. (made \in [Call -> BOOLEAN])'
  <2>1. (l # "over" /\ new) \in BOOLEAN OBVIOUS
  <2> QED BY <2>1, Zenon DEF Proceed, CallTypes
<1>5. \A d \in Call : pc'[d] \notin {"new", "over", "dead"} => at'[d] \in Row
      BY DEF Proceed, CallTypes
<1> QED BY <1>1, <1>2, <1>3, <1>4, <1>5 DEF CallTypes

(* A request that goes on has a suggestion and what it had *)
LEMMA GotoTypes ==
    ASSUME CallTypes, NEW c \in Call, NEW l \in PCs \ {"new", "dead"}, Goto(c, l),
           l # "over" => pc[c] \notin {"new", "over", "dead"}
    PROVE  CallTypes'
<1>1. /\ at[c] \in Row \cup {NoRow}
      /\ l # "over" => at[c] \in Row
      /\ mine[c] \in Call \cup {NoTask} /\ made[c] \in BOOLEAN
      BY DEF CallTypes
<1>2. Proceed(c, l, at[c], mine[c], made[c]) BY DEF Goto
<1> QED BY <1>1, <1>2, ProceedTypes

RowTypes ==
    /\ limit \in Limits
    /\ status \in [Row -> Statuses]
    /\ of \in [Row -> Message \cup {NoMessage}]
    /\ tool \in [Row -> BOOLEAN]
    /\ linked \in [Row -> Call \cup {NoTask}]
    /\ task \in [Row -> Call \cup {NoTask}]
    /\ told \in [Row -> SUBSET Topics]
    /\ proposed \in [Row -> SUBSET (Call \cup {NoTask})]
    /\ accepted \subseteq Row
    /\ mishaps \in Nat

LEMMA MishapTypes ==
    ASSUME RowTypes, NEW f, Mishap(f)
    PROVE  mishaps' \in Nat
BY SuggestionAssumption DEF RowTypes, Mishap

LEMMA SameRows == RowTypes /\ UNCHANGED <<limit, rowVars, mishaps>> => RowTypes'
BY DEF RowTypes, rowVars

LEMMA EnqueueTypes ==
    ASSUME RowTypes, NEW r \in Row, NEW topic \in Topics, Enqueue(r, topic)
    PROVE  told' \in [Row -> SUBSET Topics]
BY DEF RowTypes, Enqueue

(* Every step of a request keeps the types *)
LEMMA CallStepTypes ==
    ASSUME RowTypes, CallTypes, UNCHANGED limit, NEW c \in Call, NEW r \in Row,
           \/ Accept(c, r) \/ Dismiss(c, r) \/ Assign(c, r)
           \/ LookUp(c) \/ Find(c) \/ Insert(c) \/ Refind(c) \/ Convert(c) \/ Reread(c)
           \/ Announce(c) \/ Reannounce(c) \/ FanOut(c) \/ Propose(c)
           \/ Recheck(c) \/ Discard(c) \/ Strike(c) \/ Restrike(c) \/ Regret(c)
           \/ UpdateTask(c) \/ TellUpdated(c) \/ Dies(c)
    PROVE  RowTypes' /\ CallTypes'
<1>0. /\ at[c] \in Row \cup {NoRow} /\ mine[c] \in Call \cup {NoTask} /\ made[c] \in BOOLEAN
      /\ linked[r] \in Call \cup {NoTask}
      /\ pc[c] \notin {"new", "over", "dead"} => at[c] \in Row /\ task[at[c]] \in Call \cup {NoTask}
      BY DEF CallTypes, RowTypes
<1>pcs. {"over", "lookup", "repropose", "reannounce", "find", "insert", "refind", "cas",
         "announce", "fanout", "confirm", "propose", "reread", "recheck", "discard", "strike",
         "restrike", "regret", "update", "tell"} \subseteq PCs \ {"new", "dead"}
        BY DEF PCs, AcceptPCs, DismissPCs, AssignPCs
<1>1. CASE Accept(c, r)
  <2>1. RowTypes' BY <1>1, SameRows DEF Accept
  <2>2. CASE Goto(c, "over") BY <2>1, <2>2, <1>pcs, GotoTypes
  <2>3. CASE Proceed(c, "lookup", r, linked[r], FALSE) BY <2>1, <2>3, <1>0, <1>pcs, ProceedTypes
  <2>4. CASE Proceed(c, "find", r, NoTask, FALSE) BY <2>1, <2>4, <1>0, <1>pcs, ProceedTypes
  <2> QED BY <1>1, <2>1, <2>2, <2>3, <2>4 DEF Accept
<1>2. CASE Dismiss(c, r)
  <2> DEFINE l == IF status[r] = "proposed" THEN "strike"
                  ELSE IF status[r] = "dismissed" THEN "regret" ELSE "over"
  <2>1. RowTypes' BY <1>2, SameRows DEF Dismiss
  <2>2. Proceed(c, l, r, NoTask, FALSE) BY <1>2 DEF Dismiss
  <2>3. l \in {"strike", "regret", "over"} OBVIOUS
  <2> HIDE DEF l
  <2> QED BY <2>1, <2>2, <2>3, <1>pcs, ProceedTypes
<1>3. CASE Assign(c, r)
  <2> DEFINE l == IF status[r] = "converted" THEN "update" ELSE "over"
  <2>1. RowTypes' BY <1>3, SameRows DEF Assign
  <2>2. Proceed(c, l, r, linked[r], FALSE) BY <1>3 DEF Assign
  <2>3. l \in {"update", "over"} OBVIOUS
  <2> HIDE DEF l
  <2> QED BY <2>1, <2>2, <2>3, <1>0, <1>pcs, ProceedTypes
<1>4. CASE LookUp(c)
  <2> DEFINE l == IF task[at[c]] = mine[c] THEN "repropose" ELSE "over"
  <2>1. RowTypes' BY <1>4, SameRows DEF LookUp
  <2>2. Goto(c, l) /\ pc[c] = "lookup" BY <1>4 DEF LookUp
  <2>3. l \in {"repropose", "over"} OBVIOUS
  <2> HIDE DEF l
  <2> QED BY <2>1, <2>2, <2>3, <1>pcs, GotoTypes
<1>5. CASE Find(c) \/ Refind(c)
  <2>1. RowTypes' BY <1>5, SameRows DEF Find, Refind
  <2>2. CASE Reuse(c) BY <1>5, <2>1, <2>2, <1>0, <1>pcs, ProceedTypes DEF Reuse, Find, Refind
  <2>3. CASE Goto(c, "insert") BY <1>5, <2>1, <2>3, <1>pcs, GotoTypes DEF Find, Refind
  <2>4. CASE Goto(c, "over") BY <1>5, <2>1, <2>4, <1>pcs, GotoTypes DEF Find, Refind
  <2> QED BY <1>5, <2>2, <2>3, <2>4 DEF Find, Refind
<1>6. CASE Insert(c)
  <2>1. pc[c] = "insert" BY <1>6 DEF Insert
  <2>2. CASE Proceed(c, "cas", at[c], c, TRUE) /\ task' = [task EXCEPT ![at[c]] = c]
    <3>1. RowTypes' BY <1>6, <2>2 DEF Insert, RowTypes
    <3> QED BY <2>1, <2>2, <3>1, <1>0, <1>pcs, ProceedTypes
  <2>3. CASE Goto(c, "refind") /\ UNCHANGED task
    <3>1. RowTypes' BY <1>6, <2>3 DEF Insert, RowTypes
    <3> QED BY <2>1, <2>3, <3>1, <1>pcs, GotoTypes
  <2> QED BY <1>6, <2>2, <2>3 DEF Insert
<1>7. CASE Convert(c)
  <2>1. pc[c] = "cas" /\ (Goto(c, "announce") \/ Goto(c, "reread")) BY <1>7 DEF Convert
  <2>2. CallTypes' BY <2>1, <1>pcs, GotoTypes
  <2>3. RowTypes' BY <1>7, <1>0 DEF Convert, RowTypes, Statuses
  <2> QED BY <2>2, <2>3
<1>8. CASE Reread(c)
  <2> DEFINE l == IF ClaimedBy(at[c], mine[c]) THEN "confirm"
                  ELSE IF made[c] THEN "recheck" ELSE "over"
  <2>1. RowTypes' BY <1>8, SameRows DEF Reread
  <2>2. Goto(c, l) /\ pc[c] = "reread" BY <1>8 DEF Reread
  <2>3. l \in {"confirm", "recheck", "over"} OBVIOUS
  <2> HIDE DEF l
  <2> QED BY <2>1, <2>2, <2>3, <1>pcs, GotoTypes
<1>9. CASE Announce(c)
  <2> DEFINE l == IF made[c] THEN "fanout" ELSE "propose"
  <2>1. \/ Goto(c, l) /\ pc[c] = "announce"
        \/ Goto(c, "propose") /\ pc[c] = "confirm" BY <1>9 DEF Announce, TellAccepted
  <2>2. l \in {"fanout", "propose"} OBVIOUS
  <2> HIDE DEF l
  <2>3. CallTypes' BY <2>1, <2>2, <1>pcs, GotoTypes
  <2>4. Enqueue(at[c], "accepted") BY <1>9 DEF Announce, TellAccepted
  <2>5. told' \in [Row -> SUBSET Topics] BY <2>4, <2>1, <1>0, EnqueueTypes DEF Topics
  <2>6. RowTypes' BY <1>9, <2>5 DEF Announce, TellAccepted, RowTypes
  <2> QED BY <2>3, <2>6
<1>10. CASE Reannounce(c)
  <2>1. Goto(c, "over") /\ pc[c] = "reannounce" BY <1>10 DEF Reannounce, TellAccepted
  <2>3. CallTypes' BY <2>1, <1>pcs, GotoTypes
  <2>4. Enqueue(at[c], "accepted") BY <1>10 DEF Reannounce, TellAccepted
  <2>5. told' \in [Row -> SUBSET Topics] BY <2>4, <2>1, <1>0, EnqueueTypes DEF Topics
  <2>6. RowTypes' BY <1>10, <2>1, <2>5, <1>0 DEF Reannounce, TellAccepted, RowTypes
  <2> QED BY <2>3, <2>6
<1>11. CASE FanOut(c)
  <2>1. Goto(c, "propose") /\ pc[c] = "fanout" /\ Enqueue(at[c], "created") BY <1>11 DEF FanOut
  <2>2. told' \in [Row -> SUBSET Topics] BY <2>1, <1>0, EnqueueTypes DEF Topics
  <2>3. RowTypes' BY <1>11, <2>2 DEF FanOut, RowTypes
  <2> QED BY <2>1, <2>3, <1>pcs, GotoTypes
<1>12. CASE Propose(c)
  <2>1. \/ Goto(c, "over") /\ pc[c] = "propose"
        \/ Goto(c, "reannounce") /\ pc[c] = "repropose" BY <1>12 DEF Propose
  <2>2. CallTypes' BY <2>1, <1>pcs, GotoTypes
  <2>3. proposed' \in [Row -> SUBSET (Call \cup {NoTask})]
        BY <1>12, <2>1, <1>0 DEF Propose, RowTypes
  <2>4. accepted' \subseteq Row BY <1>12, <1>0 DEF Propose, RowTypes
  <2>5. RowTypes' BY <1>12, <2>3, <2>4 DEF Propose, RowTypes
  <2> QED BY <2>2, <2>5
<1>13. CASE Recheck(c)
  <2> DEFINE l == IF ClaimedBy(at[c], mine[c]) THEN "over" ELSE "discard"
  <2>1. RowTypes' BY <1>13, SameRows DEF Recheck
  <2>2. Goto(c, l) /\ pc[c] = "recheck" BY <1>13 DEF Recheck
  <2>3. l \in {"over", "discard"} OBVIOUS
  <2> HIDE DEF l
  <2> QED BY <2>1, <2>2, <2>3, <1>pcs, GotoTypes
<1>14. CASE Discard(c)
  <2>1. Goto(c, "over") /\ pc[c] = "discard" BY <1>14 DEF Discard
  <2>2. RowTypes' BY <1>14, <2>1, <1>0 DEF Discard, RowTypes
  <2> QED BY <2>1, <2>2, <1>pcs, GotoTypes
<1>15. CASE Strike(c)
  <2>1. pc[c] = "strike" /\ (Goto(c, "regret") \/ Goto(c, "restrike")) BY <1>15 DEF Strike
  <2>2. RowTypes' BY <1>15, <2>1, <1>0 DEF Strike, RowTypes, Statuses
  <2> QED BY <2>1, <2>2, <1>pcs, GotoTypes
<1>16. CASE Restrike(c)
  <2> DEFINE l == IF status[at[c]] = "dismissed" THEN "regret" ELSE "over"
  <2>1. RowTypes' BY <1>16, SameRows DEF Restrike
  <2>2. Goto(c, l) /\ pc[c] = "restrike" BY <1>16 DEF Restrike
  <2>3. l \in {"regret", "over"} OBVIOUS
  <2> HIDE DEF l
  <2> QED BY <2>1, <2>2, <2>3, <1>pcs, GotoTypes
<1>17. CASE Regret(c)
  <2>1. Goto(c, "over") /\ pc[c] = "regret" /\ Enqueue(at[c], "dismissed") BY <1>17 DEF Regret
  <2>2. told' \in [Row -> SUBSET Topics] BY <2>1, <1>0, EnqueueTypes DEF Topics
  <2>3. RowTypes' BY <1>17, <2>2 DEF Regret, RowTypes
  <2> QED BY <2>1, <2>3, <1>pcs, GotoTypes
<1>18. CASE UpdateTask(c)
  <2> DEFINE l == IF task[at[c]] = mine[c] THEN "tell" ELSE "over"
  <2>1. RowTypes' BY <1>18, SameRows DEF UpdateTask
  <2>2. Goto(c, l) /\ pc[c] = "update" BY <1>18 DEF UpdateTask
  <2>3. l \in {"tell", "over"} OBVIOUS
  <2> HIDE DEF l
  <2> QED BY <2>1, <2>2, <2>3, <1>pcs, GotoTypes
<1>19. CASE TellUpdated(c)
  <2>1. Goto(c, "over") /\ pc[c] = "tell" /\ Enqueue(at[c], "updated") BY <1>19 DEF TellUpdated
  <2>2. told' \in [Row -> SUBSET Topics] BY <2>1, <1>0, EnqueueTypes DEF Topics
  <2>3. RowTypes' BY <1>19, <2>2 DEF TellUpdated, RowTypes
  <2> QED BY <2>1, <2>3, <1>pcs, GotoTypes
<1>20. CASE Dies(c)
  <2>1. mishaps' \in Nat BY <1>20, MishapTypes DEF Dies
  <2>2. RowTypes' BY <1>20, <2>1 DEF Dies, RowTypes, rowVars
  <2>3. CallTypes' BY <1>20 DEF Dies, CallTypes, PCs
  <2> QED BY <2>2, <2>3
<1> QED BY <1>1, <1>2, <1>3, <1>4, <1>5, <1>6, <1>7, <1>8, <1>9, <1>10, <1>11, <1>12, <1>13,
           <1>14, <1>15, <1>16, <1>17, <1>18, <1>19, <1>20

MessageTypes ==
    /\ from \in [Message -> Entry \cup {NoEntry}]
    /\ ai \in [Message -> {"absent", "unknown", "classified", "overridden"}]
    /\ sort \in [Message -> {"unknown"} \cup Sorts]
    /\ manual \in [Message -> BOOLEAN]
    /\ event \in [Message -> {"none", "pending", "taken", "done"}]
    /\ work \subseteq Message /\ asked \subseteq Message

WorkerTypes ==
    /\ wpc \in [Worker -> WPCs]
    /\ wmsg \in [Worker -> Message \cup {NoMessage}]
    /\ \A w \in Worker : wpc[w] # "idle" => wmsg[w] \in Message

(* The places at which a loop has an entry in hand *)
Sending == {"send", "wait", "drop"}

PageTypes ==
    /\ entry \in [Entry -> {"unwritten", "queued", "removed"}]
    /\ here \in Mount
    /\ loop \in [Mount -> {"off", "next", "send", "wait", "drop"}]
    /\ batch \in [Mount -> SUBSET Entry]
    /\ cur \in [Mount -> Entry \cup {NoEntry}]
    /\ tries \in [Mount -> 0 .. MaxAttempts]
    /\ sent \in [Mount -> Message \cup {NoMessage}]
    /\ \A k \in Mount : loop[k] \in Sending => cur[k] \in Entry
    /\ cut \subseteq Entry /\ twin \subseteq Entry
    /\ web \in [Message -> {"off", "event", "reply"}]

Types == RowTypes /\ CallTypes /\ MessageTypes /\ WorkerTypes /\ PageTypes

LEMMA TypesSplit == Types => TypeOK
BY DEF TypeOK, SuggestionTypes, Types, RowTypes, CallTypes, MessageTypes, WorkerTypes, PageTypes

LEMMA SameCalls == CallTypes /\ UNCHANGED callVars => CallTypes'
BY DEF CallTypes, callVars
LEMMA SameMessages == MessageTypes /\ UNCHANGED messageVars => MessageTypes'
BY DEF MessageTypes, messageVars
LEMMA SameWorkers == WorkerTypes /\ UNCHANGED workerVars => WorkerTypes'
BY DEF WorkerTypes, workerVars
LEMMA SamePage == PageTypes /\ UNCHANGED <<pageVars, web>> => PageTypes'
BY DEF PageTypes, pageVars, loopVars

LEMMA StoreTypes ==
    ASSUME MessageTypes, PageTypes, NEW m \in Message, NEW e \in Entry \cup {NoEntry}, Store(m, e)
    PROVE  MessageTypes' /\ web' \in [Message -> {"off", "event", "reply"}]
BY DEF MessageTypes, PageTypes, Store

(* A failed attempt with an entry in hand *)
LEMMA AttemptTypes ==
    ASSUME PageTypes, NEW k \in Mount, loop[k] \in Sending, AttemptFails(k), cur' = cur
    PROVE  /\ loop' \in [Mount -> {"off", "next", "send", "wait", "drop"}]
           /\ tries' \in [Mount -> 0 .. MaxAttempts]
           /\ sent' \in [Mount -> Message \cup {NoMessage}]
           /\ \A j \in Mount : loop'[j] \in Sending => cur'[j] \in Entry
<1>0. MaxAttempts \in Nat /\ tries[k] \in 0 .. MaxAttempts BY IntakeAssumption DEF PageTypes
<1>1. (IF tries[k] < MaxAttempts THEN tries[k] + 1 ELSE 0) \in 0 .. MaxAttempts BY <1>0
<1>2. tries' = [tries EXCEPT ![k] = IF tries[k] < MaxAttempts THEN tries[k] + 1 ELSE 0]
      BY DEF AttemptFails, GoesOn
<1>3. tries' \in [Mount -> 0 .. MaxAttempts] BY <1>1, <1>2 DEF PageTypes
<1>4. loop' \in [Mount -> {"off", "next", "send", "wait", "drop"}]
      BY DEF AttemptFails, GoesOn, PageTypes
<1>5. sent' \in [Mount -> Message \cup {NoMessage}] BY DEF AttemptFails, GoesOn, PageTypes
<1>6. \A j \in Mount : loop'[j] \in Sending => cur'[j] \in Entry
      BY DEF AttemptFails, GoesOn, PageTypes
<1> QED BY <1>3, <1>4, <1>5, <1>6

LEMMA CutShortTypes ==
    ASSUME PageTypes, NEW ks \in SUBSET Mount, CutShort(ks)
    PROVE  cut' \subseteq Entry
BY DEF CutShort, PageTypes, Sending

(* The page, the server it talks to, and people who are online *)
LEMMA PageStepTypes ==
    ASSUME Types, UNCHANGED limit, Page
    PROVE  Types'
<1> USE DEF Types, loopVars
<1>0. MaxAttempts \in Nat \ {0} BY IntakeAssumption
<1>1. UNCHANGED <<rowVars, callVars, workerVars>> BY DEF Page
<1>2. CallTypes' /\ WorkerTypes' BY <1>1, SameCalls, SameWorkers
<1>3. mishaps' \in Nat => RowTypes' BY <1>1 DEF RowTypes, rowVars
<1>4. mishaps' = mishaps => RowTypes' BY <1>3 DEF RowTypes
<1>5. (\E f : Mishap(f)) => RowTypes' BY <1>3, MishapTypes
<1>6. ASSUME NEW e \in Entry, Queue(e) PROVE Types'
  <2>1. MessageTypes' BY <1>6, SameMessages DEF Queue
  <2>2. PageTypes' BY <1>6 DEF Queue, PageTypes
  <2> QED BY <1>2, <1>4, <1>6, <2>1, <2>2 DEF Queue
<1>7. ASSUME NEW m \in Message, Compose(m) PROVE Types'
  <2>1. Store(m, NoEntry) BY <1>7 DEF Compose
  <2>2. MessageTypes' /\ web' \in [Message -> {"off", "event", "reply"}] BY <2>1, StoreTypes
  <2>3. PageTypes' BY <1>7, <2>2 DEF Compose, PageTypes, pageVars
  <2> QED BY <1>2, <1>4, <1>7, <2>2, <2>3 DEF Compose
<1>8. ASSUME NEW k \in Mount, NEW m \in Message, Post(k, m) PROVE Types'
  <2>1. Store(m, cur[k]) /\ cur[k] \in Entry BY <1>8 DEF Post, PageTypes, Sending
  <2>2. MessageTypes' /\ web' \in [Message -> {"off", "event", "reply"}] BY <2>1, StoreTypes
  <2>3. PageTypes' BY <1>8, <2>1, <2>2 DEF Post, PageTypes, Sending
  <2> QED BY <1>2, <1>4, <1>8, <2>2, <2>3 DEF Post
<1>9. ASSUME NEW k \in Mount, Resend(k) \/ Remount(k) PROVE Types'
  <2>1. CASE Resend(k)
    <3>1. PageTypes' BY <2>1 DEF Resend, Start, PageTypes, Sending
    <3> QED BY <1>2, <1>4, <2>1, <3>1, SameMessages DEF Resend, Start
  <2>2. CASE Remount(k)
    <3>1. \A j \in Mount : InHand(j) \subseteq Entry BY DEF InHand, PageTypes, Sending
    <3>2. twin' \subseteq Entry BY <2>2, <3>1 DEF Remount, PageTypes
    <3>3. PageTypes' BY <2>2, <3>2 DEF Remount, PageTypes
    <3> QED BY <1>2, <1>4, <2>2, <3>3, SameMessages DEF Remount
  <2> QED BY <1>9, <2>1, <2>2
<1>10. ASSUME NEW k \in Mount, NextMessage(k) PROVE Types'
  <2>1. CASE \E e \in batch[k] : /\ cur' = [cur EXCEPT ![k] = e]
                                 /\ batch' = [batch EXCEPT ![k] = @ \ {e}]
                                 /\ tries' = [tries EXCEPT ![k] = 1]
                                 /\ loop' = [loop EXCEPT ![k] = "send"]
    <3>1. 1 \in 0 .. MaxAttempts BY <1>0
    <3>2. PageTypes' BY <1>10, <2>1, <3>1 DEF NextMessage, PageTypes, Sending
    <3> QED BY <1>2, <1>4, <1>10, <3>2, SameMessages DEF NextMessage
  <2>2. CASE /\ cur' = [cur EXCEPT ![k] = NoEntry] /\ loop' = [loop EXCEPT ![k] = "off"]
             /\ UNCHANGED <<batch, tries>>
    <3>1. PageTypes' BY <1>10, <2>2 DEF NextMessage, PageTypes, Sending
    <3> QED BY <1>2, <1>4, <1>10, <3>1, SameMessages DEF NextMessage
  <2> QED BY <1>10, <2>1, <2>2 DEF NextMessage
<1>11. ASSUME NEW k \in Mount, Refused(k) PROVE Types'
  <2>1. loop[k] \in Sending /\ AttemptFails(k) /\ cur' = cur BY <1>11 DEF Refused, Sending
  <2>2. PageTypes' BY <1>11, <2>1, AttemptTypes DEF Refused, PageTypes
  <2> QED BY <1>2, <1>4, <1>11, <2>2, SameMessages DEF Refused
<1>12. ASSUME NEW m \in Message, Answer(m) \/ NoAnswer(m) PROVE Types'
  <2>1. MessageTypes' /\ web' \in [Message -> {"off", "event", "reply"}]
        BY <1>12, SameMessages DEF Answer, NoAnswer, Served, PageTypes
  <2>2. CASE Answer(m)
    <3>1. \A k \in Mount : loop'[k] = IF Awaits(k, m) THEN "drop" ELSE loop[k]
          BY <2>2 DEF Answer
    <3>2. loop' \in [Mount -> {"off", "next", "send", "wait", "drop"}]
          BY <2>2 DEF Answer, PageTypes
    <3>3. \A k \in Mount : loop'[k] \in Sending => cur'[k] \in Entry
          BY <2>2, <3>1 DEF Answer, Awaits, PageTypes, Sending
    <3>4. PageTypes' BY <2>1, <2>2, <3>2, <3>3 DEF Answer, PageTypes
    <3> QED BY <1>2, <1>4, <2>1, <2>2, <3>4 DEF Answer
  <2>3. CASE NoAnswer(m)
    <3>1. \E f : Mishap(f) BY <2>3 DEF NoAnswer
    <3>2. CASE \E k \in Mount : Awaits(k, m) /\ AttemptFails(k) /\ CutShort({k})
      <4>1. PICK k \in Mount : Awaits(k, m) /\ AttemptFails(k) /\ CutShort({k}) BY <3>2
      <4>2. loop[k] \in Sending /\ cur' = cur BY <2>3, <4>1 DEF Awaits, Sending, NoAnswer
      <4>3. cut' \subseteq Entry BY <4>1, CutShortTypes
      <4>4. PageTypes' BY <2>1, <2>3, <4>1, <4>2, <4>3, AttemptTypes DEF NoAnswer, PageTypes
      <4> QED BY <1>2, <1>5, <2>1, <3>1, <4>4
    <3>3. CASE UNCHANGED <<loop, tries, sent, cut>>
      <4>1. PageTypes' BY <2>1, <2>3, <3>3 DEF NoAnswer, PageTypes
      <4> QED BY <1>2, <1>5, <2>1, <3>1, <4>1
    <3> QED BY <2>3, <3>2, <3>3 DEF NoAnswer
  <2> QED BY <1>12, <2>2, <2>3
<1>13. ASSUME NEW k \in Mount, Drop(k) PROVE Types'
  <2>1. loop[k] \in Sending /\ cur[k] \in Entry /\ cur' = cur
        BY <1>13 DEF Drop, Sending, PageTypes
  <2>2. MessageTypes' BY <1>13, SameMessages DEF Drop
  <2>3. CASE /\ entry' = [entry EXCEPT ![cur[k]] = "removed"]
             /\ loop' = [loop EXCEPT ![k] = "next"] /\ tries' = [tries EXCEPT ![k] = 0]
             /\ sent' = [sent EXCEPT ![k] = NoMessage] /\ UNCHANGED <<cut, mishaps>>
    <3>1. 0 \in 0 .. MaxAttempts BY <1>0
    <3>2. PageTypes' BY <1>13, <2>1, <2>3, <3>1 DEF Drop, PageTypes, Sending
    <3> QED BY <1>2, <1>4, <2>2, <2>3, <3>2
  <2>4. CASE Mishap("removal") /\ AttemptFails(k) /\ CutShort({k}) /\ UNCHANGED entry
    <3>1. cut' \subseteq Entry BY <2>4, CutShortTypes
    <3>2. PageTypes' BY <1>13, <2>1, <2>4, <3>1, AttemptTypes DEF Drop, PageTypes
    <3> QED BY <1>2, <1>5, <2>2, <2>4, <3>2
  <2> QED BY <1>13, <2>3, <2>4 DEF Drop
<1>14. CASE Reload
  <2>1. cut' \subseteq Entry BY <1>14, CutShortTypes DEF Reload
  <2>2. PageTypes' BY <1>0, <1>14, <2>1 DEF Reload, PageTypes, Sending
  <2>3. \E f : Mishap(f) BY <1>14 DEF Reload
  <2> QED BY <1>2, <1>5, <1>14, <2>2, <2>3, SameMessages DEF Reload
<1>15. ASSUME NEW m \in Message, StoreEvent(m) PROVE Types'
  <2>1. MessageTypes' BY <1>15 DEF StoreEvent, MessageTypes
  <2>2. PageTypes' BY <1>15 DEF StoreEvent, PageTypes, pageVars
  <2> QED BY <1>2, <1>4, <1>15, <2>1, <2>2 DEF StoreEvent
<1> QED BY <1>6, <1>7, <1>8, <1>9, <1>10, <1>11, <1>12, <1>13, <1>14, <1>15 DEF Page

(* The workers that handle events, and whoever judges a message by hand *)
LEMMA SettleTypes ==
    ASSUME MessageTypes, WorkerTypes, NEW w \in Worker,
           NEW o \in {"none", "pending", "taken", "done"}, Settle(w, o)
    PROVE  /\ event' \in [Message -> {"none", "pending", "taken", "done"}]
           /\ WorkerTypes'
BY DEF Settle, WorkerGoto, MessageTypes, WorkerTypes, WPCs

LEMMA WorkerGotoTypes ==
    ASSUME WorkerTypes, NEW w \in Worker, NEW l \in WPCs, WorkerGoto(w, l), wmsg' = wmsg,
           wpc[w] # "idle"
    PROVE  WorkerTypes'
BY DEF WorkerGoto, WorkerTypes

LEMMA MarkedTypes ==
    ASSUME MessageTypes, NEW m \in Message, NEW k \in Sorts, Marked(m, k),
           UNCHANGED <<from, manual, event, work, asked>>
    PROVE  MessageTypes'
BY DEF Marked, MessageTypes

LEMMA SuggestTypes ==
    ASSUME RowTypes, NEW m \in Message, NEW r \in Row, Suggest(m, r), UNCHANGED <<limit, mishaps>>
    PROVE  RowTypes'
<1>1. PICK b \in BOOLEAN : tool' = [tool EXCEPT ![r] = b] BY DEF Suggest
<1>2. tool' \in [Row -> BOOLEAN] BY <1>1 DEF RowTypes
<1>3. status' \in [Row -> Statuses] BY DEF Suggest, RowTypes, Statuses
<1> QED BY <1>2, <1>3 DEF Suggest, RowTypes

LEMMA IntelligenceStepTypes ==
    ASSUME Types, UNCHANGED limit, Intelligence
    PROVE  Types'
<1> USE DEF Types
<1>1. UNCHANGED <<callVars, pageVars, web>> BY DEF Intelligence
<1>2. CallTypes' /\ PageTypes' BY <1>1, SameCalls, SamePage
<1>3. UNCHANGED <<rowVars, mishaps>> => RowTypes' BY SameRows
<1>4. ASSUME UNCHANGED rowVars, NEW f, Mishap(f) PROVE RowTypes'
      BY <1>4, MishapTypes DEF RowTypes, rowVars
<1>5. ASSUME NEW m \in Message, Overrun(m) PROVE Types'
  <2>1. WorkerTypes' BY <1>5, SameWorkers DEF Overrun
  <2>2. MessageTypes' BY <1>5 DEF Overrun, MessageTypes
  <2> QED BY <1>2, <1>4, <1>5, <2>1, <2>2 DEF Overrun
<1>6. ASSUME NEW w \in Worker, NEW m \in Message, Claim(w, m) PROVE Types'
  <2>1. MessageTypes' BY <1>6 DEF Claim, MessageTypes
  <2>2. WorkerTypes' BY <1>6 DEF Claim, WorkerTypes, workerVars, WorkerGoto, WPCs
  <2> QED BY <1>2, <1>3, <1>6, <2>1, <2>2 DEF Claim
<1>7. ASSUME NEW w \in Worker,
             Classify(w) \/ MarkChat(w) \/ Look(w) \/ Create(w) \/ Mark(w)
                \/ Upsert(w) \/ Link(w) \/ Ask(w) \/ Emit(w) \/ WorkerDies(w)
      PROVE  Types'
  <2>0. wpc[w] # "idle" /\ wmsg[w] \in Message
        BY <1>7 DEF Classify, MarkChat, Look, Create, Mark, Upsert, Link, Ask, Emit, WorkerDies,
                    At, WorkerTypes
  <2>wpcs. {"classify", "chat", "look", "create", "mark", "upsert", "link", "remark", "ask",
            "emit"} \subseteq WPCs BY DEF WPCs
  <2>1. CASE Classify(w)
    <3>1. CASE Settle(w, "pending")
      <4>1. WorkerTypes' BY <3>1, SettleTypes
      <4>2. MessageTypes' BY <2>1, <3>1, SettleTypes DEF Classify, MessageTypes
      <4> QED BY <1>2, <1>3, <2>1, <4>1, <4>2 DEF Classify
    <3>2. CASE (\E l \in {"chat", "look"} : WorkerGoto(w, l)) /\ UNCHANGED <<event, wmsg>>
      <4>1. WorkerTypes' BY <2>0, <2>wpcs, <3>2, WorkerGotoTypes
      <4>2. MessageTypes' BY <2>1, <3>2 DEF Classify, MessageTypes
      <4> QED BY <1>2, <1>3, <2>1, <4>1, <4>2 DEF Classify
    <3> QED BY <2>1, <3>1, <3>2 DEF Classify
  <2>2. CASE MarkChat(w) \/ Mark(w) \/ Link(w)
    <3>1. \E k \in Sorts : Marked(wmsg[w], k) BY <2>2 DEF MarkChat, Mark, Link, Sorts
    <3>2. MessageTypes' BY <2>0, <2>2, <3>1, MarkedTypes DEF MarkChat, Mark, Link
    <3>3. \E l \in {"emit", "remark", "ask"} : WorkerGoto(w, l)
          BY <2>2 DEF MarkChat, Mark, Link
    <3>4. WorkerTypes' BY <2>0, <2>2, <2>wpcs, <3>3, WorkerGotoTypes DEF MarkChat, Mark, Link
    <3> QED BY <1>2, <1>3, <2>2, <3>2, <3>4 DEF MarkChat, Mark, Link
  <2>3. CASE Look(w) \/ Create(w)
    <3>1. \E l \in {"mark", "upsert", "create"} : WorkerGoto(w, l)
          BY <2>3 DEF Look, Create
    <3>2. WorkerTypes' BY <2>0, <2>3, <2>wpcs, <3>1, WorkerGotoTypes DEF Look, Create
    <3>3. MessageTypes' BY <2>3, SameMessages DEF Look, Create
    <3>4. RowTypes' BY <1>3, <2>0, <2>3, SuggestTypes DEF Look, Create
    <3> QED BY <1>2, <3>2, <3>3, <3>4
  <2>4. CASE Upsert(w) \/ Ask(w)
    <3>1. \E l \in {"link", "emit"} : WorkerGoto(w, l) BY <2>4 DEF Upsert, Ask
    <3>2. WorkerTypes' BY <2>0, <2>4, <2>wpcs, <3>1, WorkerGotoTypes DEF Upsert, Ask
    <3>3. MessageTypes' BY <2>0, <2>4 DEF Upsert, Ask, MessageTypes
    <3> QED BY <1>2, <1>3, <2>4, <3>2, <3>3 DEF Upsert, Ask
  <2>5. CASE Emit(w) \/ WorkerDies(w)
    <3>1. PICK o \in {"none", "pending", "taken", "done"} : Settle(w, o)
          BY <2>0, <2>5 DEF Emit, WorkerDies, MessageTypes
    <3>2. WorkerTypes' BY <3>1, SettleTypes
    <3>3. MessageTypes' BY <2>5, <3>1, SettleTypes DEF Emit, WorkerDies, MessageTypes
    <3> QED BY <1>2, <1>3, <1>4, <2>5, <3>2, <3>3 DEF Emit, WorkerDies
  <2> QED BY <1>7, <2>1, <2>2, <2>3, <2>4, <2>5
<1> QED BY <1>5, <1>6, <1>7 DEF Intelligence

LEMMA OverrideTypes ==
    ASSUME Types, UNCHANGED limit, NEW m \in Message, Override(m)
    PROVE  Types'
<1> USE DEF Types
<1>1. RowTypes' /\ CallTypes' /\ WorkerTypes' /\ PageTypes'
      BY SameRows, SameCalls, SameWorkers, SamePage DEF Override
<1>2. PICK k \in Sorts : sort' = [sort EXCEPT ![m] = k] BY DEF Override
<1>3. MessageTypes' BY <1>2 DEF Override, MessageTypes
<1> QED BY <1>1, <1>3

LEMMA TypesInductive == Types /\ [Next]_vars => Types'
<1> SUFFICES ASSUME Types, [Next]_vars PROVE Types' OBVIOUS
<1>1. CASE UNCHANGED vars
      BY <1>1, SameRows, SameCalls, SameMessages, SameWorkers, SamePage DEF vars, Types, intakeVars
<1>2. ASSUME CallNext, UNCHANGED intakeVars, UNCHANGED limit PROVE Types'
  <2>1. MessageTypes' /\ WorkerTypes' /\ PageTypes'
        BY <1>2, SameMessages, SameWorkers, SamePage DEF intakeVars, Types
  <2>2. RowTypes' /\ CallTypes'
    <3>1. PICK c \in Call :
             \/ \E r \in Row : Accept(c, r) \/ Dismiss(c, r) \/ Assign(c, r)
             \/ LookUp(c) \/ Find(c) \/ Insert(c) \/ Refind(c) \/ Convert(c) \/ Reread(c)
             \/ Announce(c) \/ Reannounce(c) \/ FanOut(c) \/ Propose(c)
             \/ Recheck(c) \/ Discard(c) \/ Strike(c) \/ Restrike(c) \/ Regret(c)
             \/ UpdateTask(c) \/ TellUpdated(c) \/ Dies(c)
          BY <1>2, Zenon DEF CallNext
    <3>2. ASSUME Row = {} PROVE FALSE
      <4>1. at[c] \notin Row /\ pc[c] \in {"new", "over", "dead"} BY <3>2 DEF Types, CallTypes
      <4> QED BY <3>1, <3>2, <4>1
              DEF LookUp, Find, Insert, Refind, Convert, Reread, Announce, TellAccepted,
                  Reannounce, FanOut, Propose, Recheck, Discard, Strike, Restrike, Regret,
                  UpdateTask, TellUpdated, Dies
    <3>3. PICK r \in Row :
             \/ Accept(c, r) \/ Dismiss(c, r) \/ Assign(c, r)
             \/ LookUp(c) \/ Find(c) \/ Insert(c) \/ Refind(c) \/ Convert(c) \/ Reread(c)
             \/ Announce(c) \/ Reannounce(c) \/ FanOut(c) \/ Propose(c)
             \/ Recheck(c) \/ Discard(c) \/ Strike(c) \/ Restrike(c) \/ Regret(c)
             \/ UpdateTask(c) \/ TellUpdated(c) \/ Dies(c)
          BY <3>1, <3>2, Zenon
    <3> QED BY <1>2, <3>3, CallStepTypes DEF Types
  <2> QED BY <2>1, <2>2 DEF Types
<1> QED BY <1>1, <1>2, PageStepTypes, IntelligenceStepTypes, OverrideTypes DEF Next

(* The initial states *)
LEMMA InitTypes == Init => Types
<1> SUFFICES ASSUME Init PROVE Types OBVIOUS
<1>1. RowTypes BY SuggestionAssumption DEF Init, SuggestionInit, RowTypes, Statuses
<1>2. CallTypes BY DEF Init, SuggestionInit, CallTypes, PCs
<1>3. MessageTypes BY DEF Init, MessageTypes
<1>4. WorkerTypes BY DEF Init, WorkerTypes, WPCs
<1>5. PageTypes
  <2>1. 0 \in 0 .. MaxAttempts /\ FirstMount \in Mount BY IntakeAssumption
  <2>2. tries \in [Mount -> 0 .. MaxAttempts] BY <2>1 DEF Init
  <2> QED BY <2>1, <2>2 DEF Init, PageTypes, Sending
<1> QED BY <1>1, <1>2, <1>3, <1>4, <1>5 DEF Types

(* Every reachable state has the right types, and whoever is at work knows *)
(* what on.                                                                *)
THEOREM IntakeTypes == Spec => []TypeOK
<1>1. Init => Types BY InitTypes
<1>2. Types /\ [Next]_vars => Types' BY TypesInductive
<1>3. Types => TypeOK BY TypesSplit
<1> HIDE DEF Types, TypeOK
<1> QED BY <1>1, <1>2, <1>3, PTL DEF Spec

-----------------------------------------------------------------------------
(* Suggestions and the requests about them *)

Decided == {"converted", "dismissed"}

(* Positions of a request that knows that its task has won *)
Won == {"lookup", "repropose", "reannounce", "announce", "fanout", "confirm", "propose",
        "update", "tell"}

RowOK(r) ==
    /\ status[r] = "converted" => linked[r] # NoTask /\ task[r] = linked[r]
    /\ status[r] # "converted" => linked[r] = NoTask
    /\ \A t \in proposed[r] : status[r] = "converted" /\ t = linked[r]
    /\ "accepted" \in told[r] => status[r] = "converted"
    /\ "dismissed" \in told[r] => status[r] = "dismissed"
    /\ r \in accepted => status[r] = "converted" /\ "accepted" \in told[r]
    /\ r \in accepted /\ tool[r] => linked[r] \in proposed[r]

CallOK(c) ==
    pc[c] \notin {"new", "over", "dead"} =>
        /\ status[at[c]] # "none"
        /\ pc[c] = "cas" /\ status[at[c]] = "proposed" =>
               mine[c] # NoTask /\ task[at[c]] = mine[c]
        /\ pc[c] \in {"reread", "recheck", "discard"} => status[at[c]] \in Decided
        /\ pc[c] = "discard" => ~ClaimedBy(at[c], mine[c])
        /\ pc[c] \in Won => ClaimedBy(at[c], mine[c])
        /\ pc[c] \in {"fanout", "propose"} => "accepted" \in told[at[c]]
        /\ pc[c] = "reannounce" /\ tool[at[c]] => mine[c] \in proposed[at[c]]
        /\ pc[c] = "regret" => status[at[c]] = "dismissed"

Suggestions == (\A r \in Row : RowOK(r)) /\ (\A c \in Call : CallOK(c))

(* What no step does to a suggestion, so that what a request knows of it   *)
(* stays true while others take steps                                      *)
RowStep(r) ==
    /\ status[r] # "none" => status'[r] # "none" /\ tool'[r] = tool[r]
    /\ status[r] \in Decided => status'[r] = status[r] /\ linked'[r] = linked[r]
    /\ told[r] \subseteq told'[r] /\ proposed[r] \subseteq proposed'[r]
    /\ status[r] = "proposed" /\ status'[r] = "proposed" /\ task[r] # NoTask =>
           task'[r] = task[r]

LEMMA RowStepKeepsCall ==
    ASSUME RowTypes, NEW c \in Call, CallOK(c), pc[c] \notin {"new", "over", "dead"} => at[c] \in Row,
           \A r \in Row : RowStep(r),
           UNCHANGED <<pc[c], at[c], mine[c]>>
    PROVE  CallOK(c)'
<1>1. CASE pc[c] \in {"new", "over", "dead"} BY <1>1 DEF CallOK
<1>2. CASE pc[c] \notin {"new", "over", "dead"}
  <2>1. at[c] \in Row /\ RowStep(at[c]) BY <1>2
  <2>2. status[at[c]] \in Statuses BY <2>1 DEF RowTypes
  <2> QED BY <1>2, <2>1, <2>2 DEF CallOK, RowStep, Decided, ClaimedBy, Statuses
<1> QED BY <1>1, <1>2

(* What a step of a request does to the requests *)
Moves(c, l, r, t) ==
    /\ pc'[c] = l
    /\ l # "over" => at'[c] = r /\ mine'[c] = t
    /\ \A d \in Call \ {c} : UNCHANGED <<pc[d], at[d], mine[d]>>

LEMMA ProceedCalls ==
    ASSUME CallTypes, NEW c \in Call
    PROVE  \A l, r, t : Proceed(c, l, r, t, FALSE) \/ Proceed(c, l, r, t, TRUE)
               => Moves(c, l, r, t)
BY DEF Proceed, CallTypes, Moves

LEMMA GotoCalls ==
    ASSUME CallTypes, NEW c \in Call, NEW l, Goto(c, l)
    PROVE  /\ pc'[c] = l
           /\ l # "over" => at'[c] = at[c] /\ mine'[c] = mine[c]
           /\ \A d \in Call \ {c} : UNCHANGED <<pc[d], at[d], mine[d]>>
BY DEF Goto, Proceed, CallTypes

LEMMA SameRowSteps ==
    ASSUME RowTypes, UNCHANGED rowVars, \A r \in Row : RowOK(r)
    PROVE  \A r \in Row : RowOK(r)' /\ RowStep(r)
BY DEF rowVars, RowOK, RowStep, RowTypes

StepOK(c) ==
    /\ \A r \in Row : RowOK(r)' /\ RowStep(r)
    /\ CallOK(c)'
    /\ \A d \in Call \ {c} : UNCHANGED <<pc[d], at[d], mine[d]>>

(* The steps of a request that change no suggestion *)
LEMMA LookingStepOK ==
    ASSUME RowTypes, CallTypes, Suggestions, NEW c \in Call, NEW r \in Row,
           \/ Accept(c, r) \/ Dismiss(c, r) \/ Assign(c, r)
           \/ LookUp(c) \/ Find(c) \/ Refind(c) \/ Reread(c) \/ Recheck(c)
           \/ Restrike(c) \/ UpdateTask(c) \/ Dies(c)
    PROVE  StepOK(c)
<1>0. /\ UNCHANGED rowVars
      /\ \A q \in Row : RowOK(q) /\ (RowOK(q)' /\ RowStep(q))
  <2>1. UNCHANGED rowVars
        BY DEF Accept, Dismiss, Assign, LookUp, Find, Refind, Reread, Recheck, Restrike,
               UpdateTask, Dies
  <2> QED BY <2>1, SameRowSteps DEF Suggestions
<1>same. UNCHANGED <<status, tool, linked, task, told, proposed>> BY <1>0 DEF rowVars
<1>p. \A l, q, t : Proceed(c, l, q, t, FALSE) => Moves(c, l, q, t) BY ProceedCalls
<1>c. CallOK(c) BY DEF Suggestions
<1>1. ASSUME NEW l, Goto(c, l),
             l # "over" => pc[c] \notin {"new", "over", "dead"},
             l \notin Won \cup {"cas", "reread", "regret"},
             l = "discard" => pc[c] = "recheck" /\ ~ClaimedBy(at[c], mine[c]),
             l = "recheck" => pc[c] = "reread"
      PROVE  StepOK(c)
  <2>1. CallOK(c)' BY <1>1, <1>c, <1>same, GotoCalls DEF CallOK, ClaimedBy, Won, Decided
  <2> QED BY <1>0, <1>1, <2>1, GotoCalls DEF StepOK
<1>2. CASE Accept(c, r)
  <2>1. CASE Goto(c, "over") BY <1>1, <2>1 DEF Won
  <2>2. CASE status[r] = "converted" /\ Proceed(c, "lookup", r, linked[r], FALSE)
    <3>1. Moves(c, "lookup", r, linked[r]) BY <2>2, <1>p
    <3>2. CallOK(c)' BY <2>2, <3>1, <1>same DEF CallOK, Moves, ClaimedBy, Won
    <3> QED BY <1>0, <3>1, <3>2 DEF StepOK, Moves
  <2>3. CASE status[r] = "proposed" /\ Proceed(c, "find", r, NoTask, FALSE)
    <3>1. Moves(c, "find", r, NoTask) BY <2>3, <1>p
    <3>2. CallOK(c)' BY <2>3, <3>1, <1>same DEF CallOK, Moves, ClaimedBy, Won
    <3> QED BY <1>0, <3>1, <3>2 DEF StepOK, Moves
  <2> QED BY <1>2, <2>1, <2>2, <2>3 DEF Accept
<1>3. CASE Dismiss(c, r)
  <2>1. \E l : /\ Proceed(c, l, r, NoTask, FALSE)
               /\ \/ l = "strike" /\ status[r] = "proposed"
                  \/ l = "regret" /\ status[r] = "dismissed"
                  \/ l = "over"
        BY <1>3 DEF Dismiss
  <2>2. CallOK(c)' BY <2>1, <1>same, <1>p DEF CallOK, Moves, ClaimedBy, Won
  <2> QED BY <1>0, <2>1, <2>2, <1>p DEF StepOK, Moves
<1>4. CASE Assign(c, r)
  <2>1. \E l : /\ Proceed(c, l, r, linked[r], FALSE)
               /\ (l = "update" /\ status[r] = "converted") \/ l = "over"
        BY <1>4 DEF Assign
  <2>2. CallOK(c)' BY <2>1, <1>same, <1>p DEF CallOK, Moves, ClaimedBy, Won
  <2> QED BY <1>0, <2>1, <2>2, <1>p DEF StepOK, Moves
<1>5. CASE LookUp(c) \/ UpdateTask(c)
  <2>1. \E l \in {"repropose", "tell", "over"} : Goto(c, l) /\ pc[c] \in {"lookup", "update"}
        BY <1>5 DEF LookUp, UpdateTask
  <2>2. CallOK(c)' BY <2>1, <1>c, <1>same, GotoCalls DEF CallOK, ClaimedBy, Won
  <2> QED BY <1>0, <2>1, <2>2, GotoCalls DEF StepOK
<1>6. CASE Find(c) \/ Refind(c)
  <2>1. CASE Reuse(c)
    <3>1. /\ Moves(c, "cas", at[c], task[at[c]])
          /\ task[at[c]] # NoTask /\ pc[c] \in {"find", "refind"}
          BY <1>6, <2>1, <1>p DEF Reuse, Find, Refind
    <3>2. CallOK(c)' BY <3>1, <1>c, <1>same DEF CallOK, Moves, ClaimedBy, Won
    <3> QED BY <1>0, <3>1, <3>2 DEF StepOK, Moves
  <2>2. CASE Goto(c, "insert") BY <1>1, <1>6, <2>2 DEF Won, Find, Refind
  <2>3. CASE Goto(c, "over") BY <1>1, <2>3 DEF Won
  <2> QED BY <1>6, <2>1, <2>2, <2>3 DEF Find, Refind
<1>7. CASE Reread(c)
  <2>1. CASE ClaimedBy(at[c], mine[c])
    <3>1. Goto(c, "confirm") /\ pc[c] = "reread" BY <1>7, <2>1 DEF Reread
    <3>2. CallOK(c)' BY <2>1, <3>1, <1>c, <1>same, GotoCalls DEF CallOK, ClaimedBy, Won
    <3> QED BY <1>0, <3>1, <3>2, GotoCalls DEF StepOK
  <2>2. CASE ~ClaimedBy(at[c], mine[c])
    <3>1. (Goto(c, "recheck") \/ Goto(c, "over")) /\ pc[c] = "reread"
          BY <1>7, <2>2 DEF Reread
    <3> QED BY <1>1, <3>1 DEF Won
  <2> QED BY <2>1, <2>2
<1>8. CASE Recheck(c)
  <2>1. /\ pc[c] = "recheck"
        /\ Goto(c, "over") \/ (Goto(c, "discard") /\ ~ClaimedBy(at[c], mine[c]))
        BY <1>8 DEF Recheck
  <2> QED BY <1>1, <2>1 DEF Won
<1>9. CASE Restrike(c)
  <2>1. CASE Goto(c, "over") BY <1>1, <2>1 DEF Won
  <2>2. CASE Goto(c, "regret") /\ status[at[c]] = "dismissed" /\ pc[c] = "restrike"
    <3>1. CallOK(c)' BY <2>2, <1>c, <1>same, GotoCalls DEF CallOK, ClaimedBy, Won
    <3> QED BY <1>0, <2>2, <3>1, GotoCalls DEF StepOK
  <2> QED BY <1>9, <2>1, <2>2 DEF Restrike
<1>10. CASE Dies(c)
  <2>1. /\ pc'[c] = "dead"
        /\ \A d \in Call \ {c} : UNCHANGED <<pc[d], at[d], mine[d]>>
        BY <1>10 DEF Dies, CallTypes
  <2>2. CallOK(c)' BY <2>1 DEF CallOK
  <2> QED BY <1>0, <2>1, <2>2 DEF StepOK
<1> QED BY <1>2, <1>3, <1>4, <1>5, <1>6, <1>7, <1>8, <1>9, <1>10

(* The steps that enqueue an event about suggestion r *)
LEMMA EnqueueRows ==
    ASSUME RowTypes, \A q \in Row : RowOK(q), NEW r \in Row, NEW topic \in Topics,
           Enqueue(r, topic),
           UNCHANGED <<status, tool, linked, task, proposed>>,
           topic = "accepted" => status[r] = "converted",
           topic = "dismissed" => status[r] = "dismissed",
           \/ accepted' = accepted
           \/ /\ accepted' = accepted \cup {r}
              /\ topic = "accepted"
              /\ tool[r] => linked[r] \in proposed[r]
    PROVE  /\ \A q \in Row : RowOK(q)' /\ RowStep(q)
           /\ topic \in told'[r]
<1>1. told' = [told EXCEPT ![r] = told[r] \cup {topic}] /\ told \in [Row -> SUBSET Topics]
      BY DEF Enqueue, RowTypes
<1>2. ASSUME NEW q \in Row PROVE RowOK(q)' /\ RowStep(q)
  <2>1. /\ told'[q] = IF q = r THEN told[q] \cup {topic} ELSE told[q]
        /\ RowOK(q)
        BY <1>1
  <2>2. RowStep(q) BY <2>1 DEF RowStep
  <2>3. RowOK(q)' BY <2>1 DEF RowOK
  <2> QED BY <2>2, <2>3
<1> QED BY <1>1, <1>2

LEMMA TellingStepOK ==
    ASSUME RowTypes, CallTypes, Suggestions, NEW c \in Call,
           Announce(c) \/ Reannounce(c) \/ FanOut(c) \/ Regret(c) \/ TellUpdated(c)
    PROVE  StepOK(c)
<1>c. CallOK(c) /\ \A q \in Row : RowOK(q) BY DEF Suggestions
<1>t. \A topic \in {"accepted", "created", "dismissed", "updated"} : topic \in Topics
      BY DEF Topics
<1>1. CASE Announce(c)
  <2> DEFINE l == IF made[c] THEN "fanout" ELSE "propose"
  <2>1. \/ Goto(c, l) /\ pc[c] = "announce"
        \/ Goto(c, "propose") /\ pc[c] = "confirm" BY <1>1 DEF Announce, TellAccepted
  <2>2. l \in {"fanout", "propose"} OBVIOUS
  <2> HIDE DEF l
  <2>3. PICK k \in {"fanout", "propose"} : Goto(c, k) /\ pc[c] \in {"announce", "confirm"}
        BY <2>1, <2>2
  <2>4. at[c] \in Row BY <2>3 DEF CallTypes
  <2>5. ClaimedBy(at[c], mine[c]) BY <2>3, <1>c DEF CallOK, Won
  <2>6. /\ Enqueue(at[c], "accepted")
        /\ UNCHANGED <<status, tool, linked, task, proposed, accepted>>
        BY <1>1 DEF Announce, TellAccepted
  <2>7. (\A q \in Row : RowOK(q)' /\ RowStep(q)) /\ "accepted" \in told'[at[c]]
        BY <2>4, <2>5, <2>6, <1>c, <1>t, EnqueueRows DEF ClaimedBy
  <2>8. CallOK(c)'
        BY <2>3, <2>5, <2>6, <2>7, <1>c, GotoCalls DEF CallOK, ClaimedBy
  <2> QED BY <2>3, <2>7, <2>8, GotoCalls DEF StepOK
<1>2. CASE Reannounce(c)
  <2>3. Goto(c, "over") /\ pc[c] = "reannounce" BY <1>2 DEF Reannounce, TellAccepted
  <2>4. at[c] \in Row BY <2>3 DEF CallTypes
  <2>5. ClaimedBy(at[c], mine[c]) /\ (tool[at[c]] => mine[c] \in proposed[at[c]])
        BY <2>3, <1>c DEF CallOK, Won
  <2>6. /\ Enqueue(at[c], "accepted") /\ accepted' = accepted \cup {at[c]}
        /\ UNCHANGED <<status, tool, linked, task, proposed>>
        BY <1>2 DEF Reannounce, TellAccepted
  <2>7. \A q \in Row : RowOK(q)' /\ RowStep(q)
        BY <2>4, <2>5, <2>6, <1>c, <1>t, EnqueueRows DEF ClaimedBy
  <2>8. CallOK(c)' BY <2>3, GotoCalls DEF CallOK
  <2> QED BY <2>3, <2>7, <2>8, GotoCalls DEF StepOK
<1>3. CASE FanOut(c)
  <2>3. Goto(c, "propose") /\ pc[c] = "fanout" BY <1>3 DEF FanOut
  <2>4. at[c] \in Row BY <2>3 DEF CallTypes
  <2>5. ClaimedBy(at[c], mine[c]) /\ "accepted" \in told[at[c]]
        BY <2>3, <1>c DEF CallOK, Won
  <2>6. /\ Enqueue(at[c], "created")
        /\ UNCHANGED <<status, tool, linked, task, proposed, accepted>>
        BY <1>3 DEF FanOut
  <2>7. \A q \in Row : RowOK(q)' /\ RowStep(q)
        BY <2>4, <2>6, <1>c, <1>t, EnqueueRows
  <2>8. told[at[c]] \subseteq told'[at[c]] BY <2>4, <2>7 DEF RowStep
  <2>9. CallOK(c)' BY <2>3, <2>5, <2>6, <2>8, <1>c, GotoCalls DEF CallOK, ClaimedBy
  <2> QED BY <2>3, <2>7, <2>9, GotoCalls DEF StepOK
<1>4. CASE Regret(c)
  <2>3. Goto(c, "over") /\ pc[c] = "regret" BY <1>4 DEF Regret
  <2>4. at[c] \in Row BY <2>3 DEF CallTypes
  <2>5. status[at[c]] = "dismissed" BY <2>3, <1>c DEF CallOK
  <2>6. /\ Enqueue(at[c], "dismissed")
        /\ UNCHANGED <<status, tool, linked, task, proposed, accepted>>
        BY <1>4 DEF Regret
  <2>7. \A q \in Row : RowOK(q)' /\ RowStep(q)
        BY <2>4, <2>5, <2>6, <1>c, <1>t, EnqueueRows
  <2>8. CallOK(c)' BY <2>3, GotoCalls DEF CallOK
  <2> QED BY <2>3, <2>7, <2>8, GotoCalls DEF StepOK
<1>5. CASE TellUpdated(c)
  <2>3. Goto(c, "over") /\ pc[c] = "tell" BY <1>5 DEF TellUpdated
  <2>4. at[c] \in Row BY <2>3 DEF CallTypes
  <2>6. /\ Enqueue(at[c], "updated")
        /\ UNCHANGED <<status, tool, linked, task, proposed, accepted>>
        BY <1>5 DEF TellUpdated
  <2>7. \A q \in Row : RowOK(q)' /\ RowStep(q)
        BY <2>4, <2>6, <1>c, <1>t, EnqueueRows
  <2>8. CallOK(c)' BY <2>3, GotoCalls DEF CallOK
  <2> QED BY <2>3, <2>7, <2>8, GotoCalls DEF StepOK
<1> QED BY <1>1, <1>2, <1>3, <1>4, <1>5

(* The steps that write the suggestion or its task *)
LEMMA WritingStepOK ==
    ASSUME RowTypes, CallTypes, Suggestions, NEW c \in Call,
           Insert(c) \/ Convert(c) \/ Propose(c) \/ Discard(c) \/ Strike(c)
    PROVE  StepOK(c)
<1> DEFINE r == at[c]
<1>c. CallOK(c) /\ \A q \in Row : RowOK(q) BY DEF Suggestions
<1>0. pc[c] \notin {"new", "over", "dead"} /\ r \in Row /\ status[r] \in Statuses
      BY DEF Insert, Convert, Propose, Discard, Strike, CallTypes, RowTypes
<1>r. RowOK(r) BY <1>0, <1>c
<1>1. CASE Insert(c)
  <2>1. CASE task[r] = NoTask /\ task' = [task EXCEPT ![r] = c]
             /\ Proceed(c, "cas", at[c], c, TRUE)
    <3>1. UNCHANGED <<status, tool, linked, told, proposed, accepted>> BY <1>1 DEF Insert
    <3>2. \A q \in Row : task'[q] = IF q = r THEN c ELSE task[q] BY <2>1 DEF RowTypes
    <3>3. status[r] # "converted" BY <2>1, <1>r DEF RowOK
    <3>4. \A q \in Row : RowOK(q)' BY <3>1, <3>2, <3>3, <1>c DEF RowOK
    <3>5. \A q \in Row : RowStep(q) BY <2>1, <3>1, <3>2 DEF RowStep
    <3>6. Moves(c, "cas", r, c) BY <2>1, ProceedCalls
    <3>7. c # NoTask BY SuggestionAssumption
    <3>8. CallOK(c)' BY <1>0, <1>c, <3>1, <3>2, <3>6, <3>7 DEF CallOK, Moves, Won
    <3> QED BY <3>4, <3>5, <3>6, <3>8 DEF StepOK, Moves
  <2>2. CASE task[r] # NoTask /\ Goto(c, "refind") /\ UNCHANGED task
    <3>1. UNCHANGED rowVars BY <1>1, <2>2 DEF Insert, rowVars
    <3>2. \A q \in Row : RowOK(q)' /\ RowStep(q) BY <3>1, <1>c, SameRowSteps
    <3>3. CallOK(c)' BY <1>0, <1>c, <2>2, <3>1, GotoCalls DEF CallOK, Won, rowVars
    <3> QED BY <2>2, <3>2, <3>3, GotoCalls DEF StepOK
  <2> QED BY <1>1, <2>1, <2>2 DEF Insert
<1>2. CASE Convert(c)
  <2>0. UNCHANGED <<tool, task, told, proposed, accepted>> /\ pc[c] = "cas"
        BY <1>2 DEF Convert
  <2>1. CASE status[r] = "proposed" /\ status' = [status EXCEPT ![r] = "converted"]
             /\ linked' = [linked EXCEPT ![r] = mine[c]] /\ Goto(c, "announce")
    <3>1. /\ \A q \in Row : status'[q] = IF q = r THEN "converted" ELSE status[q]
          /\ \A q \in Row : linked'[q] = IF q = r THEN mine[c] ELSE linked[q]
          BY <2>1 DEF RowTypes
    <3>2. mine[c] # NoTask /\ task[r] = mine[c] BY <2>0, <2>1, <1>c DEF CallOK
    <3>3. \A q \in Row \ {r} : RowOK(q)' BY <2>0, <3>1, <1>c DEF RowOK
    <3>r. /\ status'[r] = "converted" /\ linked'[r] = mine[c] /\ task'[r] = mine[c]
          /\ proposed[r] = {} /\ "dismissed" \notin told[r] /\ r \notin accepted
          BY <1>0, <1>r, <2>0, <2>1, <3>1, <3>2 DEF RowOK
    <3>4. \A q \in Row : q = r => RowOK(q)' BY <2>0, <3>2, <3>r DEF RowOK
    <3>5. \A q \in Row : RowStep(q) BY <2>0, <2>1, <3>1 DEF RowStep, Decided
    <3>6. CallOK(c)' BY <1>0, <2>1, <3>1, GotoCalls DEF CallOK, ClaimedBy
    <3> QED BY <2>1, <3>3, <3>4, <3>5, <3>6, GotoCalls DEF StepOK
  <2>2. CASE status[r] # "proposed" /\ Goto(c, "reread") /\ UNCHANGED <<status, linked>>
    <3>1. \A q \in Row : RowOK(q)' /\ RowStep(q) BY <2>0, <2>2, <1>c DEF RowOK, RowStep
    <3>2. status[r] \in Decided BY <1>0, <1>c, <2>2 DEF CallOK, Statuses, Decided
    <3>3. CallOK(c)' BY <1>0, <2>2, <3>2, GotoCalls DEF CallOK, Won, Decided
    <3> QED BY <2>2, <3>1, <3>3, GotoCalls DEF StepOK
  <2> QED BY <1>2, <2>1, <2>2 DEF Convert
<1>3. CASE Propose(c)
  <2>1. /\ UNCHANGED <<status, tool, linked, task, told>>
        /\ \/ pc[c] = "propose" /\ Goto(c, "over") /\ accepted' = accepted \cup {r}
           \/ pc[c] = "repropose" /\ Goto(c, "reannounce") /\ UNCHANGED accepted
        /\ proposed' = IF tool[r] THEN [proposed EXCEPT ![r] = proposed[r] \cup {mine[c]}]
                       ELSE proposed
        BY <1>3 DEF Propose
  <2>2. ClaimedBy(r, mine[c]) /\ (pc[c] = "propose" => "accepted" \in told[r])
        BY <2>1, <1>c DEF CallOK, Won
  <2>3. \A q \in Row : proposed'[q] = IF q = r /\ tool[r] THEN proposed[q] \cup {mine[c]}
                                       ELSE proposed[q]
        BY <2>1 DEF RowTypes
  <2>4. \A q \in Row \ {r} : RowOK(q)' BY <2>1, <2>3, <1>c DEF RowOK
  <2>p. mine[c] = linked[r] /\ status[r] = "converted" BY <2>2 DEF ClaimedBy
  <2>q. proposed'[r] = (IF tool[r] THEN proposed[r] \cup {linked[r]} ELSE proposed[r])
        BY <1>0, <2>3, <2>p
  <2>a. r \in accepted' => "accepted" \in told[r] /\ (tool[r] => linked[r] \in proposed'[r])
        BY <1>r, <2>1, <2>2, <2>q DEF RowOK
  <2>5. \A q \in Row : q = r => RowOK(q)' BY <1>r, <2>1, <2>p, <2>q, <2>a DEF RowOK
  <2>6. \A q \in Row : RowStep(q) BY <2>1, <2>3 DEF RowStep
  <2>7. CallOK(c)' BY <1>0, <1>c, <2>1, <2>2, <2>3, GotoCalls DEF CallOK, ClaimedBy
  <2> QED BY <2>1, <2>4, <2>5, <2>6, <2>7, GotoCalls DEF StepOK
<1>4. CASE Discard(c)
  <2>1. /\ UNCHANGED <<status, tool, linked, told, proposed, accepted>>
        /\ pc[c] = "discard" /\ Goto(c, "over")
        /\ task' = IF task[r] = mine[c] THEN [task EXCEPT ![r] = NoTask] ELSE task
        BY <1>4 DEF Discard
  <2>2. status[r] \in Decided /\ ~ClaimedBy(r, mine[c]) BY <2>1, <1>c DEF CallOK
  <2>3. \A q \in Row : task'[q] = IF q = r /\ task[r] = mine[c] THEN NoTask ELSE task[q]
        BY <2>1 DEF RowTypes
  <2>4. \A q \in Row : RowOK(q)' BY <2>1, <2>2, <2>3, <1>c DEF RowOK, ClaimedBy
  <2>5. \A q \in Row : RowStep(q) BY <2>1, <2>2, <2>3 DEF RowStep, Decided
  <2>6. CallOK(c)' BY <2>1, GotoCalls DEF CallOK
  <2> QED BY <2>1, <2>4, <2>5, <2>6, GotoCalls DEF StepOK
<1>5. CASE Strike(c)
  <2>0. UNCHANGED <<tool, linked, task, told, proposed, accepted>> BY <1>5 DEF Strike
  <2>1. CASE status[r] = "proposed" /\ status' = [status EXCEPT ![r] = "dismissed"]
             /\ Goto(c, "regret")
    <3>1. \A q \in Row : status'[q] = IF q = r THEN "dismissed" ELSE status[q]
          BY <2>1 DEF RowTypes
    <3>2. \A q \in Row : RowOK(q)' BY <2>0, <2>1, <3>1, <1>c DEF RowOK
    <3>3. \A q \in Row : RowStep(q) BY <2>0, <2>1, <3>1 DEF RowStep, Decided
    <3>4. CallOK(c)' BY <1>0, <2>1, <3>1, GotoCalls DEF CallOK, Won
    <3> QED BY <2>1, <3>2, <3>3, <3>4, GotoCalls DEF StepOK
  <2>2. CASE status[r] # "proposed" /\ Goto(c, "restrike") /\ UNCHANGED status
    <3>1. \A q \in Row : RowOK(q)' /\ RowStep(q) BY <2>0, <2>2, <1>c DEF RowOK, RowStep
    <3>2. CallOK(c)' BY <1>0, <1>c, <2>2, GotoCalls DEF CallOK, Won
    <3> QED BY <2>2, <3>1, <3>2, GotoCalls DEF StepOK
  <2> QED BY <1>5, <2>1, <2>2 DEF Strike
<1> QED BY <1>1, <1>2, <1>3, <1>4, <1>5

(* A worker adds a row that nobody can have asked about *)
LEMMA SuggestRows ==
    ASSUME RowTypes, \A q \in Row : RowOK(q), NEW m \in Message, NEW r \in Row, Suggest(m, r)
    PROVE  \A q \in Row : RowOK(q)' /\ RowStep(q)
<1>1. /\ status[r] = "none"
      /\ \A q \in Row : status'[q] = IF q = r THEN "proposed" ELSE status[q]
      /\ \A q \in Row \ {r} : tool'[q] = tool[q]
      /\ UNCHANGED <<linked, task, told, proposed, accepted>>
  <2>1. PICK b \in BOOLEAN : tool' = [tool EXCEPT ![r] = b] BY DEF Suggest
  <2>2. \A q \in Row \ {r} : tool'[q] = tool[q] BY <2>1 DEF RowTypes
  <2> QED BY <2>2 DEF Suggest, RowTypes
<1>2. \A q \in Row : RowStep(q) BY <1>1 DEF RowStep, Decided
<1>3. \A q \in Row \ {r} : RowOK(q)' BY <1>1 DEF RowOK
<1>4. RowOK(r)' BY <1>1 DEF RowOK
<1> QED BY <1>2, <1>3, <1>4

(* Who takes a step, and what everybody else has got *)
LEMMA WorkerRows ==
    ASSUME Types, Suggestions, Intelligence
    PROVE  UNCHANGED callVars /\ \A q \in Row : RowOK(q)' /\ RowStep(q)
<1> USE DEF Types
<1>1. UNCHANGED callVars BY DEF Intelligence
<1>2. UNCHANGED rowVars => \A q \in Row : RowOK(q)' /\ RowStep(q)
      BY SameRowSteps DEF Suggestions
<1>3. ASSUME NEW w \in Worker, Create(w) PROVE \A q \in Row : RowOK(q)' /\ RowStep(q)
  <2>1. wmsg[w] \in Message BY <1>3 DEF Create, At, WorkerTypes
  <2> QED BY <1>2, <1>3, <2>1, SuggestRows DEF Create, Suggestions
<1>4. ASSUME ~\E w \in Worker : Create(w) PROVE UNCHANGED rowVars
      BY <1>4 DEF Intelligence, Claim, Classify, MarkChat, Look, Mark, Upsert, Link, Ask, Emit,
                  WorkerDies, Overrun
<1> QED BY <1>1, <1>2, <1>3, <1>4

(* Every step of a request *)
LEMMA CallStepOK ==
    ASSUME RowTypes, CallTypes, Suggestions, CallNext
    PROVE  \E c \in Call : StepOK(c)
<1>1. PICK c \in Call :
         \/ \E r \in Row : Accept(c, r) \/ Dismiss(c, r) \/ Assign(c, r)
         \/ LookUp(c) \/ Find(c) \/ Insert(c) \/ Refind(c) \/ Convert(c) \/ Reread(c)
         \/ Announce(c) \/ Reannounce(c) \/ FanOut(c) \/ Propose(c)
         \/ Recheck(c) \/ Discard(c) \/ Strike(c) \/ Restrike(c) \/ Regret(c)
         \/ UpdateTask(c) \/ TellUpdated(c) \/ Dies(c)
      BY Zenon DEF CallNext
<1>2. ASSUME NEW r \in Row, Accept(c, r) \/ Dismiss(c, r) \/ Assign(c, r) PROVE StepOK(c)
      BY <1>2, LookingStepOK
<1>3. ASSUME LookUp(c) \/ Find(c) \/ Refind(c) \/ Reread(c) \/ Recheck(c) \/ Restrike(c)
                 \/ UpdateTask(c) \/ Dies(c)
      PROVE  StepOK(c)
  <2>1. at[c] \in Row
        BY <1>3 DEF LookUp, Find, Refind, Reread, Recheck, Restrike, UpdateTask, Dies, CallTypes
  <2> QED BY <1>3, <2>1, LookingStepOK
<1>4. ASSUME \/ Announce(c) \/ Reannounce(c) \/ FanOut(c) \/ Regret(c) \/ TellUpdated(c)
             \/ Insert(c) \/ Convert(c) \/ Propose(c) \/ Discard(c) \/ Strike(c)
      PROVE  StepOK(c)
      BY <1>4, TellingStepOK, WritingStepOK
<1> QED BY <1>1, <1>2, <1>3, <1>4

LEMMA SuggestionsInductive == Types /\ Suggestions /\ [Next]_vars => Suggestions'
<1> SUFFICES ASSUME Types, Suggestions, [Next]_vars PROVE Suggestions' OBVIOUS
<1>0. RowTypes /\ CallTypes BY DEF Types
<1>1. ASSUME UNCHANGED callVars, \A q \in Row : RowOK(q)' /\ RowStep(q) PROVE Suggestions'
  <2>1. \A c \in Call : CallOK(c)'
        BY <1>0, <1>1, RowStepKeepsCall DEF callVars, Suggestions, CallTypes
  <2> QED BY <1>1, <2>1 DEF Suggestions
<1>2. ASSUME NEW c \in Call, StepOK(c) PROVE Suggestions'
  <2>1. \A d \in Call \ {c} : CallOK(d)'
        BY <1>0, <1>2, RowStepKeepsCall DEF StepOK, Suggestions, CallTypes
  <2> QED BY <1>2, <2>1 DEF Suggestions, StepOK
<1>3. CASE CallNext BY <1>0, <1>2, <1>3, CallStepOK
<1>4. ASSUME UNCHANGED <<rowVars, callVars>> PROVE Suggestions'
      BY <1>0, <1>1, <1>4, SameRowSteps DEF Suggestions
<1>5. CASE Intelligence BY <1>1, <1>5, WorkerRows
<1>6. CASE Page BY <1>4, <1>6 DEF Page
<1>7. ASSUME NEW m \in Message, Override(m) PROVE Suggestions' BY <1>4, <1>7 DEF Override
<1>8. CASE UNCHANGED vars BY <1>4, <1>8 DEF vars
<1> QED BY <1>3, <1>5, <1>6, <1>7, <1>8 DEF Next

LEMMA SuggestionsInit == Init => Suggestions
BY DEF Init, SuggestionInit, Suggestions, RowOK, CallOK

LEMMA SuggestionsInvariant == Spec => [](Types /\ Suggestions)
<1>1. Init => Types /\ Suggestions BY InitTypes, SuggestionsInit
<1>2. Types /\ Suggestions /\ [Next]_vars => (Types /\ Suggestions)'
      BY TypesInductive, SuggestionsInductive
<1> HIDE DEF Types, Suggestions
<1> QED BY <1>1, <1>2, PTL DEF Spec

(* A converted suggestion has its task, whatever the requests that lost    *)
(* the update delete.                                                      *)
THEOREM ConvertedKeepsTask == Spec => []ConvertedHasTask
<1>1. Suggestions => ConvertedHasTask BY DEF Suggestions, RowOK, ConvertedHasTask
<1> HIDE DEF Types, Suggestions, ConvertedHasTask
<1> QED BY <1>1, SuggestionsInvariant, PTL

(* Any number of requests that accept and dismiss at the same time tell of *)
(* one verdict, the one that stays.                                        *)
THEOREM VerdictIsOne == Spec => []OneVerdict
<1>1. Suggestions => OneVerdict BY DEF Suggestions, RowOK, OneVerdict
<1> HIDE DEF Types, Suggestions, OneVerdict
<1> QED BY <1>1, SuggestionsInvariant, PTL

(* An accept that was answered with success has told of it, and proposed   *)
(* the tool for its task and for no other, whichever branches the requests *)
(* before it have taken and wherever they stopped.                         *)
THEOREM AcceptLeavesNothingOut == Spec => []AcceptIsComplete
<1>1. Types /\ Suggestions => AcceptIsComplete
      BY DEF Types, RowTypes, Suggestions, RowOK, AcceptIsComplete
<1> HIDE DEF Types, Suggestions, AcceptIsComplete
<1> QED BY <1>1, SuggestionsInvariant, PTL

-----------------------------------------------------------------------------
(* Requests and workers implement SuggestionVerdict *)

Announced == [r \in Row |-> Heard(r)]

LEMMA HeardOne ==
    ASSUME NEW r \in Row, RowOK(r)
    PROVE  Heard(r) \subseteq {status[r]}
BY DEF Heard, RowOK

LEMMA SilentVerdict == UNCHANGED <<status, linked, told>> => UNCHANGED (Verdict!vars)
<1> SUFFICES ASSUME UNCHANGED <<status, linked, told>> PROVE UNCHANGED (Verdict!vars) OBVIOUS
<1>1. \A r \in Row : Heard(r)' = Heard(r) BY DEF Heard
<1>2. Announced' = Announced BY <1>1 DEF Announced
<1> QED BY <1>2 DEF Verdict!vars, Announced

(* An event about a suggestion announces its verdict, or nothing *)
LEMMA EnqueueVerdict ==
    ASSUME RowTypes, NEW r \in Row, NEW topic \in Topics, RowOK(r), Enqueue(r, topic),
           UNCHANGED <<status, linked>>,
           topic = "accepted" => status[r] = "converted",
           topic = "dismissed" => status[r] = "dismissed"
    PROVE  Verdict!Next \/ UNCHANGED (Verdict!vars)
<1>1. /\ told[r] \in SUBSET Topics
      /\ \A q \in Row : told'[q] = IF q = r THEN told[r] \cup {topic} ELSE told[q]
      BY DEF Enqueue, RowTypes
<1>2. \A q \in Row : q # r => Heard(q)' = Heard(q) BY <1>1 DEF Heard
<1>3. CASE topic \in {"created", "updated"}
  <2>1. \A q \in Row : q = r => Heard(q)' = Heard(q) BY <1>1, <1>3 DEF Heard
  <2>2. Announced' = Announced BY <1>2, <2>1 DEF Announced
  <2> QED BY <2>2 DEF Verdict!vars, Announced
<1>4. CASE topic \in {"accepted", "dismissed"}
  <2>1. status[r] \in {"converted", "dismissed"} BY <1>4
  <2>2. Heard(r) \subseteq {status[r]} BY HeardOne
  <2>3. \A q \in Row : q = r => Heard(q)' = Heard(q) \cup {status[r]}
        BY <1>1, <1>4 DEF Heard
  <2>4. \A q \in Row : Heard(q)' = IF q = r THEN {status[r]} ELSE Heard(q)
        BY <1>2, <2>2, <2>3
  <2>5. Announced' = [Announced EXCEPT ![r] = {status[r]}] BY <2>4 DEF Announced
  <2>6. Verdict!Announce(r) BY <2>1, <2>5 DEF Verdict!Announce, Announced
  <2> QED BY <2>6 DEF Verdict!Next
<1> QED BY <1>3, <1>4 DEF Topics

LEMMA SameHeard == UNCHANGED told => Announced' = Announced
<1> SUFFICES ASSUME UNCHANGED told PROVE Announced' = Announced OBVIOUS
<1>1. \A r \in Row : Heard(r)' = Heard(r) BY DEF Heard
<1> QED BY <1>1 DEF Announced

(* The steps that decide, and the one that suggests *)
LEMMA DecidingVerdict ==
    ASSUME RowTypes, CallTypes, Suggestions, NEW c \in Call, Convert(c) \/ Strike(c)
    PROVE  Verdict!Next \/ UNCHANGED (Verdict!vars)
<1>1. at[c] \in Row /\ CallOK(c) BY DEF Convert, Strike, CallTypes, Suggestions
<1>2. UNCHANGED told BY DEF Convert, Strike
<1>3. Announced' = Announced BY <1>2, SameHeard
<1>4. CASE UNCHANGED <<status, linked>> BY <1>2, <1>4, SilentVerdict
<1>5. CASE Convert(c) /\ status[at[c]] = "proposed"
  <2>1. /\ status' = [status EXCEPT ![at[c]] = "converted"]
        /\ linked' = [linked EXCEPT ![at[c]] = mine[c]] /\ pc[c] = "cas"
        BY <1>5 DEF Convert
  <2>2. mine[c] \in Call BY <1>1, <1>5, <2>1 DEF CallOK, CallTypes
  <2>3. Verdict!Convert(at[c], mine[c]) BY <1>3, <1>5, <2>1 DEF Verdict!Convert, Announced
  <2> QED BY <1>1, <2>2, <2>3 DEF Verdict!Next
<1>6. CASE Strike(c) /\ status[at[c]] = "proposed"
  <2>1. Verdict!Dismiss(at[c]) BY <1>3, <1>6 DEF Strike, Verdict!Dismiss, Announced
  <2> QED BY <1>1, <2>1 DEF Verdict!Next
<1> QED BY <1>4, <1>5, <1>6 DEF Convert, Strike

LEMMA SuggestVerdict ==
    ASSUME NEW m \in Message, NEW r \in Row, Suggest(m, r)
    PROVE  Verdict!Next
<1>1. Announced' = Announced BY SameHeard DEF Suggest
<1>2. Verdict!Suggest(r) BY <1>1 DEF Suggest, Verdict!Suggest, Announced
<1> QED BY <1>2 DEF Verdict!Next

LEMMA CallVerdict ==
    ASSUME RowTypes, CallTypes, Suggestions, CallNext
    PROVE  Verdict!Next \/ UNCHANGED (Verdict!vars)
<1>1. PICK c \in Call :
         \/ \E r \in Row : Accept(c, r) \/ Dismiss(c, r) \/ Assign(c, r)
         \/ LookUp(c) \/ Find(c) \/ Insert(c) \/ Refind(c) \/ Convert(c) \/ Reread(c)
         \/ Announce(c) \/ Reannounce(c) \/ FanOut(c) \/ Propose(c)
         \/ Recheck(c) \/ Discard(c) \/ Strike(c) \/ Restrike(c) \/ Regret(c)
         \/ UpdateTask(c) \/ TellUpdated(c) \/ Dies(c)
      BY Zenon DEF CallNext
<1>2. CallOK(c) /\ \A q \in Row : RowOK(q) BY DEF Suggestions
<1>3. ASSUME Convert(c) \/ Strike(c) PROVE Verdict!Next \/ UNCHANGED (Verdict!vars)
      BY <1>3, DecidingVerdict
<1>4. ASSUME Announce(c) \/ Reannounce(c) \/ FanOut(c) \/ Regret(c) \/ TellUpdated(c)
      PROVE  Verdict!Next \/ UNCHANGED (Verdict!vars)
  <2>1. at[c] \in Row /\ RowOK(at[c])
        BY <1>2, <1>4 DEF Announce, Reannounce, TellAccepted, FanOut, Regret, TellUpdated,
                          CallTypes
  <2>2. \E topic \in Topics :
            /\ Enqueue(at[c], topic) /\ UNCHANGED <<status, linked>>
            /\ topic = "accepted" => status[at[c]] = "converted"
            /\ topic = "dismissed" => status[at[c]] = "dismissed"
    <3>1. CASE Announce(c) \/ Reannounce(c)
      <4>1. /\ Enqueue(at[c], "accepted") /\ UNCHANGED <<status, linked>>
            /\ pc[c] \in {"announce", "confirm", "reannounce"}
            BY <3>1 DEF Announce, Reannounce, TellAccepted
      <4>2. status[at[c]] = "converted" BY <1>2, <4>1 DEF CallOK, Won, ClaimedBy
      <4> QED BY <4>1, <4>2 DEF Topics
    <3>2. CASE Regret(c)
      <4>1. /\ Enqueue(at[c], "dismissed") /\ UNCHANGED <<status, linked>>
            /\ pc[c] = "regret"
            BY <3>2 DEF Regret
      <4>2. status[at[c]] = "dismissed" BY <1>2, <4>1 DEF CallOK
      <4> QED BY <4>1, <4>2 DEF Topics
    <3>3. CASE FanOut(c) BY <3>3 DEF FanOut, Topics
    <3>4. CASE TellUpdated(c) BY <3>4 DEF TellUpdated, Topics
    <3> QED BY <1>4, <3>1, <3>2, <3>3, <3>4
  <2> QED BY <2>1, <2>2, EnqueueVerdict
<1>5. ASSUME \/ \E r \in Row : Accept(c, r) \/ Dismiss(c, r) \/ Assign(c, r)
             \/ LookUp(c) \/ Find(c) \/ Insert(c) \/ Refind(c) \/ Reread(c)
             \/ Propose(c) \/ Recheck(c) \/ Discard(c) \/ Restrike(c)
             \/ UpdateTask(c) \/ Dies(c)
      PROVE  UNCHANGED (Verdict!vars)
  <2>1. UNCHANGED <<status, linked, told>>
        BY <1>5 DEF Accept, Dismiss, Assign, LookUp, Find, Insert, Refind, Reread, Propose,
                    Recheck, Discard, Restrike, UpdateTask, Dies, rowVars
  <2> QED BY <2>1, SilentVerdict
<1> QED BY <1>1, <1>3, <1>4, <1>5

LEMMA StepVerdict ==
    Types /\ Suggestions /\ [Next]_vars => [Verdict!Next]_(Verdict!vars)
<1> SUFFICES ASSUME Types, Suggestions, [Next]_vars
             PROVE  Verdict!Next \/ UNCHANGED (Verdict!vars)
    OBVIOUS
<1>0. RowTypes /\ CallTypes BY DEF Types
<1>1. CASE CallNext BY <1>0, <1>1, CallVerdict
<1>2. ASSUME UNCHANGED rowVars PROVE UNCHANGED (Verdict!vars)
      BY <1>2, SilentVerdict DEF rowVars
<1>3. ASSUME NEW w \in Worker, Create(w) PROVE Verdict!Next \/ UNCHANGED (Verdict!vars)
  <2>1. wmsg[w] \in Message BY <1>3 DEF Create, At, Types, WorkerTypes
  <2> QED BY <1>2, <1>3, <2>1, SuggestVerdict DEF Create
<1>4. CASE Intelligence /\ ~\E w \in Worker : Create(w)
  <2>1. UNCHANGED rowVars
        BY <1>4 DEF Intelligence, Claim, Classify, MarkChat, Look, Mark, Upsert, Link, Ask, Emit,
                    WorkerDies, Overrun
  <2> QED BY <1>2, <2>1
<1>5. CASE Page BY <1>2, <1>5 DEF Page
<1>6. ASSUME NEW m \in Message, Override(m) PROVE UNCHANGED (Verdict!vars)
      BY <1>2, <1>6 DEF Override
<1>7. CASE UNCHANGED vars BY <1>2, <1>7 DEF vars
<1> QED BY <1>1, <1>3, <1>4, <1>5, <1>6, <1>7 DEF Next

(* Suggestions keep the promise of SuggestionVerdict, for any number of    *)
(* requests that decide, repeat each other and stop anywhere, and while    *)
(* workers add more suggestions.                                           *)
THEOREM ImplementsVerdict == Spec => DecidedOnce
<1>1. Init => Verdict!Init
  <2>1. ASSUME Init PROVE Announced = [r \in Row |-> {}]
    <3>1. \A r \in Row : Heard(r) = {} BY <2>1 DEF Init, SuggestionInit, Heard
    <3> QED BY <3>1 DEF Announced
  <2> QED BY <2>1 DEF Init, SuggestionInit, Verdict!Init, Announced
<1>2. Types /\ Suggestions /\ [Next]_vars => [Verdict!Next]_(Verdict!vars) BY StepVerdict
<1> HIDE DEF Types, Suggestions
<1> QED BY <1>1, <1>2, SuggestionsInvariant, PTL DEF Spec, DecidedOnce, Verdict!Spec

-----------------------------------------------------------------------------
(* Tasks that no suggestion was converted into *)

Owner(c, r) ==
    /\ pc[c] \in {"cas", "reread", "recheck", "discard"}
    /\ at[c] = r /\ mine[c] = c /\ made[c]

(* Such a task is in the hands of the request that made it and has still   *)
(* to find out or to delete it, or that request was stopped                *)
Keeps(c, r) == Owner(c, r) \/ (c \in Call /\ pc[c] = "dead")
Orphans == \A r \in Row : task[r] # NoTask /\ task[r] # linked[r] => Keeps(task[r], r)

(* What a step of a request leaves to the others *)
LEMMA OthersOwn ==
    ASSUME CallTypes, NEW c \in Call, NEW l, Goto(c, l)
    PROVE  /\ \A d \in Call \ {c}, r \in Row : Owner(d, r) => Owner(d, r)'
           /\ l \in {"reread", "recheck", "discard"} =>
                  \A r \in Row : Owner(c, r) => Owner(c, r)'
<1>1. \A d \in Call \ {c}, r \in Row : Owner(d, r) => Owner(d, r)'
      BY DEF Goto, Proceed, CallTypes, Owner
<1>2. ASSUME l \in {"reread", "recheck", "discard"}, NEW r \in Row, Owner(c, r)
      PROVE  Owner(c, r)'
  <2>1. pc'[c] = l /\ at'[c] = r /\ mine'[c] = c
        BY <1>2 DEF Goto, Proceed, CallTypes, Owner
  <2>2. made'[c]
    <3>1. made' = [made EXCEPT ![c] = l # "over" /\ made[c]] BY DEF Goto, Proceed
    <3>2. (l # "over" /\ made[c]) = TRUE BY <1>2 DEF Owner
    <3> QED BY <3>1, <3>2 DEF CallTypes
  <2> QED BY <1>2, <2>1, <2>2 DEF Owner
<1> QED BY <1>1, <1>2

(* A request that was stopped takes no step any more *)
LEMMA DeadStays ==
    ASSUME CallTypes, [Next]_vars, NEW d \in Call, pc[d] = "dead"
    PROVE  pc'[d] = "dead"
<1>1. ASSUME UNCHANGED pc PROVE pc'[d] = "dead" BY <1>1
<1>2. ASSUME NEW c \in Call, NEW r \in Row, Accept(c, r) \/ Dismiss(c, r) \/ Assign(c, r)
      PROVE  pc'[d] = "dead"
      BY <1>2 DEF Accept, Dismiss, Assign, Begins, Goto, Proceed, CallTypes
<1>3. ASSUME NEW c \in Call,
             \/ LookUp(c) \/ Find(c) \/ Insert(c) \/ Refind(c) \/ Convert(c) \/ Reread(c)
             \/ Announce(c) \/ Reannounce(c) \/ FanOut(c) \/ Propose(c)
             \/ Recheck(c) \/ Discard(c) \/ Strike(c) \/ Restrike(c) \/ Regret(c)
             \/ UpdateTask(c) \/ TellUpdated(c) \/ Dies(c)
      PROVE  pc'[d] = "dead"
  <2>1. /\ pc[c] # "dead"
        /\ \E l : pc' = [pc EXCEPT ![c] = l]
        BY <1>3 DEF LookUp, Find, Insert, Refind, Reuse, Convert, Reread, Announce, TellAccepted,
                Reannounce, FanOut, Propose, Recheck, Discard, Strike, Restrike, Regret,
                UpdateTask, TellUpdated, Dies, Goto, Proceed
  <2> QED BY <2>1 DEF CallTypes
<1>4. CASE CallNext BY <1>2, <1>3, <1>4, Zenon DEF CallNext
<1>5. CASE Page BY <1>1, <1>5 DEF Page, callVars
<1>6. CASE Intelligence BY <1>1, <1>6 DEF Intelligence, callVars
<1>7. ASSUME NEW m \in Message, Override(m) PROVE pc'[d] = "dead"
      BY <1>1, <1>7 DEF Override, callVars
<1>8. CASE UNCHANGED vars BY <1>1, <1>8 DEF vars, callVars
<1> QED BY <1>4, <1>5, <1>6, <1>7, <1>8 DEF Next

LEMMA OrphansInductive == Types /\ Suggestions /\ Orphans /\ [Next]_vars => Orphans'
<1> SUFFICES ASSUME Types, Suggestions, Orphans, [Next]_vars,
                    NEW q \in Row, NEW o, task'[q] = o, o # NoTask, o # linked'[q],
                    ~(o \in Call /\ pc'[o] = "dead")
             PROVE  Owner(o, q)'
    BY DEF Orphans, Keeps, Owner
<1>0. RowTypes /\ CallTypes BY DEF Types
<1>d. ~(o \in Call /\ pc[o] = "dead") BY <1>0, DeadStays
<1>own. task[q] = o /\ task[q] # linked[q] => Owner(task[q], q) BY <1>d DEF Orphans, Keeps
<1>task. task[q] \in Call \cup {NoTask} BY <1>0 DEF RowTypes
<1>1. ASSUME UNCHANGED <<task, linked>>, UNCHANGED callVars PROVE Owner(o, q)'
      BY <1>1, <1>own DEF Owner, callVars
<1>2. ASSUME UNCHANGED <<task, linked>>, NEW c \in Call,
             pc[c] \notin {"cas", "reread", "recheck", "discard"},
             \A d \in Call \ {c}, r \in Row : Owner(d, r) => Owner(d, r)'
      PROVE  Owner(o, q)'
      BY <1>2, <1>own, <1>task DEF Owner
<1>3. ASSUME NEW c \in Call, NEW r \in Row, Accept(c, r) \/ Dismiss(c, r) \/ Assign(c, r)
      PROVE  Owner(o, q)'
  <2>1. UNCHANGED <<task, linked>> /\ pc[c] = "new"
        BY <1>3 DEF Accept, Dismiss, Assign, Begins, rowVars
  <2>2. \A d \in Call \ {c}, p \in Row : Owner(d, p) => Owner(d, p)'
        BY <1>0, <1>3 DEF Accept, Dismiss, Assign, Goto, Proceed, CallTypes, Owner
  <2> QED BY <1>2, <2>1, <2>2
<1>4. ASSUME NEW c \in Call,
             LookUp(c) \/ Find(c) \/ Refind(c) \/ Announce(c) \/ Reannounce(c) \/ FanOut(c)
               \/ Propose(c) \/ Strike(c) \/ Restrike(c) \/ Regret(c) \/ UpdateTask(c)
               \/ TellUpdated(c)
      PROVE  Owner(o, q)'
  <2>1. UNCHANGED <<task, linked>> /\ pc[c] \notin {"cas", "reread", "recheck", "discard"}
        BY <1>4 DEF LookUp, Find, Refind, Announce, TellAccepted, Reannounce, FanOut, Propose,
                Strike, Restrike, Regret, UpdateTask, TellUpdated, rowVars
  <2>2. \A d \in Call \ {c}, p \in Row : Owner(d, p) => Owner(d, p)'
        BY <1>0, <1>4 DEF LookUp, Find, Refind, Reuse, Announce, TellAccepted, Reannounce, FanOut,
                Propose, Strike, Restrike, Regret, UpdateTask, TellUpdated, Goto, Proceed,
                CallTypes, Owner
  <2> QED BY <1>2, <2>1, <2>2
<1>5. ASSUME NEW c \in Call, Insert(c) PROVE Owner(o, q)'
  <2>1. CASE Goto(c, "refind") /\ UNCHANGED task
    <3>1. UNCHANGED <<task, linked>> /\ pc[c] = "insert" BY <1>5, <2>1 DEF Insert
    <3> QED BY <1>0, <1>2, <2>1, <3>1, OthersOwn
  <2>2. CASE task[at[c]] = NoTask /\ task' = [task EXCEPT ![at[c]] = c]
             /\ Proceed(c, "cas", at[c], c, TRUE)
    <3>1. UNCHANGED linked /\ pc[c] = "insert" BY <1>5 DEF Insert
    <3>2. \A d \in Call \ {c}, p \in Row : Owner(d, p) => Owner(d, p)'
          BY <1>0, <2>2 DEF Proceed, CallTypes, Owner
    <3>3. CASE q = at[c]
      <4>1. task'[q] = c BY <1>0, <2>2, <3>3 DEF RowTypes
      <4>2. pc'[c] = "cas" /\ at'[c] = q /\ mine'[c] = c
            BY <1>0, <2>2, <3>3 DEF Proceed, CallTypes
      <4>3. made'[c] BY <1>0, <2>2 DEF Proceed, CallTypes
      <4> QED BY <4>1, <4>2, <4>3 DEF Owner
    <3>4. CASE q # at[c]
      <4>1. task'[q] = task[q] BY <1>0, <2>2, <3>4 DEF RowTypes
      <4> QED BY <1>own, <1>task, <3>1, <3>2, <4>1 DEF Owner
    <3> QED BY <3>3, <3>4
  <2> QED BY <1>5, <2>1, <2>2 DEF Insert
<1>6. ASSUME NEW c \in Call, Convert(c) PROVE Owner(o, q)'
  <2>1. CASE Goto(c, "reread") /\ UNCHANGED <<status, linked>>
    <3>1. UNCHANGED <<task, linked>> BY <1>6, <2>1 DEF Convert
    <3> QED BY <1>0, <1>own, <1>task, <2>1, <3>1, OthersOwn
  <2>2. CASE status[at[c]] = "proposed" /\ linked' = [linked EXCEPT ![at[c]] = mine[c]]
             /\ Goto(c, "announce")
    <3>1. UNCHANGED task /\ pc[c] = "cas" BY <1>6 DEF Convert
    <3>2. CallOK(c) BY DEF Suggestions
    <3>3. task[at[c]] = mine[c] BY <2>2, <3>1, <3>2 DEF CallOK
    <3>4. q # at[c] /\ linked'[q] = linked[q] BY <1>0, <2>2, <3>1, <3>3 DEF RowTypes
    <3>5. Owner(task[q], q) /\ task[q] # c BY <1>own, <3>1, <3>4 DEF Owner
    <3> QED BY <1>0, <1>own, <1>task, <2>2, <3>1, <3>4, <3>5, OthersOwn
  <2> QED BY <1>6, <2>1, <2>2 DEF Convert
<1>7. ASSUME NEW c \in Call, Reread(c) \/ Recheck(c) PROVE Owner(o, q)'
  <2>1. UNCHANGED <<task, linked>> BY <1>7 DEF Reread, Recheck, rowVars
  <2>2. \E l : /\ Goto(c, l)
               /\ \/ l \in {"recheck", "discard"}
                  \/ ClaimedBy(at[c], mine[c])
                  \/ ~made[c]
        BY <1>7 DEF Reread, Recheck
  <2>3. PICK l : /\ Goto(c, l)
                 /\ \/ l \in {"recheck", "discard"}
                    \/ ClaimedBy(at[c], mine[c])
                    \/ ~made[c]
        BY <2>2
  <2>4. Owner(task[q], q) /\ task[q] \in Call BY <1>own, <1>task, <2>1
  <2>5. CASE task[q] # c BY <1>0, <2>1, <2>3, <2>4, <2>5, OthersOwn
  <2>6. CASE task[q] = c
    <3>1. at[c] = q /\ mine[c] = c /\ made[c] BY <2>4, <2>6 DEF Owner
    <3>2. ~ClaimedBy(at[c], mine[c]) BY <2>1, <2>6, <3>1 DEF ClaimedBy
    <3>3. l \in {"recheck", "discard"} BY <2>3, <3>1, <3>2
    <3> QED BY <1>0, <2>1, <2>3, <2>4, <2>6, <3>3, OthersOwn
  <2> QED BY <2>5, <2>6
<1>8. ASSUME NEW c \in Call, Discard(c) PROVE Owner(o, q)'
  <2>1. /\ Goto(c, "over") /\ UNCHANGED linked
        /\ task' = IF task[at[c]] = mine[c] THEN [task EXCEPT ![at[c]] = NoTask] ELSE task
        BY <1>8 DEF Discard
  <2>2. task'[q] = task[q] /\ ~(q = at[c] /\ task[q] = mine[c])
        BY <1>0, <2>1 DEF RowTypes
  <2>3. Owner(task[q], q) /\ task[q] \in Call BY <1>own, <1>task, <2>1, <2>2
  <2>4. task[q] # c BY <2>2, <2>3 DEF Owner
  <2> QED BY <1>0, <2>1, <2>2, <2>3, <2>4, OthersOwn
<1>9. CASE CallNext
  <2>1. ASSUME NEW c \in Call, Dies(c) PROVE Owner(o, q)'
    <3>1. UNCHANGED <<task, linked>> BY <2>1 DEF Dies, rowVars
    <3>2. o # c BY <1>0, <2>1 DEF Dies, CallTypes
    <3>3. Owner(o, q) /\ o \in Call BY <1>own, <1>task, <3>1
    <3> QED BY <1>0, <2>1, <3>2, <3>3 DEF Dies, CallTypes, Owner
  <2> QED BY <1>3, <1>4, <1>5, <1>6, <1>7, <1>8, <1>9, <2>1, Zenon DEF CallNext
<1>10. CASE Page BY <1>1, <1>10 DEF Page, rowVars
<1>11. CASE Intelligence
  <2>1. UNCHANGED <<task, linked>>
        BY <1>11 DEF Intelligence, Claim, Classify, MarkChat, Look, Create, Suggest, Mark, Upsert,
                 Link, Ask, Emit, WorkerDies, Overrun, rowVars
  <2> QED BY <1>1, <1>11, <2>1 DEF Intelligence
<1>12. ASSUME NEW m \in Message, Override(m) PROVE Owner(o, q)'
       BY <1>1, <1>12 DEF Override, rowVars
<1>13. CASE UNCHANGED vars BY <1>1, <1>13 DEF vars, rowVars
<1> QED BY <1>9, <1>10, <1>11, <1>12, <1>13 DEF Next

(* A task that was made for a suggestion and lost is in the hands of the   *)
(* request that made it until that deletes it, unless that was stopped.    *)
THEOREM OrphansAreDeleted == Spec => []NoOrphanTask
<1>1. Init => Orphans BY DEF Init, SuggestionInit, Orphans
<1>2. Types /\ Suggestions /\ Orphans => NoOrphanTask
  <2> SUFFICES ASSUME Types, Suggestions, Orphans, NEW r \in Row, task[r] # linked[r]
               PROVE  \E c \in Call : c = task[r] /\ (at[c] = r \/ pc[c] = "dead")
      BY DEF NoOrphanTask
  <2>1. RowOK(r) /\ task[r] \in Call \cup {NoTask} /\ status[r] \in Statuses
        BY DEF Suggestions, Types, RowTypes
  <2>2. task[r] # NoTask BY <2>1 DEF RowOK
  <2>3. Keeps(task[r], r) BY <2>2 DEF Orphans
  <2> QED BY <2>1, <2>2, <2>3 DEF Keeps, Owner
<1> HIDE DEF Types, Suggestions, Orphans, NoOrphanTask
<1> QED BY <1>1, <1>2, OrphansInductive, SuggestionsInvariant, PTL DEF Spec

-----------------------------------------------------------------------------
(* Messages and the workers that handle their events *)

Judged == {"classified", "overridden"}
HasRow(m) == \E r \in Row : of[r] = m /\ status[r] # "none"

MessageOK(m) ==
    /\ event[m] = "done" \/ manual[m] => ai[m] \in Judged
    /\ ai[m] = "classified" /\ sort[m] = "task" => HasRow(m)

WorkerOK(w) ==
    /\ wpc[w] \in {"mark", "upsert", "link", "remark", "ask"} => HasRow(wmsg[w])
    /\ wpc[w] \in {"remark", "ask", "emit"} => ai[wmsg[w]] \in Judged

Intake == (\A m \in Message : MessageOK(m)) /\ (\A w \in Worker : WorkerOK(w))

(* What no step takes back *)
Kept == \A m \in Message :
    /\ HasRow(m) => HasRow(m)'
    /\ ai[m] \in Judged => ai'[m] \in Judged

LEMMA KeptWorker ==
    ASSUME WorkerTypes, NEW w \in Worker, WorkerOK(w), Kept, UNCHANGED <<wpc[w], wmsg[w]>>
    PROVE  WorkerOK(w)'
<1>1. CASE wpc[w] = "idle" BY <1>1 DEF WorkerOK
<1>2. CASE wpc[w] # "idle"
  <2>1. wmsg[w] \in Message BY <1>2 DEF WorkerTypes
  <2>2. PICK m \in Message : m = wmsg[w] BY <2>1
  <2>3. /\ HasRow(m) => HasRow(m)'
        /\ ai[m] \in Judged => ai'[m] \in Judged
        BY DEF Kept
  <2> QED BY <2>2, <2>3 DEF WorkerOK, HasRow
<1> QED BY <1>1, <1>2

LEMMA RowsKept ==
    ASSUME UNCHANGED of, \A r \in Row : RowStep(r)
    PROVE  \A m \in Message : HasRow(m) => HasRow(m)'
BY DEF HasRow, RowStep

LEMMA SuggestKeeps ==
    ASSUME RowTypes, NEW m \in Message, NEW r \in Row, Suggest(m, r)
    PROVE  /\ HasRow(m)'
           /\ \A n \in Message : HasRow(n) => HasRow(n)'
<1>1. /\ status[r] = "none"
      /\ \A q \in Row : status'[q] = IF q = r THEN "proposed" ELSE status[q]
      /\ \A q \in Row : of'[q] = IF q = r THEN m ELSE of[q]
      BY DEF Suggest, RowTypes
<1>2. HasRow(m)' BY <1>1 DEF HasRow
<1>3. ASSUME NEW n \in Message, HasRow(n) PROVE HasRow(n)'
  <2>1. PICK q \in Row : of[q] = n /\ status[q] # "none" BY <1>3 DEF HasRow
  <2>2. of'[q] = n /\ status'[q] # "none" BY <1>1, <2>1
  <2> QED BY <2>2 DEF HasRow
<1> QED BY <1>2, <1>3

(* Nothing that messages and workers know is touched *)
LEMMA IntakeSame ==
    ASSUME Types, Intake, \A m \in Message : HasRow(m) => HasRow(m)',
           UNCHANGED <<ai, sort, manual, event, wpc, wmsg>>
    PROVE  Intake'
<1>1. Kept BY DEF Kept
<1>2. \A w \in Worker : WorkerOK(w)' BY <1>1, KeptWorker DEF Intake, Types
<1>3. \A m \in Message : MessageOK(m)'
  <2> TAKE m \in Message
  <2>1. MessageOK(m) /\ (HasRow(m) => HasRow(m)') BY DEF Intake
  <2> QED BY <2>1 DEF MessageOK
<1> QED BY <1>2, <1>3 DEF Intake

(* A worker goes on, and the messages stay as they are *)
LEMMA WorkerGoesOn ==
    ASSUME Types, Intake, NEW w \in Worker, NEW l, WorkerGoto(w, l), wpc[w] # "idle",
           UNCHANGED <<ai, sort, manual, event, wmsg>>,
           \A m \in Message : HasRow(m) => HasRow(m)',
           l \notin {"remark", "ask"},
           l \in {"mark", "upsert"} => \E m \in Message : m = wmsg[w] /\ HasRow(m)',
           l = "link" => wpc[w] = "upsert",
           l = "emit" => wpc[w] = "ask"
    PROVE  Intake'
<1>0. PICK n \in Message : n = wmsg[w] BY DEF Types, WorkerTypes
<1>1. Kept BY DEF Kept
<1>2. /\ wpc'[w] = l /\ wmsg'[w] = n
      /\ \A v \in Worker \ {w} : UNCHANGED <<wpc[v], wmsg[v]>>
      BY <1>0 DEF WorkerGoto, Types, WorkerTypes
<1>3. WorkerOK(w)'
  <2>1. l \in {"mark", "upsert", "link"} => HasRow(n)' BY <1>0 DEF Intake, WorkerOK
  <2>2. l = "emit" => ai'[n] \in Judged BY <1>0 DEF Intake, WorkerOK
  <2> QED BY <1>2, <2>1, <2>2 DEF WorkerOK, HasRow
<1>4. \A v \in Worker : WorkerOK(v)' BY <1>1, <1>2, <1>3, KeptWorker DEF Intake, Types
<1>5. \A m \in Message : MessageOK(m)'
  <2> TAKE m \in Message
  <2>1. MessageOK(m) /\ (HasRow(m) => HasRow(m)') BY DEF Intake
  <2> QED BY <2>1 DEF MessageOK
<1> QED BY <1>4, <1>5 DEF Intake

(* A worker marks its message, as work only if there is a suggestion *)
LEMMA WorkerMarks ==
    ASSUME Types, Intake, NEW w \in Worker, NEW l \in {"emit", "remark", "ask"}, WorkerGoto(w, l),
           NEW k \in Sorts, Marked(wmsg[w], k), wpc[w] # "idle",
           UNCHANGED <<rowVars, manual, event, wmsg>>,
           k = "task" => HasRow(wmsg[w]),
           l # "emit" => HasRow(wmsg[w])
    PROVE  Intake'
<1>0. PICK n \in Message : n = wmsg[w] BY DEF Types, WorkerTypes
<1>1. /\ \A m \in Message : ai'[m] = IF m = n THEN "classified" ELSE ai[m]
      /\ \A m \in Message : sort'[m] = IF m = n THEN k ELSE sort[m]
      BY <1>0 DEF Marked, Types, MessageTypes
<1>2. \A m \in Message : HasRow(m) => HasRow(m)' BY DEF HasRow, rowVars
<1>3. Kept BY <1>1, <1>2 DEF Kept, Judged
<1>4. /\ wpc'[w] = l /\ wmsg'[w] = n
      /\ \A v \in Worker \ {w} : UNCHANGED <<wpc[v], wmsg[v]>>
      BY <1>0 DEF WorkerGoto, Types, WorkerTypes
<1>5. WorkerOK(w)'
  <2>1. ai'[n] \in Judged BY <1>1 DEF Judged
  <2>2. l # "emit" => HasRow(n)' BY <1>0, <1>2
  <2> QED BY <1>4, <2>1, <2>2 DEF WorkerOK, HasRow
<1>6. \A v \in Worker : WorkerOK(v)' BY <1>3, <1>4, <1>5, KeptWorker DEF Intake, Types
<1>7. \A m \in Message : MessageOK(m)'
  <2> TAKE m \in Message
  <2>1. MessageOK(m) /\ (HasRow(m) => HasRow(m)') BY <1>2 DEF Intake
  <2>2. CASE m = n
    <3>1. k = "task" => HasRow(m)' BY <1>0, <2>1, <2>2
    <3> QED BY <1>1, <2>1, <2>2, <3>1 DEF MessageOK, Judged
  <2>3. CASE m # n BY <1>1, <2>1, <2>3 DEF MessageOK
  <2> QED BY <2>2, <2>3
<1> QED BY <1>6, <1>7 DEF Intake

(* A worker is done with its event *)
LEMMA WorkerSettles ==
    ASSUME Types, Intake, NEW w \in Worker, NEW o, Settle(w, o), wpc[w] # "idle",
           UNCHANGED <<rowVars, ai, sort, manual>>,
           o = "done" => ai[wmsg[w]] \in Judged \/ event[wmsg[w]] = "done"
    PROVE  Intake'
<1>0. PICK n \in Message : n = wmsg[w] BY DEF Types, WorkerTypes
<1>1. \A m \in Message : event'[m] = IF m = n THEN o ELSE event[m]
      BY <1>0 DEF Settle, Types, MessageTypes
<1>2. Kept /\ (\A m \in Message : HasRow(m) => HasRow(m)') BY DEF Kept, HasRow, rowVars
<1>3. /\ wpc'[w] = "idle"
      /\ \A v \in Worker \ {w} : UNCHANGED <<wpc[v], wmsg[v]>>
      BY DEF Settle, WorkerGoto, Types, WorkerTypes
<1>4. WorkerOK(w)' BY <1>3 DEF WorkerOK
<1>5. \A v \in Worker : WorkerOK(v)' BY <1>2, <1>3, <1>4, KeptWorker DEF Intake, Types
<1>6. \A m \in Message : MessageOK(m)'
  <2> TAKE m \in Message
  <2>1. MessageOK(m) /\ (HasRow(m) => HasRow(m)') BY <1>2 DEF Intake
  <2> QED BY <1>0, <1>1, <2>1 DEF MessageOK
<1> QED BY <1>5, <1>6 DEF Intake

LEMMA WorkerStepIntake ==
    ASSUME Types, Intake, Intelligence
    PROVE  Intake'
<1>0. RowTypes /\ WorkerTypes /\ MessageTypes BY DEF Types
<1>1. ASSUME NEW m \in Message, Overrun(m) PROVE Intake'
  <2>1. Kept BY <1>1 DEF Overrun, Kept, HasRow, rowVars
  <2>2. \A v \in Worker : WorkerOK(v)'
        BY <1>0, <1>1, <2>1, KeptWorker DEF Overrun, workerVars, Intake
  <2>3. \A n \in Message : event'[n] = IF n = m THEN "pending" ELSE event[n]
        BY <1>0, <1>1 DEF Overrun, MessageTypes
  <2>4. \A n \in Message : MessageOK(n)'
    <3> TAKE n \in Message
    <3>1. MessageOK(n) /\ (HasRow(n) => HasRow(n)') BY <2>1 DEF Intake, Kept
    <3> QED BY <1>1, <2>3, <3>1 DEF MessageOK, Overrun
  <2> QED BY <2>2, <2>4 DEF Intake
<1>2. ASSUME NEW w \in Worker, NEW m \in Message, Claim(w, m) PROVE Intake'
  <2>1. Kept /\ UNCHANGED <<ai, sort, manual>> BY <1>2 DEF Claim, Kept, HasRow, rowVars
  <2>2. PICK o \in {"done", "taken"} :
           /\ event' = [event EXCEPT ![m] = o]
           /\ o = "done" => manual[m] \/ ai[m] = "classified"
        BY <1>2 DEF Claim
  <2>3. \A n \in Message : event'[n] = IF n = m THEN o ELSE event[n]
        BY <1>0, <2>2 DEF MessageTypes
  <2>4. \A n \in Message : MessageOK(n)'
    <3> TAKE n \in Message
    <3>1. MessageOK(n) /\ (HasRow(n) => HasRow(n)') BY <2>1 DEF Intake, Kept
    <3> QED BY <2>1, <2>2, <2>3, <3>1 DEF MessageOK, Judged
  <2>5. wpc'[w] \in {"idle", "classify"}
        /\ \A v \in Worker \ {w} : UNCHANGED <<wpc[v], wmsg[v]>>
        BY <1>0, <1>2 DEF Claim, At, workerVars, WorkerGoto, WorkerTypes
  <2>6. WorkerOK(w)' BY <2>5 DEF WorkerOK
  <2>7. \A v \in Worker : WorkerOK(v)' BY <1>0, <2>1, <2>5, <2>6, KeptWorker DEF Intake
  <2> QED BY <2>4, <2>7 DEF Intake
<1>3. ASSUME NEW w \in Worker,
             Classify(w) \/ MarkChat(w) \/ Look(w) \/ Create(w) \/ Mark(w)
                \/ Upsert(w) \/ Link(w) \/ Ask(w) \/ Emit(w) \/ WorkerDies(w)
      PROVE  Intake'
  <2>0. wpc[w] # "idle" /\ WorkerOK(w)
        BY <1>3 DEF Classify, MarkChat, Look, Create, Mark, Upsert, Link, Ask, Emit, WorkerDies,
                    At, Intake
  <2>n. PICK n \in Message : n = wmsg[w] BY <1>0, <2>0 DEF WorkerTypes
  <2>same. UNCHANGED rowVars => \A m \in Message : HasRow(m) => HasRow(m)'
           BY DEF rowVars, HasRow
  <2>1. CASE Classify(w)
    <3>1. CASE Settle(w, "pending") BY <2>0, <2>1, <3>1, WorkerSettles DEF Classify
    <3>2. CASE (\E l \in {"chat", "look"} : WorkerGoto(w, l)) /\ UNCHANGED <<event, wmsg>>
      <4>1. PICK l \in {"chat", "look"} : WorkerGoto(w, l) BY <3>2
      <4> QED BY <2>0, <2>1, <2>same, <3>2, <4>1, WorkerGoesOn DEF Classify
    <3> QED BY <2>1, <3>1, <3>2 DEF Classify
  <2>2. CASE MarkChat(w)
    <3>1. PICK k \in {"chat", "hunch"} : Marked(wmsg[w], k) BY <2>2 DEF MarkChat
    <3>2. k \in Sorts /\ k # "task" BY DEF Sorts
    <3> QED BY <2>0, <2>2, <3>1, <3>2, WorkerMarks DEF MarkChat
  <2>3. CASE Mark(w)
    <3>1. HasRow(wmsg[w]) /\ "task" \in Sorts BY <2>0, <2>3 DEF Mark, At, WorkerOK, Sorts
    <3> QED BY <2>0, <2>3, <3>1, WorkerMarks DEF Mark
  <2>4. CASE Link(w)
    <3>1. HasRow(wmsg[w]) BY <2>0, <2>4 DEF Link, At, WorkerOK
    <3>2. PICK k \in Sorts : Marked(wmsg[w], k) BY <2>4 DEF Link, Sorts
    <3>3. PICK l \in {"remark", "ask"} : WorkerGoto(w, l) BY <2>4 DEF Link
    <3> QED BY <2>0, <2>4, <3>1, <3>2, <3>3, WorkerMarks DEF Link
  <2>5. CASE Look(w)
    <3>1. /\ UNCHANGED <<rowVars, ai, sort, manual, event, wmsg>>
          /\ \/ WorkerGoto(w, "create")
             \/ HasProposal(n) /\ \E l \in {"mark", "upsert"} : WorkerGoto(w, l)
          BY <2>n, <2>5 DEF Look, messageVars
    <3>2. CASE WorkerGoto(w, "create") BY <2>0, <2>same, <3>1, <3>2, WorkerGoesOn
    <3>3. CASE HasProposal(n) /\ \E l \in {"mark", "upsert"} : WorkerGoto(w, l)
      <4>1. PICK l \in {"mark", "upsert"} : WorkerGoto(w, l) BY <3>3
      <4>2. HasRow(n)' BY <2>same, <3>1, <3>3 DEF HasProposal, HasRow
      <4> QED BY <2>0, <2>n, <2>same, <3>1, <4>1, <4>2, WorkerGoesOn
    <3> QED BY <3>1, <3>2, <3>3
  <2>6. CASE Create(w)
    <3>1. UNCHANGED <<ai, sort, manual, event, wmsg>> BY <2>6 DEF Create, messageVars
    <3>2. PICK l \in {"mark", "upsert"} : WorkerGoto(w, l) BY <2>6 DEF Create
    <3>3. HasRow(n)' /\ \A m \in Message : HasRow(m) => HasRow(m)'
      <4>1. CASE \E r \in Row : Suggest(n, r) BY <1>0, <4>1, SuggestKeeps
      <4>2. CASE HasProposal(n) /\ UNCHANGED rowVars
            BY <2>same, <4>2 DEF HasProposal, HasRow
      <4> QED BY <2>n, <2>6, <4>1, <4>2 DEF Create
    <3> QED BY <2>0, <2>n, <3>1, <3>2, <3>3, WorkerGoesOn
  <2>7. CASE Upsert(w) BY <2>0, <2>7, <2>same, WorkerGoesOn DEF Upsert, At
  <2>8. CASE Ask(w) BY <2>0, <2>8, <2>same, WorkerGoesOn DEF Ask, At
  <2>9. CASE Emit(w)
    <3>1. ai[wmsg[w]] \in Judged BY <2>0, <2>9 DEF Emit, At, WorkerOK
    <3> QED BY <2>0, <2>9, <3>1, WorkerSettles DEF Emit
  <2>10. CASE WorkerDies(w)
    <3>1. PICK o : /\ Settle(w, o)
                   /\ o = "done" => event[wmsg[w]] = "done"
          BY <2>10 DEF WorkerDies
    <3> QED BY <2>0, <2>10, <3>1, WorkerSettles DEF WorkerDies
  <2> QED BY <1>3, <2>1, <2>2, <2>3, <2>4, <2>5, <2>6, <2>7, <2>8, <2>9, <2>10
<1> QED BY <1>1, <1>2, <1>3 DEF Intelligence

(* The server stores messages and events; nothing else of a page is seen *)
LEMMA PageStepIntake ==
    ASSUME Types, Intake, Page
    PROVE  Intake'
<1>0. MessageTypes /\ WorkerTypes BY DEF Types
<1>1. UNCHANGED <<rowVars, wpc, wmsg>> BY DEF Page, workerVars
<1>2. \A m \in Message : HasRow(m) => HasRow(m)' BY <1>1 DEF HasRow, rowVars
<1>3. UNCHANGED messageVars => Intake' BY <1>1, <1>2, IntakeSame DEF messageVars
<1>4. ASSUME UNCHANGED <<sort, manual>>,
             \A m \in Message : ai'[m] = ai[m] \/ (ai[m] = "absent" /\ ai'[m] = "unknown"),
             \A m \in Message : event'[m] \in {event[m], "pending"}
      PROVE  Intake'
  <2>1. Kept BY <1>2, <1>4 DEF Kept, Judged
  <2>2. \A w \in Worker : WorkerOK(w)' BY <1>0, <1>1, <2>1, KeptWorker DEF Intake
  <2>3. \A m \in Message : MessageOK(m)'
    <3> TAKE m \in Message
    <3>1. MessageOK(m) /\ (HasRow(m) => HasRow(m)') BY <1>2 DEF Intake
    <3>2. ai'[m] = ai[m] \/ (ai[m] = "absent" /\ ai'[m] = "unknown") BY <1>4
    <3>3. event'[m] = event[m] \/ event'[m] = "pending" BY <1>4
    <3> QED BY <1>4, <3>1, <3>2, <3>3 DEF MessageOK, Judged
  <2> QED BY <2>2, <2>3 DEF Intake
<1>5. ASSUME NEW m \in Message, NEW e, Store(m, e) PROVE Intake'
  <2>1. \A n \in Message : ai'[n] = ai[n] \/ (ai[n] = "absent" /\ ai'[n] = "unknown")
        BY <1>0, <1>5 DEF Store, MessageTypes
  <2>p. event' = [event EXCEPT ![m] = "pending"] \/ event' = event BY <1>5 DEF Store
  <2>2. \A n \in Message : event'[n] \in {event[n], "pending"}
        BY <1>0, <2>p DEF MessageTypes
  <2> QED BY <1>4, <1>5, <2>1, <2>2 DEF Store
<1>6. ASSUME NEW m \in Message, StoreEvent(m) PROVE Intake'
  <2>1. \A n \in Message : event'[n] \in {event[n], "pending"}
        BY <1>0, <1>6 DEF StoreEvent, MessageTypes
  <2>2. UNCHANGED <<ai, sort, manual>> BY <1>6 DEF StoreEvent
  <2>3. \A n \in Message : ai'[n] = ai[n] BY <2>2
  <2> QED BY <1>4, <2>1, <2>2, <2>3
<1> QED BY <1>3, <1>5, <1>6
        DEF Page, Queue, Compose, Post, Resend, Start, Remount, NextMessage, Refused, Answer,
            Served, NoAnswer, Drop, Reload

LEMMA OverrideIntake ==
    ASSUME Types, Intake, NEW m \in Message, Override(m)
    PROVE  Intake'
<1>0. MessageTypes /\ WorkerTypes BY DEF Types
<1>1. \A n \in Message : HasRow(n) => HasRow(n)' BY DEF Override, HasRow, rowVars
<1>2. \A n \in Message : ai'[n] = IF n = m THEN "overridden" ELSE ai[n]
      BY <1>0 DEF Override, MessageTypes
<1>3. PICK k \in Sorts : sort' = [sort EXCEPT ![m] = k] BY DEF Override
<1>4. \A n \in Message \ {m} : sort'[n] = sort[n] /\ manual'[n] = manual[n]
      BY <1>0, <1>3 DEF Override, MessageTypes
<1>5. Kept BY <1>1, <1>2 DEF Kept, Judged
<1>6. \A w \in Worker : WorkerOK(w)'
      BY <1>0, <1>5, KeptWorker DEF Intake, Override, workerVars
<1>7. \A n \in Message : MessageOK(n)'
  <2> TAKE n \in Message
  <2>1. MessageOK(n) /\ (HasRow(n) => HasRow(n)') BY <1>1 DEF Intake
  <2>2. UNCHANGED event BY DEF Override
  <2>3. CASE n = m BY <1>2, <2>3 DEF MessageOK, Judged
  <2>4. CASE n # m BY <1>2, <1>4, <2>1, <2>2, <2>4 DEF MessageOK
  <2> QED BY <2>3, <2>4
<1> QED BY <1>6, <1>7 DEF Intake

LEMMA IntakeInductive == Types /\ Suggestions /\ Intake /\ [Next]_vars => Intake'
<1> SUFFICES ASSUME Types, Suggestions, Intake, [Next]_vars PROVE Intake' OBVIOUS
<1>1. CASE CallNext /\ UNCHANGED intakeVars
  <2>1. \A r \in Row : RowStep(r) BY <1>1, CallStepOK DEF StepOK, Types
  <2>2. UNCHANGED of
        BY <1>1 DEF CallNext, Accept, Dismiss, Assign, LookUp, Find, Insert, Refind, Convert,
              Reread, Announce, TellAccepted, Reannounce, FanOut, Propose, Recheck, Discard,
              Strike, Restrike, Regret, UpdateTask, TellUpdated, Dies, rowVars
  <2>3. \A m \in Message : HasRow(m) => HasRow(m)' BY <2>1, <2>2, RowsKept
  <2> QED BY <1>1, <2>3, IntakeSame DEF intakeVars, messageVars, workerVars
<1>2. CASE UNCHANGED vars
  <2>1. \A m \in Message : HasRow(m) => HasRow(m)' BY <1>2 DEF HasRow, vars, rowVars
  <2> QED BY <1>2, <2>1, IntakeSame DEF vars, intakeVars, messageVars, workerVars
<1> QED BY <1>1, <1>2, PageStepIntake, WorkerStepIntake, OverrideIntake DEF Next

(* Whatever workers crash, are repeated or overtaken, and whatever people   *)
(* say in the meantime, an event that is done leaves a message somebody has *)
(* judged, and one that is taken for work can be found as a suggestion.     *)
THEOREM NothingDropped == Spec => []NothingIsDropped
<1>1. Init => Intake
      BY DEF Init, Intake, MessageOK, WorkerOK
<1>2. Intake => NothingIsDropped
      BY DEF Intake, MessageOK, HasRow, Judged, NothingIsDropped
<1> HIDE DEF Types, Suggestions, Intake, NothingIsDropped
<1> QED BY <1>1, <1>2, IntakeInductive, SuggestionsInvariant, PTL DEF Spec

-----------------------------------------------------------------------------
(* The queue of messages typed offline *)

SentFrom(m, e) == from[m] = e /\ event[m] # "none"

(* What the server and the workers know of the messages they work on *)
ServerOK ==
    /\ \A m \in Message : event[m] # "none" \/ from[m] # NoEntry => ai[m] # "absent"
    /\ \A w \in Worker : wpc[w] # "idle" => ai[wmsg[w]] # "absent"
    /\ \A m \in Message : web[m] # "off" => ai[m] # "absent"
    /\ \A m \in Message : web[m] = "reply" => event[m] # "none"

(* What a loop knows of the message whose answer it waits for, which is    *)
(* its own, and of the one whose answer it has got                         *)
AwaitOK ==
    /\ \A k \in Mount : loop[k] = "wait" =>
           sent[k] \in Message /\ web[sent[k]] # "off" /\ from[sent[k]] = cur[k]
    /\ \A j, k \in Mount : loop[j] = "wait" /\ loop[k] = "wait" /\ sent[j] = sent[k] => j = k
    /\ \A k \in Mount : loop[k] = "drop" => \E m \in Message : SentFrom(m, cur[k])

Holds(k, e) == e \in batch[k] \/ (loop[k] \in Sending /\ cur[k] = e)

(* An entry that is no twin is in the hands of the mount on the screen     *)
(* alone, once, and still in the queue                                     *)
HandsOK ==
    /\ \A k \in Mount, e \in Entry : Holds(k, e) /\ e \notin twin => k = here /\ entry[e] = "queued"
    /\ \A k \in Mount : loop[k] \in Sending /\ cur[k] \in batch[k] => cur[k] \in twin

EntryOK == \A e \in Entry : entry[e] = "removed" => \E m \in Message : SentFrom(m, e)

(* An entry that is no twin and of which no sending was cut short has been *)
(* stored at most once, and one that was stored is gone or about to go     *)
OnceOK ==
    \A m \in Message : from[m] # NoEntry /\ from[m] \notin cut \cup twin =>
        /\ entry[from[m]] = "removed" \/ (from[m] = cur[here] /\ loop[here] \in {"wait", "drop"})
        /\ \A n \in Message : from[n] = from[m] => n = m

QueueOK == ServerOK /\ AwaitOK /\ HandsOK /\ EntryOK /\ OnceOK

LEMMA HandHolds ==
    ASSUME NEW k \in Mount, NEW e
    PROVE  e \in InHand(k) <=> Holds(k, e)
BY DEF InHand, Holds, Sending

(* Steps that are none of the page's *)
LEMMA QueueFrame ==
    ASSUME Types, QueueOK,
           UNCHANGED <<from, entry, here, loop, batch, cur, sent, cut, twin, web>>,
           \A m \in Message : /\ event[m] # "none" => event'[m] # "none"
                              /\ event'[m] # "none" => event[m] # "none" \/ ai[m] # "absent"
                              /\ ai[m] # "absent" => ai'[m] # "absent",
           \A w \in Worker : wpc'[w] # "idle" => wmsg'[w] \in Message /\ ai'[wmsg'[w]] # "absent"
    PROVE  QueueOK'
<1>1. ServerOK' BY DEF QueueOK, ServerOK
<1>2. \A e \in Entry \cup {NoEntry}, m \in Message : SentFrom(m, e) => SentFrom(m, e)' BY DEF SentFrom
<1>3. AwaitOK'
  <2>1. \A k \in Mount : loop[k] = "drop" => \E m \in Message : SentFrom(m, cur[k])'
        BY <1>2 DEF QueueOK, AwaitOK, Types, PageTypes
  <2> QED BY <2>1 DEF QueueOK, AwaitOK, SentFrom
<1>4. EntryOK' BY <1>2 DEF QueueOK, EntryOK
<1>5. OnceOK' BY DEF QueueOK, OnceOK
<1>6. HandsOK' BY DEF QueueOK, HandsOK, Holds
<1> QED BY <1>1, <1>3, <1>4, <1>5, <1>6 DEF QueueOK

LEMMA WorkerStepQueue ==
    ASSUME Types, QueueOK, Intelligence
    PROVE  QueueOK'
<1>0. MessageTypes /\ WorkerTypes BY DEF Types
<1>1. UNCHANGED <<from, entry, here, loop, batch, cur, sent, cut, twin, web>>
      BY DEF Intelligence, pageVars, loopVars, messageVars, Claim, Classify, MarkChat, Look,
             Create, Mark, Upsert, Link, Ask, Emit, WorkerDies, Overrun
<1>s. ServerOK BY DEF QueueOK
<1>2. ASSUME NEW m \in Message, Overrun(m) PROVE QueueOK'
      BY <1>0, <1>1, <1>2, <1>s, QueueFrame
      DEF Overrun, MessageTypes, WorkerTypes, workerVars, ServerOK
<1>3. ASSUME NEW w \in Worker, NEW m \in Message, Claim(w, m) PROVE QueueOK'
  <2>1. ai[m] # "absent" /\ UNCHANGED ai BY <1>3, <1>s DEF Claim, ServerOK
  <2>2. \A n \in Message : event'[n] # event[n] => n = m /\ event'[n] # "none"
        BY <1>0, <1>3 DEF Claim, MessageTypes
  <2>3. \A v \in Worker : /\ wpc'[v] # "idle"
                          => wmsg'[v] \in Message /\ (wmsg'[v] = m \/ (wpc[v] # "idle" /\ wmsg'[v] = wmsg[v]))
        BY <1>0, <1>3 DEF Claim, WorkerTypes, workerVars, WorkerGoto
  <2>4. \A v \in Worker : wpc'[v] # "idle" => wmsg'[v] \in Message /\ ai'[wmsg'[v]] # "absent"
        BY <2>1, <2>3, <1>s DEF ServerOK
  <2>5. \A n \in Message : event[n] # "none" => event'[n] # "none" BY <1>3, <2>2
  <2>6. \A n \in Message : event'[n] # "none" => event[n] # "none" \/ ai[n] # "absent"
        BY <2>1, <2>2
  <2> QED BY <1>1, <2>1, <2>4, <2>5, <2>6, QueueFrame
<1>4. ASSUME NEW w \in Worker, wpc[w] # "idle",
             \/ wmsg' = wmsg /\ \E l : WorkerGoto(w, l) /\ event' = event
             \/ \E o : Settle(w, o) /\ (event[wmsg[w]] # "none" => o # "none"),
             ai' = ai \/ \E k : Marked(wmsg[w], k)
      PROVE  QueueOK'
  <2>0. PICK n \in Message : n = wmsg[w] /\ ai[n] # "absent"
        BY <1>0, <1>4, <1>s DEF WorkerTypes, ServerOK
  <2>1. \A m \in Message : ai[m] # "absent" => ai'[m] # "absent"
        BY <1>0, <1>4, <2>0 DEF Marked, MessageTypes
  <2>2. \A m \in Message : /\ event[m] # "none" => event'[m] # "none"
                           /\ event'[m] # "none" => event[m] # "none" \/ ai[m] # "absent"
        BY <1>0, <1>4, <2>0 DEF Settle, MessageTypes
  <2>3. \A v \in Worker : wpc'[v] # "idle" => wpc[v] # "idle" /\ wmsg'[v] = wmsg[v]
        BY <1>0, <1>4 DEF Settle, WorkerGoto, WorkerTypes
  <2>4. \A v \in Worker : wpc'[v] # "idle" => wmsg'[v] \in Message /\ ai'[wmsg'[v]] # "absent"
        BY <1>0, <1>s, <2>1, <2>3 DEF WorkerTypes, ServerOK
  <2> QED BY <1>1, <2>1, <2>2, <2>4, QueueFrame
<1>5. ASSUME NEW w \in Worker,
             Classify(w) \/ MarkChat(w) \/ Look(w) \/ Create(w) \/ Mark(w)
                \/ Upsert(w) \/ Link(w) \/ Ask(w) \/ Emit(w) \/ WorkerDies(w)
      PROVE  QueueOK'
  <2>1. wpc[w] # "idle"
        BY <1>5 DEF Classify, MarkChat, Look, Create, Mark, Upsert, Link, Ask, Emit, WorkerDies, At
  <2>2. ai' = ai \/ \E k : Marked(wmsg[w], k)
        BY <1>5 DEF Classify, MarkChat, Look, Create, Mark, Upsert, Link, Ask, Emit, WorkerDies,
                    messageVars
  <2>3. \/ wmsg' = wmsg /\ \E l : WorkerGoto(w, l) /\ event' = event
        \/ \E o : Settle(w, o) /\ (event[wmsg[w]] # "none" => o # "none")
        BY <1>5 DEF Classify, MarkChat, Look, Create, Mark, Upsert, Link, Ask, Emit, WorkerDies,
                    messageVars
  <2> QED BY <1>4, <2>1, <2>2, <2>3
<1> QED BY <1>2, <1>3, <1>5 DEF Intelligence

(* The server stores a message: it is new *)
LEMMA StoreQueue ==
    ASSUME Types, QueueOK, NEW m \in Message, NEW e \in Entry \cup {NoEntry}, Store(m, e),
           UNCHANGED <<wpc, wmsg, entry>>
    PROVE  /\ ServerOK'
           /\ EntryOK'
           /\ from[m] = NoEntry /\ web[m] = "off" /\ from'[m] = e /\ web'[m] # "off"
           /\ \A n \in Message \ {m} : from'[n] = from[n] /\ web'[n] = web[n]
           /\ \A n \in Message, d \in Entry : SentFrom(n, d) => SentFrom(n, d)'
<1>0. MessageTypes /\ WorkerTypes /\ PageTypes BY DEF Types
<1>1. /\ from[m] = NoEntry /\ from'[m] = e /\ web[m] = "off"
      /\ \A n \in Message \ {m} : from'[n] = from[n]
      /\ event[m] = "none"
      BY <1>0 DEF Store, QueueOK, ServerOK, MessageTypes
<1>2. /\ web'[m] # "off" /\ (web'[m] = "reply" => event'[m] = "pending")
      /\ \A n \in Message \ {m} : web'[n] = web[n]
      BY <1>0 DEF Store, MessageTypes, PageTypes
<1>3. event' = [event EXCEPT ![m] = "pending"] \/ event' = event BY DEF Store
<1>4. \A n \in Message : event'[n] = event[n] \/ (n = m /\ event'[n] = "pending")
      BY <1>0, <1>3 DEF MessageTypes
<1>5. \A n \in Message : ai'[n] = IF n = m THEN "unknown" ELSE ai[n]
      BY <1>0 DEF Store, MessageTypes
<1>6. ServerOK'
  <2>1. \A n \in Message : event'[n] # "none" \/ from'[n] # NoEntry => ai'[n] # "absent"
        BY <1>1, <1>4, <1>5 DEF QueueOK, ServerOK
  <2>2. \A w \in Worker : wpc'[w] # "idle" => ai'[wmsg'[w]] # "absent"
        BY <1>0, <1>5 DEF QueueOK, ServerOK, WorkerTypes
  <2>3. \A n \in Message : web'[n] # "off" => ai'[n] # "absent"
        BY <1>2, <1>5 DEF QueueOK, ServerOK
  <2>4. \A n \in Message : web'[n] = "reply" => event'[n] # "none"
        BY <1>2, <1>4 DEF QueueOK, ServerOK
  <2> QED BY <2>1, <2>2, <2>3, <2>4 DEF ServerOK
<1>7. \A n \in Message, d \in Entry : SentFrom(n, d) => SentFrom(n, d)'
      BY <1>1, <1>4, IntakeAssumption DEF SentFrom
<1>8. EntryOK' BY <1>7 DEF QueueOK, EntryOK
<1> QED BY <1>1, <1>2, <1>6, <1>7, <1>8

(* Steps of the page that take nothing new in hand and await no new answer *)
LEMMA LoopFrame ==
    ASSUME Types, QueueOK,
           UNCHANGED <<messageVars, wpc, wmsg, entry, here, twin>>,
           cut \subseteq cut',
           \A m \in Message : web'[m] \in {web[m], "off"},
           \A k \in Mount, e \in Entry : Holds(k, e)' => Holds(k, e),
           \A k \in Mount :
               /\ loop'[k] \in Sending /\ cur'[k] \in batch'[k]
                      => loop[k] \in Sending /\ cur[k] \in batch[k] /\ cur'[k] = cur[k]
               /\ loop'[k] = "wait" => /\ loop[k] = "wait" /\ sent'[k] = sent[k] /\ cur'[k] = cur[k]
                                       /\ web'[sent[k]] # "off"
               /\ loop'[k] = "drop" => loop[k] = "drop" /\ cur'[k] = cur[k]
               /\ loop[k] \in {"wait", "drop"} =>
                      \/ loop'[k] \in {"wait", "drop"} /\ cur'[k] = cur[k]
                      \/ cur[k] \in cut'
    PROVE  QueueOK'
<1>1. UNCHANGED <<from, ai, event>> BY DEF messageVars
<1>2. ServerOK' BY <1>1 DEF QueueOK, ServerOK
<1>3. AwaitOK'
  <2>1. \A k \in Mount : loop'[k] = "drop" => \E m \in Message : SentFrom(m, cur'[k])
        BY DEF QueueOK, AwaitOK
  <2>2. \A k \in Mount : loop'[k] = "wait" =>
            sent'[k] \in Message /\ web'[sent'[k]] # "off" /\ from'[sent'[k]] = cur'[k]
        BY <1>1 DEF QueueOK, AwaitOK
  <2>3. \A j, k \in Mount : loop'[j] = "wait" /\ loop'[k] = "wait" /\ sent'[j] = sent'[k] => j = k
        BY DEF QueueOK, AwaitOK
  <2> QED BY <1>1, <2>1, <2>2, <2>3 DEF AwaitOK, SentFrom
<1>4. HandsOK'
  <2>1. \A k \in Mount, e \in Entry :
            Holds(k, e)' /\ e \notin twin' => k = here' /\ entry'[e] = "queued"
        BY DEF QueueOK, HandsOK
  <2>2. \A k \in Mount : loop'[k] \in Sending /\ cur'[k] \in batch'[k] => cur'[k] \in twin'
        BY DEF QueueOK, HandsOK
  <2> QED BY <2>1, <2>2 DEF HandsOK
<1>5. EntryOK' BY <1>1 DEF QueueOK, EntryOK, SentFrom
<1>6. OnceOK'
  <2>1. here \in Mount BY DEF Types, PageTypes
  <2> QED BY <1>1, <2>1 DEF QueueOK, OnceOK
<1> QED BY <1>2, <1>3, <1>4, <1>5, <1>6 DEF QueueOK

(* An attempt of mount k fails *)
LEMMA AttemptQueue ==
    ASSUME Types, QueueOK, NEW k \in Mount, loop[k] \in Sending, AttemptFails(k),
           UNCHANGED <<messageVars, wpc, wmsg, entry, here, batch, cur, twin>>,
           \A m \in Message : web'[m] \in {web[m], "off"},
           \A j \in Mount \ {k} : loop[j] = "wait" => web'[sent[j]] = web[sent[j]],
           CutShort({k}) \/ (UNCHANGED cut /\ loop[k] = "send")
    PROVE  QueueOK'
<1>0. PageTypes BY DEF Types
<1>1. /\ loop'[k] \in {"send", "next"}
      /\ \A j \in Mount \ {k} : loop'[j] = loop[j] /\ sent'[j] = sent[j]
      BY <1>0 DEF AttemptFails, GoesOn, PageTypes
<1>2. cut \subseteq cut' /\ (loop[k] \in {"wait", "drop"} => cur[k] \in cut') BY DEF CutShort
<1>3. \A j \in Mount, e \in Entry : Holds(j, e)' => Holds(j, e) BY <1>1 DEF Holds, Sending
<1>4. \A j \in Mount : loop[j] = "wait" => web[sent[j]] # "off" BY DEF QueueOK, AwaitOK
<1>5. ASSUME NEW j \in Mount
      PROVE  /\ loop'[j] \in Sending /\ cur'[j] \in batch'[j]
                    => loop[j] \in Sending /\ cur[j] \in batch[j] /\ cur'[j] = cur[j]
             /\ loop'[j] = "wait" => /\ loop[j] = "wait" /\ sent'[j] = sent[j] /\ cur'[j] = cur[j]
                                     /\ web'[sent[j]] # "off"
             /\ loop'[j] = "drop" => loop[j] = "drop" /\ cur'[j] = cur[j]
             /\ loop[j] \in {"wait", "drop"} =>
                    \/ loop'[j] \in {"wait", "drop"} /\ cur'[j] = cur[j]
                    \/ cur[j] \in cut'
  <2>1. CASE j = k BY <1>1, <1>2, <2>1
  <2>2. CASE j # k BY <1>1, <1>4, <2>2
  <2> QED BY <2>1, <2>2
<1> HIDE DEF QueueOK, Types
<1> QED BY <1>2, <1>3, <1>5, LoopFrame

LEMMA PageStepQueue ==
    ASSUME Types, QueueOK, Page
    PROVE  QueueOK'
<1>0. MessageTypes /\ WorkerTypes /\ PageTypes /\ RowTypes /\ NoEntry \notin Entry /\ here \in Mount
      BY IntakeAssumption DEF Types, PageTypes
<1>w. UNCHANGED <<wpc, wmsg>> BY DEF Page, workerVars
<1>ok. ServerOK /\ AwaitOK /\ HandsOK /\ EntryOK /\ OnceOK BY DEF QueueOK
<1>s. UNCHANGED messageVars =>
          /\ UNCHANGED <<from, ai, event>>
          /\ \A e \in Entry, m \in Message : SentFrom(m, e)' <=> SentFrom(m, e)
      BY DEF messageVars, SentFrom
<1>from. from \in [Message -> Entry \cup {NoEntry}] BY <1>0 DEF MessageTypes
<1>cur. \A k \in Mount : loop[k] \in {"send", "wait", "drop"} => cur[k] \in Entry /\ Holds(k, cur[k])
        BY <1>0 DEF PageTypes, Sending, Holds
<1>1. ASSUME NEW e \in Entry, Queue(e) PROVE QueueOK'
  <2>1. \A d \in Entry : entry'[d] = IF d = e THEN "queued" ELSE entry[d]
        BY <1>0, <1>1 DEF Queue, PageTypes
  <2>2. /\ entry[e] = "unwritten"
        /\ UNCHANGED <<here, loop, batch, cur, sent, cut, twin, web, from, ai, event>>
        BY <1>1 DEF Queue, loopVars, messageVars
  <2>3. ServerOK' BY <1>ok, <1>w, <2>2 DEF ServerOK
  <2>4. AwaitOK' BY <1>ok, <2>2 DEF AwaitOK, SentFrom
  <2>5. HandsOK' BY <1>ok, <2>1, <2>2 DEF HandsOK, Holds
  <2>6. EntryOK' BY <1>ok, <2>1, <2>2 DEF EntryOK, SentFrom
  <2>7. e \in cut \cup twin \/ \A m \in Message : from[m] # e
        BY <1>0, <1>ok, <1>cur, <2>2 DEF OnceOK, HandsOK
  <2>8. OnceOK' BY <1>from, <1>ok, <2>1, <2>2, <2>7 DEF OnceOK
  <2> QED BY <2>3, <2>4, <2>5, <2>6, <2>8 DEF QueueOK
<1>2. ASSUME NEW m \in Message, Compose(m) PROVE QueueOK'
  <2>1. /\ Store(m, NoEntry)
        /\ UNCHANGED <<entry, here, loop, batch, cur, sent, cut, twin>>
        BY <1>2 DEF Compose, pageVars, loopVars
  <2>2. /\ ServerOK' /\ EntryOK' /\ from[m] = NoEntry /\ web[m] = "off" /\ from'[m] = NoEntry
        /\ \A n \in Message \ {m} : from'[n] = from[n] /\ web'[n] = web[n]
        /\ \A n \in Message, d \in Entry : SentFrom(n, d) => SentFrom(n, d)'
        BY <1>w, <2>1, StoreQueue
  <2>3. AwaitOK'
    <3>1. \A k \in Mount : loop[k] = "drop" => \E n \in Message : SentFrom(n, cur[k])'
          BY <1>ok, <1>cur, <2>1, <2>2 DEF AwaitOK
    <3>2. \A k \in Mount : loop[k] = "wait" =>
              sent[k] \in Message /\ web'[sent[k]] # "off" /\ from'[sent[k]] = cur[k]
          BY <1>ok, <2>2 DEF AwaitOK
    <3> QED BY <1>ok, <2>1, <3>1, <3>2 DEF AwaitOK, SentFrom
  <2>4. HandsOK' BY <1>ok, <2>1 DEF HandsOK, Holds
  <2>5. OnceOK' BY <1>ok, <2>1, <2>2 DEF OnceOK
  <2> QED BY <2>2, <2>3, <2>4, <2>5 DEF QueueOK
<1>3. ASSUME NEW k \in Mount, NEW m \in Message, Post(k, m) PROVE QueueOK'
  <2>1. /\ Store(m, cur[k]) /\ loop[k] = "send" /\ cur[k] \in Entry /\ Holds(k, cur[k])
        /\ UNCHANGED <<entry, here, batch, cur, cut, twin>>
        BY <1>3, <1>cur DEF Post
  <2>2. /\ ServerOK' /\ EntryOK' /\ from[m] = NoEntry /\ web[m] = "off" /\ from'[m] = cur[k]
        /\ web'[m] # "off"
        /\ \A n \in Message \ {m} : from'[n] = from[n] /\ web'[n] = web[n]
        /\ \A n \in Message, d \in Entry : SentFrom(n, d) => SentFrom(n, d)'
        BY <1>w, <2>1, StoreQueue
  <2>3. /\ \A j \in Mount : loop'[j] = IF j = k THEN "wait" ELSE loop[j]
        /\ \A j \in Mount : sent'[j] = IF j = k THEN m ELSE sent[j]
        BY <1>0, <1>3 DEF Post, PageTypes
  <2>4. AwaitOK'
    <3>1. \A j \in Mount : loop'[j] = "drop" => \E n \in Message : SentFrom(n, cur[j])'
          BY <1>ok, <1>cur, <2>1, <2>2, <2>3 DEF AwaitOK
    <3>2. \A j \in Mount : loop'[j] = "wait" =>
              sent'[j] \in Message /\ web'[sent'[j]] # "off" /\ from'[sent'[j]] = cur[j]
          BY <1>ok, <2>2, <2>3 DEF AwaitOK
    <3>3. \A j \in Mount : loop[j] = "wait" => sent[j] # m BY <1>ok, <2>2 DEF AwaitOK
    <3>4. \A i, j \in Mount : loop'[i] = "wait" /\ loop'[j] = "wait" /\ sent'[i] = sent'[j] => i = j
          BY <1>ok, <2>3, <3>3 DEF AwaitOK
    <3> QED BY <2>1, <3>1, <3>2, <3>4 DEF AwaitOK, SentFrom
  <2>5. HandsOK' BY <1>ok, <2>1, <2>3 DEF HandsOK, Holds, Sending
  <2>6. cur[k] \in cut \cup twin \/ (k = here /\ \A n \in Message : from[n] # cur[k])
        BY <1>0, <1>ok, <2>1 DEF OnceOK, HandsOK
  <2>7. OnceOK'
    <3> SUFFICES ASSUME NEW n \in Message, from'[n] # NoEntry, from'[n] \notin cut \cup twin
                 PROVE  /\ \/ entry[from'[n]] = "removed"
                           \/ from'[n] = cur[here] /\ loop'[here] \in {"wait", "drop"}
                        /\ \A i \in Message : from'[i] = from'[n] => i = n
        BY <2>1 DEF OnceOK
    <3>1. CASE n = m BY <2>2, <2>3, <2>6, <3>1, <1>0
    <3>2. CASE n # m
      <4>1. from[n] # cur[k] BY <2>2, <2>6, <3>2
      <4>2. /\ entry[from[n]] = "removed" \/ (from[n] = cur[here] /\ loop[here] \in {"wait", "drop"})
            /\ \A i \in Message : from[i] = from[n] => i = n
            BY <1>ok, <2>2, <3>2 DEF OnceOK
      <4> QED BY <1>0, <2>1, <2>2, <2>3, <3>2, <4>1, <4>2
    <3> QED BY <3>1, <3>2
  <2> QED BY <2>2, <2>4, <2>5, <2>7 DEF QueueOK
<1>4. ASSUME NEW k \in Mount, Resend(k) PROVE QueueOK'
  <2>1. /\ k = here /\ loop[k] = "off"
        /\ \A j \in Mount : loop'[j] = IF j = k THEN "next" ELSE loop[j]
        /\ \A j \in Mount : batch'[j] = IF j = k THEN {e \in Entry : entry[e] = "queued"} ELSE batch[j]
        /\ UNCHANGED <<entry, here, cur, sent, cut, twin, from, ai, event, web>>
        BY <1>0, <1>4 DEF Resend, Start, PageTypes, messageVars
  <2>2. ServerOK' BY <1>ok, <1>w, <2>1 DEF ServerOK
  <2>3. AwaitOK' BY <1>ok, <2>1 DEF AwaitOK, SentFrom
  <2>4. HandsOK' BY <1>ok, <2>1 DEF HandsOK, Holds, Sending
  <2>5. EntryOK' BY <1>ok, <2>1 DEF EntryOK, SentFrom
  <2>6. OnceOK' BY <1>ok, <2>1 DEF OnceOK
  <2> QED BY <2>2, <2>3, <2>4, <2>5, <2>6 DEF QueueOK
<1>5. ASSUME NEW k \in Mount, Remount(k) PROVE QueueOK'
  <2>1. /\ here' = k /\ twin \subseteq twin'
        /\ UNCHANGED <<entry, loop, batch, cur, sent, cut, from, ai, event, web>>
        BY <1>5 DEF Remount, loopVars, messageVars
  <2>2. \A j \in Mount, e \in Entry : Holds(j, e) => e \in twin'
        BY <1>5, HandHolds DEF Remount
  <2>3. ServerOK' /\ EntryOK' BY <1>ok, <1>w, <2>1 DEF ServerOK, EntryOK, SentFrom
  <2>4. AwaitOK' BY <1>ok, <2>1 DEF AwaitOK, SentFrom
  <2>5. HandsOK' BY <1>ok, <2>1, <2>2 DEF HandsOK, Holds
  <2>6. OnceOK' BY <1>0, <1>ok, <1>cur, <2>1, <2>2 DEF OnceOK
  <2> QED BY <2>3, <2>4, <2>5, <2>6 DEF QueueOK
<1>6. ASSUME NEW k \in Mount, NextMessage(k) PROVE QueueOK'
  <2>1. /\ loop[k] = "next" /\ UNCHANGED <<entry, here, sent, cut, twin, messageVars, web>>
        /\ loop'[k] \in {"send", "off"}
        /\ loop'[k] = "send" => cur'[k] \in batch[k] /\ cur'[k] \notin batch'[k]
        /\ batch'[k] \subseteq batch[k]
        /\ \A j \in Mount \ {k} : UNCHANGED <<loop[j], cur[j], batch[j]>>
        BY <1>0, <1>6 DEF NextMessage, PageTypes
  <2>2. \A j \in Mount, e \in Entry : Holds(j, e)' => Holds(j, e) BY <2>1 DEF Holds, Sending
  <2>3. ASSUME NEW j \in Mount
        PROVE  /\ loop'[j] \in Sending /\ cur'[j] \in batch'[j]
                      => loop[j] \in Sending /\ cur[j] \in batch[j] /\ cur'[j] = cur[j]
               /\ loop'[j] = "wait" => /\ loop[j] = "wait" /\ sent'[j] = sent[j] /\ cur'[j] = cur[j]
                                       /\ web'[sent[j]] # "off"
               /\ loop'[j] = "drop" => loop[j] = "drop" /\ cur'[j] = cur[j]
               /\ loop[j] \in {"wait", "drop"} =>
                      \/ loop'[j] \in {"wait", "drop"} /\ cur'[j] = cur[j]
                      \/ cur[j] \in cut'
        BY <1>ok, <2>1 DEF AwaitOK, Sending
  <2> QED BY <1>w, <2>1, <2>2, <2>3, LoopFrame
<1>7. ASSUME NEW k \in Mount, Refused(k) PROVE QueueOK'
  <2>1. /\ loop[k] = "send" /\ AttemptFails(k)
        /\ UNCHANGED <<messageVars, web, entry, here, batch, cur, cut, twin>>
        BY <1>7 DEF Refused
  <2> QED BY <1>w, <2>1, AttemptQueue DEF Sending
<1>8. ASSUME NEW m \in Message, Answer(m) PROVE QueueOK'
  <2>1. /\ web[m] = "reply" /\ UNCHANGED <<entry, here, batch, cur, sent, cut, twin, from, ai, event>>
        /\ \A n \in Message : web'[n] = IF n = m THEN "off" ELSE web[n]
        /\ \A k \in Mount : loop'[k] = IF loop[k] = "wait" /\ sent[k] = m THEN "drop" ELSE loop[k]
        BY <1>0, <1>8 DEF Answer, Served, Awaits, messageVars, PageTypes
  <2>2. ServerOK' BY <1>ok, <1>w, <2>1 DEF ServerOK
  <2>3. AwaitOK'
    <3>1. \A k \in Mount : loop'[k] = "drop" => \E n \in Message : SentFrom(n, cur[k])
          BY <1>ok, <2>1 DEF AwaitOK, ServerOK, SentFrom
    <3> QED BY <1>ok, <2>1, <3>1 DEF AwaitOK, SentFrom
  <2>4. HandsOK' BY <1>ok, <2>1 DEF HandsOK, Holds, Sending
  <2>5. EntryOK' BY <1>ok, <2>1 DEF EntryOK, SentFrom
  <2>6. OnceOK' BY <1>0, <1>ok, <2>1 DEF OnceOK
  <2> QED BY <2>2, <2>3, <2>4, <2>5, <2>6 DEF QueueOK
<1>9. ASSUME NEW m \in Message, NoAnswer(m) PROVE QueueOK'
  <2>1. /\ UNCHANGED <<entry, here, batch, cur, twin, messageVars>>
        /\ \A n \in Message : web'[n] = IF n = m THEN "off" ELSE web[n]
        BY <1>0, <1>9 DEF NoAnswer, Served, PageTypes
  <2>2. \A j \in Mount : loop[j] = "wait" => sent[j] \in Message BY <1>ok DEF AwaitOK
  <2>3. ASSUME NEW k \in Mount, Awaits(k, m), AttemptFails(k), CutShort({k}) PROVE QueueOK'
    <3>1. loop[k] = "wait" /\ sent[k] = m BY <2>3 DEF Awaits
    <3>2. \A j \in Mount \ {k} : loop[j] = "wait" => sent[j] # m BY <1>ok, <3>1 DEF AwaitOK
    <3>3. \A j \in Mount \ {k} : loop[j] = "wait" => web'[sent[j]] = web[sent[j]]
          BY <2>1, <2>2, <3>2
    <3>4. \A n \in Message : web'[n] \in {web[n], "off"} BY <2>1
    <3> QED BY <1>w, <2>1, <2>3, <3>1, <3>3, <3>4, AttemptQueue DEF Sending
  <2>4. ASSUME \A k \in Mount : ~Awaits(k, m), UNCHANGED <<loop, sent, cut>> PROVE QueueOK'
    <3>1. \A j \in Mount : loop[j] = "wait" => web'[sent[j]] # "off"
          BY <1>ok, <2>1, <2>2, <2>4 DEF Awaits, AwaitOK
    <3>2. \A n \in Message : web'[n] \in {web[n], "off"} BY <2>1
    <3>3. \A j \in Mount, e \in Entry : Holds(j, e)' => Holds(j, e) BY <2>1, <2>4 DEF Holds
    <3> QED BY <1>w, <2>1, <2>4, <3>1, <3>2, <3>3, LoopFrame
  <2> QED BY <1>9, <2>3, <2>4 DEF NoAnswer
<1>10. ASSUME NEW k \in Mount, Drop(k) PROVE QueueOK'
  <2>0. /\ loop[k] = "drop" /\ cur[k] \in Entry /\ Holds(k, cur[k])
        /\ \E m \in Message : SentFrom(m, cur[k])
        /\ UNCHANGED <<here, batch, cur, twin, messageVars, web>>
        BY <1>ok, <1>cur, <1>10 DEF Drop, AwaitOK
  <2>1. CASE /\ entry' = [entry EXCEPT ![cur[k]] = "removed"]
             /\ loop' = [loop EXCEPT ![k] = "next"]
             /\ sent' = [sent EXCEPT ![k] = NoMessage]
             /\ UNCHANGED cut
    <3>1. /\ \A e \in Entry : entry'[e] = IF e = cur[k] THEN "removed" ELSE entry[e]
          /\ \A j \in Mount : loop'[j] = IF j = k THEN "next" ELSE loop[j]
          /\ \A j \in Mount \ {k} : sent'[j] = sent[j]
          BY <1>0, <2>1 DEF PageTypes
    <3>2. ServerOK' BY <1>ok, <1>s, <1>w, <2>0 DEF ServerOK
    <3>3. AwaitOK' BY <1>ok, <1>s, <2>0, <3>1 DEF AwaitOK, SentFrom
    <3>4. HandsOK'
      <4>1. \A j \in Mount, e \in Entry : Holds(j, e)' => Holds(j, e)
            BY <2>0, <3>1 DEF Holds, Sending
      <4>2. ASSUME NEW j \in Mount, NEW e \in Entry, e = cur[k], Holds(j, e)', e \notin twin
            PROVE  FALSE
        <5>1. j = here /\ k = here BY <1>ok, <2>0, <4>1, <4>2 DEF HandsOK
        <5>2. cur[k] \in batch[k] BY <2>0, <3>1, <4>2, <5>1 DEF Holds, Sending
        <5> QED BY <1>ok, <2>0, <4>2, <5>2 DEF HandsOK, Sending
      <4>3. \A j \in Mount, e \in Entry :
                Holds(j, e)' /\ e \notin twin => j = here /\ entry'[e] = "queued"
            BY <1>ok, <3>1, <4>1, <4>2 DEF HandsOK
      <4>4. \A j \in Mount : loop'[j] \in Sending /\ cur[j] \in batch[j] => cur[j] \in twin
            BY <1>ok, <3>1 DEF HandsOK, Sending
      <4> QED BY <2>0, <4>3, <4>4 DEF HandsOK
    <3>5. EntryOK' BY <1>ok, <1>s, <2>0, <3>1 DEF EntryOK
    <3>6. OnceOK'
      <4> SUFFICES ASSUME NEW n \in Message, from[n] # NoEntry, from[n] \notin cut \cup twin
                   PROVE  /\ \/ entry'[from[n]] = "removed"
                             \/ from[n] = cur[here] /\ loop'[here] \in {"wait", "drop"}
                          /\ \A i \in Message : from[i] = from[n] => i = n
          BY <1>s, <2>0, <2>1 DEF OnceOK
      <4>1. /\ entry[from[n]] = "removed" \/ (from[n] = cur[here] /\ loop[here] \in {"wait", "drop"})
            /\ \A i \in Message : from[i] = from[n] => i = n
            BY <1>ok DEF OnceOK
      <4> QED BY <1>0, <1>from, <3>1, <4>1
    <3> QED BY <3>2, <3>3, <3>4, <3>5, <3>6 DEF QueueOK
  <2>2. CASE AttemptFails(k) /\ CutShort({k}) /\ UNCHANGED entry
        BY <1>w, <2>0, <2>2, AttemptQueue DEF Sending
  <2> QED BY <1>10, <2>1, <2>2 DEF Drop
<1>11. CASE Reload
  <2>1. /\ UNCHANGED <<entry, here, twin, messageVars, web>>
        /\ CutShort(Mount)
        /\ \A k \in Mount : loop'[k] = "off" /\ batch'[k] = {}
        BY <1>11 DEF Reload
  <2>2. cut \subseteq cut' /\ \A k \in Mount : loop[k] \in {"wait", "drop"} => cur[k] \in cut'
        BY <2>1 DEF CutShort
  <2>3. \A j \in Mount, e \in Entry : ~Holds(j, e)' BY <2>1 DEF Holds, Sending
  <2> QED BY <1>w, <2>1, <2>2, <2>3, LoopFrame DEF Sending
<1>12. ASSUME NEW m \in Message, StoreEvent(m) PROVE QueueOK'
  <2>1. /\ web[m] = "event"
        /\ UNCHANGED <<from, ai, entry, here, loop, batch, cur, sent, cut, twin>>
        /\ \A n \in Message : event'[n] = IF n = m THEN "pending" ELSE event[n]
        /\ \A n \in Message : web'[n] = IF n = m THEN "reply" ELSE web[n]
        BY <1>0, <1>12 DEF StoreEvent, pageVars, loopVars, MessageTypes, PageTypes
  <2>2. ServerOK' BY <1>ok, <1>w, <2>1 DEF ServerOK
  <2>3. \A e \in Entry, n \in Message : SentFrom(n, e) => SentFrom(n, e)'
        BY <2>1 DEF SentFrom
  <2>4. EntryOK' BY <1>ok, <2>1, <2>3 DEF EntryOK
  <2>5. AwaitOK'
    <3>1. \A k \in Mount : loop[k] = "drop" => \E n \in Message : SentFrom(n, cur[k])'
          BY <1>ok, <1>cur, <2>1, <2>3 DEF AwaitOK
    <3>2. \A k \in Mount : loop[k] = "wait" => web'[sent[k]] # "off"
          BY <1>ok, <2>1 DEF AwaitOK
    <3> QED BY <1>ok, <2>1, <3>1, <3>2 DEF AwaitOK, SentFrom
  <2>6. HandsOK' BY <1>ok, <2>1 DEF HandsOK, Holds
  <2>7. OnceOK' BY <1>ok, <2>1 DEF OnceOK
  <2> QED BY <2>2, <2>4, <2>5, <2>6, <2>7 DEF QueueOK
<1> QED BY <1>1, <1>2, <1>3, <1>4, <1>5, <1>6, <1>7, <1>8, <1>9, <1>10, <1>11, <1>12 DEF Page

LEMMA QueueInductive == Types /\ QueueOK /\ [Next]_vars => QueueOK'
<1> SUFFICES ASSUME Types, QueueOK, [Next]_vars PROVE QueueOK' OBVIOUS
<1>1. MessageTypes /\ WorkerTypes BY DEF Types
<1>2. ASSUME UNCHANGED intakeVars PROVE QueueOK'
  <2>1. UNCHANGED <<from, ai, event, wpc, wmsg, entry, here, loop, batch, cur, sent, cut, twin, web>>
        BY <1>2 DEF intakeVars, messageVars, workerVars, pageVars, loopVars
  <2>2. \A w \in Worker : wpc'[w] # "idle" => wmsg'[w] \in Message /\ ai'[wmsg'[w]] # "absent"
        BY <1>1, <2>1 DEF WorkerTypes, QueueOK, ServerOK
  <2> QED BY <2>1, <2>2, QueueFrame
<1>3. ASSUME NEW m \in Message, Override(m) PROVE QueueOK'
  <2>1. UNCHANGED <<from, event, wpc, wmsg, entry, here, loop, batch, cur, sent, cut, twin, web>>
        BY <1>3 DEF Override, workerVars, pageVars, loopVars
  <2>2. \A n \in Message : ai[n] # "absent" => ai'[n] # "absent"
        BY <1>1, <1>3 DEF Override, MessageTypes
  <2>3. \A w \in Worker : wpc'[w] # "idle" => wmsg'[w] \in Message /\ ai'[wmsg'[w]] # "absent"
        BY <1>1, <2>1, <2>2 DEF WorkerTypes, QueueOK, ServerOK
  <2> QED BY <2>1, <2>2, <2>3, QueueFrame
<1>4. CASE UNCHANGED vars BY <1>2, <1>4 DEF vars
<1> QED BY <1>2, <1>3, <1>4, PageStepQueue, WorkerStepQueue DEF Next

(* Whatever answers are lost, requests repeated and pages loaded again, a   *)
(* message that leaves the offline queue is stored and has its event; and   *)
(* it is stored once unless a sending of it was cut short or a loop still   *)
(* had to send it when the workspace was mounted again.                     *)
THEOREM QueueIsSafe == Spec => []QueueLosesNothing
<1>1. Init => QueueOK
      BY DEF Init, SuggestionInit, QueueOK, ServerOK, AwaitOK, HandsOK, Holds, Sending, EntryOK,
             OnceOK
<1>2. QueueOK => QueueLosesNothing
  <2> SUFFICES ASSUME QueueOK, NEW e \in Entry
               PROVE  /\ entry[e] = "removed" =>
                             \E m \in Message : from[m] = e /\ event[m] # "none"
                      /\ Cardinality({m \in Message : from[m] = e}) > 1
                             => e \in cut \cup twin
      BY DEF QueueLosesNothing
  <2>1. entry[e] = "removed" => \E m \in Message : from[m] = e /\ event[m] # "none"
        BY DEF QueueOK, EntryOK, SentFrom
  <2>2. ASSUME e \notin cut \cup twin PROVE ~(Cardinality({m \in Message : from[m] = e}) > 1)
    <3> DEFINE copies == {m \in Message : from[m] = e}
    <3>1. CASE copies = {} BY <3>1, FS_EmptySet
    <3>2. CASE copies # {}
      <4>1. PICK m \in copies : TRUE BY <3>2
      <4>2. copies = {m} BY <2>2, <4>1, IntakeAssumption DEF QueueOK, OnceOK
      <4>3. Cardinality({m}) = 1 BY FS_Singleton
      <4> QED BY <4>2, <4>3
    <3> QED BY <3>1, <3>2
  <2> QED BY <2>1, <2>2
<1>3. Spec => []Types BY InitTypes, TypesInductive, PTL DEF Spec
<1> HIDE DEF Types, QueueOK, QueueLosesNothing
<1> QED BY <1>1, <1>2, <1>3, QueueInductive, PTL DEF Spec
=============================================================================
