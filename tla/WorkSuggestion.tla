--------------------------- MODULE WorkSuggestion ---------------------------
(***************************************************************************)
(* Suggestions and what people make of them (work-suggestion.service.ts):  *)
(* the statements of accept, dismiss and assign, which any number of web   *)
(* requests execute at the same time, and any of which may be the last one *)
(* of its request.  Nothing is a transaction: only the condition of the    *)
(* update that decides a suggestion, the unique key of the task and what a *)
(* loser finds when it looks again keep them apart.                        *)
(***************************************************************************)
EXTENDS Integers, FiniteSets

CONSTANTS
    Call,         \* the requests; a user who tries again makes another one
    Row,          \* the rows of the collection of suggestions
    Message,
    NoTask,
    NoRow,
    NoMessage,
    Limits        \* bounds on what one behaviour may contain, its mishaps among them

ASSUME SuggestionAssumption ==
    /\ NoTask \notin Call /\ NoRow \notin Row /\ NoMessage \notin Message

VARIABLES
    limit,    \* the bounds of this behaviour, which never change
    status,   \* status[r]: suggestion.status, "none" for a row that is not there
    of,       \* of[r]: its messageId
    tool,     \* tool[r]: it has a suggestedTool
    linked,   \* linked[r]: its convertedTaskId
    task,     \* task[r]: the task stored under its accept key, by who made it
    told,     \* told[r]: the events enqueued for it and for its task
    proposed, \* proposed[r]: the tasks with a proposal of its tool
    accepted, \* history: the suggestions whose accept was answered with success
    pc,       \* pc[c]: the next statement of request c
    at,       \* at[c]: its suggestion
    mine,     \* mine[c]: the task it holds
    made,     \* made[c]: and whether it created it
    mishaps   \* how many mishaps there were

rowVars == <<status, of, tool, linked, task, told, proposed, accepted>>
callVars == <<pc, at, mine, made>>

Topics == {"accepted", "created", "dismissed", "updated"}
Statuses == {"none", "proposed", "converted", "dismissed"}

(* accept: the positions in the order of the code; dismiss; assign *)
AcceptPCs == {"lookup", "repropose", "reannounce", "find", "insert", "refind", "cas",
              "announce", "fanout", "confirm", "propose", "reread", "recheck", "discard"}
DismissPCs == {"strike", "restrike", "regret"}
AssignPCs == {"update", "tell"}
PCs == {"new", "over", "dead"} \cup AcceptPCs \cup DismissPCs \cup AssignPCs

SuggestionTypes ==
    /\ limit \in Limits
    /\ status \in [Row -> Statuses]
    /\ of \in [Row -> Message \cup {NoMessage}]
    /\ tool \in [Row -> BOOLEAN]
    /\ linked \in [Row -> Call \cup {NoTask}]
    /\ task \in [Row -> Call \cup {NoTask}]
    /\ told \in [Row -> SUBSET Topics]
    /\ proposed \in [Row -> SUBSET (Call \cup {NoTask})]
    /\ accepted \subseteq Row
    /\ pc \in [Call -> PCs]
    /\ at \in [Call -> Row \cup {NoRow}]
    /\ mine \in [Call -> Call \cup {NoTask}]
    /\ made \in [Call -> BOOLEAN]
    /\ mishaps \in Nat

SuggestionInit ==
    /\ limit \in Limits
    /\ status = [r \in Row |-> "none"]
    /\ of = [r \in Row |-> NoMessage]
    /\ tool = [r \in Row |-> FALSE]
    /\ linked = [r \in Row |-> NoTask]
    /\ task = [r \in Row |-> NoTask]
    /\ told = [r \in Row |-> {}]
    /\ proposed = [r \in Row |-> {}]
    /\ accepted = {}
    /\ pc = [c \in Call |-> "new"]
    /\ at = [c \in Call |-> NoRow]
    /\ mine = [c \in Call |-> NoTask]
    /\ made = [c \in Call |-> FALSE]
    /\ mishaps = 0

-----------------------------------------------------------------------------
(* Request c goes on at l, about row r, with task t, which it has created  *)
(* if new is true; a request that is over has nothing any more             *)
Proceed(c, l, r, t, new) ==
    /\ pc' = [pc EXCEPT ![c] = l]
    /\ at' = [at EXCEPT ![c] = IF l = "over" THEN NoRow ELSE r]
    /\ mine' = [mine EXCEPT ![c] = IF l = "over" THEN NoTask ELSE t]
    /\ made' = [made EXCEPT ![c] = l # "over" /\ new]
Goto(c, l) == Proceed(c, l, at[c], mine[c], made[c])

(* Enqueues an event; one with the same key that is there already stays.   *)
(* The key of task.updated has the date of the update.                     *)
Enqueue(r, topic) == told' = [told EXCEPT ![r] = @ \cup {topic}]

Mishap(f) == f \in limit.faults /\ mishaps < limit.mishaps /\ mishaps' = mishaps + 1

(* createWorkSuggestion: one proposed row per message (unique index) *)
HasProposal(m) == \E r \in Row : status[r] = "proposed" /\ of[r] = m
Suggest(m, r) ==
    /\ status[r] = "none" /\ ~HasProposal(m)
    /\ status' = [status EXCEPT ![r] = "proposed"]
    /\ of' = [of EXCEPT ![r] = m]
    /\ \E hasTool \in BOOLEAN : tool' = [tool EXCEPT ![r] = hasTool]
    /\ UNCHANGED <<linked, task, told, proposed, accepted>>

(* variant: an id of the database compared with === *)
ClaimedBy_Never(r, t) == status[r] = "converted" /\ linked[r] = t /\ t = NoTask

(* The suggestion has been converted into task t *)
ClaimedBy(r, t) == status[r] = "converted" /\ linked[r] = t

-----------------------------------------------------------------------------
(* acceptWorkSuggestion *)

Begins(c, r) ==
    /\ pc[c] = "new" /\ status[r] # "none"
    /\ Cardinality({d \in Call : pc[d] # "new"}) < limit.calls

(* loadSuggestionOrThrow and the branches on what it finds *)
Accept(c, r) ==
    /\ Begins(c, r)
    /\ \/ status[r] = "converted" /\ Proceed(c, "lookup", r, linked[r], FALSE)
       \/ status[r] = "proposed" /\ Proceed(c, "find", r, NoTask, FALSE)
       \/ status[r] = "dismissed" /\ Goto(c, "over")
    /\ UNCHANGED <<rowVars, mishaps>>

(* It is converted: the task is looked up by its id, and what an earlier   *)
(* request may have left undone is repeated                                *)
LookUp(c) ==
    /\ pc[c] = "lookup"
    /\ Goto(c, IF task[at[c]] = mine[c] THEN "repropose" ELSE "over")
    /\ UNCHANGED <<rowVars, mishaps>>

(* createOrReuseAcceptTask *)
Reuse(c) == task[at[c]] # NoTask /\ Proceed(c, "cas", at[c], task[at[c]], FALSE)
Find(c) ==
    /\ pc[c] = "find"
    /\ Reuse(c) \/ (task[at[c]] = NoTask /\ Goto(c, "insert"))
    /\ UNCHANGED <<rowVars, mishaps>>

Insert(c) ==
    /\ pc[c] = "insert"
    /\ \/ /\ task[at[c]] = NoTask
          /\ task' = [task EXCEPT ![at[c]] = c]
          /\ Proceed(c, "cas", at[c], c, TRUE)
       \/ task[at[c]] # NoTask /\ Goto(c, "refind") /\ UNCHANGED task
    /\ UNCHANGED <<status, of, tool, linked, told, proposed, accepted, mishaps>>

(* After a duplicate key; the task may be gone again, and the error is thrown *)
Refind(c) ==
    /\ pc[c] = "refind"
    /\ Reuse(c) \/ (task[at[c]] = NoTask /\ Goto(c, "over"))
    /\ UNCHANGED <<rowVars, mishaps>>

(* variant: the update addresses the suggestion by its id alone *)
Convert_Always(c) ==
    /\ pc[c] = "cas" /\ Goto(c, "announce")
    /\ status' = [status EXCEPT ![at[c]] = "converted"]
    /\ linked' = [linked EXCEPT ![at[c]] = mine[c]]
    /\ UNCHANGED <<of, tool, task, told, proposed, accepted, mishaps>>

(* The update that is conditional on the status *)
Convert(c) ==
    /\ pc[c] = "cas"
    /\ \/ /\ status[at[c]] = "proposed"
          /\ status' = [status EXCEPT ![at[c]] = "converted"]
          /\ linked' = [linked EXCEPT ![at[c]] = mine[c]]
          /\ Goto(c, "announce")
       \/ /\ status[at[c]] # "proposed"
          /\ Goto(c, "reread") /\ UNCHANGED <<status, linked>>
    /\ UNCHANGED <<of, tool, task, told, proposed, accepted, mishaps>>

(* What the loser finds: its own task, or another verdict *)
Reread(c) ==
    /\ pc[c] = "reread"
    /\ Goto(c, IF ClaimedBy(at[c], mine[c]) THEN "confirm"
               ELSE IF made[c] THEN "recheck" ELSE "over")
    /\ UNCHANGED <<rowVars, mishaps>>

(* enqueueSuggestionAcceptedOutbox, for the winner, for a loser whose task *)
(* has won, and, after the proposal, where an earlier accept is repeated   *)
TellAccepted(c, l, next) ==
    /\ pc[c] = l /\ Goto(c, next) /\ Enqueue(at[c], "accepted")
    /\ UNCHANGED <<status, of, tool, linked, task, proposed, mishaps>>
Announce(c) ==
    /\ \/ TellAccepted(c, "announce", IF made[c] THEN "fanout" ELSE "propose")
       \/ TellAccepted(c, "confirm", "propose")
    /\ UNCHANGED accepted

(* variant: the repetition of an accept without its event *)
Reannounce_Silent(c) ==
    /\ pc[c] = "reannounce" /\ Goto(c, "over") /\ accepted' = accepted \cup {at[c]}
    /\ UNCHANGED <<status, of, tool, linked, task, told, proposed, mishaps>>

Reannounce(c) ==
    TellAccepted(c, "reannounce", "over") /\ accepted' = accepted \cup {at[c]}

(* enqueueTaskCreatedFanout *)
FanOut(c) ==
    /\ pc[c] = "fanout" /\ Goto(c, "propose")
    /\ Enqueue(at[c], "created")
    /\ UNCHANGED <<status, of, tool, linked, task, proposed, accepted, mishaps>>

(* proposeExecutionFromSuggestion: at most one action per task and tool *)
Propose(c) ==
    /\ \/ /\ pc[c] = "propose"
          /\ Goto(c, "over") /\ accepted' = accepted \cup {at[c]}
       \/ /\ pc[c] = "repropose"
          /\ Goto(c, "reannounce") /\ UNCHANGED accepted
    /\ proposed' = IF tool[at[c]] THEN [proposed EXCEPT ![at[c]] = @ \cup {mine[c]}]
                   ELSE proposed
    /\ UNCHANGED <<status, of, tool, linked, task, told, mishaps>>

(* discardOrphanAcceptTask: looks once more, then deletes by id *)
Recheck(c) ==
    /\ pc[c] = "recheck"
    /\ Goto(c, IF ClaimedBy(at[c], mine[c]) THEN "over" ELSE "discard")
    /\ UNCHANGED <<rowVars, mishaps>>

(* variant: the loser leaves its task behind *)
Discard_Forgets(c) ==
    /\ pc[c] = "discard" /\ Goto(c, "over")
    /\ UNCHANGED <<rowVars, mishaps>>

Discard(c) ==
    /\ pc[c] = "discard" /\ Goto(c, "over")
    /\ task' = IF task[at[c]] = mine[c] THEN [task EXCEPT ![at[c]] = NoTask] ELSE task
    /\ UNCHANGED <<status, of, tool, linked, told, proposed, accepted, mishaps>>

-----------------------------------------------------------------------------
(* dismissWorkSuggestion *)

Dismiss(c, r) ==
    /\ Begins(c, r)
    /\ Proceed(c, IF status[r] = "proposed" THEN "strike"
                  ELSE IF status[r] = "dismissed" THEN "regret" ELSE "over", r, NoTask, FALSE)
    /\ UNCHANGED <<rowVars, mishaps>>

(* variant: the update is not conditional on the status *)
Strike_Always(c) ==
    /\ pc[c] = "strike"
    /\ status' = [status EXCEPT ![at[c]] = "dismissed"] /\ Goto(c, "regret")
    /\ UNCHANGED <<of, tool, linked, task, told, proposed, accepted, mishaps>>

Strike(c) ==
    /\ pc[c] = "strike"
    /\ \/ /\ status[at[c]] = "proposed"
          /\ status' = [status EXCEPT ![at[c]] = "dismissed"] /\ Goto(c, "regret")
       \/ status[at[c]] # "proposed" /\ Goto(c, "restrike") /\ UNCHANGED status
    /\ UNCHANGED <<of, tool, linked, task, told, proposed, accepted, mishaps>>

Restrike(c) ==
    /\ pc[c] = "restrike"
    /\ Goto(c, IF status[at[c]] = "dismissed" THEN "regret" ELSE "over")
    /\ UNCHANGED <<rowVars, mishaps>>

Regret(c) ==
    /\ pc[c] = "regret" /\ Goto(c, "over")
    /\ Enqueue(at[c], "dismissed")
    /\ UNCHANGED <<status, of, tool, linked, task, proposed, accepted, mishaps>>

-----------------------------------------------------------------------------
(* assignWorkSuggestion *)

Assign(c, r) ==
    /\ Begins(c, r)
    /\ Proceed(c, IF status[r] = "converted" THEN "update" ELSE "over", r, linked[r], FALSE)
    /\ UNCHANGED <<rowVars, mishaps>>

UpdateTask(c) ==
    /\ pc[c] = "update"
    /\ Goto(c, IF task[at[c]] = mine[c] THEN "tell" ELSE "over")
    /\ UNCHANGED <<rowVars, mishaps>>

TellUpdated(c) ==
    /\ pc[c] = "tell" /\ Goto(c, "over")
    /\ Enqueue(at[c], "updated")
    /\ UNCHANGED <<status, of, tool, linked, task, proposed, accepted, mishaps>>

-----------------------------------------------------------------------------
(* A statement fails, or its process dies: nothing after it is executed *)
Dies(c) ==
    /\ pc[c] \notin {"new", "over", "dead"} /\ Mishap("crash")
    /\ pc' = [pc EXCEPT ![c] = "dead"]
    /\ at' = [at EXCEPT ![c] = NoRow]
    /\ mine' = [mine EXCEPT ![c] = NoTask]
    /\ made' = [made EXCEPT ![c] = FALSE]
    /\ UNCHANGED rowVars

CallNext ==
    \E c \in Call :
        \/ \E r \in Row : Accept(c, r) \/ Dismiss(c, r) \/ Assign(c, r)
        \/ LookUp(c) \/ Find(c) \/ Insert(c) \/ Refind(c) \/ Convert(c) \/ Reread(c)
        \/ Announce(c) \/ Reannounce(c) \/ FanOut(c) \/ Propose(c)
        \/ Recheck(c) \/ Discard(c)
        \/ Strike(c) \/ Restrike(c) \/ Regret(c)
        \/ UpdateTask(c) \/ TellUpdated(c)
        \/ Dies(c)

-----------------------------------------------------------------------------
(* Properties *)

(* A suggestion that has been converted has its task, the one stored under *)
(* its key: a request that created the task and lost the update does not   *)
(* delete it under the request that won. (discardOrphanAcceptTask)         *)
ConvertedHasTask ==
    \A r \in Row : status[r] = "converted" => linked[r] # NoTask /\ task[r] = linked[r]

(* A task made for a suggestion that was not converted into it is still in *)
(* the hands of the request that made it, which deletes it, or that        *)
(* request was stopped: whoever else took the task, lost with it or was    *)
(* stopped in the meantime. (acceptWorkSuggestion creates it before it     *)
(* knows who wins)                                                         *)
NoOrphanTask ==
    \A r \in Row : task[r] # linked[r] =>
        \E c \in Call : c = task[r] /\ (at[c] = r \/ pc[c] = "dead")

(* Nobody is told of a verdict that is not the one that stays, and never   *)
(* of both. (accept and dismiss at the same time)                          *)
OneVerdict ==
    \A r \in Row :
        /\ "accepted" \in told[r] => status[r] = "converted"
        /\ "dismissed" \in told[r] => status[r] = "dismissed"

(* An accept that was answered with success, by whichever of its branches, *)
(* has told of it, and proposed the tool of the suggestion exactly once,   *)
(* for the task that stays.  This is why the repetition of an accept that  *)
(* was interrupted repeats its statements.                                 *)
AcceptIsComplete ==
    \A r \in accepted :
        /\ status[r] = "converted" /\ "accepted" \in told[r]
        /\ tool[r] => proposed[r] = {linked[r]}

(* The verdicts on r that have been announced *)
Heard(r) == {v \in {"converted", "dismissed"} :
                IF v = "converted" THEN "accepted" \in told[r] ELSE "dismissed" \in told[r]}

(* Requests that stop anywhere and race with each other keep the promise   *)
(* of SuggestionVerdict: one decision, one task, and no announcement of    *)
(* anything else, repeated as often as it may be. (the three conditional   *)
(* updates and the order of the statements around them)                    *)
Verdict == INSTANCE SuggestionVerdict
               WITH Task <- Call, verdict <- status, into <- linked,
                    heard <- [r \in Row |-> Heard(r)]
DecidedOnce == Verdict!Spec
=============================================================================
