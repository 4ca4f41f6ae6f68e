--------------------------- MODULE MessageIntake ----------------------------
(***************************************************************************)
(* From a message to work.  A message is typed offline and sent again and  *)
(* again until it is stored (useOfflineMessageSync.ts, message.service.ts),*)
(* leaves an event, is classified by a worker (task-intelligence.service.  *)
(* ts), and becomes a suggestion, which people decide about (module        *)
(* WorkSuggestion), or a task that an agent is asked to execute.  The      *)
(* messages are text; the event of any other kind is done at once.         *)
(***************************************************************************)
EXTENDS WorkSuggestion

CONSTANTS
    Worker,
    Entry,        \* the messages typed while offline
    NoEntry,
    Mount,        \* the times the chat workspace is mounted, of which a page of the app has
                  \* one at a time; each has a ref isResending of its own
    FirstMount,
    MaxAttempts   \* attempts per message and round; 5 in the code

(* "crash"   a worker dies, or a request for a suggestion                  *)
(* "overrun" the event of a worker is given to another one                 *)
(* "emit"    the socket server is not told what was stored                 *)
(* "web"     the server dies before it has answered                        *)
(* "reply"   its answer is lost                                            *)
(* "removal" the queue of the browser fails to delete an entry             *)
(* "reload"  the page is loaded again                                      *)
FaultKinds == {"crash", "overrun", "emit", "web", "reply", "removal", "reload"}

ASSUME IntakeAssumption ==
    /\ NoEntry \notin Entry
    /\ FirstMount \in Mount
    /\ MaxAttempts \in Nat \ {0}
    /\ Limits \subseteq [calls : Nat, rows : Nat, messages : Nat, entries : Nat,
                         workers : Nat, manual : Nat, mishaps : Nat, txn : BOOLEAN,
                         faults : SUBSET FaultKinds]

VARIABLES
    from,     \* from[m]: the entry of the queue it was sent from, or NoEntry
    ai,       \* ai[m]: message.aiStatus, "absent" before it is stored
    sort,     \* sort[m]: message.semanticType and semanticConfidence: "task" is a type of work
              \* that is sure enough to act on, "hunch" one that is not
    manual,   \* manual[m]: message.manualOverride
    event,    \* event[m]: the outbox event message.created
    work,     \* the messages with a task of their own
    asked,    \* the messages whose task an agent was asked to execute
    wpc, wmsg,\* the place of worker w, and the message whose event it handles
    entry,    \* entry[e]: "unwritten", "queued" or "removed"
    here,     \* the mount that is on the screen
    loop,     \* loop[k]: the place of the resending loop of mount k
    batch,    \* batch[k]: the entries it has still to send
    cur,      \* cur[k]: the one it is sending
    tries,    \* tries[k]: its attempts at it
    sent,     \* sent[k]: the message whose answer it waits for
    cut,      \* history: the entries of which a sending was cut short once it had begun
    twin,     \* history: those a loop still had to send when the workspace was mounted again
    web       \* web[m]: the place of the request that stores message m

messageVars == <<from, ai, sort, manual, event, work, asked>>
workerVars == <<wpc, wmsg>>
loopVars == <<loop, batch, cur, tries, sent>>
pageVars == <<entry, here, loopVars, cut, twin>>
intakeVars == <<messageVars, workerVars, pageVars, web>>
vars == <<limit, rowVars, callVars, mishaps, intakeVars>>

Sorts == {"chat", "hunch", "task"}
WPCs == {"idle", "classify", "chat", "look", "create", "mark", "upsert", "link", "remark",
         "ask", "emit"}

TypeOK ==
    /\ SuggestionTypes
    /\ from \in [Message -> Entry \cup {NoEntry}]
    /\ ai \in [Message -> {"absent", "unknown", "classified", "overridden"}]
    /\ sort \in [Message -> {"unknown"} \cup Sorts]
    /\ manual \in [Message -> BOOLEAN]
    /\ event \in [Message -> {"none", "pending", "taken", "done"}]
    /\ work \subseteq Message /\ asked \subseteq Message
    /\ wpc \in [Worker -> WPCs]
    /\ wmsg \in [Worker -> Message \cup {NoMessage}]
    /\ entry \in [Entry -> {"unwritten", "queued", "removed"}]
    /\ here \in Mount
    /\ loop \in [Mount -> {"off", "next", "send", "wait", "drop"}]
    /\ batch \in [Mount -> SUBSET Entry]
    /\ cur \in [Mount -> Entry \cup {NoEntry}]
    /\ tries \in [Mount -> 0 .. MaxAttempts]
    /\ sent \in [Mount -> Message \cup {NoMessage}]
    /\ cut \subseteq Entry /\ twin \subseteq Entry
    /\ web \in [Message -> {"off", "event", "reply"}]

Init ==
    /\ SuggestionInit
    /\ from = [m \in Message |-> NoEntry]
    /\ ai = [m \in Message |-> "absent"]
    /\ sort = [m \in Message |-> "unknown"]
    /\ manual = [m \in Message |-> FALSE]
    /\ event = [m \in Message |-> "none"]
    /\ work = {} /\ asked = {}
    /\ wpc = [w \in Worker |-> "idle"]
    /\ wmsg = [w \in Worker |-> NoMessage]
    /\ entry = [e \in Entry |-> "unwritten"]
    /\ here = FirstMount
    /\ loop = [k \in Mount |-> "off"] /\ batch = [k \in Mount |-> {}]
    /\ cur = [k \in Mount |-> NoEntry] /\ tries = [k \in Mount |-> 0]
    /\ sent = [k \in Mount |-> NoMessage]
    /\ cut = {} /\ twin = {}
    /\ web = [m \in Message |-> "off"]

-----------------------------------------------------------------------------
(* createMessage: with transactions (limit.txn) the message and its event are stored   *)
(* at once, without them one after the other                               *)

Store(m, e) ==
    /\ ai[m] = "absent"
    /\ ai' = [ai EXCEPT ![m] = "unknown"]
    /\ from' = [from EXCEPT ![m] = e]
    /\ web' = [web EXCEPT ![m] = IF limit.txn THEN "reply" ELSE "event"]
    /\ event' = IF limit.txn THEN [event EXCEPT ![m] = "pending"] ELSE event
    /\ UNCHANGED <<sort, manual, work, asked>>

StoreEvent(m) ==
    /\ web[m] = "event" /\ web' = [web EXCEPT ![m] = "reply"]
    /\ event' = [event EXCEPT ![m] = "pending"]
    /\ UNCHANGED <<from, ai, sort, manual, work, asked, pageVars, mishaps>>

(* A message of somebody who is online; nobody sends it again *)
Compose(m) ==
    /\ Store(m, NoEntry)
    /\ UNCHANGED <<pageVars, mishaps>>

(* The request is over *)
Served(m) == web' = [web EXCEPT ![m] = "off"] /\ UNCHANGED messageVars

-----------------------------------------------------------------------------
(* useOfflineMessageSync *)

Queue(e) ==
    /\ entry[e] = "unwritten"
    /\ entry' = [entry EXCEPT ![e] = "queued"]
    /\ UNCHANGED <<here, loopVars, cut, twin, messageVars, web, mishaps>>

(* The loop of mount k starts with what is in the queue *)
Start(k) ==
    /\ batch' = [batch EXCEPT ![k] = {e \in Entry : entry[e] = "queued"}]
    /\ batch'[k] # {}
    /\ loop' = [loop EXCEPT ![k] = "next"]
    /\ UNCHANGED <<entry, here, cur, tries, sent, cut, twin, messageVars, web, mishaps>>

(* variant: without isResending *)
Resend_Again(k) == k = here /\ Start(k)

(* The effect runs; isResending keeps a second loop of the same mount out *)
Resend(k) == k = here /\ loop[k] = "off" /\ Start(k)

(* What the loop of mount k has in hand *)
InHand(k) == batch[k] \cup (IF loop[k] \in {"send", "wait", "drop"} THEN {cur[k]} ELSE {})

(* The user leaves the workspace for another page of the app and comes     *)
(* back: nothing stops the loop that is running, and the new mount has a   *)
(* ref of its own; when none is running, the new mount is like the old one *)
Remount(k) ==
    /\ k # here /\ loop[k] = "off" /\ here' = k
    /\ \E j \in Mount : loop[j] # "off"
    /\ twin' = twin \cup UNION {InHand(j) : j \in Mount}
    /\ UNCHANGED <<entry, loopVars, cut, messageVars, web, mishaps>>

(* The next message of the queue; the order is left open *)
NextMessage(k) ==
    /\ loop[k] = "next"
    /\ \/ \E e \in batch[k] :
              /\ cur' = [cur EXCEPT ![k] = e]
              /\ batch' = [batch EXCEPT ![k] = @ \ {e}]
              /\ tries' = [tries EXCEPT ![k] = 1]
              /\ loop' = [loop EXCEPT ![k] = "send"]
       \/ /\ batch[k] = {}
          /\ cur' = [cur EXCEPT ![k] = NoEntry]
          /\ loop' = [loop EXCEPT ![k] = "off"]
          /\ UNCHANGED <<batch, tries>>
    /\ UNCHANGED <<entry, here, sent, cut, twin, messageVars, web, mishaps>>

Post(k, m) ==
    /\ loop[k] = "send" /\ loop' = [loop EXCEPT ![k] = "wait"]
    /\ Store(m, cur[k])
    /\ sent' = [sent EXCEPT ![k] = m]
    /\ UNCHANGED <<entry, here, batch, cur, tries, cut, twin, mishaps>>

(* Attempt n of mount k has failed: one more, or the entry is left in the  *)
(* queue                                                                   *)
GoesOn(k, again) ==
    /\ loop' = [loop EXCEPT ![k] = IF again THEN "send" ELSE "next"]
    /\ tries' = [tries EXCEPT ![k] = IF again THEN @ + 1 ELSE 0]
    /\ sent' = [sent EXCEPT ![k] = NoMessage]

(* variant: one attempt too many *)
AttemptFails_OneMore(k) == GoesOn(k, tries[k] <= MaxAttempts)

(* The catch of an attempt: one more, or the entry is left in the queue *)
AttemptFails(k) == GoesOn(k, tries[k] < MaxAttempts)

(* The request fails before it has stored anything *)
Refused(k) ==
    /\ loop[k] = "send" /\ AttemptFails(k)
    /\ UNCHANGED <<entry, here, batch, cur, cut, twin, messageVars, web, mishaps>>

Awaits(k, m) == loop[k] = "wait" /\ sent[k] = m

(* The answer arrives, at the loop that waits for it or at nobody *)
Answer(m) ==
    /\ web[m] = "reply" /\ Served(m)
    /\ loop' = [k \in Mount |-> IF Awaits(k, m) THEN "drop" ELSE loop[k]]
    /\ UNCHANGED <<entry, here, batch, cur, tries, sent, cut, twin, mishaps>>

(* The sendings of the loops ks end before the page knows that the message *)
(* was stored and has removed it from its queue                            *)
CutShort(ks) == cut' = cut \cup {cur[k] : k \in {j \in ks : loop[j] \in {"wait", "drop"}}}

(* It does not, or the server dies, also before it has enqueued the event *)
NoAnswer(m) ==
    /\ \/ web[m] = "reply" /\ Mishap("reply")
       \/ web[m] # "off" /\ Mishap("web")
    /\ Served(m)
    /\ IF \E k \in Mount : Awaits(k, m)
       THEN \E k \in Mount : Awaits(k, m) /\ AttemptFails(k) /\ CutShort({k})
       ELSE UNCHANGED <<loop, tries, sent, cut>>
    /\ UNCHANGED <<entry, here, batch, cur, twin>>

(* replaceTempMessage and removeFromQueue, which finds the entry or not *)
Drop(k) ==
    /\ loop[k] = "drop"
    /\ \/ /\ entry' = [entry EXCEPT ![cur[k]] = "removed"]
          /\ loop' = [loop EXCEPT ![k] = "next"]
          /\ tries' = [tries EXCEPT ![k] = 0]
          /\ sent' = [sent EXCEPT ![k] = NoMessage]
          /\ UNCHANGED <<cut, mishaps>>
       \/ Mishap("removal") /\ AttemptFails(k) /\ CutShort({k}) /\ UNCHANGED entry
    /\ UNCHANGED <<here, batch, cur, twin, messageVars, web>>

Reload ==
    /\ \E k \in Mount : loop[k] # "off"
    /\ Mishap("reload") /\ CutShort(Mount)
    /\ loop' = [k \in Mount |-> "off"] /\ batch' = [k \in Mount |-> {}]
    /\ cur' = [k \in Mount |-> NoEntry] /\ tries' = [k \in Mount |-> 0]
    /\ sent' = [k \in Mount |-> NoMessage]
    /\ UNCHANGED <<entry, here, twin, messageVars, web>>

Page ==
    /\ \/ \E e \in Entry : Queue(e)
       \/ \E m \in Message : Compose(m) \/ StoreEvent(m) \/ Answer(m) \/ NoAnswer(m)
       \/ \E k \in Mount :
              \/ Resend(k) \/ NextMessage(k) \/ Refused(k) \/ Drop(k) \/ Remount(k)
              \/ \E m \in Message : Post(k, m)
       \/ Reload
    /\ UNCHANGED <<rowVars, callVars, workerVars>>

-----------------------------------------------------------------------------
(* processMessageTaskIntelligence, and the worker around it *)

WorkerGoto(w, l) == wpc' = [wpc EXCEPT ![w] = l]
At(w, l) == wpc[w] = l
Settle(w, outcome) ==
    /\ event' = [event EXCEPT ![wmsg[w]] = outcome]
    /\ WorkerGoto(w, "idle") /\ wmsg' = [wmsg EXCEPT ![w] = NoMessage]

(* The event is claimed and the message read: one that somebody has        *)
(* classified, by hand or before, needs nothing                            *)
Claim(w, m) ==
    /\ At(w, "idle") /\ event[m] = "pending"
    /\ IF manual[m] \/ ai[m] = "classified"
       THEN event' = [event EXCEPT ![m] = "done"] /\ UNCHANGED workerVars
       ELSE /\ event' = [event EXCEPT ![m] = "taken"]
            /\ WorkerGoto(w, "classify") /\ wmsg' = [wmsg EXCEPT ![w] = m]
    /\ UNCHANGED <<rowVars, from, ai, sort, manual, work, asked, mishaps>>

(* updateMessageSemanticState *)
Marked(m, s) ==
    /\ ai' = [ai EXCEPT ![m] = "classified"]
    /\ sort' = [sort EXCEPT ![m] = s]

(* variant: the message is marked as soon as it is classified *)
Classify_MarksFirst(w) ==
    /\ At(w, "classify")
    /\ Marked(wmsg[w], "task") /\ WorkerGoto(w, "look")
    /\ UNCHANGED <<rowVars, from, manual, event, work, asked, wmsg, mishaps>>

(* The model says whether it asks for work, or fails, and nothing is written *)
Classify(w) ==
    /\ At(w, "classify")
    /\ \/ /\ \E l \in {"chat", "look"} : WorkerGoto(w, l)
          /\ UNCHANGED <<event, wmsg>>
       \/ Settle(w, "pending")
    /\ UNCHANGED <<rowVars, from, ai, sort, manual, work, asked, mishaps>>

(* It is no work, or the model is not sure enough: its own type is stored  *)
MarkChat(w) ==
    /\ At(w, "chat") /\ WorkerGoto(w, "emit")
    /\ \E s \in {"chat", "hunch"} : Marked(wmsg[w], s)
    /\ UNCHANGED <<rowVars, from, manual, event, work, asked, wmsg, mishaps>>

(* createWorkSuggestion; the reread after a duplicate key is taken with it. *)
(* Then the mode of the organization says whether there is a task at once  *)
Look(w) ==
    /\ At(w, "look")
    /\ IF HasProposal(wmsg[w])
       THEN \E l \in {"mark", "upsert"} : WorkerGoto(w, l)
       ELSE WorkerGoto(w, "create")
    /\ UNCHANGED <<rowVars, messageVars, wmsg, mishaps>>
Create(w) ==
    /\ At(w, "create")
    /\ \/ \E r \in Row : Suggest(wmsg[w], r)
       \/ HasProposal(wmsg[w]) /\ UNCHANGED rowVars
    /\ \E l \in {"mark", "upsert"} : WorkerGoto(w, l)
    /\ UNCHANGED <<messageVars, wmsg, mishaps>>

(* The mode suggest_only *)
Mark(w) ==
    /\ At(w, "mark") /\ WorkerGoto(w, "emit")
    /\ Marked(wmsg[w], "task")
    /\ UNCHANGED <<rowVars, from, manual, event, work, asked, wmsg, mishaps>>

(* The other modes: the task, the link, the mark, the request *)
Upsert(w) ==
    /\ At(w, "upsert") /\ WorkerGoto(w, "link")
    /\ work' = work \cup {wmsg[w]}
    /\ UNCHANGED <<rowVars, from, ai, sort, manual, event, asked, wmsg, mishaps>>

(* linkMessageToTask marks the message already, and leaves its confidence  *)
Link(w) ==
    /\ \/ /\ At(w, "link") /\ WorkerGoto(w, "remark")
          /\ \E s \in {"hunch", "task"} : Marked(wmsg[w], s)
       \/ At(w, "remark") /\ WorkerGoto(w, "ask") /\ Marked(wmsg[w], "task")
    /\ UNCHANGED <<rowVars, from, manual, event, work, asked, wmsg, mishaps>>

Ask(w) ==
    /\ At(w, "ask") /\ WorkerGoto(w, "emit")
    /\ asked' = asked \cup {wmsg[w]}
    /\ UNCHANGED <<rowVars, from, ai, sort, manual, event, work, wmsg, mishaps>>

(* The socket server is told, and the event is done; or it is tried again *)
Emit(w) ==
    /\ At(w, "emit")
    /\ \/ Settle(w, "done") /\ UNCHANGED mishaps
       \/ Settle(w, "pending") /\ Mishap("emit")
    /\ UNCHANGED <<rowVars, from, ai, sort, manual, work, asked>>

(* The claim of a slow worker is taken over, or the worker dies *)
Overrun(m) ==
    /\ event[m] = "taken" /\ Mishap("overrun")
    /\ event' = [event EXCEPT ![m] = "pending"]
    /\ UNCHANGED <<rowVars, from, ai, sort, manual, work, asked, workerVars>>
WorkerDies(w) ==
    /\ wpc[w] # "idle" /\ Mishap("crash")
    /\ Settle(w, IF event[wmsg[w]] = "taken" THEN "pending" ELSE event[wmsg[w]])
    /\ UNCHANGED <<rowVars, from, ai, sort, manual, work, asked>>

Intelligence ==
    /\ \/ \E w \in Worker :
              \/ \E m \in Message : Claim(w, m)
              \/ Classify(w) \/ MarkChat(w) \/ Look(w) \/ Create(w) \/ Mark(w)
              \/ Upsert(w) \/ Link(w) \/ Ask(w) \/ Emit(w) \/ WorkerDies(w)
       \/ \E m \in Message : Overrun(m)
    /\ UNCHANGED <<callVars, pageVars, web>>

(* PATCH /api/messages/:id/semantic: somebody says what a message is *)
Override(m) ==
    /\ ai[m] # "absent" /\ ~manual[m]
    /\ ai' = [ai EXCEPT ![m] = "overridden"]
    /\ manual' = [manual EXCEPT ![m] = TRUE]
    /\ \E s \in Sorts : sort' = [sort EXCEPT ![m] = s]
    /\ UNCHANGED <<rowVars, callVars, from, event, work, asked, workerVars, pageVars,
                   web, mishaps>>

-----------------------------------------------------------------------------
(* The bounds on suggestions, on messages stored, typed offline and judged *)
(* by hand, and on the workers at work                                     *)
WithinLimits ==
    /\ Cardinality({r \in Row : status[r] # "none"}) <= limit.rows
    /\ Cardinality({m \in Message : ai[m] # "absent"}) <= limit.messages
    /\ Cardinality({e \in Entry : entry[e] # "unwritten"}) <= limit.entries
    /\ Cardinality({m \in Message : manual[m]}) <= limit.manual
    /\ Cardinality({w \in Worker : wpc[w] # "idle"}) <= limit.workers

Next ==
    /\ \/ CallNext /\ UNCHANGED intakeVars
       \/ Page
       \/ Intelligence
       \/ \E m \in Message : Override(m)
    /\ UNCHANGED limit /\ WithinLimits'

Spec == Init /\ [][Next]_vars

-----------------------------------------------------------------------------
(* Properties *)

(* A message that leaves the offline queue is stored and has its event,    *)
(* whatever was lost on the way, and although the page knows of the        *)
(* message alone.  And only one of which a sending was cut short, or which *)
(* a loop still had to send when the user came back to the workspace, is   *)
(* stored twice, although the requests carry no key, a failed one is       *)
(* repeated and the loop starts again whenever the connection comes back.  *)
(* (useOfflineMessageSync, createMessage)                                  *)
QueueLosesNothing ==
    \A e \in Entry :
        /\ entry[e] = "removed" =>
               \E m \in Message : from[m] = e /\ event[m] # "none"
        /\ Cardinality({m \in Message : from[m] = e}) > 1 => e \in cut \cup twin

(* An event that is done leaves no message unclassified, and no message is *)
(* taken for work, with the confidence that makes it work, that nobody can *)
(* find among the suggestions: whoever dies or is repeated on the way,     *)
(* whatever another worker makes of the same message and whatever people   *)
(* say and decide in the meantime.                                         *)
(* (the order of processMessageTaskIntelligence)                           *)
NothingIsDropped ==
    \A m \in Message :
        /\ event[m] = "done" => ai[m] \in {"classified", "overridden"}
        /\ ai[m] = "classified" /\ sort[m] = "task" =>
               \E r \in Row : of[r] = m /\ status[r] # "none"
=============================================================================
