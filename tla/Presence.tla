------------------------------ MODULE Presence ------------------------------
(***************************************************************************)
(* Who is online: the keys the pods of the socket server keep in Redis     *)
(* about the users, the handlers of a connection and of its end, the sweep *)
(* every pod runs, and the list of online users in each tab of the client. *)
(*                                                                         *)
(* A round trip to Redis is one step: a command, a MULTI or the batch of a *)
(* pipeline.  Between two of them every other handler of every pod may     *)
(* run.  An event is in the tab when it is emitted, if the tab is          *)
(* connected, and lost otherwise.                                          *)
(***************************************************************************)
EXTENDS Naturals

CONSTANTS
    User,
    Tab,          \* pages with a client of the socket server
    Pod,          \* processes of the socket server
    Owner,        \* Owner[t]: the user logged in in t
    Home,         \* Home[t]: the pod that serves t
    Peers,        \* Peers[u]: the users that share a conversation with u
    MaxConnects,  \* bound on the connections of a tab
    Faults,       \* a subset of FaultKinds
    MaxMishaps    \* bound on the faults of a behaviour

(***************************************************************************)
(* "hurry"  a connection ends while its handler is still at work           *)
(* "crash"  a pod dies and is started again                                *)
(* "late"   a heartbeat expires although a tab of its user is connected:   *)
(*          timers of hidden pages run late, and those of a suspended      *)
(*          device not at all                                              *)
(* "error"  a handler or a sweep ends with an exception of Redis           *)
(* "reply"  replies of a snapshot are errors or missing: a pipeline does   *)
(*          not throw, and what it says of these users is read as zero     *)
(* "bridge" the web server does not answer who the peers are               *)
(***************************************************************************)
FaultKinds == {"hurry", "crash", "late", "error", "reply", "bridge"}

ASSUME PresenceAssumption ==
    /\ (Tab \X (1 .. 2)) \cap Pod = {}
    /\ Owner \in [Tab -> User]
    /\ Home \in [Tab -> Pod]
    /\ Peers \in [User -> SUBSET User]
    /\ \A u \in User : u \notin Peers[u]
    /\ \A u, v \in User : v \in Peers[u] => u \in Peers[v]
    /\ MaxConnects \in [Tab -> 1 .. 2]
    /\ Faults \subseteq FaultKinds
    /\ MaxMishaps \in Nat

(* The n-th connection of tab t; a client that reconnects has a new socket *)
Socket == {s \in Tab \X (1 .. 2) : s[2] <= MaxConnects[s[1]]}
UserOf(s) == Owner[s[1]]

VARIABLES
    sockets,    \* user_sockets: sockets[u] is the set of the sockets of u
    beats,      \* user_presence: the users whose heartbeat has not expired
    active,     \* active_users
    used,       \* used[t]: connections of t so far; the last one is the current one
    linked,     \* the tabs that are connected
    view,       \* view[t]: onlineUsers in the chat store of t
    pc,         \* pc[h]: where the handler of a connection, or the sweep of a pod, is
    rest,       \* rest[h]: the users it has still to look at or to clear
    found,      \* found[h]: whom it has found online; for a sweep, stale
    leave,      \* leave[s]: where the handler of the disconnection of s is
    disturbed,  \* history: the users whose presence is interrupted, until a new one begins:
                \* the heartbeat expired, the last socket went, a snapshot got no reply about
                \* them, or nobody said who their peers are
    mishaps     \* faults so far

redisVars  == <<sockets, beats, active>>
clientVars == <<used, linked, view>>
runVars    == <<pc, rest, found>>
vars == <<redisVars, clientVars, runVars, leave, disturbed, mishaps>>

Handler == Socket \cup Pod

TypeOK ==
    /\ sockets \in [User -> SUBSET Socket]
    /\ \A u \in User : \A s \in sockets[u] : UserOf(s) = u
    /\ beats \subseteq User /\ active \subseteq User
    /\ used \in [Tab -> 0 .. 2]
    /\ linked \subseteq Tab
    /\ view \in [Tab -> SUBSET User]
    /\ pc \in [Handler -> {"none", "track", "list", "judge", "clear", "up", "off"}]
    /\ rest \in [Handler -> SUBSET User] /\ found \in [Handler -> SUBSET User]
    /\ leave \in [Socket -> {"none", "open", "count", "wipe", "tell", "closed"}]
    /\ disturbed \subseteq User
    /\ mishaps \in 0 .. MaxMishaps

Init ==
    /\ sockets = [u \in User |-> {}] /\ beats = {} /\ active = {}
    /\ used = [t \in Tab |-> 0] /\ linked = {} /\ view = [t \in Tab |-> {}]
    /\ pc = [h \in Handler |-> "none"]
    /\ rest = [h \in Handler |-> {}] /\ found = [h \in Handler |-> {}]
    /\ leave = [s \in Socket |-> "none"]
    /\ disturbed = {} /\ mishaps = 0

-----------------------------------------------------------------------------
(* presence.redis.service.ts *)

(* variant: stale is only who has neither, as the document has it *)
IsOnline_Either(u) == u \in beats \/ sockets[u] # {}

(* getPresenceSnapshot and isUserOnline *)
IsOnline(u) == u \in beats /\ sockets[u] # {}

(* clearPresenceState *)
Forget(u) ==
    /\ sockets' = [sockets EXCEPT ![u] = {}]
    /\ beats' = beats \ {u}
    /\ active' = active \ {u}

Current(s) == s[1] \in linked /\ used[s[1]] = s[2]

(* s is the connection of its tab, and its handler has tracked the user *)
Tracked(s) == Current(s) /\ pc[s] \in {"list", "judge", "clear", "up"}

TabsOf(us) == {t \in linked : Owner[t] \in us}

Mishap(f) == f \in Faults /\ mishaps < MaxMishaps /\ mishaps' = mishaps + 1

(* getPresencePeers: us are the peers of u, or nobody, if nobody answers   *)
AskPeers(u, us) ==
    \/ us = Peers[u] /\ UNCHANGED mishaps
    \/ us = {} /\ Mishap("bridge")

(* The tabs of the users us hear that u is offline *)
TellOffline(u, us) ==
    view' = [t \in Tab |-> IF t \in TabsOf(us) THEN view[t] \ {u} ELSE view[t]]

-----------------------------------------------------------------------------
(* The client *)

(* A tab connects, with what its store has kept (a page that is loaded     *)
(* again is another tab); the connection joins the room of its user, and   *)
(* its handler starts                                                      *)
Connect(t) ==
    /\ t \notin linked /\ used[t] < MaxConnects[t]
    /\ used' = [used EXCEPT ![t] = @ + 1]
    /\ linked' = linked \cup {t}
    /\ view' = [view EXCEPT ![t] = @ \cup {Owner[t]}]
    /\ pc' = [pc EXCEPT ![<<t, used[t] + 1>>] = "track"]
    /\ leave' = [leave EXCEPT ![<<t, used[t] + 1>>] = "open"]
    /\ UNCHANGED <<redisVars, rest, found, disturbed, mishaps>>

(* The page is closed or loses its connection; the pod learns of it later  *)
Close(t) ==
    /\ t \in linked
    /\ linked' = linked \ {t}
    /\ view' = [view EXCEPT ![t] = @ \ {Owner[t]}]
    /\ IF pc[<<t, used[t]>>] \in {"up", "off"} THEN UNCHANGED mishaps ELSE Mishap("hurry")
    /\ UNCHANGED <<redisVars, used, runVars, leave, disturbed>>

(* PRESENCE_PING of a connected tab; refreshPresence *)
Ping(t) ==
    /\ t \in linked /\ pc[<<t, used[t]>>] # "track"
    /\ Owner[t] \notin beats
    /\ beats' = beats \cup {Owner[t]}
    /\ UNCHANGED <<sockets, active, clientVars, runVars, leave, disturbed, mishaps>>

(* The heartbeat of a user expires *)
Expire(u) ==
    /\ u \in beats
    /\ beats' = beats \ {u}
    /\ disturbed' = disturbed \cup {u}
    /\ UNCHANGED <<sockets, active, clientVars, runVars, leave>>

(* ... because nobody pings any more, or too late *)
TimeOut(u) == TabsOf({u}) = {} /\ Expire(u) /\ UNCHANGED mishaps
BeatLate(u) == TabsOf({u}) # {} /\ Expire(u) /\ Mishap("late")

-----------------------------------------------------------------------------
(* presenceHandler: the connection *)

(* variant: the user is added to the sockets *)
Track_Swapped(s) ==
    /\ pc[s] = "track"
    /\ sockets' = [sockets EXCEPT ![UserOf(s)] = @ \cup {UserOf(s)}]
    /\ beats' = beats \cup {UserOf(s)}
    /\ active' = active \cup {UserOf(s)}
    /\ pc' = [pc EXCEPT ![s] = "list"]
    /\ UNCHANGED <<clientVars, rest, found, leave, disturbed, mishaps>>

(* Nothing of an earlier presence of the user of s is left that could end  *)
(* the one that s begins: no other connection, no handler or sweep that    *)
(* has the user to clear or to report                                      *)
Begins(s) ==
    /\ \A r \in Socket : UserOf(r) = UserOf(s) =>
           ~Tracked(r) /\ leave[r] \notin {"count", "wipe", "tell"}
    /\ \A h \in Handler : pc[h] = "clear" =>
           UserOf(s) \notin rest[h] /\ (h \in Pod => UserOf(s) \notin found[h])

(* trackSocketConnected *)
Track(s) ==
    /\ pc[s] = "track"
    /\ sockets' = [sockets EXCEPT ![UserOf(s)] = @ \cup {s}]
    /\ beats' = beats \cup {UserOf(s)}
    /\ active' = active \cup {UserOf(s)}
    /\ pc' = [pc EXCEPT ![s] = "list"]
    /\ disturbed' = IF Begins(s) THEN disturbed \ {UserOf(s)} ELSE disturbed
    /\ UNCHANGED <<clientVars, rest, found, leave, mishaps>>

(* getActiveUsers, and cleanupStaleActiveUsers in the sweep of a pod: the  *)
(* users that are listed, ...                                              *)
List(h) ==
    /\ pc[h] = IF h \in Pod THEN "none" ELSE "list"
    /\ h \in Pod => active # {}
    /\ rest' = [rest EXCEPT ![h] = active]
    /\ pc' = [pc EXCEPT ![h] = "judge"]
    /\ UNCHANGED <<redisVars, clientVars, found, leave, disturbed, mishaps>>

(* ... who of them is online and who is stale, also for want of a reply    *)
(* about them, ...                                                         *)
Judge(h) ==
    /\ pc[h] = "judge"
    /\ \E unread \in SUBSET {u \in rest[h] : IsOnline(u)} :
           LET stale == {u \in rest[h] : ~IsOnline(u)} \cup unread IN
           /\ IF unread = {} THEN UNCHANGED mishaps ELSE Mishap("reply")
           /\ rest' = [rest EXCEPT ![h] = stale]
           /\ found' = [found EXCEPT ![h] = IF h \in Pod THEN stale ELSE rest[h] \ stale]
           /\ pc' = [pc EXCEPT ![h] = IF h \in Pod /\ stale = {} THEN "none" ELSE "clear"]
           /\ disturbed' = disturbed \cup unread
    /\ UNCHANGED <<redisVars, clientVars, leave>>

(* ... and the stale ones are cleared one by one *)
Clear(h) ==
    /\ pc[h] = "clear"
    /\ \E u \in rest[h] :
           /\ Forget(u)
           /\ rest' = [rest EXCEPT ![h] = @ \ {u}]
    /\ UNCHANGED <<clientVars, pc, found, leave, disturbed, mishaps>>

(* variant: the peers are not told *)
Announce_OneSided(s) ==
    /\ pc[s] = "clear" /\ rest[s] = {}
    /\ view' = IF Current(s) THEN [view EXCEPT ![s[1]] = @ \cup (Peers[UserOf(s)] \cap found[s])]
               ELSE view
    /\ pc' = [pc EXCEPT ![s] = "up"]
    /\ found' = [found EXCEPT ![s] = {}]
    /\ UNCHANGED <<redisVars, used, linked, rest, leave, disturbed, mishaps>>

(* The tab hears which of its peers are online, and they hear of its user  *)
Announce(s) ==
    /\ pc[s] = "clear" /\ rest[s] = {}
    /\ \E us \in {Peers[UserOf(s)], {}} :
           /\ AskPeers(UserOf(s), us)
           /\ LET online == us \cap found[s] IN
                  view' = [t \in Tab |->
                      view[t] \cup (IF t = s[1] /\ Current(s) THEN online ELSE {})
                              \cup (IF t \in TabsOf(online) THEN {UserOf(s)} ELSE {})]
           /\ disturbed' = IF us = Peers[UserOf(s)] THEN disturbed
                           ELSE disturbed \cup {UserOf(s)}
    /\ pc' = [pc EXCEPT ![s] = "up"]
    /\ found' = [found EXCEPT ![s] = {}]
    /\ UNCHANGED <<redisVars, used, linked, rest, leave>>

-----------------------------------------------------------------------------
(* presenceHandler: the end of a connection; trackSocketDisconnected.  The *)
(* commands of one pod reach Redis in the order they were issued in.       *)

Remove(s) ==
    /\ leave[s] = "open" /\ ~Current(s) /\ pc[s] # "track"
    /\ sockets' = [sockets EXCEPT ![UserOf(s)] = @ \ {s}]
    /\ disturbed' = IF sockets[UserOf(s)] \subseteq {s} THEN disturbed \cup {UserOf(s)}
                    ELSE disturbed
    /\ leave' = [leave EXCEPT ![s] = "count"]
    /\ UNCHANGED <<beats, active, clientVars, runVars, mishaps>>

(* variant: counted as if the own socket were still there *)
Count_OffByOne(s) ==
    /\ leave[s] = "count"
    /\ leave' = [leave EXCEPT ![s] = IF \E r \in Socket : sockets[UserOf(s)] \subseteq {r}
                                     THEN "wipe" ELSE "closed"]
    /\ UNCHANGED <<redisVars, clientVars, runVars, disturbed, mishaps>>

Count(s) ==
    /\ leave[s] = "count"
    /\ leave' = [leave EXCEPT ![s] = IF sockets[UserOf(s)] = {} THEN "wipe" ELSE "closed"]
    /\ UNCHANGED <<redisVars, clientVars, runVars, disturbed, mishaps>>

Wipe(s) ==
    /\ leave[s] = "wipe"
    /\ Forget(UserOf(s))
    /\ leave' = [leave EXCEPT ![s] = "tell"]
    /\ UNCHANGED <<clientVars, runVars, disturbed, mishaps>>

Leave(s) ==
    /\ leave[s] = "tell"
    /\ \E us \in {Peers[UserOf(s)], {}} : AskPeers(UserOf(s), us) /\ TellOffline(UserOf(s), us)
    /\ leave' = [leave EXCEPT ![s] = "closed"]
    /\ UNCHANGED <<redisVars, used, linked, runVars, disturbed>>

-----------------------------------------------------------------------------
(* initSocket: the peers of whom a sweep has cleared hear that they are offline *)
Tell(p) ==
    /\ pc[p] = "clear" /\ rest[p] = {}
    /\ \E u \in found[p] : \E us \in {Peers[u], {}} :
           /\ AskPeers(u, us) /\ TellOffline(u, us)
           /\ found' = [found EXCEPT ![p] = @ \ {u}]
           /\ pc' = [pc EXCEPT ![p] = IF found[p] = {u} THEN "none" ELSE @]
    /\ UNCHANGED <<redisVars, used, linked, rest, leave, disturbed>>

(* An exception ends what it is thrown in; it is logged *)
Fail(h) ==
    /\ Mishap("error")
    /\ \/ /\ pc[h] \in {"track", "list", "judge", "clear"}
          /\ pc' = [pc EXCEPT ![h] = IF h \in Pod THEN "none" ELSE "off"]
          /\ rest' = [rest EXCEPT ![h] = {}] /\ found' = [found EXCEPT ![h] = {}]
          /\ UNCHANGED leave
       \/ /\ h \in Socket /\ leave[h] \in {"count", "wipe", "tell"}
          /\ leave' = [leave EXCEPT ![h] = "closed"]
          /\ UNCHANGED runVars
    /\ UNCHANGED <<redisVars, clientVars, disturbed>>

(* A pod dies: its connections end without their handlers *)
Crash(p) ==
    LET Lost == {h \in Handler : h = p \/ (h \in Socket /\ Home[h[1]] = p)}
    IN
    /\ Mishap("crash")
    /\ linked' = {t \in linked : Home[t] # p}
    /\ view' = [t \in Tab |-> IF t \in linked \ linked' THEN view[t] \ {Owner[t]} ELSE view[t]]
    /\ pc' = [h \in Handler |-> IF h \in Lost /\ pc[h] # "none"
                                THEN IF h = p THEN "none" ELSE "off" ELSE pc[h]]
    /\ rest' = [h \in Handler |-> IF h \in Lost THEN {} ELSE rest[h]]
    /\ found' = [h \in Handler |-> IF h \in Lost THEN {} ELSE found[h]]
    /\ leave' = [s \in Socket |-> IF s \in Lost /\ leave[s] # "none" THEN "closed" ELSE leave[s]]
    /\ UNCHANGED <<redisVars, used, disturbed>>

-----------------------------------------------------------------------------
(* The handler of a connection, that of its end, and the sweep of a pod *)
Arrive(s) == Track(s) \/ List(s) \/ Judge(s) \/ Clear(s) \/ Announce(s)
Depart(s) == Remove(s) \/ Count(s) \/ Wipe(s) \/ Leave(s)
Sweep(p)  == List(p) \/ Judge(p) \/ Clear(p) \/ Tell(p)

Next ==
    \/ \E t \in Tab : Connect(t) \/ Close(t) \/ Ping(t)
    \/ \E u \in User : TimeOut(u) \/ BeatLate(u)
    \/ \E s \in Socket : Arrive(s) \/ Depart(s)
    \/ \E p \in Pod : Sweep(p) \/ Crash(p)
    \/ \E h \in Handler : Fail(h)

Spec == Init /\ [][Next]_vars

(* What was started goes on, the sweep comes again, and keys expire        *)
Fairness ==
    /\ WF_vars(\E s \in Socket : Arrive(s) \/ Depart(s))
    /\ \A p \in Pod : WF_vars(Sweep(p))
    /\ WF_vars(\E u \in User : TimeOut(u))

FairSpec == Spec /\ Fairness

-----------------------------------------------------------------------------
(* Properties *)

(* Two peers who are both connected see each other online, however their   *)
(* connections interleave: of two that connect at the same time, at least  *)
(* one finds the other listed, and it tells both.  This is lost while the  *)
(* presence of one of them is interrupted - a snapshot that got no reply   *)
(* about a user interrupts it, too (see the README) - and comes back with  *)
(* a connection that begins it anew.                                       *)
(* (presenceHandler: track first, then list, then announce)                *)
ConnectedSeeEachOther ==
    \A s, r \in Socket :
        /\ pc[s] = "up" /\ Current(s) /\ pc[r] = "up" /\ Current(r)
        /\ UserOf(r) \in Peers[UserOf(s)]
        /\ disturbed \cap {UserOf(s), UserOf(r)} = {}
        => UserOf(r) \in view[s[1]]

(* No sweep, no other connection and no end of one of several connections  *)
(* takes a user offline whose heartbeat has not expired, who has always    *)
(* had a socket and about whom every snapshot got its replies, since the   *)
(* presence of the user began: also after a crash, a late heartbeat or a   *)
(* failed handler, once nothing of what they left is under way.            *)
(* (clearPresenceState after a snapshot that may be outdated)              *)
UndisturbedStaysOnline ==
    \A s \in Socket :
        Tracked(s) /\ UserOf(s) \notin disturbed => IsOnline(UserOf(s)) /\ UserOf(s) \in active

(* What is left of a user who is gone is removed, also when a pod has died *)
(* with the connections of the user or a handler has failed (realtime-     *)
(* messaging-system.md: "This guarantees the presence state self-heals").  *)
Gone(u) == TabsOf({u}) = {}
PresenceSelfHeals ==
    \A u \in User : <>[]Gone(u) => <>[](u \notin active /\ sockets[u] = {})
=============================================================================
