-------------------------- MODULE Presence_proofs --------------------------
(***************************************************************************)
(* What holds of the presence of users for any users, tabs, pods, faults   *)
(* and numbers of connections.                                             *)
(*                                                                         *)
(* A user who is not interrupted and is listed has a heartbeat and a       *)
(* socket, so no snapshot calls such a user stale, and what is left to be  *)
(* cleared anywhere is of users who are interrupted (Calm); a connection   *)
(* ends an interruption only if nothing is left to be cleared.  Of two     *)
(* connections, the one that was tracked last lists the user of the other, *)
(* and tells both (Met).                                                   *)
(***************************************************************************)
EXTENDS Presence, TLAPS

(* Presence starts with sets and functions of the right types, every step  *)
(* keeps them so, and no key of a user holds a socket of another user.     *)
(* (the keys of presence.redis.service.ts and the store of the client)     *)
THEOREM PresenceType == Spec => []TypeOK
<1>1. Init => TypeOK
  BY PresenceAssumption DEF Init, TypeOK, Handler
<1>2. TypeOK /\ [Next]_vars => TypeOK'
  <2> SUFFICES ASSUME TypeOK, [Next]_vars PROVE TypeOK'
    OBVIOUS
  <2> USE PresenceAssumption DEF TypeOK, Handler
  <2>1. CASE UNCHANGED vars
    BY <2>1 DEF vars, redisVars, clientVars, runVars
  <2>2. ASSUME NEW t \in Tab, Connect(t) PROVE TypeOK'
    <3>1. /\ used[t] + 1 \in 1 .. 2
          /\ Owner[t] \in User
      BY <2>2 DEF Connect
    <3> QED BY <2>2, <3>1 DEF Connect, redisVars, Socket
  <2>3. ASSUME NEW t \in Tab, Close(t) PROVE TypeOK'
    BY <2>3 DEF Close, Mishap, redisVars, runVars
  <2>4. ASSUME NEW t \in Tab, Ping(t) PROVE TypeOK'
    BY <2>4 DEF Ping, clientVars, runVars
  <2>5. ASSUME NEW u \in User, TimeOut(u) \/ BeatLate(u) PROVE TypeOK'
    BY <2>5 DEF TimeOut, BeatLate, Expire, Mishap, clientVars, runVars
  <2>6. ASSUME NEW s \in Socket, Track(s) PROVE TypeOK'
    BY <2>6 DEF Track, clientVars, UserOf, Socket
  <2>7. ASSUME NEW h \in Handler, List(h) PROVE TypeOK'
    BY <2>7 DEF List, redisVars, clientVars
  <2>8. ASSUME NEW h \in Handler, Judge(h) PROVE TypeOK'
    <3>1. PICK unread \in SUBSET {u \in rest[h] : IsOnline(u)} :
              LET stale == {u \in rest[h] : ~IsOnline(u)} \cup unread IN
              /\ IF unread = {} THEN UNCHANGED mishaps ELSE Mishap("reply")
              /\ rest' = [rest EXCEPT ![h] = stale]
              /\ found' = [found EXCEPT ![h] = IF h \in Pod THEN stale ELSE rest[h] \ stale]
              /\ pc' = [pc EXCEPT ![h] = IF h \in Pod /\ stale = {} THEN "none" ELSE "clear"]
              /\ disturbed' = disturbed \cup unread
      BY <2>8 DEF Judge
    <3>2. mishaps' \in 0 .. MaxMishaps
      BY <3>1 DEF Mishap
    <3>3. disturbed' \subseteq User
      BY <3>1
    <3>4. /\ rest' \in [Handler -> SUBSET User] /\ found' \in [Handler -> SUBSET User]
          /\ pc' \in [Handler -> {"none", "track", "list", "judge", "clear", "up", "off"}]
      BY <3>1 DEF Handler
    <3> QED BY <2>8, <3>2, <3>3, <3>4 DEF Judge, redisVars, clientVars
  <2>9. ASSUME NEW h \in Handler, Clear(h) PROVE TypeOK'
    BY <2>9 DEF Clear, Forget, clientVars
  <2>10. ASSUME NEW s \in Socket, Announce(s) PROVE TypeOK'
    <3>1. UserOf(s) \in User /\ s \in Handler
      BY DEF UserOf, Socket
    <3>2. PICK us \in {Peers[UserOf(s)], {}} :
              /\ AskPeers(UserOf(s), us)
              /\ LET online == us \cap found[s] IN
                     view' = [t \in Tab |->
                         view[t] \cup (IF t = s[1] /\ Current(s) THEN online ELSE {})
                                 \cup (IF t \in TabsOf(online) THEN {UserOf(s)} ELSE {})]
              /\ disturbed' = IF us = Peers[UserOf(s)] THEN disturbed
                              ELSE disturbed \cup {UserOf(s)}
      BY <2>10 DEF Announce
    <3>3. mishaps' \in 0 .. MaxMishaps
      BY <3>2 DEF AskPeers, Mishap
    <3>4. view' \in [Tab -> SUBSET User] /\ disturbed' \subseteq User
      BY <3>1, <3>2
    <3> QED BY <2>10, <3>1, <3>3, <3>4 DEF Announce, redisVars
  <2>11. ASSUME NEW s \in Socket, Remove(s) PROVE TypeOK'
    BY <2>11 DEF Remove, clientVars, runVars, UserOf, Socket
  <2>12. ASSUME NEW s \in Socket, Count(s) PROVE TypeOK'
    BY <2>12 DEF Count, redisVars, clientVars, runVars
  <2>13. ASSUME NEW s \in Socket, Wipe(s) PROVE TypeOK'
    BY <2>13 DEF Wipe, Forget, clientVars, runVars
  <2>14. ASSUME NEW s \in Socket, Leave(s) PROVE TypeOK'
    BY <2>14 DEF Leave, AskPeers, TellOffline, Mishap, redisVars, runVars
  <2>15. ASSUME NEW p \in Pod, Tell(p) PROVE TypeOK'
    BY <2>15 DEF Tell, AskPeers, TellOffline, Mishap, redisVars
  <2>16. ASSUME NEW h \in Handler, Fail(h) PROVE TypeOK'
    <3>1. mishaps' \in 0 .. MaxMishaps /\ UNCHANGED <<redisVars, clientVars, disturbed>>
      BY <2>16 DEF Fail, Mishap
    <3>2. CASE h \in Socket /\ UNCHANGED runVars
      BY <2>16, <3>1, <3>2 DEF Fail, redisVars, clientVars, runVars
    <3>3. CASE UNCHANGED leave
      BY <2>16, <3>1, <3>3 DEF Fail, redisVars, clientVars, runVars
    <3> QED BY <2>16, <3>2, <3>3 DEF Fail
  <2>17. ASSUME NEW p \in Pod, Crash(p) PROVE TypeOK'
    BY <2>17 DEF Crash, Mishap, redisVars
  <2> QED
    BY <2>1, <2>2, <2>3, <2>4, <2>5, <2>6, <2>7, <2>8, <2>9, <2>10, <2>11, <2>12, <2>13,
       <2>14, <2>15, <2>16, <2>17 DEF Next, Arrive, Depart, Sweep
<1> QED BY <1>1, <1>2, PTL DEF Spec

-----------------------------------------------------------------------------
(* Nobody who is not interrupted is stale or about to be cleared *)
ListedOnline == \A u \in active \ disturbed : IsOnline(u)
TrackedListed ==
    \A s \in Socket : Tracked(s) /\ UserOf(s) \notin disturbed
                     => s \in sockets[UserOf(s)] /\ UserOf(s) \in active
OnlyStaleCleared ==
    \A h \in Handler :
        /\ pc[h] = "judge" => rest[h] \subseteq active \cup disturbed
        /\ pc[h] = "clear" => rest[h] \subseteq disturbed
        /\ pc[h] = "clear" /\ h \in Pod => found[h] \subseteq disturbed
OnlyLastLeaves ==
    \A s \in Socket :
        /\ leave[s] = "count" => UserOf(s) \in disturbed \/ sockets[UserOf(s)] # {}
        /\ leave[s] \in {"wipe", "tell"} => UserOf(s) \in disturbed
Calm == ListedOnline /\ TrackedListed /\ OnlyStaleCleared /\ OnlyLastLeaves

(* The handler of s will find user u online, or has *)
Expects(s, u) ==
    \/ pc[s] = "list"
    \/ pc[s] = "judge" /\ u \in rest[s]
    \/ pc[s] = "clear" /\ u \in found[s]

Acquainted(s, r) == UserOf(r) \in view[s[1]] /\ UserOf(s) \in view[r[1]]

(* Two tracked peers know each other, or one of them is to find the other *)
Met ==
    \A s, r \in Socket :
        /\ Tracked(s) /\ Tracked(r)
        /\ UserOf(r) \in Peers[UserOf(s)]
        /\ UserOf(s) \notin disturbed /\ UserOf(r) \notin disturbed
        => Acquainted(s, r) \/ Expects(s, UserOf(r)) \/ Expects(r, UserOf(s))

(* A new socket is not tracked yet, and one that is tracked was before, if *)
(* only tabs have connected or lost their connection                       *)
LEMMA ConnectTracked ==
  ASSUME TypeOK, NEW t \in Tab, Connect(t), NEW s \in Socket, Tracked(s)'
  PROVE  Tracked(s) /\ s[1] # t /\ pc'[s] = pc[s]
<1> USE PresenceAssumption DEF TypeOK, Handler
<1>1. s = <<s[1], s[2]>>
  BY DEF Socket
<1>2. s \in Handler /\ s[1] \in linked' /\ used'[s[1]] = s[2]
  BY DEF Tracked, Current
<1>3. s # <<t, used[t] + 1>>
  BY <1>2 DEF Connect, Tracked
<1>4. s[1] # t
  BY <1>1, <1>2, <1>3 DEF Connect
<1> QED BY <1>1, <1>2, <1>3, <1>4 DEF Connect, Tracked, Current

LEMMA CalmStep ==
  ASSUME TypeOK, Calm, [Next]_vars
  PROVE  Calm'
<1> USE PresenceAssumption DEF TypeOK, Handler
<1>u. \A s \in Socket : UserOf(s) \in User
  BY DEF UserOf, Socket
<1>1. CASE UNCHANGED vars
  BY <1>1 DEF vars, redisVars, clientVars, runVars, Calm, ListedOnline, TrackedListed,
     OnlyStaleCleared, OnlyLastLeaves, Tracked, Current, IsOnline
<1>2. ASSUME NEW t \in Tab, Connect(t) PROVE Calm'
  <2>1. ListedOnline'
    BY <1>2 DEF Connect, Calm, ListedOnline, IsOnline, redisVars
  <2>2. TrackedListed'
    BY <1>2, ConnectTracked DEF Connect, Calm, TrackedListed, redisVars
  <2>3. OnlyStaleCleared'
    BY <1>2 DEF Connect, Calm, OnlyStaleCleared, redisVars
  <2>4. OnlyLastLeaves'
    BY <1>2 DEF Connect, Calm, OnlyLastLeaves, redisVars
  <2> QED BY <2>1, <2>2, <2>3, <2>4 DEF Calm
<1>3. ASSUME NEW t \in Tab, Close(t) PROVE Calm'
  BY <1>3 DEF Close, Calm, ListedOnline, TrackedListed, OnlyStaleCleared, OnlyLastLeaves,
     Tracked, Current, IsOnline, redisVars, runVars
<1>4. ASSUME NEW t \in Tab, Ping(t) PROVE Calm'
  BY <1>4 DEF Ping, Calm, ListedOnline, TrackedListed, OnlyStaleCleared, OnlyLastLeaves,
     Tracked, Current, IsOnline, clientVars, runVars
<1>5. ASSUME NEW u \in User, Expire(u) PROVE Calm'
  BY <1>5 DEF Expire, Calm, ListedOnline, TrackedListed, OnlyStaleCleared, OnlyLastLeaves,
     Tracked, Current, IsOnline, clientVars, runVars
<1>6. ASSUME NEW s \in Socket, Track(s) PROVE Calm'
  <2> DEFINE me == UserOf(s)
  <2>1. /\ \A u \in User \ {me} : sockets'[u] = sockets[u]
        /\ sockets'[me] = sockets[me] \cup {s}
        /\ beats' = beats \cup {me} /\ active' = active \cup {me}
        /\ pc'[s] = "list" /\ \A h \in Handler \ {s} : pc'[h] = pc[h]
        /\ UNCHANGED <<used, linked, rest, found, leave>>
    BY <1>6, <1>u DEF Track, clientVars
  <2>2. /\ disturbed \subseteq disturbed' \cup {me} /\ disturbed' \subseteq disturbed
        /\ Begins(s) \/ disturbed' = disturbed
    BY <1>6 DEF Track
  <2>3. me \in User /\ s \in Handler
    BY <1>u
  <2> HIDE DEF me
  <2>4. ListedOnline'
    BY <2>1, <2>2, <2>3 DEF Calm, ListedOnline, IsOnline
  <2>5. ASSUME NEW r \in Socket, Tracked(r)', UserOf(r) \notin disturbed'
        PROVE  r \in sockets'[UserOf(r)] /\ UserOf(r) \in active'
    <3>1. CASE r = s
      BY <2>1, <2>3, <3>1 DEF me
    <3>2. CASE r # s
      <4>1. Tracked(r)
        BY <2>1, <2>5, <3>2 DEF Tracked, Current
      <4>2. UserOf(r) \notin disturbed
        BY <2>2, <2>5, <4>1 DEF Begins, me
      <4> QED BY <1>u, <2>1, <4>1, <4>2 DEF Calm, TrackedListed
    <3> QED BY <3>1, <3>2
  <2>6. OnlyStaleCleared'
    <3>1. ASSUME NEW h \in Handler
          PROVE  /\ pc'[h] = "judge" => rest[h] \subseteq active' \cup disturbed'
                 /\ pc'[h] = "clear" => rest[h] \subseteq disturbed'
                 /\ pc'[h] = "clear" /\ h \in Pod => found[h] \subseteq disturbed'
      <4>1. pc'[h] \in {"judge", "clear"} => pc'[h] = pc[h]
        BY <2>1
      <4> QED BY <2>1, <2>2, <4>1 DEF Calm, OnlyStaleCleared, Begins, me
    <3> QED BY <2>1, <3>1 DEF OnlyStaleCleared
  <2>7. OnlyLastLeaves'
    <3>1. ASSUME NEW r \in Socket
          PROVE  /\ leave[r] = "count" => UserOf(r) \in disturbed' \/ sockets'[UserOf(r)] # {}
                 /\ leave[r] \in {"wipe", "tell"} => UserOf(r) \in disturbed'
      <4>1. UserOf(r) = me /\ leave[r] \in {"count", "wipe", "tell"} => disturbed' = disturbed
        BY <2>2 DEF Begins, me
      <4> QED BY <1>u, <2>1, <2>2, <4>1 DEF Calm, OnlyLastLeaves
    <3> QED BY <2>1, <3>1 DEF OnlyLastLeaves
  <2> QED BY <2>4, <2>5, <2>6, <2>7 DEF Calm, TrackedListed
<1>7. ASSUME NEW h \in Handler, List(h) PROVE Calm'
  <2>1. ListedOnline'
    BY <1>7 DEF List, Calm, ListedOnline, IsOnline, redisVars
  <2>2. TrackedListed'
    BY <1>7 DEF List, Calm, TrackedListed, Tracked, Current, redisVars, clientVars, Socket
  <2>3. OnlyStaleCleared'
    BY <1>7 DEF List, Calm, OnlyStaleCleared, redisVars
  <2>4. OnlyLastLeaves'
    BY <1>7 DEF List, Calm, OnlyLastLeaves, redisVars
  <2> QED BY <2>1, <2>2, <2>3, <2>4 DEF Calm
<1>8. ASSUME NEW h \in Handler, Judge(h) PROVE Calm'
  <2>1. PICK unread \in SUBSET {u \in rest[h] : IsOnline(u)} :
            LET stale == {u \in rest[h] : ~IsOnline(u)} \cup unread IN
            /\ rest' = [rest EXCEPT ![h] = stale]
            /\ found' = [found EXCEPT ![h] = IF h \in Pod THEN stale ELSE rest[h] \ stale]
            /\ pc' = [pc EXCEPT ![h] = IF h \in Pod /\ stale = {} THEN "none" ELSE "clear"]
            /\ disturbed' = disturbed \cup unread
    BY <1>8 DEF Judge
  <2>2. disturbed \subseteq disturbed'
    BY <2>1
  <2>3. ListedOnline'
    BY <1>8, <2>2 DEF Judge, Calm, ListedOnline, IsOnline, redisVars
  <2>4. /\ pc[h] = "judge"
        /\ pc'[h] \in {"none", "clear"} /\ (h \in Socket => pc'[h] = "clear")
        /\ \A g \in Handler \ {h} : pc'[g] = pc[g]
    <3>1. h \in Socket => h \notin Pod
      BY DEF Socket
    <3> QED BY <1>8, <2>1, <3>1 DEF Judge
  <2>5. \A s \in Socket : Tracked(s)' => Tracked(s)
    BY <1>8, <2>4 DEF Judge, Tracked, Current, clientVars
  <2>6. TrackedListed'
    BY <1>8, <2>2, <2>5 DEF Judge, Calm, TrackedListed, redisVars
  <2>7. OnlyStaleCleared'
    <3> DEFINE stale == {u \in rest[h] : ~IsOnline(u)} \cup unread
    <3>1. stale \subseteq disturbed'
      BY <1>8, <2>1 DEF Judge, Calm, OnlyStaleCleared, ListedOnline
    <3>2. rest' = [rest EXCEPT ![h] = stale] /\ (h \in Pod => found' = [found EXCEPT ![h] = stale])
      BY <2>1
    <3>3. \A g \in Handler \ {h} : pc'[g] = pc[g] /\ rest'[g] = rest[g] /\ found'[g] = found[g]
      BY <2>1
    <3>4. pc'[h] # "judge" /\ UNCHANGED active
      BY <1>8, <2>4 DEF Judge, redisVars
    <3> HIDE DEF stale
    <3>5. rest'[h] = stale /\ (h \in Pod => found'[h] = stale)
      BY <3>2
    <3> QED BY <2>2, <3>1, <3>3, <3>4, <3>5 DEF Calm, OnlyStaleCleared
  <2>8. OnlyLastLeaves'
    BY <1>8, <2>2 DEF Judge, Calm, OnlyLastLeaves, redisVars
  <2> QED BY <2>3, <2>6, <2>7, <2>8 DEF Calm
<1>9. ASSUME NEW h \in Handler, Clear(h) PROVE Calm'
  <2>1. PICK u \in rest[h] : Forget(u) /\ rest' = [rest EXCEPT ![h] = @ \ {u}]
    BY <1>9 DEF Clear
  <2>2. u \in disturbed /\ u \in User
    BY <1>9, <2>1 DEF Clear, Calm, OnlyStaleCleared
  <2>3. ListedOnline'
    BY <1>9, <2>1, <2>2 DEF Clear, Forget, Calm, ListedOnline, IsOnline
  <2>4. TrackedListed'
    BY <1>9, <1>u, <2>1, <2>2 DEF Clear, Forget, Calm, TrackedListed, Tracked, Current, clientVars
  <2>5. OnlyStaleCleared'
    BY <1>9, <2>1, <2>2 DEF Clear, Forget, Calm, OnlyStaleCleared
  <2>6. OnlyLastLeaves'
    BY <1>9, <1>u, <2>1, <2>2 DEF Clear, Forget, Calm, OnlyLastLeaves
  <2> QED BY <2>3, <2>4, <2>5, <2>6 DEF Calm
<1>10. ASSUME NEW s \in Socket, Announce(s) PROVE Calm'
  <2>1. ListedOnline'
    BY <1>10, <1>u DEF Announce, Calm, ListedOnline, IsOnline, redisVars
  <2>2. TrackedListed'
    BY <1>10, <1>u DEF Announce, Calm, TrackedListed, Tracked, Current, redisVars
  <2>3. OnlyStaleCleared'
    BY <1>10, <1>u DEF Announce, Calm, OnlyStaleCleared, redisVars
  <2>4. OnlyLastLeaves'
    BY <1>10, <1>u DEF Announce, Calm, OnlyLastLeaves, redisVars
  <2> QED BY <2>1, <2>2, <2>3, <2>4 DEF Calm
<1>11. ASSUME NEW s \in Socket, Remove(s) PROVE Calm'
  <2>1. ListedOnline'
    BY <1>11, <1>u DEF Remove, Calm, ListedOnline, IsOnline, clientVars, runVars
  <2>2. TrackedListed'
    BY <1>11, <1>u DEF Remove, Calm, TrackedListed, Tracked, Current, clientVars, runVars
  <2>3. OnlyStaleCleared'
    BY <1>11, <1>u DEF Remove, Calm, OnlyStaleCleared, clientVars, runVars
  <2>4. OnlyLastLeaves'
    BY <1>11, <1>u DEF Remove, Calm, OnlyLastLeaves, clientVars, runVars
  <2> QED BY <2>1, <2>2, <2>3, <2>4 DEF Calm
<1>12. ASSUME NEW s \in Socket, Count(s) PROVE Calm'
  <2>1. ListedOnline'
    BY <1>12, <1>u DEF Count, Calm, ListedOnline, IsOnline, redisVars, clientVars, runVars
  <2>2. TrackedListed'
    BY <1>12, <1>u DEF Count, Calm, TrackedListed, Tracked, Current, redisVars, clientVars, runVars
  <2>3. OnlyStaleCleared'
    BY <1>12, <1>u DEF Count, Calm, OnlyStaleCleared, redisVars, clientVars, runVars
  <2>4. OnlyLastLeaves'
    BY <1>12, <1>u DEF Count, Calm, OnlyLastLeaves, redisVars, clientVars, runVars
  <2> QED BY <2>1, <2>2, <2>3, <2>4 DEF Calm
<1>13. ASSUME NEW s \in Socket, Wipe(s) PROVE Calm'
  <2>1. UserOf(s) \in disturbed /\ UserOf(s) \in User
    BY <1>13, <1>u DEF Wipe, Calm, OnlyLastLeaves
  <2>2. ListedOnline'
    BY <1>13, <2>1 DEF Wipe, Forget, Calm, ListedOnline, IsOnline
  <2>3. TrackedListed'
    BY <1>13, <1>u, <2>1 DEF Wipe, Forget, Calm, TrackedListed, Tracked, Current, clientVars, runVars
  <2>4. OnlyStaleCleared'
    BY <1>13, <2>1 DEF Wipe, Forget, Calm, OnlyStaleCleared, runVars
  <2>5. OnlyLastLeaves'
    BY <1>13, <1>u, <2>1 DEF Wipe, Forget, Calm, OnlyLastLeaves
  <2> QED BY <2>2, <2>3, <2>4, <2>5 DEF Calm
<1>14. ASSUME NEW s \in Socket, Leave(s) PROVE Calm'
  BY <1>14 DEF Leave, Calm, ListedOnline, TrackedListed, OnlyStaleCleared, OnlyLastLeaves,
     Tracked, Current, IsOnline, redisVars, runVars
<1>15. ASSUME NEW p \in Pod, Tell(p) PROVE Calm'
  <2>1. ListedOnline'
    BY <1>15, <1>u DEF Tell, Calm, ListedOnline, IsOnline, redisVars
  <2>2. TrackedListed'
    BY <1>15, <1>u DEF Tell, Calm, TrackedListed, Tracked, Current, redisVars
  <2>3. OnlyStaleCleared'
    BY <1>15, <1>u DEF Tell, Calm, OnlyStaleCleared, redisVars
  <2>4. OnlyLastLeaves'
    BY <1>15, <1>u DEF Tell, Calm, OnlyLastLeaves, redisVars
  <2> QED BY <2>1, <2>2, <2>3, <2>4 DEF Calm
<1>16. ASSUME NEW h \in Handler, Fail(h) PROVE Calm'
  <2>1. ListedOnline'
    BY <1>16, <1>u DEF Fail, Calm, ListedOnline, IsOnline, redisVars, clientVars, runVars
  <2>2. TrackedListed'
    BY <1>16, <1>u DEF Fail, Calm, TrackedListed, Tracked, Current, redisVars, clientVars, runVars
  <2>3. OnlyStaleCleared'
    BY <1>16, <1>u DEF Fail, Calm, OnlyStaleCleared, redisVars, clientVars, runVars
  <2>4. OnlyLastLeaves'
    BY <1>16, <1>u DEF Fail, Calm, OnlyLastLeaves, redisVars, clientVars, runVars
  <2> QED BY <2>1, <2>2, <2>3, <2>4 DEF Calm
<1>17. ASSUME NEW p \in Pod, Crash(p) PROVE Calm'
  <2>1. ListedOnline'
    BY <1>17, <1>u DEF Crash, Calm, ListedOnline, IsOnline, redisVars
  <2>2. TrackedListed'
    BY <1>17, <1>u DEF Crash, Calm, TrackedListed, Tracked, Current, redisVars
  <2>3. OnlyStaleCleared'
    BY <1>17, <1>u DEF Crash, Calm, OnlyStaleCleared, redisVars
  <2>4. OnlyLastLeaves'
    BY <1>17, <1>u DEF Crash, Calm, OnlyLastLeaves, redisVars
  <2> QED BY <2>1, <2>2, <2>3, <2>4 DEF Calm
<1> QED
  BY <1>1, <1>2, <1>3, <1>4, <1>5, <1>6, <1>7, <1>8, <1>9, <1>10, <1>11, <1>12, <1>13,
     <1>14, <1>15, <1>16, <1>17 DEF Next, Arrive, Depart, Sweep, TimeOut, BeatLate

LEMMA CalmInvariant == Spec => []Calm
<1>1. Init => Calm
  BY PresenceAssumption DEF Init, Calm, ListedOnline, TrackedListed, OnlyStaleCleared,
     OnlyLastLeaves, Tracked, Current, Handler
<1>2. TypeOK /\ Calm /\ [Next]_vars => Calm'
  BY CalmStep
<1> QED BY <1>1, <1>2, PresenceType, PTL DEF Spec

(* A user whose heartbeat has not expired and who has always had a socket, *)
(* since a connection began the presence of the user with nothing of an    *)
(* earlier one under way, is online for every snapshot, whatever connects, *)
(* ends, fails or dies elsewhere.                                          *)
(* (trackSocketDisconnected and clearPresenceState)                        *)
THEOREM StaysOnline == Spec => []UndisturbedStaysOnline
<1>1. TypeOK /\ Calm => UndisturbedStaysOnline
  BY DEF Calm, ListedOnline, TrackedListed, Tracked, UndisturbedStaysOnline
<1> QED BY <1>1, PresenceType, CalmInvariant, PTL

-----------------------------------------------------------------------------
(* A step that leaves the tracked sockets and their view alone, and takes  *)
(* no user off what a handler is to find                                   *)
LEMMA MetKept ==
  ASSUME Met,
         \A s \in Socket : Tracked(s)' /\ UserOf(s) \notin disturbed' =>
             /\ Tracked(s) /\ UserOf(s) \notin disturbed
             /\ view[s[1]] \ disturbed' \subseteq view'[s[1]]
             /\ \A u \in User \ disturbed' : Expects(s, u) => Expects(s, u)'
  PROVE  Met'
BY PresenceAssumption DEF Met, Acquainted, UserOf, Socket

LEMMA MetStep ==
  ASSUME TypeOK, Calm, Met, [Next]_vars
  PROVE  Met'
<1> USE PresenceAssumption DEF TypeOK, Handler
<1>u. \A s \in Socket : UserOf(s) \in User /\ s[1] \in Tab
  BY DEF UserOf, Socket
<1>1. CASE UNCHANGED vars
  BY <1>1 DEF vars, clientVars, runVars, Met, Tracked, Current, Acquainted, Expects
<1>2. ASSUME NEW t \in Tab, Connect(t) PROVE Met'
  <2>1. ASSUME NEW s \in Socket, Tracked(s)'
        PROVE  Tracked(s) /\ view'[s[1]] = view[s[1]] /\ (\A u \in User : Expects(s, u)' = Expects(s, u))
    BY <1>2, <1>u, <2>1, ConnectTracked DEF Connect, Expects
  <2> QED BY <1>2, <2>1, MetKept DEF Connect
<1>3. ASSUME NEW t \in Tab, Close(t) PROVE Met'
  BY <1>3, <1>u, MetKept DEF Close, Tracked, Current, Expects, runVars
<1>4. ASSUME NEW t \in Tab, Ping(t) PROVE Met'
  BY <1>4, MetKept DEF Ping, Tracked, Current, Expects, clientVars, runVars
<1>5. ASSUME NEW u \in User, Expire(u) PROVE Met'
  BY <1>5, MetKept DEF Expire, Tracked, Current, Expects, clientVars, runVars
<1>6. ASSUME NEW s \in Socket, Track(s) PROVE Met'
  <2>1. /\ pc'[s] = "list" /\ \A h \in Handler \ {s} : pc'[h] = pc[h]
        /\ UNCHANGED <<used, linked, view, rest, found>>
    BY <1>6 DEF Track, clientVars
  <2>2. /\ disturbed \subseteq disturbed' \cup {UserOf(s)}
        /\ Begins(s) \/ disturbed' = disturbed
    BY <1>6 DEF Track
  <2>3. ASSUME NEW r \in Socket, r # s, Tracked(r)', UserOf(r) \notin disturbed'
        PROVE  /\ Tracked(r) /\ UserOf(r) \notin disturbed
               /\ \A u : Expects(r, u)' = Expects(r, u)
    <3>1. Tracked(r) /\ \A u : Expects(r, u)' = Expects(r, u)
      BY <2>1, <2>3 DEF Tracked, Current, Expects
    <3>2. UserOf(r) \notin disturbed
      BY <2>2, <2>3, <3>1 DEF Begins
    <3> QED BY <3>1, <3>2
  <2>4. \A u : Expects(s, u)'
    BY <2>1 DEF Expects
  <2> QED BY <2>1, <2>3, <2>4 DEF Met, Acquainted
<1>7. ASSUME NEW h \in Handler, List(h) PROVE Met'
  <2>1. ASSUME NEW s \in Socket, Tracked(s)', UserOf(s) \notin disturbed
        PROVE  UserOf(s) \in active /\ Tracked(s)
    BY <1>7, <2>1 DEF List, Calm, TrackedListed, Tracked, Current, clientVars, Socket
  <2>2. ASSUME NEW s \in Socket, NEW u \in User, Tracked(s)', u \in active, Expects(s, u)
        PROVE  Expects(s, u)'
    BY <1>7, <2>2 DEF List, Expects, Tracked, Current, Socket
  <2> QED BY <1>7, <1>u, <2>1, <2>2 DEF List, Met, Acquainted, clientVars
<1>8. ASSUME NEW h \in Handler, Judge(h) PROVE Met'
  <2>1. PICK unread \in SUBSET {u \in rest[h] : IsOnline(u)} :
            LET stale == {u \in rest[h] : ~IsOnline(u)} \cup unread IN
            /\ rest' = [rest EXCEPT ![h] = stale]
            /\ found' = [found EXCEPT ![h] = IF h \in Pod THEN stale ELSE rest[h] \ stale]
            /\ pc' = [pc EXCEPT ![h] = IF h \in Pod /\ stale = {} THEN "none" ELSE "clear"]
            /\ disturbed' = disturbed \cup unread
    BY <1>8 DEF Judge
  <2>2. /\ pc[h] = "judge"
        /\ h \in Socket => pc'[h] = "clear" /\ found'[h] = {u \in rest[h] : IsOnline(u)} \ unread
        /\ \A g \in Handler \ {h} : pc'[g] = pc[g] /\ rest'[g] = rest[g] /\ found'[g] = found[g]
    <3>1. h \in Socket => h \notin Pod
      BY DEF Socket
    <3> QED BY <1>8, <2>1, <3>1 DEF Judge
  <2>3. ASSUME NEW s \in Socket, Tracked(s)', UserOf(s) \notin disturbed'
        PROVE  Tracked(s) /\ UserOf(s) \notin disturbed /\ IsOnline(UserOf(s)) /\ UserOf(s) \notin unread
    <3>1. Tracked(s)
      BY <1>8, <2>2, <2>3 DEF Judge, Tracked, Current, clientVars
    <3> QED BY <2>1, <2>3, <3>1 DEF Calm, ListedOnline, TrackedListed
  <2>4. ASSUME NEW s \in Socket, NEW u \in User, IsOnline(u), u \notin unread, Expects(s, u)
        PROVE  Expects(s, u)'
    <3>1. CASE s = h
      BY <2>2, <2>4, <3>1 DEF Expects
    <3>2. CASE s # h
      BY <2>2, <2>4, <3>2 DEF Expects
    <3> QED BY <3>1, <3>2
  <2> QED BY <1>8, <1>u, <2>3, <2>4 DEF Judge, Met, Acquainted, clientVars
<1>9. ASSUME NEW h \in Handler, Clear(h) PROVE Met'
  BY <1>9, MetKept DEF Clear, Tracked, Current, Expects, clientVars
<1>10. ASSUME NEW s \in Socket, Announce(s) PROVE Met'
  <2>1. PICK us \in {Peers[UserOf(s)], {}} :
            /\ AskPeers(UserOf(s), us)
            /\ LET online == us \cap found[s] IN
                   view' = [t \in Tab |->
                       view[t] \cup (IF t = s[1] /\ Current(s) THEN online ELSE {})
                               \cup (IF t \in TabsOf(online) THEN {UserOf(s)} ELSE {})]
            /\ disturbed' = IF us = Peers[UserOf(s)] THEN disturbed
                            ELSE disturbed \cup {UserOf(s)}
    BY <1>10 DEF Announce
  <2>2. \A t \in Tab : view[t] \subseteq view'[t]
    BY <2>1
  <2>3. \A r \in Socket : Tracked(r)' => Tracked(r)
    BY <1>10 DEF Announce, Tracked, Current
  <2>4. ASSUME NEW r \in Socket, r # s, NEW u \in User PROVE Expects(r, u) => Expects(r, u)'
    BY <1>10, <2>4 DEF Announce, Expects
  <2>5. ASSUME NEW r \in Socket, Tracked(s), Tracked(r), UserOf(r) \in Peers[UserOf(s)],
               UserOf(s) \notin disturbed', Expects(s, UserOf(r))
        PROVE  Acquainted(s, r)' /\ Acquainted(r, s)'
    <3>1. us = Peers[UserOf(s)]
      BY <2>1, <2>5
    <3>2. UserOf(r) \in us \cap found[s]
      BY <1>10, <2>5, <3>1 DEF Announce, Expects
    <3>3. r[1] \in TabsOf(us \cap found[s]) /\ Current(s)
      BY <2>5, <3>2 DEF TabsOf, Tracked, Current, UserOf
    <3>4. UserOf(r) \in view'[s[1]] /\ UserOf(s) \in view'[r[1]]
      BY <1>u, <2>1, <3>2, <3>3
    <3> QED BY <3>4 DEF Acquainted
  <2>6. disturbed \subseteq disturbed'
    BY <2>1
  <2>7. ASSUME NEW q \in Socket, NEW r \in Socket, Tracked(q)', Tracked(r)',
               UserOf(r) \in Peers[UserOf(q)],
               UserOf(q) \notin disturbed', UserOf(r) \notin disturbed'
        PROVE  (Acquainted(q, r) \/ Expects(q, UserOf(r)) \/ Expects(r, UserOf(q)))'
    <3>1. Acquainted(q, r) \/ Expects(q, UserOf(r)) \/ Expects(r, UserOf(q))
      BY <2>3, <2>6, <2>7 DEF Met
    <3>2. CASE Acquainted(q, r)
      BY <1>u, <2>2, <3>2 DEF Acquainted
    <3>3. CASE Expects(q, UserOf(r))
      BY <1>u, <2>3, <2>4, <2>5, <2>7, <3>3
    <3>4. CASE Expects(r, UserOf(q))
      <4>1. UserOf(q) \in Peers[UserOf(r)]
        BY <1>u, <2>7
      <4> QED BY <1>u, <2>3, <2>4, <2>5, <2>7, <3>4, <4>1
    <3> QED BY <3>1, <3>2, <3>3, <3>4
  <2> QED BY <2>7 DEF Met
<1>11. ASSUME NEW s \in Socket, Remove(s) PROVE Met'
  BY <1>11, MetKept DEF Remove, Tracked, Current, Expects, clientVars, runVars
<1>12. ASSUME NEW s \in Socket, Count(s) PROVE Met'
  BY <1>12, MetKept DEF Count, Tracked, Current, Expects, clientVars, runVars
<1>13. ASSUME NEW s \in Socket, Wipe(s) PROVE Met'
  BY <1>13, MetKept DEF Wipe, Tracked, Current, Expects, clientVars, runVars
<1>14. ASSUME NEW s \in Socket, Leave(s) PROVE Met'
  <2>1. UserOf(s) \in disturbed
    BY <1>14 DEF Leave, Calm, OnlyLastLeaves
  <2>2. \A t \in Tab : view[t] \ disturbed \subseteq view'[t]
    BY <1>14, <2>1 DEF Leave, TellOffline
  <2> QED BY <1>14, <1>u, <2>2, MetKept DEF Leave, Tracked, Current, Expects, runVars
<1>15. ASSUME NEW p \in Pod, Tell(p) PROVE Met'
  <2>1. found[p] \subseteq disturbed
    BY <1>15 DEF Tell, Calm, OnlyStaleCleared
  <2>2. \A t \in Tab : view[t] \ disturbed \subseteq view'[t]
    BY <1>15, <2>1 DEF Tell, TellOffline
  <2>3. \A s \in Socket : pc'[s] = pc[s] /\ rest'[s] = rest[s] /\ found'[s] = found[s]
    BY <1>15 DEF Tell, Socket
  <2> QED BY <1>15, <1>u, <2>2, <2>3, MetKept DEF Tell, Tracked, Current, Expects
<1>16. ASSUME NEW h \in Handler, Fail(h) PROVE Met'
  BY <1>16, MetKept DEF Fail, Tracked, Current, Expects, clientVars, runVars
<1>17. ASSUME NEW p \in Pod, Crash(p) PROVE Met'
  BY <1>17, <1>u, MetKept DEF Crash, Tracked, Current, Expects
<1> QED
  BY <1>1, <1>2, <1>3, <1>4, <1>5, <1>6, <1>7, <1>8, <1>9, <1>10, <1>11, <1>12, <1>13,
     <1>14, <1>15, <1>16, <1>17 DEF Next, Arrive, Depart, Sweep, TimeOut, BeatLate

LEMMA MetInvariant == Spec => []Met
<1>1. Init => Met
  BY PresenceAssumption DEF Init, Met, Tracked, Current, Handler
<1>2. TypeOK /\ Calm /\ Met /\ [Next]_vars => Met'
  BY MetStep
<1> QED BY <1>1, <1>2, PresenceType, CalmInvariant, PTL DEF Spec

(* Two connected peers see each other, in whatever order their handlers    *)
(* track, list and announce, unless the presence of one of them has been   *)
(* interrupted since a connection began it.                                *)
(* (presenceHandler and the emits it ends with)                            *)
THEOREM PeersSeeEachOther == Spec => []ConnectedSeeEachOther
<1>1. Met => ConnectedSeeEachOther
  BY DEF Met, ConnectedSeeEachOther, Tracked, Expects, Acquainted
<1> QED BY <1>1, MetInvariant, PTL
=============================================================================
