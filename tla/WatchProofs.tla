---------------------------- MODULE WatchProofs ----------------------------
(***************************************************************************)
(* Alerts are announced in pairs, for any hosts, rules, fixes and times.   *)
(* The sessions with a device's page are few, for any number of changes    *)
(* to its credentials and of sessions that end.  What SNMP is read for is  *)
(* the device's own, for any devices, and the network map is true to the   *)
(* controller's answer, for any answer.                                    *)
(***************************************************************************)
EXTENDS MCWatch, TLAPS, FiniteSetTheorems, WellFoundedInduction

Records == [firing : BOOLEAN, active : BOOLEAN, age : Int]

(* What the alerter's loop carries where: alerts to work through from an   *)
(* evaluation until the last is announced, a fix until it is held.         *)
Shape ==
  /\ DOMAIN views \subseteq Hosts /\ DOMAIN states \subseteq Keys
  /\ states \in [DOMAIN states -> Records]
  /\ todo \subseteq [key : Keys, firing : BOOLEAN]
  /\ pc \in {"idle", "viewed", "draining", "fixing", "repolling", "repolled", "holding"}
  /\ pc \in {"idle", "viewed"} => todo = {}
  /\ pc \in {"idle", "viewed", "draining"} => fix = <<>>

(* An alert to work through is the only one of its condition.  Unless the  *)
(* host has been forgotten since, it says what the condition's state says, *)
(* and was told if it is a recovery. *)
TodoIsSo ==
  /\ \A t \in todo : /\ t.key # fix
                     /\ t.key \in DOMAIN states => t.firing = Firing(t.key) /\ (t.firing \/ t.key \in told)
  /\ \A t, u \in todo : t.key = u.key => t = u

IInv == Shape /\ TodoIsSo /\ FiringIsTold
-----------------------------------------------------------------------------
(* A judgment is a state, and keys are not the empty tuple. *)
LEMMA JudgmentIsRecord == ASSUME Shape, NEW k \in Judged PROVE Judgment(k) \in Records
<1>1. Age(k) \in Int
  BY DEF Age, Shape, Records
<1>2. Active(k[1], k[2]) \in BOOLEAN /\ Firing(k) \in BOOLEAN
  BY DEF Active, Firing, Shape, Records
<1> QED
  BY <1>1, <1>2 DEF Judgment, Records

LEMMA JudgedAreKeys == ASSUME Shape PROVE Judged \subseteq Keys
  BY DEF Shape, Judged, Keys

LEMMA KeysAreNotEmpty == \A k \in Keys : k # <<>>
  BY DEF Keys

-----------------------------------------------------------------------------
(* What moves neither the conditions' states nor the alerter's loop. *)
LEMMA Elsewhere ==
  ASSUME IInv, UNCHANGED <<states, pc, todo, fix, told>>, DOMAIN views' \subseteq Hosts
  PROVE  IInv' /\ RecoveryFollowsAlert
  BY DEF IInv, Shape, TodoIsSo, FiringIsTold, Firing, RecoveryFollowsAlert, Announced

(* The loop goes on to a step that announces nothing and holds nothing. *)
LEMMA LoopGoesOn ==
  ASSUME IInv, UNCHANGED <<states, views, todo, fix, told>>,
         \/ pc = "draining" /\ todo = {} /\ pc' = "idle"
         \/ pc = "fixing" /\ pc' \in {"repolling", "holding"}
         \/ pc = "repolling" /\ pc' \in {"repolled", "holding"}
         \/ pc = "repolled" /\ pc' = "holding"
  PROVE  IInv' /\ RecoveryFollowsAlert
  BY DEF IInv, Shape, TodoIsSo, FiringIsTold, Firing, RecoveryFollowsAlert, Announced

LEMMA TakeViewsStep == ASSUME IInv, TakeViews PROVE IInv' /\ RecoveryFollowsAlert
<1>1. DOMAIN views' \subseteq Hosts
  BY DEF TakeViews, Listed
<1> QED
  BY <1>1 DEF TakeViews, history, IInv, Shape, TodoIsSo, FiringIsTold, Firing, RecoveryFollowsAlert, Announced

(* An evaluation: the alerts it finds changed are those to work through,   *)
(* and one that recovers was told, because nothing was under way.          *)
LEMMA EvaluateStep == ASSUME IInv, Evaluate PROVE IInv' /\ RecoveryFollowsAlert
<1>1. todo = {} /\ fix = <<>> /\ fix' = fix /\ told' = told
  BY DEF Evaluate, IInv, Shape
<1>2. DOMAIN states' = DOMAIN states \cup Judged
  BY DEF Evaluate
<1>3. \A k \in Judged : states'[k] = Judgment(k) /\ Judgment(k) \in Records
  BY JudgmentIsRecord DEF Evaluate, IInv
<1>4. \A k \in DOMAIN states \ Judged : states'[k] = states[k] /\ states[k] \in Records
  BY DEF Evaluate, IInv, Shape
<1>5. Judged \subseteq Keys
  BY JudgedAreKeys DEF IInv
<1>6. \A t : t \in todo' <=> \E k \in Judged : /\ Judgment(k).firing # Firing(k)
                                               /\ t = [key |-> k, firing |-> Judgment(k).firing]
  BY DEF Evaluate
<1>7. \A k \in DOMAIN states : Firing(k) => k \in told
  BY <1>1, KeysAreNotEmpty DEF IInv, FiringIsTold, Shape
<1>8. Shape'
  <2>1. states' \in [DOMAIN states' -> Records]
    BY <1>2, <1>3, <1>4 DEF Evaluate
  <2>2. todo' \subseteq [key : Keys, firing : BOOLEAN]
    BY <1>3, <1>5, <1>6 DEF Records
  <2>3. DOMAIN views' \subseteq Hosts
    BY DEF Evaluate, NoViews
  <2>4. DOMAIN states' \subseteq Keys
    BY <1>2, <1>5 DEF IInv, Shape
  <2>5. pc' = "draining" /\ fix' = <<>>
    BY <1>1 DEF Evaluate
  <2> QED
    BY <2>1, <2>2, <2>3, <2>4, <2>5 DEF Shape
<1>9. TodoIsSo'
  <2>1. ASSUME NEW t \in todo' PROVE t.key # fix' /\ t.firing = Firing(t.key)' /\ (t.firing \/ t.key \in told)
    <3>1. PICK k \in Judged : t = [key |-> k, firing |-> Judgment(k).firing]
      BY <2>1, <1>6
    <3>2. t.key = k /\ t.firing = Judgment(k).firing
      BY <3>1
    <3>3. Firing(k)' = Judgment(k).firing
      BY <1>2, <1>3 DEF Firing, Records
    <3>4. ~Judgment(k).firing => k \in DOMAIN states /\ Firing(k)
      BY <3>1, <1>3, <1>6 DEF Firing, Records
    <3> QED
      BY <3>2, <3>3, <3>4, <1>1, <1>5, <1>7, KeysAreNotEmpty
  <2>2. ASSUME NEW t \in todo', NEW u \in todo', t.key = u.key PROVE t = u
    <3>1. PICK k \in Judged : t = [key |-> k, firing |-> Judgment(k).firing]
      BY <2>2, <1>6
    <3>2. PICK j \in Judged : u = [key |-> j, firing |-> Judgment(j).firing]
      BY <2>2, <1>6
    <3>3. k = j
      BY <2>2, <3>1, <3>2
    <3> QED
      BY <3>1, <3>2, <3>3
  <2> QED
    BY <1>1, <2>1, <2>2 DEF TodoIsSo
<1>10. FiringIsTold'
  <2> SUFFICES ASSUME NEW k \in DOMAIN states', Firing(k)'
               PROVE  k \in told' \/ [key |-> k, firing |-> TRUE] \in todo'
    BY DEF FiringIsTold
  <2>1. Firing(k) => k \in told
    BY <1>7 DEF Firing
  <2>2. CASE k \in Judged
    <3>1. Judgment(k).firing = TRUE
      BY <2>2, <1>3 DEF Firing, Records
    <3>2. CASE Firing(k)
      BY <3>2, <2>1, <1>1 DEF Firing
    <3>3. CASE ~Firing(k)
      BY <3>1, <3>3, <2>2, <1>6
    <3> QED
      BY <3>2, <3>3
  <2>3. CASE k \notin Judged
    BY <2>3, <2>1, <1>1, <1>2, <1>4 DEF Firing
  <2> QED
    BY <2>2, <2>3
<1>11. RecoveryFollowsAlert
  BY <1>1 DEF RecoveryFollowsAlert, Announced
<1> QED
  BY <1>8, <1>9, <1>10, <1>11 DEF IInv

-----------------------------------------------------------------------------
(* One alert taken off the list, announced or given back. *)
LEMMA RecoverStep == ASSUME IInv, NEW t \in todo, Recover(t) PROVE IInv' /\ RecoveryFollowsAlert
<1>1. t.key \in DOMAIN states => ~Firing(t.key)
  BY DEF Recover, IInv, TodoIsSo
<1>2. Shape' /\ TodoIsSo'
  BY DEF Recover, IInv, Shape, TodoIsSo, Firing
<1>3. FiringIsTold'
  <2> SUFFICES ASSUME NEW k \in DOMAIN states, Firing(k)
               PROVE  k \in told' \/ [key |-> k, firing |-> TRUE] \in todo' \/ fix' = k
    BY DEF Recover, FiringIsTold, Firing
  <2>1. k # t.key
    BY <1>1
  <2>2. [key |-> k, firing |-> TRUE] # t
    BY <2>1
  <2> QED
    BY <2>1, <2>2 DEF Recover, IInv, FiringIsTold
<1>4. RecoveryFollowsAlert
  <2> SUFFICES ASSUME NEW k \in Keys, [key |-> k, firing |-> FALSE] \in todo \ todo', k \in DOMAIN states
               PROVE  k \in told
    BY DEF RecoveryFollowsAlert, Announced
  <2>1. t = [key |-> k, firing |-> FALSE]
    BY DEF Recover
  <2> QED
    BY <2>1 DEF IInv, TodoIsSo
<1> QED
  BY <1>2, <1>3, <1>4 DEF IInv

LEMMA AnnounceStep == ASSUME IInv, NEW t \in todo, Announce(t) PROVE IInv' /\ RecoveryFollowsAlert
<1>1. Shape' /\ TodoIsSo'
  BY DEF Announce, IInv, Shape, TodoIsSo, Firing
<1>2. FiringIsTold'
  <2> SUFFICES ASSUME NEW k \in DOMAIN states, Firing(k)
               PROVE  k \in told' \/ [key |-> k, firing |-> TRUE] \in todo' \/ fix' = k
    BY DEF Announce, FiringIsTold, Firing
  <2>1. CASE k = t.key
    BY <2>1 DEF Announce
  <2>2. CASE k # t.key
    <3>1. [key |-> k, firing |-> TRUE] # t
      BY <2>2
    <3> QED
      BY <3>1 DEF Announce, IInv, FiringIsTold
  <2> QED
    BY <2>1, <2>2
<1>3. RecoveryFollowsAlert
  BY DEF Announce, RecoveryFollowsAlert, Announced
<1> QED
  BY <1>1, <1>2, <1>3 DEF IInv

LEMMA StartFixStep == ASSUME IInv, NEW t \in todo, StartFix(t) PROVE IInv' /\ RecoveryFollowsAlert
<1>1. Shape' /\ TodoIsSo'
  BY DEF StartFix, history, IInv, Shape, TodoIsSo, Firing
<1>2. FiringIsTold'
  <2> SUFFICES ASSUME NEW k \in DOMAIN states, Firing(k)
               PROVE  k \in told' \/ [key |-> k, firing |-> TRUE] \in todo' \/ fix' = k
    BY DEF StartFix, FiringIsTold, Firing
  <2>1. CASE k = t.key
    BY <2>1 DEF StartFix
  <2>2. CASE k # t.key
    <3>1. [key |-> k, firing |-> TRUE] # t
      BY <2>2
    <3>2. fix # k
      BY KeysAreNotEmpty DEF StartFix, IInv, Shape
    <3> QED
      BY <3>1, <3>2 DEF StartFix, history, IInv, FiringIsTold
  <2> QED
    BY <2>1, <2>2
<1>3. RecoveryFollowsAlert
  BY DEF StartFix, RecoveryFollowsAlert, Announced
<1> QED
  BY <1>1, <1>2, <1>3 DEF IInv

(* The condition that was fixed is held: it does not fire. *)
LEMMA HoldStep == ASSUME IInv, Hold PROVE IInv' /\ RecoveryFollowsAlert
<1>1. /\ DOMAIN states' = DOMAIN states
      /\ \A k \in DOMAIN states : states'[k] = IF k = fix THEN Held(states[k]) ELSE states[k]
  BY DEF Hold
<1>2. ASSUME NEW k \in DOMAIN states PROVE states'[k] \in Records
  <2>1. Held(states[k]) \in Records
    BY DEF Held, Records
  <2>2. states[k] \in Records
    BY DEF IInv, Shape
  <2> QED
    BY <1>1, <2>1, <2>2
<1>3. \A k : Firing(k)' <=> Firing(k) /\ k # fix
  BY <1>1 DEF Firing, Held
<1>4. Shape'
  BY <1>1, <1>2 DEF Hold, IInv, Shape
<1>5. TodoIsSo'
  <2>1. ASSUME NEW t \in todo PROVE t.key # <<>> /\ (t.key \in DOMAIN states => t.firing = Firing(t.key)' /\ (t.firing \/ t.key \in told))
    <3>1. t.key \in Keys /\ t.key # fix
      BY DEF IInv, Shape, TodoIsSo
    <3>2. t.key \in DOMAIN states => Firing(t.key)' = Firing(t.key)
      BY <1>1, <3>1 DEF Firing
    <3> QED
      BY <3>1, <3>2, KeysAreNotEmpty DEF IInv, TodoIsSo
  <2> QED
    BY <1>1, <2>1 DEF Hold, history, IInv, TodoIsSo
<1>6. FiringIsTold'
  BY <1>1, <1>3 DEF Hold, history, IInv, FiringIsTold
<1>7. RecoveryFollowsAlert
  BY DEF Hold, RecoveryFollowsAlert, Announced
<1> QED
  BY <1>4, <1>5, <1>6, <1>7 DEF IInv

-----------------------------------------------------------------------------
(* A host that is forgotten has no state, and what was said of it is over. *)
LEMMA ForgetStep == ASSUME IInv, NEW h \in Hosts, ForgetAlerts(h) PROVE IInv' /\ RecoveryFollowsAlert
<1>1. /\ DOMAIN states' = {k \in DOMAIN states : k[1] # h}
      /\ \A k \in DOMAIN states' : states'[k] = states[k]
      /\ states' \in [DOMAIN states' -> Records]
  BY DEF ForgetAlerts, Restrict, IInv, Shape
<1>2. \A k : Firing(k)' <=> Firing(k) /\ k[1] # h
  BY <1>1 DEF Firing
<1>3. Shape'
  BY <1>1 DEF ForgetAlerts, loop, IInv, Shape
<1>4. TodoIsSo'
  <2>1. \A t \in todo : t.key \in DOMAIN states' => Firing(t.key)' = Firing(t.key)
    BY <1>1 DEF Firing
  <2> QED
    BY <1>1, <2>1 DEF ForgetAlerts, loop, IInv, TodoIsSo
<1>5. FiringIsTold'
  BY <1>1, <1>2 DEF ForgetAlerts, loop, IInv, FiringIsTold
<1>6. RecoveryFollowsAlert
  BY DEF ForgetAlerts, loop, RecoveryFollowsAlert, Announced
<1> QED
  BY <1>3, <1>4, <1>5, <1>6 DEF IInv

(* Time makes conditions older, and nothing else of them. *)
LEMMA TickStep == ASSUME IInv, Tick PROVE IInv' /\ RecoveryFollowsAlert
<1>1. /\ DOMAIN states' = DOMAIN states
      /\ \A k \in DOMAIN states : states'[k] = Older(states[k], k[2])
  BY DEF Tick
<1>2. \A k \in DOMAIN states : states'[k] \in Records /\ states'[k].firing = states[k].firing
  BY <1>1 DEF Older, IInv, Shape, Records
<1>3. \A k : Firing(k)' = Firing(k)
  BY <1>1, <1>2 DEF Firing
<1>4. Shape'
  BY <1>1, <1>2 DEF Tick, IInv, Shape
<1>5. TodoIsSo' /\ FiringIsTold'
  BY <1>1, <1>3 DEF Tick, history, IInv, TodoIsSo, FiringIsTold
<1>6. RecoveryFollowsAlert
  BY DEF Tick, RecoveryFollowsAlert, Announced
<1> QED
  BY <1>4, <1>5, <1>6 DEF IInv

-----------------------------------------------------------------------------
LEMMA InvariantStep == ASSUME IInv, [Next]_vars PROVE IInv' /\ RecoveryFollowsAlert
<1>1. CASE TakeViews
  BY <1>1, TakeViewsStep
<1>2. CASE Evaluate
  BY <1>2, EvaluateStep
<1>3. CASE Drained
  BY <1>3, LoopGoesOn DEF Drained, history
<1>4. CASE ScriptEnds
  <2>1. pc = "fixing" /\ pc' \in {"repolling", "holding"}
    BY <1>4 DEF ScriptEnds
  <2> QED
    BY <1>4, <2>1, LoopGoesOn DEF ScriptEnds, history
<1>5. CASE RepollReads
  BY <1>5, LoopGoesOn DEF RepollReads, history
<1>6. CASE RepollSets
  BY <1>6, LoopGoesOn DEF RepollSets
<1>7. CASE Hold
  BY <1>7, HoldStep
<1>8. ASSUME NEW t \in todo, Recover(t) \/ Announce(t) \/ StartFix(t) PROVE IInv' /\ RecoveryFollowsAlert
  BY <1>8, RecoverStep, AnnounceStep, StartFixStep
<1>9. CASE Tick
  BY <1>9, TickStep
<1>10. ASSUME NEW h \in Hosts, ForgetAlerts(h) PROVE IInv' /\ RecoveryFollowsAlert
  BY <1>10, ForgetStep
<1>11. ASSUME NEW h \in Hosts,
              \/ Connect(h) \/ Disconnect(h) \/ Telemetry(h) \/ ServiceFlips(h) \/ SetPref(h)
              \/ RemoveHost(h) \/ ForgetReadings(h) \/ ForgetPrefs(h)
       PROVE  IInv' /\ RecoveryFollowsAlert
  <2>1. UNCHANGED <<states, pc, todo, fix, told, views>>
    BY <1>11 DEF Connect, Disconnect, Telemetry, ServiceFlips, SetPref, RemoveHost, ForgetReadings, ForgetPrefs,
       loop, history
  <2> QED
    BY <2>1, Elsewhere DEF IInv, Shape
<1>12. ASSUME PollRound \/ \E h \in Hosts : Polling(h) PROVE IInv' /\ RecoveryFollowsAlert
  <2>1. UNCHANGED <<states, pc, todo, fix, told, views>>
    BY <1>12 DEF PollRound, Polling, PollReads, PollFails, PollSets, loop, history
  <2> QED
    BY <2>1, Elsewhere DEF IInv, Shape
<1>13. CASE UNCHANGED vars
  <2>1. UNCHANGED <<states, pc, todo, fix, told, views>>
    BY <1>13 DEF vars, loop, history
  <2> QED
    BY <2>1, Elsewhere DEF IInv, Shape
<1> QED
  BY <1>1, <1>2, <1>3, <1>4, <1>5, <1>6, <1>7, <1>8, <1>9, <1>10, <1>11, <1>12, <1>13 DEF Next, Work, World

(* Whatever hosts connect, leave and are forgotten while fixes run, what   *)
(* fires is told or about to be, and no recovery is announced of an alert  *)
(* that was not (evaluate, dispatch, tryRemediate, forgetHost).            *)
THEOREM NoticesArePaired == Spec => AnnouncedInPairs
<1>1. Init => IInv
  BY DEF Init, NoViews, IInv, Shape, TodoIsSo, FiringIsTold
<1>2. IInv /\ [Next]_vars => IInv' /\ RecoveryFollowsAlert
  BY InvariantStep
<1>3. IInv' => FiringIsTold'
  BY DEF IInv
<1> QED
  BY <1>1, <1>2, <1>3, PTL DEF Spec, AnnouncedInPairs

-----------------------------------------------------------------------------
(* A device's page (StatusProbe). *)

(* The poll and a view may each have to sign in when no session is held,   *)
(* and once they have found none; and each may yet find out that the       *)
(* session it fetches with, or the held one, has ended. *)
MaySignIn(t) == IF held = 0 \/ at[t] = "login" THEN 1 ELSE 0
Doomed(t) == IF (at[t] = "fetch" /\ jar[t] \notin live) \/ (held # 0 /\ held \notin live) THEN 1 ELSE 0

Spent ==
  logins + MaySignIn("poll") + MaySignIn("view") + 2 * (Doomed("poll") + Doomed("view"))
    <= 2 * (1 + 2 * expired + creds)

ProbeTypes ==
  /\ logins \in Nat /\ expired \in Nat /\ creds \in Nat /\ held \in Nat
  /\ at \in [{"poll", "view"} -> {"idle", "client", "login", "fetch"}]
  /\ jar \in [{"poll", "view"} -> Nat]
  /\ served \in SomeTables

OwnValue(row) == row.name = "" \/ row.value \in {"", row.name}

ProbeInv == ProbeTypes /\ Spent /\ J!ValuesAreTheirOwn

LEMMA SmallestOf == ASSUME NEW S, S \subseteq Nat, S # {} PROVE J!Min(S) \in S
<1>1. PICK x \in S : \A y \in S : ~(<<y, x>> \in OpToRel(<, Nat))
  BY NatLessThanWellFounded, WFMin
<1>2. \A y \in S : ~(y < x)
  BY <1>1 DEF OpToRel
<1>3. \E z \in S : \A y \in S : z <= y
  BY <1>2
<1> QED BY <1>3 DEF J!Min

LEMMA TwoThreads == J!Sessions = 1..3
<1>1. J!Cardinality(J!Threads) = 2
  <2>1. IsFiniteSet({"poll"}) /\ Cardinality({"poll"}) = 1 /\ "view" \notin {"poll"}
    BY FS_Singleton
  <2>2. Cardinality({"poll"} \cup {"view"}) = 2
    BY <2>1, FS_AddElement
  <2>3. {"poll"} \cup {"view"} = J!Threads
    BY DEF J!Threads
  <2>4. J!Cardinality(J!Threads) = Cardinality(J!Threads)
    BY DEF J!Cardinality, Cardinality
  <2> QED BY <2>2, <2>3, <2>4
<1> QED BY <1>1 DEF J!Sessions

(* A session that is signed in to is new to all who are fetching. *)
LEMMA NewSession ==
  ASSUME NEW t \in {"poll", "view"}, at[t] = "login"
  PROVE  J!Min(J!Sessions \ J!InUse) \in 1..3 \ J!InUse
<1> DEFINE u == IF t = "poll" THEN "view" ELSE "poll"
<1>1. J!InUse \subseteq {held, jar[u]}
  BY DEF J!InUse, J!Threads
<1>2. \E n \in 1..3 : n # held /\ n # jar[u]
  <2>1. (1 # held /\ 1 # jar[u]) \/ (2 # held /\ 2 # jar[u]) \/ (3 # held /\ 3 # jar[u])
    OBVIOUS
  <2> QED BY <2>1
<1> HIDE DEF u
<1>3. J!Sessions \ J!InUse # {} /\ J!Sessions \ J!InUse \subseteq Nat
  BY <1>1, <1>2, TwoThreads
<1> QED BY <1>3, SmallestOf, TwoThreads

LEMMA RowsAreTheirOwn == ASSUME NEW rows \in SomeTables, NEW i \in DOMAIN rows PROVE OwnValue(rows[i]) /\ i \in Nat
<1>1. PICK a, b : rows = <<a, b>> /\ OwnValue(a) /\ OwnValue(b)
  <2>1. OwnValue(Named("tmp")) /\ OwnValue(Named("ph"))
        /\ OwnValue([name |-> "tmp", value |-> ""]) /\ OwnValue([name |-> "", value |-> "ph"])
    BY DEF Named, OwnValue
  <2> QED BY <2>1 DEF SomeTables
<1>2. i \in 1..2
  BY <1>1
<1> QED BY <1>1, <1>2

LEMMA ExtractIsOwn ==
  ASSUME NEW rows \in SomeTables
  PROVE  /\ J!Extracted(rows).one \in {J!Absent, "tmp"}
         /\ \A r \in J!Extracted(rows).every : r.label \in {"", r.value}
<1> DEFINE hits == {i \in DOMAIN rows : rows[i].name = "tmp"}
<1>1. J!Selected(rows, "tmp") \in {J!Absent, "tmp"}
  <2>1. CASE hits = {}
    BY <2>1 DEF J!Selected
  <2>2. CASE hits # {}
    <3>1. J!Min(hits) \in hits
      BY <2>2, SmallestOf, RowsAreTheirOwn
    <3>2. OwnValue(rows[J!Min(hits)]) /\ rows[J!Min(hits)].name = "tmp"
      BY <3>1, RowsAreTheirOwn
    <3> QED BY <3>2 DEF J!Selected, OwnValue
  <2> QED BY <2>1, <2>2
<1>2. \A r \in J!Expanded(rows) : r.label \in {"", r.value}
  <2> SUFFICES ASSUME NEW r \in J!Expanded(rows) PROVE r.label \in {"", r.value}
    OBVIOUS
  <2>1. PICK i \in DOMAIN rows : rows[i].value # "" /\ r = [label |-> rows[i].name, place |-> i, value |-> rows[i].value]
    BY DEF J!Expanded
  <2> QED BY <2>1, RowsAreTheirOwn DEF OwnValue
<1> QED BY <1>1, <1>2 DEF J!Extracted

LEMMA ProbeStart == ASSUME J!Init PROVE ProbeInv
<1>1. ProbeTypes
  BY DEF J!Init, ProbeTypes, J!Threads
<1>2. Spent
  BY DEF J!Init, Spent, MaySignIn, Doomed, J!Threads
<1>3. J!ValuesAreTheirOwn
  BY DEF J!Init, J!ValuesAreTheirOwn, J!NoReadings
<1> QED BY <1>1, <1>2, <1>3 DEF ProbeInv

LEMMA ShownStep ==
  ASSUME ProbeInv, [J!Next]_(J!vars) PROVE J!ValuesAreTheirOwn'
<1>1. shown' = shown \/ shown' = J!Extracted(served) \/ \E e : shown' = [J!NoReadings EXCEPT !.error = e]
  BY DEF J!Next, J!vars, J!device, J!Begin, J!GetClient, J!SignIn, J!SignInFails, J!Fetched, J!Refused, J!NoAnswer,
         J!Edit, J!ReadCert, J!Serve, J!SixHoursPass, J!Expire, J!Ends, J!NoReadings
<1> QED BY <1>1, ExtractIsOwn DEF ProbeInv, ProbeTypes, J!ValuesAreTheirOwn, J!NoReadings

LEMMA CountStep ==
  ASSUME J!ProbeAssumption, ProbeTypes, Spent, [J!Next]_(J!vars) PROVE ProbeTypes' /\ Spent'
<1> USE DEF J!Go, J!Ends, J!device, J!Threads
<1>1. ASSUME NEW t \in {"poll", "view"}, J!Begin(t) \/ J!GetClient(t) PROVE ProbeTypes' /\ Spent'
  BY <1>1 DEF J!Begin, J!GetClient, ProbeTypes, Spent, MaySignIn, Doomed
<1>2. ASSUME NEW t \in {"poll", "view"}, J!SignIn(t) PROVE ProbeTypes' /\ Spent'
  <2> DEFINE s == J!Min(J!Sessions \ J!InUse)
  <2>1. s \in 1..3 \ J!InUse
    BY <1>2, NewSession DEF J!SignIn
  <2>2. /\ at[t] = "login" /\ logins' = logins + 1 /\ live' = (live \cap J!InUse) \cup {s} /\ held' = s
        /\ jar' = [jar EXCEPT ![t] = s] /\ at' = [at EXCEPT ![t] = "fetch"] /\ UNCHANGED <<creds, expired, served>>
    BY <1>2 DEF J!SignIn, J!Holds
  <2> HIDE DEF s
  <2>3. \A u \in {"poll", "view"} : u # t /\ at[u] = "fetch" => jar[u] \in J!InUse
    BY DEF J!InUse
  <2>4. ProbeTypes'
    BY <2>1, <2>2 DEF ProbeTypes
  <2>5. \A u \in {"poll", "view"} : u # t => MaySignIn(u)' <= MaySignIn(u) /\ Doomed(u)' <= Doomed(u)
    BY <2>1, <2>2, <2>3 DEF ProbeTypes, MaySignIn, Doomed
  <2>6. MaySignIn(t) = 1 /\ MaySignIn(t)' = 0 /\ Doomed(t)' = 0
    BY <2>1, <2>2 DEF ProbeTypes, MaySignIn, Doomed
  <2>7. \A u \in {"poll", "view"} : MaySignIn(u) \in 0..1 /\ MaySignIn(u)' \in 0..1 /\ Doomed(u) \in 0..1 /\ Doomed(u)' \in 0..1
    BY DEF MaySignIn, Doomed
  <2>8. creds \in Nat /\ expired \in Nat /\ logins \in Nat
    BY DEF ProbeTypes
  <2> QED BY <2>2, <2>4, <2>5, <2>6, <2>7, <2>8 DEF Spent
<1>3. ASSUME NEW t \in {"poll", "view"}, J!SignInFails(t) \/ J!Fetched(t) \/ J!NoAnswer(t) PROVE ProbeTypes' /\ Spent'
  <2>1. at' = [at EXCEPT ![t] = "idle"] /\ jar' = [jar EXCEPT ![t] = 0] /\ UNCHANGED <<creds, held, live, logins, expired, served>>
    BY <1>3 DEF J!SignInFails, J!Fetched, J!NoAnswer
  <2> QED BY <2>1 DEF ProbeTypes, Spent, MaySignIn, Doomed
<1>4. ASSUME NEW t \in {"poll", "view"}, J!Refused(t) PROVE ProbeTypes' /\ Spent'
  BY <1>4 DEF J!Refused, ProbeTypes, Spent, MaySignIn, Doomed
<1>5. CASE J!Edit
  BY <1>5 DEF J!Edit, ProbeTypes, Spent, MaySignIn, Doomed
<1>6. CASE J!ReadCert \/ J!Serve \/ J!SixHoursPass \/ UNCHANGED J!vars
  BY <1>6 DEF J!ReadCert, J!Serve, J!SixHoursPass, J!vars, ProbeTypes, Spent, MaySignIn, Doomed
<1>7. ASSUME NEW s \in live, J!Expire(s) PROVE ProbeTypes' /\ Spent'
  BY <1>7 DEF J!Expire, ProbeTypes, Spent, MaySignIn, Doomed
<1> QED BY <1>1, <1>2, <1>3, <1>4, <1>5, <1>6, <1>7 DEF J!Next

(* The poll and the views of a device sign in at most as often as the      *)
(* credentials change and sessions end account for, and what is shown as   *)
(* a row's value is that row's (jsonprobe.go: authedClient, selectFrom).    *)
THEOREM ProbesAreSound == ASSUME J!ProbeAssumption PROVE J!Spec => []ProbeIsSound
<1>1. J!Init => ProbeInv
  BY ProbeStart
<1>2. ProbeInv /\ [J!Next]_(J!vars) => ProbeInv'
  BY CountStep, ShownStep DEF ProbeInv
<1>3. ProbeInv => ProbeIsSound
  <2> SUFFICES ASSUME ProbeInv PROVE J!SignInsAreFew
    BY DEF ProbeInv, ProbeIsSound, J!ProbeIsSound
  <2>1. \A u \in {"poll", "view"} : MaySignIn(u) \in 0..1 /\ Doomed(u) \in 0..1
    BY DEF MaySignIn, Doomed
  <2> QED BY <2>1 DEF ProbeInv, ProbeTypes, Spent, J!SignInsAreFew
<1> QED BY <1>1, <1>2, <1>3, PTL DEF J!Spec

-----------------------------------------------------------------------------
(* Readings over SNMP (SnmpPoll). *)

LEMMA LeastOf == ASSUME NEW S, S \subseteq Nat, S # {} PROVE \E x \in S : \A y \in S : x <= y
<1>1. PICK x \in S : \A y \in S : ~(<<y, x>> \in OpToRel(<, Nat))
  BY NatLessThanWellFounded, WFMin
<1>2. \A y \in S : ~(y < x)
  BY <1>1 DEF OpToRel
<1> QED BY <1>2

(* Induction over finite sets: were there a set of them, each of which is  *)
(* still in it without one of its elements, it would have no smallest.     *)
Shrinks(wrong) == \A s \in wrong : \E x \in s : s \ {x} \in wrong

LEMMA NoneShrinks == ASSUME NEW S, IsFiniteSet(S), NEW wrong, wrong \subseteq SUBSET S, Shrinks(wrong) PROVE wrong = {}
<1> DEFINE sizes == {Cardinality(s) : s \in wrong}
<1>1. \A s \in SUBSET S : IsFiniteSet(s) /\ Cardinality(s) \in Nat
  BY FS_Subset, FS_CardinalityType
<1>2. SUFFICES ASSUME wrong # {} PROVE FALSE
  OBVIOUS
<1>3. sizes \subseteq Nat /\ sizes # {}
  BY <1>1, <1>2
<1>4. PICK n \in sizes : \A j \in sizes : n <= j
  <2> HIDE DEF sizes
  <2> QED BY ONLY <1>3, LeastOf
<1>5. PICK s \in wrong : n = Cardinality(s)
  OBVIOUS
<1>6. PICK x \in s : s \ {x} \in wrong
  BY DEF Shrinks
<1>7. Cardinality(s \ {x}) = n - 1 /\ n \in Nat
  BY <1>1, <1>5, FS_RemoveElement
<1>8. n - 1 \in sizes
  BY <1>6, <1>7
<1> HIDE DEF sizes
<1> QED BY <1>4, <1>7, <1>8

(* A way of picking an element, a step on values, and the fold they make. *)
Picks(pick, S) == \A s \in SUBSET S : s # {} => pick[s] \in s
StaysIn(Join, S, V) == \A x \in S, v \in V : Join[<<x, v>>] \in V
Folds(f, Join, base, pick, S) ==
  f = [s \in SUBSET S |-> IF s = {} THEN base ELSE Join[<<pick[s], f[s \ {pick[s]}]>>]]

LEMMA FoldExists ==
  ASSUME NEW S, IsFiniteSet(S), NEW V, NEW base \in V, NEW pick, Picks(pick, S), NEW Join, StaysIn(Join, S, V)
  PROVE  \E f \in [SUBSET S -> V] : Folds(f, Join, base, pick, S)
<1> USE DEF Picks, StaysIn, Folds
<1> DEFINE Small(n) == {s \in SUBSET S : Cardinality(s) <= n}
           Right(n, f) == f \in [SUBSET S -> V] /\ \A s \in Small(n) : f[s] = IF s = {} THEN base ELSE Join[<<pick[s], f[s \ {pick[s]}]>>]
           wrong == {n \in Nat : ~\E f : Right(n, f)}
<1>1. \A s \in SUBSET S : IsFiniteSet(s) /\ Cardinality(s) \in Nat /\ Cardinality(s) <= Cardinality(S)
  BY FS_Subset, FS_CardinalityType
<1>2. \A s \in SUBSET S : s # {} => Cardinality(s \ {pick[s]}) = Cardinality(s) - 1 /\ s \ {pick[s]} \in SUBSET S
  BY <1>1, FS_RemoveElement
<1>3. \A s \in SUBSET S : Cardinality(s) = 0 <=> s = {}
  BY <1>1, FS_EmptySet
<1>4. wrong = {}
  <2> SUFFICES ASSUME wrong # {} PROVE FALSE
    OBVIOUS
  <2>1. PICK n \in wrong : \A k \in wrong : n <= k
    BY LeastOf
  <2>2. CASE n = 0
    <3> DEFINE f == [s \in SUBSET S |-> base]
    <3>1. Right(0, f)
      BY <1>1, <1>3
    <3> QED BY <2>2, <3>1
  <2>3. CASE n # 0
    <3>1. n - 1 \in Nat /\ n - 1 \notin wrong /\ n \in Nat
      <4>1. n \in Nat
        OBVIOUS
      <4> HIDE DEF wrong
      <4> QED BY <2>1, <2>3, <4>1
    <3>2. PICK f : Right(n - 1, f)
      BY <3>1
    <3> DEFINE g == [s \in SUBSET S |-> IF s \in Small(n - 1) THEN f[s] ELSE IF s = {} THEN base ELSE Join[<<pick[s], f[s \ {pick[s]}]>>]]
    <3>3. g \in [SUBSET S -> V]
      BY <3>2, <1>2
    <3>4. ASSUME NEW s \in Small(n) PROVE g[s] = IF s = {} THEN base ELSE Join[<<pick[s], g[s \ {pick[s]}]>>]
      <4>1. CASE s = {}
        BY <4>1, <3>2, <1>3, <1>1
      <4>2. CASE s # {}
        <5>1. s \ {pick[s]} \in Small(n - 1)
          BY <4>2, <1>2, <1>1, <3>1
        <5>2. g[s \ {pick[s]}] = f[s \ {pick[s]}]
          BY <5>1
        <5>3. g[s] = Join[<<pick[s], f[s \ {pick[s]}]>>]
          BY <3>2, <4>2
        <5> QED BY <5>2, <5>3, <4>2
      <4> QED BY <4>1, <4>2
    <3>5. Right(n, g)
      <4> HIDE DEF g
      <4> QED BY <3>3, <3>4
    <3>6. n \notin wrong
      <4> HIDE DEF Right, g
      <4> QED BY ONLY <3>5
    <3> QED BY ONLY <3>6, <2>1
  <2> QED BY <2>2, <2>3
<1>5. Cardinality(S) \in Nat
  BY FS_CardinalityType
<1>6. PICK f : Right(Cardinality(S), f)
  BY <1>4, <1>5
<1>7. Small(Cardinality(S)) = SUBSET S
  BY <1>1
<1>8. f = [s \in SUBSET S |-> IF s = {} THEN base ELSE Join[<<pick[s], f[s \ {pick[s]}]>>]]
  BY <1>6, <1>7
<1> QED BY <1>6, <1>8


(* The sum of the values of a function over a finite set, element by       *)
(* element as chosen; it does not depend on the choice.                    *)
OneOf(s) == CHOOSE x \in s : TRUE
Sums(f, S, it) == it = [s \in SUBSET S |-> IF s = {} THEN 0 ELSE f[OneOf(s)] + it[s \ {OneOf(s)}]]
Partial(f, S) == CHOOSE it : Sums(f, S, it)
Total(f, S) == Partial(f, S)[S]
Numbers(f, S) == \A x \in S : f[x] \in Int

LEMMA PartialIs ==
  ASSUME NEW S, IsFiniteSet(S), NEW f, Numbers(f, S)
  PROVE  Sums(f, S, Partial(f, S)) /\ \A s \in SUBSET S : Partial(f, S)[s] \in Int
<1> DEFINE Join == [x \in S \X Int |-> f[x[1]] + x[2]]
           pick == [s \in SUBSET S |-> OneOf(s)]
<1>1. \A s \in SUBSET S : s # {} => OneOf(s) \in s
  BY DEF OneOf
<1>2. Picks(pick, S) /\ StaysIn(Join, S, Int) /\ 0 \in Int
  BY <1>1 DEF Picks, StaysIn, Numbers
<1>3. PICK it \in [SUBSET S -> Int] : Folds(it, Join, 0, pick, S)
  <2> HIDE DEF Join, pick
  <2> QED BY ONLY <1>2, IsFiniteSet(S), FoldExists
<1>4. Sums(f, S, it)
  <2>1. ASSUME NEW s \in SUBSET S, s # {} PROVE Join[<<pick[s], it[s \ {pick[s]}]>>] = f[OneOf(s)] + it[s \ {OneOf(s)}]
    <3>1. pick[s] = OneOf(s) /\ OneOf(s) \in S
      BY <1>1, <2>1
    <3>2. it[s \ {OneOf(s)}] \in Int
      BY <1>3
    <3> QED BY <3>1, <3>2
  <2> HIDE DEF Join, pick
  <2> QED BY <2>1, <1>3 DEF Folds, Sums
<1>5. Sums(f, S, Partial(f, S))
  BY <1>4 DEF Partial
<1>6. \A s \in SUBSET S : Partial(f, S)[s] \in Int
  <2> DEFINE p == Partial(f, S)
             wrong == {s \in SUBSET S : p[s] \notin Int}
  <2> HIDE DEF p
  <2>1. ASSUME NEW s \in wrong PROVE \E x \in s : s \ {x} \in wrong
    <3>1. s # {}
      BY <1>5 DEF Sums, p
    <3>2. p[s] = f[OneOf(s)] + p[s \ {OneOf(s)}] /\ OneOf(s) \in s
      BY <3>1, <1>1, <1>5 DEF Sums, p
    <3>3. f[OneOf(s)] \in Int
      BY <3>2 DEF Numbers
    <3>4. p[s \ {OneOf(s)}] \notin Int
      BY <3>2, <3>3
    <3> QED BY <3>2, <3>4
  <2>2. wrong \subseteq SUBSET S /\ Shrinks(wrong)
    BY <2>1 DEF Shrinks
  <2> HIDE DEF wrong
  <2>3. wrong = {}
    BY ONLY <2>2, IsFiniteSet(S), NoneShrinks
  <2> QED BY <2>3 DEF wrong, p
<1> QED BY <1>5, <1>6

LEMMA TotalRuns ==
  ASSUME NEW S, IsFiniteSet(S), NEW f, Numbers(f, S)
  PROVE  /\ Total(f, S) \in Int /\ (S = {} => Total(f, S) = 0)
         /\ S # {} => OneOf(S) \in S /\ Total(f, S) = f[OneOf(S)] + Total(f, S \ {OneOf(S)})
<1>1. Total(f, S) \in Int /\ (S = {} => Total(f, S) = 0)
  <2>1. Sums(f, S, Partial(f, S)) /\ \A s \in SUBSET S : Partial(f, S)[s] \in Int
    BY PartialIs
  <2>2. S \in SUBSET S
    OBVIOUS
  <2> DEFINE p == Partial(f, S)
  <2> HIDE DEF p
  <2>3. S = {} => p[S] = 0
    BY <2>1, <2>2 DEF Sums, p
  <2> QED BY <2>1, <2>2, <2>3 DEF Total, p
<1>2. ASSUME S # {} PROVE OneOf(S) \in S /\ Total(f, S) = f[OneOf(S)] + Total(f, S \ {OneOf(S)})
  <2> DEFINE others == S \ {OneOf(S)}
             p == Partial(f, S)
             q == Partial(f, others)
             wrong == {s \in SUBSET others : p[s] # q[s]}
  <2>1. OneOf(S) \in S
    BY <1>2 DEF OneOf
  <2>2. IsFiniteSet(others) /\ Numbers(f, others) /\ others \subseteq S
    BY FS_Subset DEF Numbers
  <2>3. Sums(f, S, p) /\ Sums(f, others, q)
    <3> HIDE DEF others
    <3> QED BY <2>2, PartialIs
  <2> HIDE DEF p, q
  <2>4. ASSUME NEW s \in wrong PROVE \E x \in s : s \ {x} \in wrong
    <3>1. s # {}
      BY <2>3 DEF Sums
    <3>2. OneOf(s) \in s
      BY <3>1 DEF OneOf
    <3>3. p[s] = f[OneOf(s)] + p[s \ {OneOf(s)}] /\ q[s] = f[OneOf(s)] + q[s \ {OneOf(s)}]
      BY <3>1, <2>3 DEF Sums
    <3> QED BY <3>2, <3>3
  <2>5. wrong \subseteq SUBSET others /\ Shrinks(wrong)
    BY <2>4 DEF Shrinks
  <2>6. wrong = {}
    <3> HIDE DEF wrong, others
    <3> QED BY ONLY <2>5, <2>2, NoneShrinks
  <2>7. p[others] = q[others]
    BY <2>6
  <2>8. p[S] = f[OneOf(S)] + p[others]
    BY <1>2, <2>3 DEF Sums
  <2> QED BY <2>1, <2>7, <2>8 DEF Total, p, q
<1> QED BY <1>1, <1>2

(* One time more is one more of it. *)
LEMMA OneTimesMore == ASSUME NEW m \in Nat, NEW k \in Nat PROVE m * k \in Nat /\ m * (k + 1) = m * k + m
OBVIOUS

(* Any element may be taken out first. *)
LEMMA TakeOut ==
  ASSUME NEW S, IsFiniteSet(S), NEW f, Numbers(f, S), NEW p \in S
  PROVE  Total(f, S) = f[p] + Total(f, S \ {p})
<1> DEFINE wrong == {s \in SUBSET S : \E a \in s : Total(f, s) # f[a] + Total(f, s \ {a})}
<1>1. \A s \in SUBSET S : IsFiniteSet(s) /\ Numbers(f, s)
  BY FS_Subset DEF Numbers
<1>2. \A s \in SUBSET S : Total(f, s) \in Int /\ (s # {} => OneOf(s) \in s /\ Total(f, s) = f[OneOf(s)] + Total(f, s \ {OneOf(s)}))
  BY <1>1, TotalRuns
<1>3. ASSUME NEW s \in wrong PROVE \E x \in s : s \ {x} \in wrong
  <2>1. PICK a \in s : Total(f, s) # f[a] + Total(f, s \ {a})
    OBVIOUS
  <2> DEFINE x == OneOf(s)
  <2>2. x \in s /\ Total(f, s) = f[x] + Total(f, s \ {x}) /\ s \in SUBSET S
    BY <1>2
  <2> HIDE DEF x
  <2>3. a # x
    BY <2>1, <2>2
  <2>4. SUFFICES ASSUME s \ {x} \notin wrong, s \ {a} \notin wrong PROVE FALSE
    BY <2>2
  <2>5. Total(f, s \ {x}) = f[a] + Total(f, (s \ {x}) \ {a})
    BY <2>2, <2>3, <2>4
  <2>6. Total(f, s \ {a}) = f[x] + Total(f, (s \ {a}) \ {x})
    BY <2>2, <2>3, <2>4
  <2>7. (s \ {a}) \ {x} = (s \ {x}) \ {a}
    OBVIOUS
  <2>8. f[a] \in Int /\ f[x] \in Int /\ Total(f, (s \ {x}) \ {a}) \in Int
    <3>1. (s \ {x}) \ {a} \in SUBSET S
      BY <2>2
    <3> QED BY <3>1, <2>2, <1>2 DEF Numbers
  <2> DEFINE both == Total(f, (s \ {x}) \ {a})
  <2>9. both \in Int /\ Total(f, s \ {x}) = f[a] + both /\ Total(f, s \ {a}) = f[x] + both
    BY <2>5, <2>6, <2>7, <2>8
  <2> HIDE DEF both
  <2>10. Total(f, s) = f[a] + Total(f, s \ {a})
    BY <2>2, <2>8, <2>9
  <2> QED BY <2>1, <2>10
<1>4. wrong \subseteq SUBSET S /\ Shrinks(wrong)
  BY <1>3 DEF Shrinks
<1>5. wrong = {}
  <2> HIDE DEF wrong
  <2> QED BY ONLY <1>4, IsFiniteSet(S), NoneShrinks
<1> QED BY <1>5

(* Over more elements with natural values the sum is no less. *)
LEMMA MoreIsNoLess ==
  ASSUME NEW S, IsFiniteSet(S), NEW f, \A x \in S : f[x] \in Nat, NEW part1 \in SUBSET S
  PROVE  Total(f, part1) \in Nat /\ Total(f, S) \in Nat /\ Total(f, part1) <= Total(f, S)
<1> DEFINE wrong == {s \in SUBSET S : ~(Total(f, s) \in Nat /\ \A t \in SUBSET s : Total(f, t) <= Total(f, s))}
<1>1. \A s \in SUBSET S : IsFiniteSet(s) /\ Numbers(f, s)
  BY FS_Subset DEF Numbers
<1>2. \A s \in SUBSET S : Total(f, s) \in Int /\ (s = {} => Total(f, s) = 0) /\ (s # {} => OneOf(s) \in s /\ Total(f, s) = f[OneOf(s)] + Total(f, s \ {OneOf(s)}))
  BY <1>1, TotalRuns
<1>3. \A s \in SUBSET S : \A a \in s : Total(f, s) = f[a] + Total(f, s \ {a})
  BY <1>1, TakeOut
<1>4. ASSUME NEW s \in wrong PROVE \E x \in s : s \ {x} \in wrong
  <2>1. s \in SUBSET S /\ s # {}
    BY <1>2
  <2>2. SUFFICES ASSUME \A x \in s : s \ {x} \notin wrong PROVE FALSE
    OBVIOUS
  <2>3. \A x \in s : Total(f, s \ {x}) \in Nat /\ f[x] \in Nat /\ Total(f, s) = f[x] + Total(f, s \ {x})
    BY <2>1, <2>2, <1>3
  <2>4. Total(f, s) \in Nat
    <3>1. PICK x \in s : TRUE
      BY <2>1
    <3>2. PICK y \in Nat, z \in Nat : y = f[x] /\ z = Total(f, s \ {x})
      BY <2>3
    <3>3. Total(f, s) = y + z
      BY <2>3, <3>2
    <3> QED BY <3>3
  <2>5. ASSUME NEW t \in SUBSET s PROVE Total(f, t) <= Total(f, s)
    <3>1. CASE t = s
      BY <3>1, <2>4
    <3>2. CASE t # s
      <4>1. PICK x \in s : x \notin t
        BY <3>2
      <4>2. Total(f, t) <= Total(f, s \ {x})
        BY <4>1, <2>1, <2>2
      <4>3. Total(f, t) \in Int
        BY <2>1, <1>2
      <4> QED BY <4>1, <4>2, <4>3, <2>3
    <3> QED BY <3>1, <3>2
  <2> QED BY <2>4, <2>5
<1>5. wrong \subseteq SUBSET S /\ Shrinks(wrong)
  BY <1>4 DEF Shrinks
<1>6. wrong = {}
  <2> HIDE DEF wrong
  <2> QED BY ONLY <1>5, IsFiniteSet(S), NoneShrinks
<1>7. S \notin wrong /\ part1 \notin wrong
  BY <1>6
<1> QED BY <1>7

(* The same values have the same sum, and zeros have none. *)
LEMMA SameTotal ==
  ASSUME NEW S, IsFiniteSet(S), NEW f, NEW g, Numbers(f, S), \A x \in S : g[x] = f[x]
  PROVE  Total(g, S) = Total(f, S)
<1> DEFINE wrong == {s \in SUBSET S : Total(g, s) # Total(f, s)}
<1>1. \A s \in SUBSET S : IsFiniteSet(s) /\ Numbers(f, s) /\ Numbers(g, s)
  BY FS_Subset DEF Numbers
<1>2. \A s \in SUBSET S : (s = {} => Total(f, s) = 0) /\ (s # {} => OneOf(s) \in s /\ Total(f, s) = f[OneOf(s)] + Total(f, s \ {OneOf(s)}))
  BY <1>1, TotalRuns
<1>3. \A s \in SUBSET S : (s = {} => Total(g, s) = 0) /\ (s # {} => OneOf(s) \in s /\ Total(g, s) = g[OneOf(s)] + Total(g, s \ {OneOf(s)}))
  BY <1>1, TotalRuns
<1>4. ASSUME NEW s \in wrong PROVE \E x \in s : s \ {x} \in wrong
  <2>1. s \in SUBSET S /\ s # {}
    BY <1>2, <1>3
  <2>2. OneOf(s) \in s /\ g[OneOf(s)] = f[OneOf(s)]
    BY <2>1, <1>2
  <2>3. Total(g, s \ {OneOf(s)}) # Total(f, s \ {OneOf(s)})
    BY <2>1, <2>2, <1>2, <1>3
  <2> QED BY <2>1, <2>2, <2>3
<1>5. wrong \subseteq SUBSET S /\ Shrinks(wrong)
  BY <1>4 DEF Shrinks
<1>6. wrong = {}
  <2> HIDE DEF wrong
  <2> QED BY ONLY <1>5, IsFiniteSet(S), NoneShrinks
<1> QED BY <1>6

LEMMA NoTotal ==
  ASSUME NEW S, IsFiniteSet(S), NEW f, \A x \in S : f[x] = 0
  PROVE  Total(f, S) = 0
<1> DEFINE wrong == {s \in SUBSET S : Total(f, s) # 0}
<1>1. \A s \in SUBSET S : IsFiniteSet(s) /\ Numbers(f, s)
  BY FS_Subset DEF Numbers
<1>2. \A s \in SUBSET S : (s = {} => Total(f, s) = 0) /\ (s # {} => OneOf(s) \in s /\ Total(f, s) = f[OneOf(s)] + Total(f, s \ {OneOf(s)}))
  BY <1>1, TotalRuns
<1>3. ASSUME NEW s \in wrong PROVE \E x \in s : s \ {x} \in wrong
  <2>1. s \in SUBSET S /\ s # {}
    BY <1>2
  <2>2. OneOf(s) \in s /\ f[OneOf(s)] = 0
    BY <2>1, <1>2
  <2>3. Total(f, s \ {OneOf(s)}) # 0
    BY <2>1, <2>2, <1>2
  <2> QED BY <2>1, <2>2, <2>3
<1>4. wrong \subseteq SUBSET S /\ Shrinks(wrong)
  BY <1>3 DEF Shrinks
<1>5. wrong = {}
  <2> HIDE DEF wrong
  <2> QED BY ONLY <1>4, IsFiniteSet(S), NoneShrinks
<1> QED BY <1>5

(* One more of one of them. *)
LEMMA OneMore ==
  ASSUME NEW S, IsFiniteSet(S), NEW f, Numbers(f, S), DOMAIN f = S, NEW p \in S, NEW g, g = [f EXCEPT ![p] = @ + 1]
  PROVE  Total(g, S) = Total(f, S) + 1
<1>1. IsFiniteSet(S \ {p}) /\ Numbers(f, S \ {p}) /\ \A x \in S \ {p} : g[x] = f[x]
  BY FS_Subset DEF Numbers
<1>2. g[p] = f[p] + 1 /\ Numbers(g, S)
  BY DEF Numbers
<1>3. Total(f, S) = f[p] + Total(f, S \ {p}) /\ Total(g, S) = g[p] + Total(g, S \ {p})
  BY ONLY <1>2, IsFiniteSet(S), Numbers(f, S), p \in S, TakeOut
<1>4. Total(g, S \ {p}) = Total(f, S \ {p})
  BY <1>1, SameTotal
<1>5. Total(f, S \ {p}) \in Int /\ f[p] \in Int
  BY <1>1, TotalRuns DEF Numbers
<1> QED BY <1>2, <1>3, <1>4, <1>5

(* The average of natural values is between two of them. *)
LEMMA AverageIsBetween ==
  ASSUME NEW S, IsFiniteSet(S), S # {}, NEW f, \A x \in S : f[x] \in Nat
  PROVE  \E a, b \in S : f[a] <= Total(f, S) \div Cardinality(S) /\ Total(f, S) \div Cardinality(S) <= f[b]
<1> DEFINE high(s) == s # {} => \E b \in s : Total(f, s) <= f[b] * Cardinality(s)
           low(s) == s # {} => \E a \in s : f[a] * Cardinality(s) <= Total(f, s)
           wrong == {s \in SUBSET S : ~(high(s) /\ low(s))}
<1>1. \A s \in SUBSET S : IsFiniteSet(s) /\ Numbers(f, s) /\ Cardinality(s) \in Nat
  BY FS_Subset, FS_CardinalityType DEF Numbers
<1>2. \A s \in SUBSET S : Total(f, s) \in Int /\ (s = {} => Total(f, s) = 0) /\ (s # {} => OneOf(s) \in s /\ Total(f, s) = f[OneOf(s)] + Total(f, s \ {OneOf(s)}))
  BY <1>1, TotalRuns
<1>3. ASSUME NEW s \in wrong PROVE \E x \in s : s \ {x} \in wrong
  <2>1. s \in SUBSET S /\ s # {}
    OBVIOUS
  <2> DEFINE x == OneOf(s)
             rest == s \ {x}
  <2>2. x \in s /\ Total(f, s) = f[x] + Total(f, rest) /\ f[x] \in Nat /\ rest \in SUBSET S
    BY <2>1, <1>2
  <2>3. Cardinality(s) = Cardinality(rest) + 1 /\ Cardinality(rest) \in Nat
    <3>1. Cardinality(rest) = Cardinality(s) - 1
      BY <2>1, <2>2, <1>1, FS_RemoveElement
    <3>2. Cardinality(rest) \in Nat /\ Cardinality(s) \in Nat
      BY <2>1, <2>2, <1>1
    <3> QED BY <3>1, <3>2
  <2>4. Total(f, rest) \in Int /\ (rest = {} => Total(f, rest) = 0 /\ Cardinality(rest) = 0)
    BY <2>2, <1>2, FS_EmptySet
  <2>5. SUFFICES ASSUME rest \notin wrong PROVE FALSE
    BY <2>2
  <2>6. high(rest) /\ low(rest)
    BY <2>2, <2>5
  <2>7. \A y \in rest : y \in s /\ f[y] \in Nat
    BY <2>1
  <2> HIDE DEF x, rest
  <2> DEFINE n == Cardinality(rest)
             sum == Total(f, rest)
  <2>8. n \in Nat /\ sum \in Int /\ Cardinality(s) = n + 1 /\ Total(f, s) = f[x] + sum
    BY <2>2, <2>3, <2>4
  <2>9. CASE rest = {}
    <3>1. n = 0 /\ sum = 0
      BY <2>4, <2>9
    <3> HIDE DEF n, sum
    <3>2. Total(f, s) = f[x] * Cardinality(s)
      BY <3>1, <2>8, <2>2
    <3> QED BY <3>2, <2>2, <2>8
  <2>10. CASE rest # {}
    <3>1. PICK b \in rest : sum <= f[b] * n
      BY <2>6, <2>10
    <3>2. PICK a \in rest : f[a] * n <= sum
      BY <2>6, <2>10
    <3> HIDE DEF n, sum
    <3>3. PICK fa \in Nat, fb \in Nat, fx \in Nat : fa = f[a] /\ fb = f[b] /\ fx = f[x]
      BY <2>2, <2>7
    <3>4. \E c \in s : Total(f, s) <= f[c] * Cardinality(s)
      <4>1. CASE fb <= fx
        <5>1. fb * n <= fx * n
          BY <4>1, <3>3, <2>8
        <5>2. fx + sum <= fx * (n + 1)
          BY <5>1, <3>1, <3>3, <2>8
        <5> QED BY <5>2, <3>3, <2>8, <2>2
      <4>2. CASE fx <= fb
        <5>1. sum <= fb * n /\ fb * n \in Int /\ fb * (n + 1) = fb * n + fb
          <6>1. fb \in Nat /\ n \in Nat
            BY ONLY <2>8, <3>3
          <6>2. fb * n \in Nat /\ fb * (n + 1) = fb * n + fb
            BY ONLY <6>1, OneTimesMore
          <6>3. sum <= fb * n
            BY ONLY <3>1, <3>3
          <6> QED BY ONLY <6>2, <6>3
        <5>2. fx + sum <= fb * (n + 1)
          BY ONLY <5>1, <4>2, <3>3, <2>8
        <5> QED BY <5>2, <3>3, <2>8, <2>7
      <4> QED BY <4>1, <4>2, <3>3
    <3>5. \E c \in s : f[c] * Cardinality(s) <= Total(f, s)
      <4>1. CASE fx <= fa
        <5>1. fx * n <= fa * n
          BY <4>1, <3>3, <2>8
        <5>2. fx * (n + 1) <= fx + sum
          BY <5>1, <3>2, <3>3, <2>8
        <5> QED BY <5>2, <3>3, <2>8, <2>2
      <4>2. CASE fa <= fx
        <5>1. fa * (n + 1) <= fx + sum
          BY <4>2, <3>2, <3>3, <2>8
        <5> QED BY <5>1, <3>3, <2>8, <2>7
      <4> QED BY <4>1, <4>2, <3>3
    <3> QED BY <3>4, <3>5
  <2> QED BY <2>9, <2>10
<1>4. wrong \subseteq SUBSET S /\ Shrinks(wrong)
  BY <1>3 DEF Shrinks
<1>5. wrong = {}
  <2> HIDE DEF wrong
  <2> QED BY ONLY <1>4, IsFiniteSet(S), NoneShrinks
<1>6. high(S) /\ low(S)
  BY <1>5
<1>7. PICK a \in S, b \in S : f[a] * Cardinality(S) <= Total(f, S) /\ Total(f, S) <= f[b] * Cardinality(S)
  BY <1>6
<1>8. Cardinality(S) \in Nat \ {0} /\ Total(f, S) \in Int
  BY <1>1, <1>2, FS_EmptySet
<1>9. PICK n \in Nat \ {0}, sum \in Int : n = Cardinality(S) /\ sum = Total(f, S)
  BY <1>8
<1>10. PICK fa \in Nat, fb \in Nat : fa = f[a] /\ fb = f[b]
  OBVIOUS
<1> HIDE DEF wrong
<1>11. fa <= sum \div n /\ sum \div n <= fb
  <2>1. PICK q \in Int : q = sum \div n /\ q * n <= sum /\ sum < q * n + n
    OBVIOUS
  <2>2. fa * n <= sum /\ sum <= fb * n
    BY <1>7, <1>9, <1>10
  <2>3. ~(q < fa)
    <3> SUFFICES ASSUME q + 1 <= fa PROVE FALSE
      OBVIOUS
    <3>1. (q + 1) * n <= fa * n
      OBVIOUS
    <3> QED BY <3>1, <2>1, <2>2
  <2>4. ~(fb < q)
    <3> SUFFICES ASSUME fb + 1 <= q PROVE FALSE
      OBVIOUS
    <3>1. (fb + 1) * n <= q * n
      OBVIOUS
    <3> QED BY <3>1, <2>1, <2>2
  <2> QED BY <2>1, <2>3, <2>4
<1> QED BY <1>9, <1>10, <1>11

LEMMA SumIsTotal == ASSUME NEW f, NEW S PROVE N!SumFunctionOnSet(f, S) = Total(f, S)
BY DEF N!SumFunctionOnSet, N!FoldFunctionOnSet, N!MapThenFoldSet, Total, Partial, Sums, OneOf

LEMMA SumOfValues == ASSUME NEW S PROVE N!MapThenSumSet(N!Value, S) = Total(dev.value, S)
BY DEF N!MapThenSumSet, N!MapThenFoldSet, N!Value, Total, Partial, Sums, OneOf

LEMMA SameCount == ASSUME NEW s PROVE N!Cardinality(s) = Cardinality(s)
BY DEF N!Cardinality, Cardinality

(* The greatest of a finite set of numbers. *)
LEMMA GreatestIs == ASSUME NEW S, S \subseteq Nat, IsFiniteSet(S), S # {} PROVE N!Max(S) \in S
<1> DEFINE wrong == {s \in SUBSET S : s # {} /\ ~\E x \in s : \A y \in s : x >= y}
<1>1. ASSUME NEW s \in wrong PROVE \E x \in s : s \ {x} \in wrong
  <2>1. PICK x \in s : TRUE
    OBVIOUS
  <2>2. SUFFICES ASSUME s \ {x} \notin wrong PROVE FALSE
    OBVIOUS
  <2>3. CASE s \ {x} = {}
    BY <2>3
  <2>4. CASE s \ {x} # {}
    <3>1. PICK z \in s \ {x} : \A y \in s \ {x} : z >= y
      BY <2>2, <2>4
    <3>2. \A y \in s : y \in Nat
      OBVIOUS
    <3>3. CASE z >= x
      BY <3>1, <3>3
    <3>4. CASE x >= z
      BY <3>1, <3>2, <3>4
    <3> QED BY <3>2, <3>3, <3>4
  <2> QED BY <2>3, <2>4
<1>2. wrong \subseteq SUBSET S /\ Shrinks(wrong)
  BY <1>1 DEF Shrinks
<1>3. wrong = {}
  <2> HIDE DEF wrong
  <2> QED BY ONLY <1>2, IsFiniteSet(S), NoneShrinks
<1>4. \E x \in S : \A y \in S : x >= y
  BY <1>3
<1> QED BY <1>4 DEF N!Max

LEMMA ImageIsFinite ==
  ASSUME NEW S, IsFiniteSet(S), NEW f, DOMAIN f = S, f = [x \in S |-> f[x]]
  PROVE  IsFiniteSet({f[x] : x \in S})
<1>1. f \in Surjection(S, {f[x] : x \in S})
  BY DEF Surjection
<1> QED BY <1>1, FS_Surjection

(* What a reading may say of the device. *)
Sound(said) ==
  said # <<>> =>
    /\ said.cpu # N!Unsaid => \E a, b \in N!Loads : a <= said.cpu /\ said.cpu <= b
    /\ said.disk # N!Unsaid => \E n \in N!Fills(N!All, "disk") \cup {N!Clamp(x) : x \in N!Shares(N!All)} : said.disk = n
    /\ \A i \in DOMAIN said.supplies : said.supplies[i] \in {N!Unsaid, N!Supply(N!All, i)}

LEMMA SoundIs == N!NothingInvented <=> Sound(prev.read)
BY DEF N!NothingInvented, Sound

LEMMA RowsHold ==
  ASSUME N!PollAssumption, dev \in Devices
  PROVE  /\ IsFiniteSet(DOMAIN dev.value)
         /\ \A r \in DOMAIN dev.value : /\ r[1] = "cpu" => dev.value[r] \in Nat
                                        /\ r[1] = "disk" => dev.value[r].size \in Nat /\ dev.value[r].used \in Nat
                                        /\ r[1] \in {"ucdDisk", "level", "max", "unit"} => dev.value[r] \in Int
                                        /\ r[1] = "ucd" => dev.value[r].idle \in Int
<1>1. \A r \in DOMAIN dev.value : N!Holds(r[1], dev.value[r])
  BY DEF N!PollAssumption
<1>2. IsFiniteSet(DOMAIN dev.value)
  BY DEF N!PollAssumption, N!IsFiniteSet, IsFiniteSet
<1>3. ASSUME NEW r \in DOMAIN dev.value
      PROVE  /\ r[1] = "cpu" => dev.value[r] \in Nat
             /\ r[1] = "disk" => dev.value[r].size \in Nat /\ dev.value[r].used \in Nat
             /\ r[1] \in {"ucdDisk", "level", "max", "unit"} => dev.value[r] \in Int
             /\ r[1] = "ucd" => dev.value[r].idle \in Int
  <2>1. r[1] = "cpu" => dev.value[r] \in Nat
    BY <1>1 DEF N!Holds
  <2>2. r[1] = "disk" => dev.value[r].size \in Nat /\ dev.value[r].used \in Nat
    BY <1>1 DEF N!Holds
  <2>3. r[1] \in {"ucdDisk", "level", "max", "unit"} => dev.value[r] \in Int
    BY <1>1 DEF N!Holds, N!Tables
  <2>4. r[1] = "ucd" => dev.value[r].idle \in Int
    BY <1>1 DEF N!Holds
  <2> QED BY <2>1, <2>2, <2>3, <2>4
<1> QED BY <1>2, <1>3

(* Of what is read, each part is the device's own. *)
LEMMA CpuIsSound ==
  ASSUME N!PollAssumption, dev \in Devices, NEW got \in SUBSET DOMAIN dev.value, N!Cpu(got) # N!Unsaid
  PROVE  \E a, b \in N!Loads : a <= N!Cpu(got) /\ N!Cpu(got) <= b
<1> DEFINE cores == N!Column(got, "cpu")
<1>1. cores \in SUBSET DOMAIN dev.value /\ \A r \in cores : r \in N!Column(N!All, "cpu") /\ dev.value[r] \in Nat
  BY RowsHold DEF N!Column, N!All
<1>2. CASE cores # {}
  <2>1. IsFiniteSet(cores)
    BY <1>1, RowsHold, FS_Subset
  <2>2. N!Cpu(got) = Total(dev.value, cores) \div Cardinality(cores)
    BY <1>2, SumOfValues, SameCount DEF N!Cpu
  <2> DEFINE avg == Total(dev.value, cores) \div Cardinality(cores)
  <2>3. \E a, b \in cores : dev.value[a] <= avg /\ avg <= dev.value[b]
    <3> DEFINE f == dev.value
    <3>1. \A r \in cores : f[r] \in Nat
      BY <1>1
    <3> HIDE DEF f, cores
    <3>2. \E a, b \in cores : f[a] <= Total(f, cores) \div Cardinality(cores) /\ Total(f, cores) \div Cardinality(cores) <= f[b]
      BY <3>1, <2>1, <1>2, AverageIsBetween
    <3> QED BY <3>2 DEF f
  <2>4. \A r \in cores : dev.value[r] \in N!Loads
    BY <1>1 DEF N!Loads, N!Value
  <2> HIDE DEF avg, cores
  <2> QED BY <2>2, <2>3, <2>4 DEF avg
<1>3. CASE cores = {}
  <2>1. N!Ucd \in got /\ N!Cpu(got) = N!Clamp(100 - N!Value(N!Ucd).idle)
    BY <1>3 DEF N!Cpu
  <2>2. N!Cpu(got) \in N!Loads
    BY <2>1 DEF N!Loads, N!All
  <2>3. N!Value(N!Ucd).idle \in Int
    <3>1. N!Ucd[1] = "ucd"
      BY DEF N!Ucd
    <3> QED BY <2>1, <3>1, RowsHold DEF N!Value
  <2>4. N!Cpu(got) \in Int
    BY <2>1, <2>3 DEF N!Clamp
  <2>5. N!Cpu(got) <= N!Cpu(got)
    BY <2>4
  <2> QED BY <2>2, <2>5
<1> QED BY <1>2, <1>3

LEMMA DiskIsSound ==
  ASSUME N!PollAssumption, dev \in Devices, NEW got \in SUBSET DOMAIN dev.value, N!Disk(got) # N!Unsaid
  PROVE  \E n \in N!Fills(N!All, "disk") \cup {N!Clamp(x) : x \in N!Shares(N!All)} : N!Disk(got) = n
<1>0. IsFiniteSet(DOMAIN dev.value)
  BY RowsHold
<1>1. CASE N!Fills(got, "disk") # {}
  <2> DEFINE sized == {x \in N!Column(got, "disk") : N!Value(x).size > 0}
             f == [r \in sized |-> N!Fill(r)]
             fills == N!Fills(got, "disk")
  <2>1. fills = {f[r] : r \in sized}
    BY DEF N!Fills
  <2>2. sized \in SUBSET DOMAIN dev.value
    BY DEF N!Column
  <2>3. IsFiniteSet(sized)
    <3> HIDE DEF sized
    <3> QED BY <2>2, <1>0, FS_Subset
  <2>4. IsFiniteSet(fills)
    <3>1. DOMAIN f = sized /\ f = [r \in sized |-> f[r]]
      OBVIOUS
    <3> HIDE DEF f, sized, fills
    <3> QED BY <2>1, <2>3, <3>1, ImageIsFinite
  <2>5. fills \subseteq Nat
    <3> SUFFICES ASSUME NEW r \in sized PROVE N!Fill(r) \in Nat
      BY <2>1
    <3>1. dev.value[r].size \in Nat /\ dev.value[r].used \in Nat /\ dev.value[r].size > 0
      BY RowsHold DEF N!Column, N!Value
    <3>2. PICK size \in Nat \ {0}, used \in Nat : size = dev.value[r].size /\ used = dev.value[r].used
      BY <3>1
    <3>3. (used * 100) \div size \in Nat
      OBVIOUS
    <3> QED BY <3>2, <3>3 DEF N!Fill, N!Value
  <2>6. N!Max(fills) \in fills
    <3> HIDE DEF fills
    <3> QED BY <2>4, <2>5, <1>1, GreatestIs DEF fills
  <2>7. N!Disk(got) = N!Max(fills)
    BY <1>1 DEF N!Disk
  <2>8. fills \subseteq N!Fills(N!All, "disk")
    BY DEF N!Fills, N!All, N!Column
  <2> HIDE DEF fills
  <2> QED BY <2>6, <2>7, <2>8
<1>2. CASE N!Fills(got, "disk") = {}
  <2> DEFINE shares == N!Shares(got)
             rows == {x \in N!Column(got, "ucdDisk") : N!Value(x) >= 0}
             f == [r \in rows |-> N!Value(r)]
  <2>1. N!Disk(got) = N!Clamp(N!Max(shares)) /\ shares # {}
    BY <1>2 DEF N!Disk
  <2>2. shares = {f[r] : r \in rows} /\ rows \in SUBSET DOMAIN dev.value
    BY DEF N!Shares, N!Column
  <2>3. shares \subseteq Nat
    <3> SUFFICES ASSUME NEW r \in rows PROVE N!Value(r) \in Nat
      BY <2>2
    <3>1. dev.value[r] \in Int /\ dev.value[r] >= 0
      BY RowsHold DEF N!Column, N!Value
    <3> QED BY <3>1 DEF N!Value
  <2>4. IsFiniteSet(shares)
    <3>1. DOMAIN f = rows /\ f = [r \in rows |-> f[r]]
      OBVIOUS
    <3> HIDE DEF f, rows, shares
    <3>2. IsFiniteSet(rows)
      BY <2>2, <1>0, FS_Subset
    <3> QED BY <2>2, <3>1, <3>2, ImageIsFinite
  <2>5. N!Max(shares) \in shares
    <3> HIDE DEF shares
    <3> QED BY <2>1, <2>3, <2>4, GreatestIs
  <2>6. shares \subseteq N!Shares(N!All)
    BY DEF N!Shares, N!All, N!Column
  <2> HIDE DEF shares
  <2> QED BY <2>1, <2>5, <2>6
<1> QED BY <1>1, <1>2

LEMMA SuppliesAreSound ==
  ASSUME N!PollAssumption, dev \in Devices, NEW got \in SUBSET DOMAIN dev.value, NEW i
  PROVE  N!Supply(got, i) \in {N!Unsaid, N!Supply(N!All, i)}
<1> DEFINE level == <<"level", i>>
           max == <<"max", i>>
           unit == <<"unit", i>>
<1>1. \A r : N!Value(r) = dev.value[r]
  BY DEF N!Value
<1>2. CASE level \notin got \/ N!Value(level) < 0
  BY <1>2 DEF N!Supply
<1>3. CASE level \in got /\ ~(N!Value(level) < 0)
  <2>1. level \in N!All /\ got \subseteq N!All
    BY <1>3 DEF N!All
  <2>2. CASE unit \in N!All /\ N!Value(unit) = N!InPercent
    <3>1. N!Supply(N!All, i) = N!Clamp(N!Value(level))
      BY <2>1, <2>2, <1>3 DEF N!Supply
    <3>2. CASE unit \in got
      BY <1>3, <2>2, <3>1, <3>2 DEF N!Supply
    <3>3. CASE unit \notin got
      <4>1. CASE max \in got /\ N!Value(max) > 0
        <5>1. dev.value[max] = 100 \/ dev.value[max] <= 0
          <6>1. unit \in DOMAIN dev.value /\ unit[1] = "unit" /\ <<"max", unit[2]>> = max /\ max \in DOMAIN dev.value /\ dev.value[unit] = N!InPercent
            BY <2>2, <4>1, <1>1 DEF N!All
          <6> HIDE DEF unit, max
          <6> QED BY <6>1 DEF N!PollAssumption
        <5>2. N!Value(max) \in Int /\ N!Value(level) \in Int
          BY <4>1, <1>3, <1>1, RowsHold
        <5>3. N!Value(max) = 100
          BY <5>1, <5>2, <4>1, <1>1
        <5>4. N!Supply(got, i) = N!Clamp((N!Value(level) * 100) \div N!Value(max))
          BY <1>3, <3>3, <4>1 DEF N!Supply
        <5>5. PICK n \in Int : n = N!Value(level)
          BY <5>2
        <5>6. (n * 100) \div 100 = n
          OBVIOUS
        <5> QED BY <3>1, <5>3, <5>4, <5>5, <5>6
      <4>2. CASE ~(max \in got /\ N!Value(max) > 0)
        BY <1>3, <3>3, <4>2 DEF N!Supply
      <4> QED BY <4>1, <4>2
    <3> QED BY <3>2, <3>3
  <2>3. CASE ~(unit \in N!All /\ N!Value(unit) = N!InPercent)
    <3>1. ~(unit \in got /\ N!Value(unit) = N!InPercent)
      BY <2>1, <2>3
    <3>2. CASE max \in got /\ N!Value(max) > 0
      BY <1>3, <2>1, <2>3, <3>1, <3>2 DEF N!Supply
    <3>3. CASE ~(max \in got /\ N!Value(max) > 0)
      BY <1>3, <3>1, <3>3 DEF N!Supply
    <3> QED BY <3>2, <3>3
  <2> QED BY <2>2, <2>3
<1> QED BY <1>2, <1>3

LEMMA ReadingsAreSound ==
  ASSUME N!PollAssumption, dev \in Devices, NEW got \in SUBSET DOMAIN dev.value
  PROVE  Sound(N!Readings(got))
<1> DEFINE said == N!Readings(got)
<1>1. said.cpu = N!Cpu(got) /\ said.disk = N!Disk(got) /\ said.supplies = N!Supplies(got)
  BY DEF N!Readings
<1>2. \A i \in DOMAIN said.supplies : said.supplies[i] = N!Supply(got, i)
  BY <1>1 DEF N!Supplies
<1> HIDE DEF said
<1>3. said.cpu # N!Unsaid => \E a, b \in N!Loads : a <= said.cpu /\ said.cpu <= b
  BY <1>1, CpuIsSound
<1>4. said.disk # N!Unsaid => \E n \in N!Fills(N!All, "disk") \cup {N!Clamp(x) : x \in N!Shares(N!All)} : said.disk = n
  BY <1>1, DiskIsSound
<1>5. \A i \in DOMAIN said.supplies : said.supplies[i] \in {N!Unsaid, N!Supply(N!All, i)}
  BY <1>2, SuppliesAreSound
<1> QED BY <1>3, <1>4, <1>5 DEF Sound, said

Formed(x) == x = [error |-> x.error, version |-> x.version, read |-> x.read, octets |-> x.octets]
Counts == [N!Octets -> Nat]
PollTypes ==
  /\ dev \in Devices /\ polling \in {"idle", "try", "tables", "in", "out", "record"}
  /\ count \in [N!Octets -> [dev.ports -> Nat]]
  /\ moved \in Counts /\ early \in Counts
  /\ Formed(info) /\ info.octets \in Counts /\ Formed(prev) /\ prev.octets \in Counts
  /\ whole \in [last : [N!Octets -> BOOLEAN], now : [N!Octets -> BOOLEAN]]

(* All that the device counted, since it was last restarted.               *)
Counted(d) == Total(count[d], dev.ports)
Walked(d) == info.error = "" /\ polling \in (IF d = "in" THEN {"out", "record"} ELSE {"record"})

(* A walk that missed nothing is behind the device by no more than moved   *)
(* since; and so this poll is ahead of the last by no more than moved in   *)
(* between. *)
Keeps(d) ==
  /\ early[d] <= moved[d]
  /\ whole.last[d] => Counted(d) <= prev.octets[d] + moved[d]
  /\ Walked(d) => /\ whole.last[d] => info.octets[d] <= prev.octets[d] + early[d]
                  /\ whole.now[d] => Counted(d) <= info.octets[d] + (moved[d] - early[d])

PollInv == PollTypes /\ Sound(info.read) /\ Sound(prev.read) /\ \A d \in N!Octets : Keeps(d)

LEMMA PortsAreFew == ASSUME N!PollAssumption, dev \in Devices PROVE IsFiniteSet(dev.ports)
BY DEF N!PollAssumption, N!IsFiniteSet, IsFiniteSet

LEMMA CountedIs == ASSUME N!PollAssumption, PollTypes, NEW d \in N!Octets PROVE Counted(d) \in Nat
<1>1. IsFiniteSet(dev.ports) /\ \A p \in dev.ports : count[d][p] \in Nat
  BY PortsAreFew DEF PollTypes
<1> DEFINE f == count[d]
<1>2. Total(f, dev.ports) \in Nat
  <2>1. dev.ports \in SUBSET dev.ports
    OBVIOUS
  <2> HIDE DEF f
  <2> QED BY <1>1, <2>1, MoreIsNoLess DEF f
<1> QED BY <1>2 DEF Counted

(* Where it begins. *)
LEMMA PollStart == ASSUME N!PollAssumption, N!Init PROVE PollInv
<1> USE DEF N!Init, N!Each, N!Nothing
<1>1. PollTypes
  BY DEF PollTypes, Formed, Counts, N!Octets
<1>2. Sound(info.read) /\ Sound(prev.read)
  BY DEF Sound
<1>3. ASSUME NEW d \in N!Octets PROVE Keeps(d)
  <2>1. early[d] = 0 /\ moved[d] = 0 /\ prev.octets[d] = 0 /\ ~Walked(d)
    BY DEF Walked
  <2>2. Counted(d) = 0
    <3>1. \A p \in dev.ports : count[d][p] = 0
      OBVIOUS
    <3>2. IsFiniteSet(dev.ports)
      BY PortsAreFew
    <3> QED BY <3>1, <3>2, NoTotal DEF Counted
  <2> HIDE DEF N!Init
  <2> QED BY <2>1, <2>2 DEF Keeps
<1> QED BY <1>1, <1>2, <1>3 DEF PollInv

(* A step that counts nothing and walks nothing. *)
LEMMA NothingCounted ==
  ASSUME PollInv, UNCHANGED <<dev, count, moved, early, whole>>, prev'.octets = prev.octets, info'.octets = info.octets,
         \A d \in N!Octets : Walked(d)' => Walked(d)
  PROVE  \A d \in N!Octets : Keeps(d)'
BY DEF PollInv, Keeps, Counted

(* What was sound of a device is. *)
LEMMA SoundStays ==
  ASSUME UNCHANGED dev, Sound(info'.read), Sound(prev'.read)
  PROVE  Sound(info.read)' /\ Sound(prev.read)'
<1>1. N!Loads' = N!Loads /\ N!All' = N!All
  BY DEF N!Loads, N!All, N!Column, N!Value, N!Ucd, N!Clamp
<1>2. N!Fills(N!All, "disk")' = N!Fills(N!All, "disk") /\ N!Shares(N!All)' = N!Shares(N!All)
  BY <1>1 DEF N!Fills, N!Shares, N!Column, N!Value, N!Fill
<1>3. \A i : N!Supply(N!All, i)' = N!Supply(N!All, i)
  BY <1>1 DEF N!Supply, N!Value
<1> QED BY <1>1, <1>2, <1>3 DEF Sound

LEMMA TablesStep == ASSUME N!PollAssumption, PollInv, N!WalkTables PROVE PollInv'
<1>1. PICK lost \in SUBSET DOMAIN dev.value : info' = [info EXCEPT !.read = N!Readings(DOMAIN dev.value \ lost)]
  BY DEF N!WalkTables
<1>2. polling' = "in" /\ UNCHANGED <<dev, count, prev, moved, early, whole>>
  BY DEF N!WalkTables, N!ghosts
<1>3. Sound(N!Readings(DOMAIN dev.value \ lost))
  BY ReadingsAreSound DEF PollInv, PollTypes
<1>4. Formed(info') /\ info'.read = N!Readings(DOMAIN dev.value \ lost) /\ info'.octets = info.octets
  <2> DEFINE said == N!Readings(DOMAIN dev.value \ lost)
  <2> HIDE DEF said
  <2>1. info' = [info EXCEPT !.read = said] /\ Formed(info)
    BY <1>1 DEF said, PollInv, PollTypes
  <2> QED BY <2>1 DEF Formed, said
<1>5. PollTypes'
  BY <1>2, <1>4 DEF PollInv, PollTypes, Formed
<1>6. Sound(info'.read)
  BY <1>3, <1>4
<1>7. Sound(info.read)' /\ Sound(prev.read)'
  BY <1>2, <1>6, SoundStays DEF PollInv
<1>8. \A d \in N!Octets : Walked(d)' => Walked(d)
  BY <1>2 DEF Walked
<1>9. \A d \in N!Octets : Keeps(d)'
  BY <1>2, <1>4, <1>8, NothingCounted
<1> QED BY <1>5, <1>7, <1>9 DEF PollInv

LEMMA WalkStep == ASSUME N!PollAssumption, PollInv, NEW d \in N!Octets, N!WalkOctets(d) PROVE PollInv'
<1>1. PICK got \in SUBSET dev.ports :
        /\ info' = [info EXCEPT !.octets[d] = N!SumFunctionOnSet(count[d], got)]
        /\ whole' = [whole EXCEPT !.now[d] = (got = dev.ports)]
  BY DEF N!WalkOctets
<1>2. /\ polling = d /\ polling' = (IF d = "in" THEN "out" ELSE "record") /\ early' = [early EXCEPT ![d] = moved[d]]
      /\ UNCHANGED <<dev, count, prev, moved>>
  BY DEF N!WalkOctets
<1>3. PollTypes
  BY DEF PollInv
<1>4. d \in {"in", "out"}
  BY DEF N!Octets
<1>5. N!SumFunctionOnSet(count[d], got) = Total(count[d], got)
  BY SumIsTotal
<1>6. Total(count[d], got) \in Nat /\ Counted(d) \in Nat /\ Total(count[d], got) <= Counted(d)
  <2> DEFINE f == count[d]
  <2>1. IsFiniteSet(dev.ports) /\ \A p \in dev.ports : f[p] \in Nat
    BY <1>3, PortsAreFew DEF PollTypes
  <2>2. Total(f, got) \in Nat /\ Total(f, dev.ports) \in Nat /\ Total(f, got) <= Total(f, dev.ports)
    <3> HIDE DEF f
    <3> QED BY <2>1, MoreIsNoLess
  <2> QED BY <2>2 DEF Counted
<1>7. PICK sum \in Nat : sum = Total(count[d], got)
  BY <1>6
<1>8. Formed(info') /\ info'.error = info.error /\ info'.read = info.read /\ info'.octets = [info.octets EXCEPT ![d] = sum]
  <2>1. info' = [info EXCEPT !.octets[d] = sum] /\ Formed(info)
    BY <1>1, <1>3, <1>5, <1>7 DEF PollTypes
  <2> QED BY <2>1 DEF Formed
<1>9. /\ whole' \in [last : [N!Octets -> BOOLEAN], now : [N!Octets -> BOOLEAN]]
      /\ whole'.last = whole.last /\ whole'.now = [whole.now EXCEPT ![d] = (got = dev.ports)]
  <2>1. whole \in [last : [N!Octets -> BOOLEAN], now : [N!Octets -> BOOLEAN]] /\ (got = dev.ports) \in BOOLEAN
    BY <1>3 DEF PollTypes
  <2> QED BY <2>1, <1>1
<1>10. PollTypes'
  <2>1. polling' \in {"idle", "try", "tables", "in", "out", "record"}
    BY <1>2
  <2>2. info'.octets \in Counts /\ early' \in Counts
    BY <1>2, <1>3, <1>7, <1>8 DEF PollTypes, Counts
  <2> QED BY <1>2, <1>3, <1>8, <1>9, <2>1, <2>2 DEF PollTypes, Formed
<1>11. Sound(info.read)' /\ Sound(prev.read)'
  BY <1>2, <1>8, SoundStays DEF PollInv
<1>12. ASSUME NEW e \in N!Octets PROVE Keeps(e)'
  <2>1. Keeps(e) /\ e \in {"in", "out"}
    BY DEF PollInv, N!Octets
  <2>2. Counted(e)' = Counted(e)
    BY <1>2 DEF Counted
  <2>3. Counted(e) \in Nat /\ moved[e] \in Nat /\ early[e] \in Nat /\ prev.octets[e] \in Nat /\ info.octets[e] \in Nat
    BY <1>3, CountedIs DEF PollTypes, Counts
  <2>4. PICK c \in Nat, mv \in Nat, ea \in Nat, po \in Nat :
          c = Counted(e) /\ mv = moved[e] /\ ea = early[e] /\ po = prev.octets[e]
    BY <2>3
  <2>5. whole'.last[e] = whole.last[e]
    BY <1>9
  <2>6. CASE e = d
    <3>1. early'[e] = mv /\ info'.octets[e] = sum /\ whole'.now[e] = (got = dev.ports)
      BY <1>2, <1>3, <1>8, <1>9, <2>4, <2>6 DEF PollTypes, Counts
    <3>2. sum <= c /\ (got = dev.ports => sum = c)
      BY <1>6, <1>7, <2>4, <2>6 DEF Counted
    <3>3. whole.last[e] => c <= po + mv
      BY <2>1, <2>4 DEF Keeps
    <3>4. moved'[e] = mv /\ prev'.octets[e] = po /\ Counted(e)' = c
      BY <1>2, <2>2, <2>4
    <3>5. whole'.last[e] => sum <= po + mv
      BY <3>2, <3>3, <2>4, <2>5
    <3>6. whole'.now[e] => c <= sum + (mv - mv)
      <4>1. c - sum \in Int /\ mv - mv = 0
        BY <2>4
      <4>2. got = dev.ports => c <= sum + 0
        BY ONLY <3>2, c \in Nat, sum \in Nat
      <4> QED BY <3>1, <4>1, <4>2
    <3>7. mv <= mv
      BY <2>4
    <3> QED BY <3>1, <3>3, <3>4, <3>5, <3>6, <3>7, <2>5 DEF Keeps
  <2>7. CASE e # d
    <3>1. early'[e] = early[e] /\ info'.octets[e] = info.octets[e] /\ whole'.now[e] = whole.now[e]
      BY <1>2, <1>3, <1>8, <1>9, <2>7 DEF PollTypes, Counts
    <3>2. Walked(e)' => Walked(e)
      BY <1>2, <1>4, <1>8, <2>1, <2>7 DEF Walked
    <3>3. moved'[e] = moved[e] /\ prev'.octets[e] = prev.octets[e]
      BY <1>2
    <3> QED BY <3>1, <3>2, <3>3, <2>1, <2>2, <2>5 DEF Keeps
  <2> QED BY <2>6, <2>7
<1> QED BY <1>10, <1>11, <1>12 DEF PollInv

LEMMA RecordStep == ASSUME N!PollAssumption, PollInv, N!Record PROVE PollInv'
<1>1. polling = "record" /\ polling' = "idle" /\ info' = N!Nothing /\ early' = N!Each(0) /\ UNCHANGED <<dev, count>>
  BY DEF N!Record
<1>2. PollTypes
  BY DEF PollInv
<1>3. Formed(info') /\ info'.octets \in Counts /\ info'.read = <<>> /\ early' \in Counts /\ \A d \in N!Octets : early'[d] = 0
  BY <1>1 DEF N!Nothing, N!Each, Formed, Counts
<1>4. \A d \in N!Octets : ~Walked(d)'
  BY <1>1 DEF Walked
<1>5. \A d \in N!Octets : Counted(d)' = Counted(d)
  BY <1>1 DEF Counted
<1>6. Sound(info'.read)
  BY <1>3 DEF Sound
<1>7. CASE info.error = ""
  <2>1. prev' = info /\ moved' = [d \in N!Octets |-> moved[d] - early[d]] /\ whole' = [whole EXCEPT !.last = whole.now]
    BY <1>7 DEF N!Record
  <2>2. Sound(info.read)' /\ Sound(prev.read)'
    BY <1>1, <1>6, <2>1, SoundStays DEF PollInv
  <2>3. whole' \in [last : [N!Octets -> BOOLEAN], now : [N!Octets -> BOOLEAN]] /\ whole'.last = whole.now
    BY <2>1, <1>2 DEF PollTypes
  <2>4. ASSUME NEW d \in N!Octets PROVE moved'[d] \in Nat /\ Keeps(d)'
    <3>1. Keeps(d) /\ Walked(d)
      BY <1>1, <1>7 DEF PollInv, Walked
    <3>2. Counted(d) \in Nat /\ moved[d] \in Nat /\ early[d] \in Nat /\ info.octets[d] \in Nat
      BY <1>2, CountedIs DEF PollTypes, Counts
    <3>3. PICK c \in Nat, mv \in Nat, ea \in Nat, io \in Nat :
            c = Counted(d) /\ mv = moved[d] /\ ea = early[d] /\ io = info.octets[d]
      BY <3>2
    <3>4. ea <= mv /\ (whole.now[d] => c <= io + (mv - ea))
      BY <3>1, <3>3 DEF Keeps
    <3>5. moved'[d] = mv - ea /\ prev'.octets[d] = io /\ Counted(d)' = c /\ early'[d] = 0
      BY <2>1, <1>3, <1>5, <3>3
    <3>6. PICK rest \in Nat : rest = mv - ea
      BY <3>3, <3>4
    <3> QED BY <3>4, <3>5, <3>6, <2>3, <1>4 DEF Keeps
  <2>5. moved' \in Counts
    BY <2>1, <2>4 DEF Counts
  <2>6. PollTypes'
    BY <1>1, <1>2, <1>3, <2>1, <2>3, <2>5 DEF PollTypes, Formed
  <2> QED BY <2>2, <2>4, <2>6 DEF PollInv
<1>8. CASE info.error # ""
  <2>1. prev' = (IF prev = N!Nothing THEN N!Nothing ELSE [prev EXCEPT !.error = info.error]) /\ UNCHANGED <<moved, whole>>
    BY <1>8 DEF N!Record
  <2>2. Formed(prev') /\ prev'.octets = prev.octets /\ prev'.read = prev.read
    <3>1. CASE prev = N!Nothing
      BY <3>1, <2>1, <1>2 DEF PollTypes
    <3>2. CASE prev # N!Nothing
      BY <3>2, <2>1, <1>2 DEF PollTypes, Formed
    <3> QED BY <3>1, <3>2
  <2>3. Sound(info.read)' /\ Sound(prev.read)'
    BY <1>1, <1>6, <2>2, SoundStays DEF PollInv
  <2>4. PollTypes'
    BY <1>1, <1>2, <1>3, <2>1, <2>2 DEF PollTypes, Formed
  <2>5. ASSUME NEW d \in N!Octets PROVE Keeps(d)'
    <3>1. Keeps(d) /\ moved[d] \in Nat
      BY <1>2 DEF PollInv, PollTypes, Counts
    <3>2. early'[d] = 0 /\ moved'[d] = moved[d] /\ 0 <= moved[d]
      BY <1>3, <2>1, <3>1
    <3> QED BY <3>1, <3>2, <2>1, <2>2, <1>4, <1>5 DEF Keeps
  <2> QED BY <2>3, <2>4, <2>5 DEF PollInv
<1> QED BY <1>7, <1>8

LEMMA MoveStep == ASSUME N!PollAssumption, PollInv, NEW d \in N!Octets, NEW p \in dev.ports, N!Move(d, p) PROVE PollInv'
<1>1. /\ count' = [count EXCEPT ![d][p] = @ + 1] /\ moved' = [moved EXCEPT ![d] = @ + 1]
      /\ UNCHANGED <<dev, polling, info, prev, early, whole>>
  BY DEF N!Move
<1>2. PollTypes
  BY DEF PollInv
<1>3. moved' \in Counts /\ count' \in [N!Octets -> [dev.ports -> Nat]]
  BY <1>1, <1>2 DEF PollTypes, Counts
<1>4. PollTypes'
  BY <1>1, <1>2, <1>3 DEF PollTypes, Formed
<1>5. Sound(info.read)' /\ Sound(prev.read)'
  BY <1>1, SoundStays DEF PollInv
<1>6. Counted(d)' = Counted(d) + 1
  <2> DEFINE f == count[d]
             g == count'[d]
  <2>1. g = [f EXCEPT ![p] = @ + 1] /\ DOMAIN f = dev.ports /\ Numbers(f, dev.ports) /\ IsFiniteSet(dev.ports)
    BY <1>1, <1>2, PortsAreFew DEF PollTypes, Numbers
  <2>2. Total(g, dev.ports) = Total(f, dev.ports) + 1
    <3> HIDE DEF f, g
    <3> QED BY <2>1, OneMore
  <2> QED BY <2>2, <1>1 DEF Counted
<1>7. ASSUME NEW e \in N!Octets PROVE Keeps(e)'
  <2>1. Keeps(e) /\ early'[e] = early[e] /\ prev' = prev /\ info' = info /\ whole' = whole /\ (Walked(e)' <=> Walked(e))
    BY <1>1 DEF PollInv, Walked
  <2>2. CASE e = d
    <3>1. Counted(e) \in Nat /\ moved[e] \in Nat /\ early[e] \in Nat /\ info.octets[e] \in Nat /\ prev.octets[e] \in Nat
      BY <1>2, CountedIs DEF PollTypes, Counts
    <3>2. PICK c \in Nat, mv \in Nat, ea \in Nat, io \in Nat, po \in Nat :
            c = Counted(e) /\ mv = moved[e] /\ ea = early[e] /\ io = info.octets[e] /\ po = prev.octets[e]
      BY <3>1
    <3>3. PICK c1 \in Nat, mv1 \in Nat : c1 = c + 1 /\ mv1 = mv + 1
      OBVIOUS
    <3>4. Counted(e)' = c1 /\ moved'[e] = mv1 /\ early'[e] = ea /\ info'.octets[e] = io /\ prev'.octets[e] = po
      <4>1. moved'[e] = mv1
        BY <1>1, <1>2, <2>2, <3>2, <3>3 DEF PollTypes, Counts
      <4>2. Counted(e)' = c1
        BY <1>6, <2>2, <3>2, <3>3
      <4> QED BY <4>1, <4>2, <2>1, <3>2
    <3>5. ea <= mv /\ (whole.last[e] => c <= po + mv) /\ (Walked(e) => (whole.last[e] => io <= po + ea) /\ (whole.now[e] => c <= io + (mv - ea)))
      BY <2>1, <3>2 DEF Keeps
    <3>6. ea <= mv1 /\ (c <= po + mv => c1 <= po + mv1) /\ (c <= io + (mv - ea) => c1 <= io + (mv1 - ea))
      BY <3>2, <3>3, <3>5
    <3> QED BY <2>1, <3>4, <3>5, <3>6 DEF Keeps
  <2>3. CASE e # d
    <3>1. moved'[e] = moved[e] /\ Counted(e)' = Counted(e)
      BY <1>1, <1>2, <2>3 DEF PollTypes, Counts, Counted
    <3> QED BY <2>1, <3>1 DEF Keeps
  <2> QED BY <2>2, <2>3
<1> QED BY <1>4, <1>5, <1>7 DEF PollInv

LEMMA GoesStep == ASSUME N!PollAssumption, PollInv, N!Goes PROVE PollInv'
<1>1. count' = N!Each([p \in dev.ports |-> 0]) /\ UNCHANGED <<dev, polling, info, prev, moved, early, whole>>
  BY DEF N!Goes, N!ghosts
<1>2. PollTypes
  BY DEF PollInv
<1>3. PollTypes'
  BY <1>1, <1>2 DEF PollTypes, N!Each, Formed
<1>4. Sound(info.read)' /\ Sound(prev.read)'
  BY <1>1, SoundStays DEF PollInv
<1>5. ASSUME NEW d \in N!Octets PROVE Keeps(d)'
  <2>1. Counted(d)' = 0
    <3> DEFINE f == count'[d]
    <3>1. \A p \in dev.ports : f[p] = 0
      BY <1>1 DEF N!Each
    <3>2. Total(f, dev.ports) = 0
      <4> HIDE DEF f
      <4> QED BY <3>1, <1>2, PortsAreFew, NoTotal DEF PollTypes
    <3> QED BY <3>2, <1>1 DEF Counted
  <2>2. moved[d] \in Nat /\ early[d] \in Nat /\ info.octets[d] \in Nat /\ prev.octets[d] \in Nat
    BY <1>2 DEF PollTypes, Counts
  <2>3. Keeps(d)
    BY DEF PollInv
  <2>4. 0 <= prev.octets[d] + moved[d] /\ 0 <= info.octets[d] + (moved[d] - early[d])
    BY <2>2, <2>3 DEF Keeps
  <2> QED BY <2>1, <2>3, <2>4, <1>1 DEF Keeps, Walked
<1> QED BY <1>3, <1>4, <1>5 DEF PollInv

LEMMA PollStep == ASSUME N!PollAssumption, PollInv, [N!Next]_(N!vars) PROVE PollInv'
<1>1. PollTypes
  BY DEF PollInv
<1>2. CASE N!Begin
  <2>1. polling' = "try" /\ early' = N!Each(0) /\ UNCHANGED <<dev, count, info, prev, moved, whole>>
    BY <1>2 DEF N!Begin
  <2>2. early' \in Counts /\ \A d \in N!Octets : early'[d] = 0
    BY <2>1 DEF N!Each, Counts
  <2>3. PollTypes'
    BY <1>1, <2>1, <2>2 DEF PollTypes, Formed
  <2>4. ASSUME NEW d \in N!Octets PROVE Keeps(d)'
    <3>1. Keeps(d) /\ moved[d] \in Nat /\ ~Walked(d)'
      BY <1>1, <2>1 DEF PollInv, PollTypes, Counts, Walked
    <3>2. early'[d] <= moved[d]
      BY <2>2, <3>1
    <3> QED BY <3>1, <3>2, <2>1 DEF Keeps, Counted
  <2>5. Sound(info.read)' /\ Sound(prev.read)'
    BY <2>1, SoundStays DEF PollInv
  <2> QED BY <2>3, <2>4, <2>5 DEF PollInv
<1>3. CASE N!SystemAnswers \/ N!NoAnswer
  <2>1. PICK e, v : info' = [N!Nothing EXCEPT !.error = e, !.version = v] \/ info' = [N!Nothing EXCEPT !.error = e]
    BY <1>3 DEF N!SystemAnswers, N!NoAnswer
  <2>2. info'.read = <<>> /\ Formed(info') /\ info'.octets \in Counts
    <3> DEFINE none == N!Each(0)
    <3>1. none \in Counts
      BY DEF N!Each, Counts
    <3>2. N!Nothing = [error |-> "not polled", version |-> "none", read |-> <<>>, octets |-> none]
      BY DEF N!Nothing
    <3> HIDE DEF none
    <3> QED BY <2>1, <3>1, <3>2 DEF Formed
  <2>3. polling' \in {"tables", "record"} /\ UNCHANGED <<dev, count, prev, moved, early, whole>>
    BY <1>3 DEF N!SystemAnswers, N!NoAnswer, N!ghosts
  <2>4. PollTypes'
    BY <1>1, <2>2, <2>3 DEF PollTypes, Formed
  <2>5. Sound(info'.read)
    BY <2>2 DEF Sound
  <2>6. Sound(info.read)' /\ Sound(prev.read)'
    BY <2>3, <2>5, SoundStays DEF PollInv
  <2>7. \A d \in N!Octets : ~Walked(d)'
    BY <1>3 DEF N!SystemAnswers, N!NoAnswer, Walked, N!Nothing
  <2>8. \A d \in N!Octets : Keeps(d)'
    BY <2>3, <2>7 DEF PollInv, Keeps, Counted
  <2> QED BY <2>4, <2>6, <2>8 DEF PollInv
<1>4. CASE N!FallsBack \/ N!Browser \/ N!Returns \/ N!Ages \/ UNCHANGED N!vars
  <2>1. UNCHANGED <<dev, count, polling, info, prev, moved, early, whole>>
    BY <1>4 DEF N!FallsBack, N!Browser, N!Browse, N!BrowseWalk, N!Reachable, N!Returns, N!Ages, N!vars, N!ghosts
  <2>2. PollTypes'
    BY <1>1, <2>1 DEF PollTypes, Formed
  <2>3. Sound(info.read)' /\ Sound(prev.read)'
    BY <2>1, SoundStays DEF PollInv
  <2>4. \A d \in N!Octets : Walked(d)' => Walked(d)
    BY <2>1 DEF Walked
  <2>5. \A d \in N!Octets : Keeps(d)'
    BY <2>1, <2>4, NothingCounted
  <2> QED BY <2>2, <2>3, <2>5 DEF PollInv
<1> QED BY <1>2, <1>3, <1>4, TablesStep, WalkStep, RecordStep, MoveStep, GoesStep DEF N!Next, N!Poll

LEMMA RestIsNoMore == ASSUME NEW gap \in Nat, NEW w \in Nat \ {0} PROVE gap % w \in Nat /\ gap % w <= gap
<1>1. PICK q \in Nat : q = gap \div w
  OBVIOUS
<1>2. gap % w = gap - (gap \div w) * w
  BY SMTT(60)
<1>3. PICK k \in Nat : k = q * w
  OBVIOUS
<1>4. gap % w = gap - k
  BY <1>1, <1>2, <1>3
<1>5. gap % w \in Nat
  OBVIOUS
<1> QED BY <1>4, <1>5

LEMMA PassedIs ==
  ASSUME NEW now1 \in Nat, NEW before \in Nat, NEW ea \in Nat, W \in Nat \ {0}, now1 <= before + ea
  PROVE  N!Passed(now1, before) <= ea /\ 0 <= ea
<1>1. CASE now1 >= before
  <2>1. PICK gap \in Nat : gap = now1 - before
    BY <1>1
  <2>2. gap % W \in Nat /\ gap % W <= gap
    BY RestIsNoMore
  <2>3. N!Passed(now1, before) = gap % W
    BY <1>1, <2>1 DEF N!Passed
  <2> QED BY <2>1, <2>2, <2>3
<1>2. CASE ~(now1 >= before)
  BY <1>2 DEF N!Passed
<1> QED BY <1>1, <1>2

LEMMA RatesReal == ASSUME N!PollAssumption, PollInv PROVE N!RatesAreReal
<1>1. ASSUME NEW d \in N!Octets, Walked(d), whole.last[d] PROVE N!Rates[d] <= early[d]
  <2>1. info.octets[d] \in Nat /\ prev.octets[d] \in Nat /\ early[d] \in Nat /\ W \in Nat \ {0}
    BY DEF PollInv, PollTypes, Counts, N!PollAssumption
  <2>2. info.octets[d] <= prev.octets[d] + early[d]
    BY <1>1 DEF PollInv, Keeps
  <2>3. N!Passed(info.octets[d], prev.octets[d]) <= early[d] /\ 0 <= early[d]
    BY ONLY <2>1, <2>2, PassedIs
  <2>4. N!Rates[d] = 0 \/ N!Rates[d] = N!Passed(info.octets[d], prev.octets[d])
    BY DEF N!Rates, N!Each
  <2> QED BY ONLY <2>3, <2>4
<1>2. \A d \in N!Octets : polling = "record" /\ info.error = "" => Walked(d)
  BY DEF Walked, N!Octets
<1> QED BY <1>1, <1>2 DEF N!RatesAreReal

(* A rate is at most what really passed, through restarts, outages and     *)
(* polls that fail, and no reading is invented, however many rows are      *)
(* lost: for any devices, numbers of ports and counts, at any width of the *)
(* counters (rateFrom, pollSupplies, pollHostResources, pollUCD).          *)
THEOREM ReadingsStayReal == ASSUME N!PollAssumption PROVE N!Spec => []ReadingsAreReal
<1>1. N!PollAssumption /\ PollInv => ReadingsAreReal
  BY RatesReal, SoundIs DEF ReadingsAreReal, N!ReadingsAreReal, PollInv
<1> QED BY PollStart, PollStep, <1>1, PTL DEF N!Spec

-----------------------------------------------------------------------------
(* The network map (Topology). *)

(* The greatest of a bounded set of numbers.                               *)
LEMMA LargestOf == ASSUME NEW S, NEW n \in Nat, S \subseteq 0..n, S # {} PROVE \E x \in S : \A y \in S : y <= x
<1> DEFINE gaps == {n - x : x \in S}
<1>1. gaps \subseteq Nat /\ gaps # {}
  <2>1. \A x \in S : n - x \in Nat
    OBVIOUS
  <2> QED BY <2>1
<1>2. PICK z \in gaps : \A y \in gaps : z <= y
  <2> HIDE DEF gaps
  <2> QED BY ONLY <1>1, LeastOf
<1>3. PICK x \in S : z = n - x
  OBVIOUS
<1>4. \A y \in S : n - x <= n - y /\ y \in Nat
  BY <1>2, <1>3
<1> HIDE DEF gaps
<1> QED BY <1>4

(* A fold over a sequence stays where it begins, if every step does. *)
Chains(it, Join, base, pick, S, V) ==
  \A s \in SUBSET S : IF s = {} THEN it[s] = base
                      ELSE it[s \ {pick[s]}] \in V => it[s] = Join[<<pick[s], it[s \ {pick[s]}]>>]

LEMMA FoldStays ==
  ASSUME NEW S, IsFiniteSet(S), NEW V, NEW base \in V, NEW pick, Picks(pick, S), NEW Join, StaysIn(Join, S, V),
         NEW it, Chains(it, Join, base, pick, S, V)
  PROVE  it[S] \in V
<1> DEFINE wrong == {s \in SUBSET S : it[s] \notin V}
<1>1. ASSUME NEW s \in wrong PROVE \E x \in s : s \ {x} \in wrong
  <2>1. s # {} /\ s \in SUBSET S
    BY DEF Chains
  <2>2. pick[s] \in s
    BY <2>1 DEF Picks
  <2>3. it[s \ {pick[s]}] \notin V
    <3>1. SUFFICES ASSUME it[s \ {pick[s]}] \in V PROVE FALSE
      OBVIOUS
    <3>2. it[s] = Join[<<pick[s], it[s \ {pick[s]}]>>]
      BY <2>1, <3>1 DEF Chains
    <3>3. it[s] \in V
      BY <3>1, <3>2, <2>1, <2>2 DEF StaysIn
    <3> QED BY <3>3
  <2> QED BY <2>1, <2>2, <2>3
<1>2. wrong \subseteq SUBSET S /\ Shrinks(wrong)
  BY <1>1 DEF Shrinks
<1> HIDE DEF wrong
<1>3. wrong = {}
  BY ONLY <1>2, IsFiniteSet(S), NoneShrinks
<1> QED BY <1>3 DEF wrong

(* The last of the indices of a sequence is chosen. *)
LastOf(xs) == [s \in SUBSET DOMAIN xs |-> T!Max(s)]
LEMMA LastIsIn == ASSUME NEW R, NEW xs \in Seq(R) PROVE Picks(LastOf(xs), DOMAIN xs) /\ IsFiniteSet(DOMAIN xs)
<1>1. DOMAIN xs = 1..Len(xs) /\ Len(xs) \in Nat
  OBVIOUS
<1>2. ASSUME NEW s \in SUBSET DOMAIN xs, s # {} PROVE LastOf(xs)[s] \in s
  <2>1. PICK x \in s : \A y \in s : y <= x
    <3>1. s \subseteq 0..Len(xs)
      BY <1>1, <1>2
    <3> QED BY ONLY <3>1, <1>1, <1>2, LargestOf
  <2>2. x \in s /\ \A y \in s : x >= y
    BY <2>1, <1>1
  <2> QED BY <2>2 DEF T!Max, LastOf
<1>3. Picks(LastOf(xs), DOMAIN xs)
  BY ONLY <1>2 DEF Picks
<1>4. IsFiniteSet(DOMAIN xs)
  BY ONLY <1>1, FS_Interval, 1 \in Int, Len(xs) \in Int
<1> QED BY <1>3, <1>4

(* One for each of the folds the map is made by, which differ in the step. *)
LEMMA ClaimStays ==
  ASSUME NEW R, NEW xs \in Seq(R), NEW V, NEW base \in V, \A i \in DOMAIN xs, v \in V : T!Claim(v, xs[i]) \in V
  PROVE  T!FoldLeft(T!Claim, base, xs) \in V
<1> DEFINE dom == DOMAIN xs
           Join == [x \in dom \X V |-> T!Claim(x[2], xs[x[1]])]
           Body(it) == [s \in SUBSET dom |-> IF s = {} THEN base ELSE T!Claim(it[s \ {T!Max(s)}], xs[T!Max(s)])]
           z == CHOOSE it : it = Body(it)
<1>1. StaysIn(Join, dom, V)
  BY DEF StaysIn
<1>2. Picks(LastOf(xs), dom) /\ IsFiniteSet(dom)
  BY LastIsIn
<1>3. PICK f \in [SUBSET dom -> V] : Folds(f, Join, base, LastOf(xs), dom)
  <2> HIDE DEF Join, dom
  <2> QED BY ONLY <1>1, <1>2, base \in V, FoldExists
<1>4. ASSUME NEW s \in SUBSET dom, s # {}, NEW v \in V PROVE Join[<<LastOf(xs)[s], v>>] = T!Claim(v, xs[T!Max(s)])
  <2>1. LastOf(xs)[s] = T!Max(s) /\ T!Max(s) \in dom
    BY <1>4, <1>2 DEF Picks, LastOf
  <2> QED BY <2>1
<1>5. f = Body(f)
  <2> HIDE DEF Join
  <2>1. \A s \in SUBSET dom : LastOf(xs)[s] = T!Max(s) /\ f[s \ {T!Max(s)}] \in V
    BY <1>3 DEF LastOf
  <2>2. f = [s \in SUBSET dom |-> IF s = {} THEN base ELSE Join[<<LastOf(xs)[s], f[s \ {LastOf(xs)[s]}]>>]]
    BY ONLY <1>3 DEF Folds
  <2>3. ASSUME NEW s \in SUBSET dom, s # {}
        PROVE  Join[<<LastOf(xs)[s], f[s \ {LastOf(xs)[s]}]>>] = T!Claim(f[s \ {T!Max(s)}], xs[T!Max(s)])
    <3> HIDE DEF dom
    <3> QED BY <2>1, <2>3, <1>4
  <2> HIDE DEF dom
  <2> QED BY ONLY <2>2, <2>3
<1>6. z = Body(z)
  <2> HIDE DEF Body
  <2> QED BY <1>5
<1>7. Chains(z, Join, base, LastOf(xs), dom, V)
  <2> HIDE DEF z, Join
  <2>1. \A s \in SUBSET dom : LastOf(xs)[s] = T!Max(s)
    BY DEF LastOf
  <2>2. z[{}] = base
    BY <1>6
  <2>3. ASSUME NEW s \in SUBSET dom, s # {}, z[s \ {T!Max(s)}] \in V PROVE z[s] = Join[<<T!Max(s), z[s \ {T!Max(s)}]>>]
    <3>1. z[s] = T!Claim(z[s \ {T!Max(s)}], xs[T!Max(s)])
      BY <2>3, <1>6
    <3> QED BY <3>1, <2>3, <1>4, <2>1
  <2> QED BY <2>1, <2>2, <2>3 DEF Chains
<1>8. z[dom] \in V
  <2> HIDE DEF z, Join, dom
  <2> QED BY ONLY <1>1, <1>2, <1>7, base \in V, FoldStays
<1> QED BY <1>8 DEF T!FoldLeft, T!MapThenFoldSet
LEMMA ReportStays ==
  ASSUME NEW R, NEW xs \in Seq(R), NEW V, NEW base \in V, \A i \in DOMAIN xs, v \in V : T!Report(v, xs[i]) \in V
  PROVE  T!FoldLeft(T!Report, base, xs) \in V
<1> DEFINE dom == DOMAIN xs
           Join == [x \in dom \X V |-> T!Report(x[2], xs[x[1]])]
           Body(it) == [s \in SUBSET dom |-> IF s = {} THEN base ELSE T!Report(it[s \ {T!Max(s)}], xs[T!Max(s)])]
           z == CHOOSE it : it = Body(it)
<1>1. StaysIn(Join, dom, V)
  BY DEF StaysIn
<1>2. Picks(LastOf(xs), dom) /\ IsFiniteSet(dom)
  BY LastIsIn
<1>3. PICK f \in [SUBSET dom -> V] : Folds(f, Join, base, LastOf(xs), dom)
  <2> HIDE DEF Join, dom
  <2> QED BY ONLY <1>1, <1>2, base \in V, FoldExists
<1>4. ASSUME NEW s \in SUBSET dom, s # {}, NEW v \in V PROVE Join[<<LastOf(xs)[s], v>>] = T!Report(v, xs[T!Max(s)])
  <2>1. LastOf(xs)[s] = T!Max(s) /\ T!Max(s) \in dom
    BY <1>4, <1>2 DEF Picks, LastOf
  <2> QED BY <2>1
<1>5. f = Body(f)
  <2> HIDE DEF Join
  <2>1. \A s \in SUBSET dom : LastOf(xs)[s] = T!Max(s) /\ f[s \ {T!Max(s)}] \in V
    BY <1>3 DEF LastOf
  <2>2. f = [s \in SUBSET dom |-> IF s = {} THEN base ELSE Join[<<LastOf(xs)[s], f[s \ {LastOf(xs)[s]}]>>]]
    BY ONLY <1>3 DEF Folds
  <2>3. ASSUME NEW s \in SUBSET dom, s # {}
        PROVE  Join[<<LastOf(xs)[s], f[s \ {LastOf(xs)[s]}]>>] = T!Report(f[s \ {T!Max(s)}], xs[T!Max(s)])
    <3> HIDE DEF dom
    <3> QED BY <2>1, <2>3, <1>4
  <2> HIDE DEF dom
  <2> QED BY ONLY <2>2, <2>3
<1>6. z = Body(z)
  <2> HIDE DEF Body
  <2> QED BY <1>5
<1>7. Chains(z, Join, base, LastOf(xs), dom, V)
  <2> HIDE DEF z, Join
  <2>1. \A s \in SUBSET dom : LastOf(xs)[s] = T!Max(s)
    BY DEF LastOf
  <2>2. z[{}] = base
    BY <1>6
  <2>3. ASSUME NEW s \in SUBSET dom, s # {}, z[s \ {T!Max(s)}] \in V PROVE z[s] = Join[<<T!Max(s), z[s \ {T!Max(s)}]>>]
    <3>1. z[s] = T!Report(z[s \ {T!Max(s)}], xs[T!Max(s)])
      BY <2>3, <1>6
    <3> QED BY <3>1, <2>3, <1>4, <2>1
  <2> QED BY <2>1, <2>2, <2>3 DEF Chains
<1>8. z[dom] \in V
  <2> HIDE DEF z, Join, dom
  <2> QED BY ONLY <1>1, <1>2, <1>7, base \in V, FoldStays
<1> QED BY <1>8 DEF T!FoldLeft, T!MapThenFoldSet
LEMMA PlaceStays ==
  ASSUME NEW R, NEW xs \in Seq(R), NEW V, NEW base \in V, \A i \in DOMAIN xs, v \in V : T!Place(v, xs[i]) \in V
  PROVE  T!FoldLeft(T!Place, base, xs) \in V
<1> DEFINE dom == DOMAIN xs
           Join == [x \in dom \X V |-> T!Place(x[2], xs[x[1]])]
           Body(it) == [s \in SUBSET dom |-> IF s = {} THEN base ELSE T!Place(it[s \ {T!Max(s)}], xs[T!Max(s)])]
           z == CHOOSE it : it = Body(it)
<1>1. StaysIn(Join, dom, V)
  BY DEF StaysIn
<1>2. Picks(LastOf(xs), dom) /\ IsFiniteSet(dom)
  BY LastIsIn
<1>3. PICK f \in [SUBSET dom -> V] : Folds(f, Join, base, LastOf(xs), dom)
  <2> HIDE DEF Join, dom
  <2> QED BY ONLY <1>1, <1>2, base \in V, FoldExists
<1>4. ASSUME NEW s \in SUBSET dom, s # {}, NEW v \in V PROVE Join[<<LastOf(xs)[s], v>>] = T!Place(v, xs[T!Max(s)])
  <2>1. LastOf(xs)[s] = T!Max(s) /\ T!Max(s) \in dom
    BY <1>4, <1>2 DEF Picks, LastOf
  <2> QED BY <2>1
<1>5. f = Body(f)
  <2> HIDE DEF Join
  <2>1. \A s \in SUBSET dom : LastOf(xs)[s] = T!Max(s) /\ f[s \ {T!Max(s)}] \in V
    BY <1>3 DEF LastOf
  <2>2. f = [s \in SUBSET dom |-> IF s = {} THEN base ELSE Join[<<LastOf(xs)[s], f[s \ {LastOf(xs)[s]}]>>]]
    BY ONLY <1>3 DEF Folds
  <2>3. ASSUME NEW s \in SUBSET dom, s # {}
        PROVE  Join[<<LastOf(xs)[s], f[s \ {LastOf(xs)[s]}]>>] = T!Place(f[s \ {T!Max(s)}], xs[T!Max(s)])
    <3> HIDE DEF dom
    <3> QED BY <2>1, <2>3, <1>4
  <2> HIDE DEF dom
  <2> QED BY ONLY <2>2, <2>3
<1>6. z = Body(z)
  <2> HIDE DEF Body
  <2> QED BY <1>5
<1>7. Chains(z, Join, base, LastOf(xs), dom, V)
  <2> HIDE DEF z, Join
  <2>1. \A s \in SUBSET dom : LastOf(xs)[s] = T!Max(s)
    BY DEF LastOf
  <2>2. z[{}] = base
    BY <1>6
  <2>3. ASSUME NEW s \in SUBSET dom, s # {}, z[s \ {T!Max(s)}] \in V PROVE z[s] = Join[<<T!Max(s), z[s \ {T!Max(s)}]>>]
    <3>1. z[s] = T!Place(z[s \ {T!Max(s)}], xs[T!Max(s)])
      BY <2>3, <1>6
    <3> QED BY <3>1, <2>3, <1>4, <2>1
  <2> QED BY <2>1, <2>2, <2>3 DEF Chains
<1>8. z[dom] \in V
  <2> HIDE DEF z, Join, dom
  <2> QED BY ONLY <1>1, <1>2, <1>7, base \in V, FoldStays
<1> QED BY <1>8 DEF T!FoldLeft, T!MapThenFoldSet
LEMMA HangStays ==
  ASSUME NEW R, NEW xs \in Seq(R), NEW V, NEW base \in V, \A i \in DOMAIN xs, v \in V : T!Hang(v, xs[i]) \in V
  PROVE  T!FoldLeft(T!Hang, base, xs) \in V
<1> DEFINE dom == DOMAIN xs
           Join == [x \in dom \X V |-> T!Hang(x[2], xs[x[1]])]
           Body(it) == [s \in SUBSET dom |-> IF s = {} THEN base ELSE T!Hang(it[s \ {T!Max(s)}], xs[T!Max(s)])]
           z == CHOOSE it : it = Body(it)
<1>1. StaysIn(Join, dom, V)
  BY DEF StaysIn
<1>2. Picks(LastOf(xs), dom) /\ IsFiniteSet(dom)
  BY LastIsIn
<1>3. PICK f \in [SUBSET dom -> V] : Folds(f, Join, base, LastOf(xs), dom)
  <2> HIDE DEF Join, dom
  <2> QED BY ONLY <1>1, <1>2, base \in V, FoldExists
<1>4. ASSUME NEW s \in SUBSET dom, s # {}, NEW v \in V PROVE Join[<<LastOf(xs)[s], v>>] = T!Hang(v, xs[T!Max(s)])
  <2>1. LastOf(xs)[s] = T!Max(s) /\ T!Max(s) \in dom
    BY <1>4, <1>2 DEF Picks, LastOf
  <2> QED BY <2>1
<1>5. f = Body(f)
  <2> HIDE DEF Join
  <2>1. \A s \in SUBSET dom : LastOf(xs)[s] = T!Max(s) /\ f[s \ {T!Max(s)}] \in V
    BY <1>3 DEF LastOf
  <2>2. f = [s \in SUBSET dom |-> IF s = {} THEN base ELSE Join[<<LastOf(xs)[s], f[s \ {LastOf(xs)[s]}]>>]]
    BY ONLY <1>3 DEF Folds
  <2>3. ASSUME NEW s \in SUBSET dom, s # {}
        PROVE  Join[<<LastOf(xs)[s], f[s \ {LastOf(xs)[s]}]>>] = T!Hang(f[s \ {T!Max(s)}], xs[T!Max(s)])
    <3> HIDE DEF dom
    <3> QED BY <2>1, <2>3, <1>4
  <2> HIDE DEF dom
  <2> QED BY ONLY <2>2, <2>3
<1>6. z = Body(z)
  <2> HIDE DEF Body
  <2> QED BY <1>5
<1>7. Chains(z, Join, base, LastOf(xs), dom, V)
  <2> HIDE DEF z, Join
  <2>1. \A s \in SUBSET dom : LastOf(xs)[s] = T!Max(s)
    BY DEF LastOf
  <2>2. z[{}] = base
    BY <1>6
  <2>3. ASSUME NEW s \in SUBSET dom, s # {}, z[s \ {T!Max(s)}] \in V PROVE z[s] = Join[<<T!Max(s), z[s \ {T!Max(s)}]>>]
    <3>1. z[s] = T!Hang(z[s \ {T!Max(s)}], xs[T!Max(s)])
      BY <2>3, <1>6
    <3> QED BY <3>1, <2>3, <1>4, <2>1
  <2> QED BY <2>1, <2>2, <2>3 DEF Chains
<1>8. z[dom] \in V
  <2> HIDE DEF z, Join, dom
  <2> QED BY ONLY <1>1, <1>2, <1>7, base \in V, FoldStays
<1> QED BY <1>8 DEF T!FoldLeft, T!MapThenFoldSet

(* What a device reports, and what a sighting by one amounts to.           *)
Told == [from : Addresses, to : Addresses, fromPort : Nat, toPort : Nat, source : {"uplink", "lldp"}]
Guess == [from : T!Managed, to : Addresses, fromPort : Nat, toPort : {0}, source : {"seen"}]
OnMap == T!Managed \cup T!Named \cup T!Gateways
ToldEnds == T!Ends(T!ToSet(T!Reported))

LEMMA ElementsIn ==
  ASSUME NEW R, NEW xs \in Seq(R)
  PROVE  T!ToSet(xs) \subseteq R /\ \A i \in DOMAIN xs : xs[i] \in R /\ xs[i] \in T!ToSet(xs)
BY DEF T!ToSet

LEMMA WhatIsTold ==
  ASSUME T!TopologyAssumption, doc \in Docs
  PROVE  /\ T!Reported \in Seq(Told)
         /\ T!Managed \subseteq Addresses /\ T!Named \subseteq Addresses /\ T!Gateways \subseteq Addresses
         /\ ToldEnds \subseteq Addresses
<1> DEFINE R == [of : Addresses, source : {"uplink", "lldp"}, peer : Addresses, port : Nat, remote : Nat, named : BOOLEAN]
           D == [mac : Addresses, gateway : Addresses \cup {Nobody}]
<1>1. doc.links \in Seq(R) /\ doc.devices \in Seq(D)
  BY DEF T!TopologyAssumption
<1>7. \A x \in T!ToSet(doc.links) : x \in R
  <2> HIDE DEF R
  <2> QED BY <1>1, ElementsIn
<1>8. \A x \in T!ToSet(doc.devices) : x \in D
  <2> HIDE DEF D
  <2> QED BY <1>1, ElementsIn
<1>2. ASSUME NEW i \in DOMAIN doc.links, NEW v \in Seq(Told) PROVE T!Report(v, doc.links[i]) \in Seq(Told)
  <2> DEFINE x == doc.links[i]
  <2>1. x \in R
    <3> HIDE DEF R
    <3> QED BY <1>1, <1>2, ElementsIn
  <2> HIDE DEF x
  <2>2. T!Edge(x.peer, x.of, x.remote, x.port, "uplink") \in Told /\ T!Edge(x.of, x.peer, x.port, 0, "lldp") \in Told
    BY <2>1 DEF T!Edge, Told
  <2>3. \A e \in Told : Append(v, e) \in Seq(Told)
    BY <1>2
  <2> HIDE DEF R
  <2> QED BY <2>2, <2>3 DEF T!Report, x
<1>3. T!Reported \in Seq(Told)
  <2>1. <<>> \in Seq(Told)
    OBVIOUS
  <2>2. T!FoldLeft(T!Report, <<>>, doc.links) \in Seq(Told)
    <3> HIDE DEF R
    <3> QED BY ONLY <2>1, <1>1, <1>2, ReportStays
  <2> QED BY <2>2 DEF T!Reported
<1>4. T!Managed \subseteq Addresses /\ T!Gateways \subseteq Addresses
  BY <1>8 DEF T!Managed, T!Gateways
<1>5. T!Named \subseteq Addresses
  BY <1>7 DEF T!Named
<1>6. ToldEnds \subseteq Addresses
  <2>1. \A e \in T!ToSet(T!Reported) : e.from \in Addresses /\ e.to \in Addresses
    <3>1. \A e \in T!ToSet(T!Reported) : e \in Told
      BY <1>3, ElementsIn
    <3> QED BY <3>1 DEF Told
  <2> QED BY <2>1 DEF ToldEnds, T!Ends
<1> QED BY <1>3, <1>4, <1>5, <1>6

(* What the sightings have come to: the links are those reported, and one  *)
(* guess each for what nothing reports; the leaves are in no report, are   *)
(* neither devices nor gateways, and are counted where they were sighted.  *)
Kept(c) ==
  /\ ToldEnds \subseteq c.attached
  /\ \A i \in DOMAIN c.links :
       /\ c.links[i].source = "seen" => c.links[i].to \in c.attached \cap OnMap /\ c.links[i].to \notin ToldEnds
       /\ c.links[i].source # "seen" => c.links[i] \in T!ToSet(T!Reported)
  /\ \A i, j \in DOMAIN c.links :
       c.links[i].source = "seen" /\ c.links[j].source = "seen" /\ c.links[i].to = c.links[j].to => i = j
Apart(c) == \A i \in DOMAIN c.unclaimed : c.unclaimed[i].to \notin OnMap \cup ToldEnds
From(us, a) == {i \in DOMAIN us : us[i].from = a}
Claims ==
  {c \in [links : Seq(Told \cup Guess), transit : {T!Transit(T!ToSet(T!Reported))}, attached : SUBSET Addresses,
          unclaimed : Seq(Guess), leaves : [Addresses -> Nat]] :
     Kept(c) /\ Apart(c) /\ \A a \in Addresses : c.leaves[a] = Cardinality(From(c.unclaimed, a))}

(* A sighting of what is on the map and attached to nothing is a link; of  *)
(* what is not on it, a leaf.                                              *)
LEMMA LinkKeeps ==
  ASSUME NEW c \in Claims, NEW e \in Guess, e.to \in OnMap, e.to \notin c.attached
  PROVE  T!Link(c, e) \in Claims
<1> DEFINE d == T!Link(c, e)
           n == Len(c.links)
<1>1. c.links \in Seq(Told \cup Guess) /\ n \in Nat /\ DOMAIN c.links = 1..n
  BY DEF Claims
<1>2. /\ d.links = Append(c.links, e) /\ d.attached = c.attached \cup {e.to} /\ d.transit = c.transit
      /\ d.unclaimed = c.unclaimed /\ d.leaves = c.leaves
      /\ d \in [links : Seq(Told \cup Guess), transit : {T!Transit(T!ToSet(T!Reported))}, attached : SUBSET Addresses,
                unclaimed : Seq(Guess), leaves : [Addresses -> Nat]]
  <2>1. c \in [links : Seq(Told \cup Guess), transit : {T!Transit(T!ToSet(T!Reported))}, attached : SUBSET Addresses,
               unclaimed : Seq(Guess), leaves : [Addresses -> Nat]]
    BY DEF Claims
  <2>2. Append(c.links, e) \in Seq(Told \cup Guess) /\ c.attached \cup {e.to} \in SUBSET Addresses
    BY <2>1 DEF Guess
  <2> QED BY <2>1, <2>2 DEF T!Link
<1>3. DOMAIN d.links = 1..(n + 1) /\ d.links[n + 1] = e /\ \A i \in 1..n : d.links[i] = c.links[i]
  BY <1>1, <1>2
<1>4. e.source = "seen" /\ e.to \in Addresses
  BY DEF Guess
<1>5. Kept(c) /\ Apart(c) /\ \A a \in Addresses : c.leaves[a] = Cardinality(From(c.unclaimed, a))
  BY DEF Claims
<1> HIDE DEF d, n
<1>6. e.to \notin ToldEnds
  BY <1>5 DEF Kept
<1>7. \A i \in 1..(n + 1) : i \in 1..n \/ i = n + 1
  BY <1>1
<1>8. Kept(d)
  <2>1. ToldEnds \subseteq d.attached
    BY <1>2, <1>5 DEF Kept
  <2>2. ASSUME NEW i \in DOMAIN d.links
        PROVE  /\ d.links[i].source = "seen" => d.links[i].to \in d.attached \cap OnMap /\ d.links[i].to \notin ToldEnds
               /\ d.links[i].source # "seen" => d.links[i] \in T!ToSet(T!Reported)
    <3>1. CASE i = n + 1
      BY <3>1, <1>2, <1>3, <1>4, <1>6
    <3>2. CASE i \in 1..n
      BY <3>2, <1>1, <1>2, <1>3, <1>5 DEF Kept
    <3> QED BY <3>1, <3>2, <1>3, <1>7
  <2>3. ASSUME NEW i \in 1..n, c.links[i].source = "seen" PROVE c.links[i].to # e.to
    BY <2>3, <1>1, <1>5 DEF Kept
  <2>4. ASSUME NEW i \in DOMAIN d.links, NEW j \in DOMAIN d.links, d.links[i].source = "seen", d.links[j].source = "seen",
               d.links[i].to = d.links[j].to
        PROVE  i = j
    <3>1. CASE i \in 1..n /\ j \in 1..n
      BY <3>1, <2>4, <1>1, <1>3, <1>5 DEF Kept
    <3>2. CASE i = n + 1 /\ j \in 1..n
      BY <3>2, <2>4, <2>3, <1>3
    <3>3. CASE i \in 1..n /\ j = n + 1
      BY <3>3, <2>4, <2>3, <1>3
    <3> QED BY <3>1, <3>2, <3>3, <1>3, <1>7
  <2> QED BY <2>1, <2>2, <2>4 DEF Kept
<1>9. Apart(d)
  BY <1>2, <1>5 DEF Apart
<1> QED BY <1>2, <1>5, <1>8, <1>9 DEF Claims, d

LEMMA LeafKeeps ==
  ASSUME NEW c \in Claims, NEW e \in Guess, T!Managed \subseteq Addresses, e.to \notin OnMap, e.to \notin c.attached
  PROVE  T!Leaf(c, e) \in Claims
<1> DEFINE d == T!Leaf(c, e)
           u == c.unclaimed
           n == Len(u)
<1>1. u \in Seq(Guess) /\ n \in Nat /\ DOMAIN u = 1..n /\ c.leaves \in [Addresses -> Nat]
  BY DEF Claims
<1>2. e.from \in Addresses
  BY DEF Guess
<1>3. /\ d.links = c.links /\ d.attached = c.attached /\ d.transit = c.transit
      /\ d.unclaimed = Append(u, e) /\ d.leaves = [c.leaves EXCEPT ![e.from] = @ + 1]
      /\ d \in [links : Seq(Told \cup Guess), transit : {T!Transit(T!ToSet(T!Reported))}, attached : SUBSET Addresses,
                unclaimed : Seq(Guess), leaves : [Addresses -> Nat]]
  <2>1. c \in [links : Seq(Told \cup Guess), transit : {T!Transit(T!ToSet(T!Reported))}, attached : SUBSET Addresses,
               unclaimed : Seq(Guess), leaves : [Addresses -> Nat]]
    BY DEF Claims
  <2>2. Append(u, e) \in Seq(Guess) /\ [c.leaves EXCEPT ![e.from] = @ + 1] \in [Addresses -> Nat]
    BY <1>1, <1>2
  <2> QED BY <2>1, <2>2 DEF T!Leaf
<1>4. Kept(c) /\ Apart(c) /\ \A a \in Addresses : c.leaves[a] = Cardinality(From(u, a))
  BY DEF Claims
<1>5. e.to \notin ToldEnds
  BY <1>4 DEF Kept
<1> HIDE DEF d, n, u
<1>6. DOMAIN d.unclaimed = 1..(n + 1) /\ d.unclaimed[n + 1] = e /\ \A i \in 1..n : d.unclaimed[i] = u[i]
  BY <1>1, <1>3 DEF n
<1>7. \A i \in 1..(n + 1) : i \in 1..n \/ i = n + 1
  BY <1>1
<1>8. Kept(d)
  BY <1>3, <1>4 DEF Kept
<1>9. Apart(d)
  BY <1>1, <1>4, <1>5, <1>6, <1>7 DEF Apart, u
<1>10. ASSUME NEW a \in Addresses PROVE d.leaves[a] = Cardinality(From(d.unclaimed, a))
  <2>1. IsFiniteSet(From(u, a)) /\ n + 1 \notin From(u, a)
    <3>1. From(u, a) \subseteq 1..n /\ n + 1 \notin 1..n
      BY <1>1 DEF From
    <3>2. IsFiniteSet(1..n)
      BY ONLY <1>1, FS_Interval, 1 \in Int, n \in Int
    <3> QED BY <3>1, <3>2, FS_Subset
  <2>2. CASE a = e.from
    <3>1. From(d.unclaimed, a) = From(u, a) \cup {n + 1}
      BY <2>2, <1>1, <1>6, <1>7 DEF From
    <3>2. Cardinality(From(u, a) \cup {n + 1}) = Cardinality(From(u, a)) + 1
      BY <2>1, FS_AddElement
    <3>3. d.leaves[a] = c.leaves[a] + 1
      BY <2>2, <1>3, <1>1
    <3> QED BY <3>1, <3>2, <3>3, <1>4
  <2>3. CASE a # e.from
    <3>1. From(d.unclaimed, a) = From(u, a)
      BY <2>3, <1>1, <1>6, <1>7 DEF From
    <3>2. d.leaves[a] = c.leaves[a]
      BY <2>3, <1>3, <1>1
    <3> QED BY <3>1, <3>2, <1>4
  <2> QED BY <2>2, <2>3
<1> QED BY <1>3, <1>8, <1>9, <1>10 DEF Claims, d

LEMMA ClaimedIs == ASSUME T!TopologyAssumption, doc \in Docs PROVE T!Claimed \in Claims
<1> DEFINE X == [of : Addresses, peer : Addresses, port : Nat]
           start == [links |-> T!Reported, transit |-> T!Transit(T!ToSet(T!Reported)),
                     attached |-> T!Ends(T!ToSet(T!Reported)), unclaimed |-> <<>>, leaves |-> [a \in Addresses |-> 0]]
<1>1. doc.seen \in Seq(X) /\ \A i \in DOMAIN doc.seen : doc.seen[i].of \in T!Managed
  BY DEF T!TopologyAssumption, T!Managed, T!ToSet
<1>2. /\ T!Reported \in Seq(Told) /\ T!Managed \subseteq Addresses /\ ToldEnds \subseteq Addresses
  BY WhatIsTold
<1>3. start \in Claims
  <2>1. Kept(start)
    <3>1. \A i \in DOMAIN T!Reported : T!Reported[i].source # "seen" /\ T!Reported[i] \in T!ToSet(T!Reported)
      <4>1. \A i \in DOMAIN T!Reported : T!Reported[i] \in Told /\ T!Reported[i] \in T!ToSet(T!Reported)
        BY <1>2, ElementsIn
      <4> QED BY <4>1 DEF Told
    <3> QED BY <3>1 DEF Kept, ToldEnds
  <2>2. Apart(start) /\ \A a \in Addresses : From(start.unclaimed, a) = {}
    BY DEF Apart, From
  <2>3. \A a \in Addresses : start.leaves[a] = Cardinality(From(start.unclaimed, a))
    BY <2>2, FS_EmptySet
  <2>4. start \in [links : Seq(Told \cup Guess), transit : {T!Transit(T!ToSet(T!Reported))}, attached : SUBSET Addresses,
                   unclaimed : Seq(Guess), leaves : [Addresses -> Nat]]
    BY <1>2 DEF ToldEnds
  <2> HIDE DEF start
  <2> QED BY <2>1, <2>2, <2>3, <2>4 DEF Claims
<1>4. ASSUME NEW i \in DOMAIN doc.seen, NEW c \in Claims PROVE T!Claim(c, doc.seen[i]) \in Claims
  <2> DEFINE x == doc.seen[i]
             e == T!Sighting(x)
  <2>1. x \in X /\ x.of \in T!Managed
    <3> HIDE DEF X
    <3> QED BY <1>1, ElementsIn
  <2>2. e \in Guess /\ e.to = x.peer
    BY <2>1 DEF T!Sighting, T!Edge, Guess
  <2> HIDE DEF x, e
  <2>3. e.to \notin c.attached /\ e.to \in OnMap => T!Link(c, e) \in Claims
    BY <2>2, LinkKeeps
  <2>4. e.to \notin c.attached /\ e.to \notin OnMap => T!Leaf(c, e) \in Claims
    BY <2>2, <1>2, LeafKeeps
  <2>5. T!Claim(c, x) \in {c, T!Link(c, e), T!Leaf(c, e)}
        /\ (e.to \in c.attached => T!Claim(c, x) = c)
        /\ (T!Claim(c, x) # c => T!Claim(c, x) = IF e.to \in OnMap THEN T!Link(c, e) ELSE T!Leaf(c, e))
    BY <2>2 DEF T!Claim, OnMap, e
  <2> QED BY <2>3, <2>4, <2>5 DEF x
<1>5. T!FoldLeft(T!Claim, start, doc.seen) \in Claims
  <2> HIDE DEF start, X
  <2> QED BY ONLY <1>1, <1>3, <1>4, ClaimStays
<1> QED BY <1>5 DEF T!Claimed

(* What holds of what is drawn, in terms of nodes, lines and root: two     *)
(* parts of the property and, of the sightings that are no links, those    *)
(* that are hidden behind a node, whose number is shown.                   *)
Drawable ==
  [from : Addresses, to : Addresses, fromPort : Nat, toPort : Nat, source : {"uplink", "lldp", "seen", "wifi"}]
Together(ns, es, r) ==
  /\ T!Ends(es) \subseteq ns /\ T!Managed \subseteq ns
  /\ \A e, f \in es : T!Pair(e) = T!Pair(f) => e = f
  /\ ns # {} => r \in ns
Yields(es, r) ==
  \A e \in es : e.source \in {"seen", "wifi"} /\ e.to # r =>
    /\ \A f \in es : f.source \in {"uplink", "lldp"} => e.to \notin T!Pair(f)
    /\ \A f \in es : f.source \in {"seen", "wifi"} /\ f.to = e.to => f = e
Hidden(us, ns, a) == {i \in DOMAIN us : us[i].from = a /\ us[i].to \notin ns}
LeavesCounted(us, ns, ls) ==
  (\A i, j \in DOMAIN us : us[i].to = us[j].to => i = j) => \A a \in Addresses : ls[a] = Cardinality(Hidden(us, ns, a))

(* One line per pair, and finitely many.                                   *)
LEMMA LinesAre ==
  ASSUME NEW xs \in Seq(Drawable)
  PROVE  /\ IsFiniteSet(T!Lines(xs)) /\ T!Lines(xs) \subseteq Drawable
         /\ \A e \in T!Lines(xs) : \E i \in DOMAIN xs : e = xs[i]
         /\ \A e, f \in T!Lines(xs) : T!Pair(e) = T!Pair(f) => e = f
<1> DEFINE Best == {i \in DOMAIN xs : \A j \in DOMAIN xs : T!Pair(xs[j]) = T!Pair(xs[i]) =>
                      (T!Detail(xs[j]) < T!Detail(xs[i])
                      \/ (T!Detail(xs[j]) = T!Detail(xs[i]) /\ i <= j))}
<1>1. T!Lines(xs) = {xs[i] : i \in Best}
  BY DEF T!Lines
<1>2. DOMAIN xs = 1..Len(xs) /\ Len(xs) \in Nat /\ \A i \in DOMAIN xs : xs[i] \in Drawable
  <2> HIDE DEF Best
  <2> QED BY ElementsIn
<1>3. \A e \in Drawable : T!Detail(e) \in Nat
  BY DEF T!Detail, Drawable
<1>4. ASSUME NEW i \in Best, NEW j \in Best, T!Pair(xs[i]) = T!Pair(xs[j]) PROVE i = j
  <2>1. T!Detail(xs[i]) \in Nat /\ T!Detail(xs[j]) \in Nat /\ i \in Nat /\ j \in Nat
    BY <1>2, <1>3
  <2>2. T!Detail(xs[j]) < T!Detail(xs[i]) \/ (T!Detail(xs[j]) = T!Detail(xs[i]) /\ i <= j)
    BY <1>4
  <2>3. T!Detail(xs[i]) < T!Detail(xs[j]) \/ (T!Detail(xs[i]) = T!Detail(xs[j]) /\ j <= i)
    BY <1>4
  <2> QED BY ONLY <2>1, <2>2, <2>3
<1>5. Best \subseteq DOMAIN xs
  OBVIOUS
<1> HIDE DEF Best
<1>6. IsFiniteSet(1..Len(xs))
  BY ONLY <1>2, FS_Interval, 1 \in Int, Len(xs) \in Int
<1>7. IsFiniteSet(Best)
  BY <1>2, <1>5, <1>6, FS_Subset
<1>8. IsFiniteSet({xs[i] : i \in Best})
  <2> DEFINE Pts == {xs[i] : i \in Best}
             g == [i \in Best |-> xs[i]]
  <2>1. g \in [Best -> Pts] /\ \A p \in Pts : \E i \in Best : g[i] = p
    OBVIOUS
  <2>2. g \in Surjection(Best, Pts)
    <3> HIDE DEF g, Pts
    <3> QED BY <2>1 DEF Surjection
  <2> HIDE DEF g, Pts
  <2>3. IsFiniteSet(Pts)
    BY ONLY <1>7, <2>2, FS_Surjection
  <2> QED BY <2>3 DEF Pts
<1> QED BY <1>1, <1>2, <1>4, <1>5, <1>8

(* Folding takes the ends of a line to the root, if they are invented and  *)
(* of its block, and leaves the rest of the line alone.                    *)
LEMMA FoldIs ==
  ASSUME NEW e \in Drawable, NEW r, NEW v, v \subseteq Addresses, r \in Addresses \cup {Nobody}
  PROVE  LET f == T!Fold(e, r, v) IN
         /\ f \in Drawable /\ f.source = e.source
         /\ f.from = (IF T!Folds(e.from, r, v) THEN r ELSE e.from)
         /\ f.to = (IF T!Folds(e.to, r, v) THEN r ELSE e.to)
<1>1. \A a : T!Folds(a, r, v) => r \in Addresses
  BY DEF T!Folds
<1> QED BY <1>1 DEF T!Fold, Drawable

(* The map after the controller's answer.  What is guessed was attached to *)
(* nothing that is reported and folds into nothing, so that only the root, *)
(* into which others fold, may be at both a guess and a report; and what   *)
(* is a leaf is neither told of nor on the map.                            *)
LEMMA ExtractDraws ==
  ASSUME T!TopologyAssumption, doc \in Docs, T!Extract
  PROVE  /\ nodes' \subseteq Addresses /\ edges' \subseteq Drawable
         /\ Together(nodes', edges', root') /\ Yields(edges', root')
         /\ leaves' \in [Addresses -> Nat] /\ unclaimed' \in Seq(Guess)
         /\ LeavesCounted(unclaimed', nodes', leaves')
<1> DEFINE c == T!Claimed
           v == T!Invented(c.links)
           known == T!Managed \cup T!Named \cup v
           roots == T!Gateways \cap known
<1>1. c \in Claims /\ T!Managed \subseteq Addresses /\ T!Named \subseteq Addresses /\ T!Gateways \subseteq Addresses
      /\ ToldEnds \subseteq Addresses
  BY ClaimedIs, WhatIsTold
<1> HIDE DEF c
<1>2. PICK r \in IF roots = {} THEN {Nobody} ELSE roots :
        LET links == [i \in DOMAIN c.links |-> T!Fold(c.links[i], r, v)]
            lines == T!Lines(links)
            kept == {a \in known : ~T!Folds(a, r, v) /\ (a \in v => T!Degree(a, lines) > 0)}
        IN  /\ nodes' = kept /\ edges' = lines
            /\ root' \in IF r \in kept THEN {r}
                         ELSE IF kept = {} THEN {Nobody}
                         ELSE {a \in kept : \A b \in kept : T!Degree(b, lines) <= T!Degree(a, lines)}
  BY DEF T!Extract, c
<1> DEFINE links == [i \in DOMAIN c.links |-> T!Fold(c.links[i], r, v)]
           lines == T!Lines(links)
           kept == {a \in known : ~T!Folds(a, r, v) /\ (a \in v => T!Degree(a, lines) > 0)}
<1>3. nodes' = kept /\ edges' = lines /\ (r \in kept => root' = r) /\ (kept # {} => root' \in kept)
  BY <1>2
<1>4. leaves' = c.leaves /\ unclaimed' = c.unclaimed
  BY DEF T!Extract, c
<1>5. c.links \in Seq(Told \cup Guess) /\ c.unclaimed \in Seq(Guess) /\ c.leaves \in [Addresses -> Nat]
      /\ Kept(c) /\ Apart(c) /\ \A a \in Addresses : c.leaves[a] = Cardinality(From(c.unclaimed, a))
  BY <1>1 DEF Claims
<1>6. \A i \in DOMAIN c.links : c.links[i] \in Drawable /\ c.links[i] \in Told \cup Guess
  <2>1. Told \subseteq Drawable /\ Guess \subseteq Drawable
    BY <1>1 DEF Told, Guess, Drawable
  <2> QED BY <1>5, <2>1, ElementsIn
<1>7. \A i \in DOMAIN c.links : c.links[i].from \in known /\ c.links[i].to \in known
  BY <1>5, ElementsIn DEF T!Invented, T!Ends
<1>8. v \subseteq Addresses /\ v \cap (T!Managed \cup T!Named) = {}
  <2>1. T!Ends(T!ToSet(c.links)) \subseteq Addresses
    <3>1. \A e \in T!ToSet(c.links) : e.from \in Addresses /\ e.to \in Addresses
      BY <1>6 DEF T!ToSet, Drawable
    <3> QED BY <3>1 DEF T!Ends
  <2> QED BY <2>1, <1>1 DEF T!Invented
<1>9. r \in known \cap Addresses \/ r = Nobody
  BY <1>1
<1> HIDE DEF v, roots
<1>10. /\ links \in Seq(Drawable) /\ DOMAIN links = DOMAIN c.links
       /\ \A i \in DOMAIN c.links :
            /\ links[i].source = c.links[i].source
            /\ links[i].from = (IF T!Folds(c.links[i].from, r, v) THEN r ELSE c.links[i].from)
            /\ links[i].to = (IF T!Folds(c.links[i].to, r, v) THEN r ELSE c.links[i].to)
  <2>1. \A i \in DOMAIN c.links : links[i] \in Drawable
    BY <1>6, <1>8, <1>9, FoldIs
  <2>2. links \in Seq(Drawable)
    <3>1. DOMAIN c.links = 1..Len(c.links) /\ Len(c.links) \in Nat
      BY <1>5
    <3>2. links \in [1..Len(c.links) -> Drawable]
      BY <2>1, <3>1
    <3> HIDE DEF links
    <3> QED BY <3>1, <3>2
  <2>3. \A i \in DOMAIN c.links :
            /\ links[i].source = c.links[i].source
            /\ links[i].from = (IF T!Folds(c.links[i].from, r, v) THEN r ELSE c.links[i].from)
            /\ links[i].to = (IF T!Folds(c.links[i].to, r, v) THEN r ELSE c.links[i].to)
    BY <1>6, <1>8, <1>9, FoldIs
  <2> QED BY <2>2, <2>3
<1> HIDE DEF links
<1>11. /\ IsFiniteSet(lines) /\ lines \subseteq Drawable
       /\ \A e \in lines : \E i \in DOMAIN links : e = links[i]
       /\ \A e, f \in lines : T!Pair(e) = T!Pair(f) => e = f
  BY <1>10, LinesAre
<1> HIDE DEF lines
<1>12. \A e \in lines : \A a \in {e.from, e.to} : a \in known /\ ~T!Folds(a, r, v)
  <2>1. ~T!Folds(r, r, v) /\ \A a : T!Folds(a, r, v) => r \in known
    BY <1>9 DEF T!Folds
  <2> SUFFICES ASSUME NEW e \in lines PROVE \A a \in {e.from, e.to} : a \in known /\ ~T!Folds(a, r, v)
    OBVIOUS
  <2>2. PICK i \in DOMAIN c.links : e = links[i]
    BY <1>10, <1>11
  <2> HIDE DEF known
  <2>3. e.from \in known /\ ~T!Folds(e.from, r, v)
    BY <2>1, <2>2, <1>7, <1>10
  <2>4. e.to \in known /\ ~T!Folds(e.to, r, v)
    BY <2>1, <2>2, <1>7, <1>10
  <2> QED BY <2>3, <2>4
<1>13. \A e \in lines : \A a \in {e.from, e.to} : T!Degree(a, lines) > 0
  <2> SUFFICES ASSUME NEW e \in lines, NEW a \in {e.from, e.to} PROVE T!Degree(a, lines) > 0
    OBVIOUS
  <2> DEFINE At1 == {f \in lines : a \in T!Pair(f)}
  <2>1. e \in At1 /\ At1 \subseteq lines
    BY DEF T!Pair
  <2>2. T!Degree(a, lines) = Cardinality(At1)
    BY DEF T!Degree, T!Cardinality, Cardinality
  <2> HIDE DEF At1
  <2>3. IsFiniteSet(At1)
    BY <2>1, <1>11, FS_Subset
  <2>4. Cardinality(At1) \in Nat /\ Cardinality(At1) # 0
    BY <2>1, <2>3, FS_CardinalityType, FS_EmptySet
  <2> QED BY <2>2, <2>4
<1>14. Together(kept, lines, root')
  <2>1. T!Ends(lines) \subseteq kept
    BY <1>12, <1>13 DEF T!Ends
  <2>2. T!Managed \subseteq kept
    BY <1>8 DEF T!Folds
  <2> QED BY <2>1, <2>2, <1>3, <1>11 DEF Together
<1>15. \A i \in DOMAIN c.links : c.links[i].source = "seen" => links[i].to = c.links[i].to
  <2>1. \A i \in DOMAIN c.links : c.links[i].source = "seen" => c.links[i].to \in OnMap
    BY <1>5 DEF Kept
  <2>2. \A a \in OnMap : ~T!Folds(a, r, v)
    BY <1>8 DEF OnMap, T!Folds
  <2> QED BY <2>1, <2>2, <1>10
<1>16. Yields(lines, root')
  <2> SUFFICES ASSUME NEW e \in lines, e.source \in {"seen", "wifi"}, e.to # root'
               PROVE  /\ \A f \in lines : f.source \in {"uplink", "lldp"} => e.to \notin T!Pair(f)
                      /\ \A f \in lines : f.source \in {"seen", "wifi"} /\ f.to = e.to => f = e
    BY DEF Yields
  <2>1. ASSUME NEW f \in lines, f.source \in {"seen", "wifi"}
        PROVE  \E i \in DOMAIN c.links : c.links[i].source = "seen" /\ f = links[i] /\ f.to = c.links[i].to
    <3>1. PICK i \in DOMAIN links : f = links[i]
      BY <1>11
    <3>2. c.links[i].source = "seen" /\ i \in DOMAIN c.links
      BY <3>1, <2>1, <1>6, <1>10 DEF Told, Guess
    <3> QED BY <3>1, <3>2, <1>15
  <2>2. PICK i \in DOMAIN c.links : c.links[i].source = "seen" /\ e = links[i] /\ e.to = c.links[i].to
    BY <2>1
  <2>3. e.to # r
    <3>1. e.to \in kept
      BY <1>14 DEF Together, T!Ends
    <3> QED BY <3>1, <1>3
  <2>4. ASSUME NEW f \in lines, f.source \in {"uplink", "lldp"} PROVE e.to \notin T!Pair(f)
    <3>1. PICK j \in DOMAIN links : f = links[j]
      BY <1>11
    <3>2. c.links[j] \in T!ToSet(T!Reported) /\ j \in DOMAIN c.links
      BY <3>1, <2>4, <1>10, <1>5 DEF Kept
    <3>3. c.links[j].from \in ToldEnds /\ c.links[j].to \in ToldEnds
      BY <3>2 DEF ToldEnds, T!Ends
    <3>4. e.to \notin ToldEnds
      BY <2>2, <1>5 DEF Kept
    <3> QED BY <3>1, <3>2, <3>3, <3>4, <2>3, <1>10 DEF T!Pair
  <2>5. ASSUME NEW f \in lines, f.source \in {"seen", "wifi"}, f.to = e.to PROVE f = e
    <3>1. PICK j \in DOMAIN c.links : c.links[j].source = "seen" /\ f = links[j] /\ f.to = c.links[j].to
      BY <2>1, <2>5
    <3>2. i = j
      BY <3>1, <2>2, <2>5, <1>5 DEF Kept
    <3> QED BY <3>1, <3>2, <2>2
  <2> QED BY <2>4, <2>5
<1>17. kept \subseteq Addresses
  BY <1>1, <1>8
<1>18. LeavesCounted(c.unclaimed, kept, c.leaves)
  <2>1. known \subseteq OnMap \cup ToldEnds
    <3>1. ASSUME NEW e \in T!ToSet(c.links) PROVE e.from \in OnMap \cup ToldEnds /\ e.to \in OnMap \cup ToldEnds
      <4>1. PICK i \in DOMAIN c.links : e = c.links[i]
        BY <3>1 DEF T!ToSet
      <4>2. CASE e.source = "seen"
        <5>1. e.to \in OnMap
          BY <4>1, <4>2, <1>5 DEF Kept
        <5>2. e.from \in T!Managed
          BY <4>1, <4>2, <1>6 DEF Told, Guess
        <5> QED BY <5>1, <5>2 DEF OnMap
      <4>3. CASE e.source # "seen"
        <5>1. e \in T!ToSet(T!Reported)
          BY <4>1, <4>3, <1>5 DEF Kept
        <5> QED BY <5>1 DEF ToldEnds, T!Ends
      <4> QED BY <4>2, <4>3
    <3>2. T!Ends(T!ToSet(c.links)) \subseteq OnMap \cup ToldEnds
      BY <3>1 DEF T!Ends
    <3> QED BY <3>2 DEF v, T!Invented, OnMap
  <2>2. \A i \in DOMAIN c.unclaimed : c.unclaimed[i].to \notin kept
    BY <2>1, <1>5 DEF Apart
  <2>3. \A a : Hidden(c.unclaimed, kept, a) = From(c.unclaimed, a)
    BY <2>2 DEF Hidden, From
  <2> QED BY <2>3, <1>5 DEF LeavesCounted
<1> HIDE DEF kept
<1> QED BY <1>3, <1>4, <1>5, <1>11, <1>14, <1>16, <1>17, <1>18

(* Maps under way from the answer to what is drawn.                        *)
Places ==
  {p \in [nodes : SUBSET Addresses, edges : SUBSET Drawable, leaves : [Addresses -> Nat]] :
     Together(p.nodes, p.edges, root) /\ Yields(p.edges, root)}
PlacesCounted == {p \in Places : LeavesCounted(unclaimed, p.nodes, p.leaves)}

(* What was not on the map may hang from what is. *)
LEMMA HangsOn ==
  ASSUME NEW ns, NEW es, NEW e, e.source \in {"seen", "wifi"}, e.from \in ns, e.to \notin ns,
         Together(ns, es, root), Yields(es, root)
  PROVE  Together(ns \cup {e.to}, es \cup {e}, root) /\ Yields(es \cup {e}, root)
<1>1. \A f \in es : f.from \in ns /\ f.to \in ns /\ e.to \notin T!Pair(f) /\ f.to # e.to
  BY DEF Together, T!Ends, T!Pair
<1>2. T!Ends(es \cup {e}) \subseteq ns \cup {e.to}
  BY <1>1 DEF T!Ends
<1>3. e.to \in T!Pair(e)
  BY DEF T!Pair
<1>4. Together(ns \cup {e.to}, es \cup {e}, root)
  BY <1>1, <1>2, <1>3 DEF Together
<1>5. Yields(es \cup {e}, root)
  <2> SUFFICES ASSUME NEW x \in es \cup {e}, x.source \in {"seen", "wifi"}, x.to # root
               PROVE  /\ \A f \in es \cup {e} : f.source \in {"uplink", "lldp"} => x.to \notin T!Pair(f)
                      /\ \A f \in es \cup {e} : f.source \in {"seen", "wifi"} /\ f.to = x.to => f = x
    BY DEF Yields
  <2>1. CASE x = e
    BY <2>1, <1>1
  <2>2. CASE x \in es
    BY <2>2, <1>1 DEF Yields
  <2> QED BY <2>1, <2>2
<1> QED BY <1>4, <1>5

LEMMA PlaceKeeps ==
  ASSUME T!Managed \subseteq Addresses, unclaimed \in Seq(Guess), NEW k \in DOMAIN unclaimed, NEW p \in PlacesCounted
  PROVE  T!Place(p, unclaimed[k]) \in PlacesCounted
<1> DEFINE e == unclaimed[k]
           ns == p.nodes \cup {e.to}
           ls == [p.leaves EXCEPT ![e.from] = IF @ > 0 THEN @ - 1 ELSE @]
           q == [nodes |-> ns, edges |-> p.edges \cup {e}, leaves |-> ls]
<1>1. e \in Guess
  BY ElementsIn
<1> HIDE DEF e
<1>2. e \in Drawable /\ e.source = "seen" /\ e.from \in T!Managed
  BY <1>1 DEF Guess, Drawable
<1>3. p \in Places /\ LeavesCounted(unclaimed, p.nodes, p.leaves)
  BY DEF PlacesCounted
<1>4. p.nodes \subseteq Addresses /\ p.edges \subseteq Drawable /\ p.leaves \in [Addresses -> Nat]
      /\ Together(p.nodes, p.edges, root) /\ Yields(p.edges, root)
  BY <1>3 DEF Places
<1>5. T!Place(p, e) = p \/ (e.to \notin p.nodes /\ T!Place(p, e) = q)
  BY DEF T!Place
<1>6. ASSUME e.to \notin p.nodes PROVE q \in PlacesCounted
  <2>1. e.from \in p.nodes /\ e.to \in Addresses
    BY <1>2, <1>4 DEF Together, Drawable
  <2>2. Together(ns, p.edges \cup {e}, root) /\ Yields(p.edges \cup {e}, root)
    <3>1. e.source \in {"seen", "wifi"}
      BY <1>2
    <3> HIDE DEF q, ls
    <3> QED BY ONLY <3>1, <1>4, <1>6, <2>1, HangsOn
  <2>3. ls \in [Addresses -> Nat]
    <3>1. \A n \in Nat : (IF n > 0 THEN n - 1 ELSE n) \in Nat
      OBVIOUS
    <3> QED BY <3>1, <1>4
  <2>4. LeavesCounted(unclaimed, ns, ls)
    <3> SUFFICES ASSUME \A i, j \in DOMAIN unclaimed : unclaimed[i].to = unclaimed[j].to => i = j, NEW a \in Addresses
                 PROVE  ls[a] = Cardinality(Hidden(unclaimed, ns, a))
      BY DEF LeavesCounted
    <3> DEFINE before == Hidden(unclaimed, p.nodes, a)
    <3>1. p.leaves[a] = Cardinality(before) /\ p.leaves[a] \in Nat
      BY <1>3, <1>4 DEF LeavesCounted
    <3>2. Hidden(unclaimed, ns, a) = before \ {k}
      <4>1. \A i \in DOMAIN unclaimed : unclaimed[i].to = e.to <=> i = k
        BY DEF e
      <4> QED BY <4>1 DEF Hidden
    <3>3. k \in before <=> a = e.from
      BY <1>6 DEF Hidden, e
    <3>4. IsFiniteSet(before)
      <4>1. before \subseteq 1..Len(unclaimed) /\ Len(unclaimed) \in Nat
        BY DEF Hidden
      <4>2. IsFiniteSet(1..Len(unclaimed))
        BY ONLY <4>1, FS_Interval, 1 \in Int, Len(unclaimed) \in Int
      <4> HIDE DEF before
      <4> QED BY ONLY <4>1, <4>2, FS_Subset
    <3> HIDE DEF before
    <3>5. CASE a = e.from
      <4>1. Cardinality(before \ {k}) = Cardinality(before) - 1
        BY <3>3, <3>4, <3>5, FS_RemoveElement
      <4>2. Cardinality(before) # 0
        BY <3>3, <3>4, <3>5, FS_EmptySet
      <4>3. ls[a] = p.leaves[a] - 1
        BY <3>1, <3>5, <4>2, <1>4
      <4> QED BY <4>1, <4>3, <3>1, <3>2
    <3>6. CASE a # e.from
      <4>1. before \ {k} = before /\ ls[a] = p.leaves[a]
        BY <3>3, <3>6, <1>4
      <4> QED BY <4>1, <3>1, <3>2
    <3> QED BY <3>5, <3>6
  <2>5. q.nodes = ns /\ q.edges = p.edges \cup {e} /\ q.leaves = ls
    OBVIOUS
  <2>6. q \in [nodes : SUBSET Addresses, edges : SUBSET Drawable, leaves : [Addresses -> Nat]]
    <3>1. ns \subseteq Addresses /\ p.edges \cup {e} \subseteq Drawable
      BY <1>2, <1>4, <2>1
    <3> HIDE DEF ns, ls
    <3> QED BY <3>1, <2>3
  <2> HIDE DEF q, ns, ls
  <2> QED BY <2>2, <2>4, <2>5, <2>6 DEF PlacesCounted, Places
<1> HIDE DEF q
<1>7. T!Place(p, e) \in PlacesCounted
  BY <1>5, <1>6
<1> QED BY <1>7 DEF e

LEMMA HangKeeps ==
  ASSUME NEW s \in [mac : Addresses, ap : Addresses], NEW p \in Places
  PROVE  T!Hang(p, s) \in Places
<1> DEFINE e == T!Edge(s.ap, s.mac, 0, 0, "wifi")
           more == [p EXCEPT !.leaves[s.ap] = @ + 1]
           q == [p EXCEPT !.nodes = @ \cup {s.mac}, !.edges = @ \cup {e}]
<1>1. p \in [nodes : SUBSET Addresses, edges : SUBSET Drawable, leaves : [Addresses -> Nat]]
      /\ Together(p.nodes, p.edges, root) /\ Yields(p.edges, root)
  BY DEF Places
<1>2. e \in Drawable /\ e.source = "wifi" /\ e.from = s.ap /\ e.to = s.mac
  BY DEF T!Edge, Drawable
<1> HIDE DEF e
<1>3. more \in Places
  <2>1. [p.leaves EXCEPT ![s.ap] = @ + 1] \in [Addresses -> Nat]
    BY <1>1
  <2>2. more \in [nodes : SUBSET Addresses, edges : SUBSET Drawable, leaves : [Addresses -> Nat]]
        /\ more.nodes = p.nodes /\ more.edges = p.edges
    BY <1>1, <2>1
  <2> HIDE DEF more
  <2> QED BY <2>2, <1>1 DEF Places
<1>4. ASSUME s.ap \in p.nodes, s.mac \notin p.nodes PROVE q \in Places
  <2>1. Together(p.nodes \cup {s.mac}, p.edges \cup {e}, root) /\ Yields(p.edges \cup {e}, root)
    <3>1. Together(p.nodes \cup {e.to}, p.edges \cup {e}, root) /\ Yields(p.edges \cup {e}, root)
      BY <1>1, <1>2, <1>4, HangsOn
    <3> QED BY <3>1, <1>2
  <2>2. q \in [nodes : SUBSET Addresses, edges : SUBSET Drawable, leaves : [Addresses -> Nat]]
        /\ q.nodes = p.nodes \cup {s.mac} /\ q.edges = p.edges \cup {e}
    BY <1>1, <1>2
  <2> HIDE DEF q
  <2> QED BY <2>1, <2>2 DEF Places
<1>5. \/ T!Hang(p, s) = p \/ T!Hang(p, s) = more
      \/ s.ap \in p.nodes /\ s.mac \notin p.nodes /\ T!Hang(p, s) = q
  BY DEF T!Hang, e
<1> QED BY <1>3, <1>4, <1>5

(* The invariant: from the answer on the map is one of Places, and until   *)
(* the wireless clients are put on it its leaves are counted.              *)
MapInv ==
  /\ doc \in Docs /\ stations \in Stations
  /\ drawing # "extract" => T!Drawn \in Places
  /\ drawing \in {"known", "wireless"} => unclaimed \in Seq(Guess) /\ LeavesCounted(unclaimed, nodes, leaves)

LEMMA MapStep == ASSUME T!TopologyAssumption, MapInv, [T!Next]_(T!vars) PROVE MapInv'
<1>1. CASE T!Extract
  <2>1. doc \in Docs
    BY DEF MapInv
  <2>2. /\ nodes' \subseteq Addresses /\ edges' \subseteq Drawable
        /\ Together(nodes', edges', root') /\ Yields(edges', root')
        /\ leaves' \in [Addresses -> Nat] /\ unclaimed' \in Seq(Guess)
        /\ LeavesCounted(unclaimed', nodes', leaves')
    BY <1>1, <2>1, ExtractDraws
  <2>3. doc' = doc /\ stations' = stations /\ drawing' = "known"
    BY <1>1 DEF T!Extract
  <2>4. T!Managed' = T!Managed
    BY <2>3 DEF T!Managed
  <2>5. Guess' = Guess
    BY <2>4 DEF Guess
  <2>6. (T!Drawn \in Places)'
    <3>1. Together(nodes, edges, root)'
      BY <2>2, <2>4 DEF Together
    <3>2. Yields(edges, root)'
      BY <2>2
    <3> QED BY <3>1, <3>2, <2>2 DEF T!Drawn, Places
  <2>7. LeavesCounted(unclaimed, nodes, leaves)'
    BY <2>2
  <2> QED BY <2>2, <2>3, <2>5, <2>6, <2>7 DEF MapInv
<1>2. ASSUME UNCHANGED <<doc, stations, root, unclaimed>>, T!Drawn' \in Places,
             drawing' = "drawn" \/ (unclaimed \in Seq(Guess) /\ LeavesCounted(unclaimed, nodes', leaves'))
      PROVE  MapInv'
  <2>1. T!Managed' = T!Managed
    BY <1>2 DEF T!Managed
  <2>2. Guess' = Guess /\ (LeavesCounted(unclaimed, nodes, leaves)' <=> LeavesCounted(unclaimed, nodes', leaves'))
    BY <2>1, <1>2 DEF Guess, LeavesCounted, Hidden
  <2>3. \A ns, es : Together(ns, es, root)' <=> Together(ns, es, root)
    BY <2>1, <1>2 DEF Together
  <2>4. Places' = Places
    BY <2>1, <1>2 DEF Places, Together
  <2> QED BY <1>2, <2>2, <2>4 DEF MapInv
<1>3. CASE T!AttachKnown
  <2> DEFINE d == T!FoldLeft(T!Place, T!Drawn, unclaimed)
  <2>1. drawing = "known" /\ T!Drawn \in PlacesCounted /\ unclaimed \in Seq(Guess)
    BY <1>3 DEF T!AttachKnown, T!Attach, MapInv, PlacesCounted, T!Drawn
  <2>2. T!Managed \subseteq Addresses
    BY WhatIsTold DEF MapInv
  <2>3. \A k \in DOMAIN unclaimed, p \in PlacesCounted : T!Place(p, unclaimed[k]) \in PlacesCounted
    BY <2>1, <2>2, PlaceKeeps
  <2>4. d \in PlacesCounted
    BY ONLY <2>1, <2>3, PlaceStays
  <2>5. nodes' = d.nodes /\ edges' = d.edges /\ leaves' = d.leaves /\ drawing' = "wireless"
        /\ UNCHANGED <<doc, stations, root, unclaimed>>
    BY <1>3 DEF T!AttachKnown, T!Attach
  <2> HIDE DEF d
  <2>6. d = [nodes |-> d.nodes, edges |-> d.edges, leaves |-> d.leaves]
    BY <2>4 DEF PlacesCounted, Places
  <2> QED BY <2>1, <2>4, <2>5, <2>6, <1>2 DEF PlacesCounted, T!Drawn
<1>4. CASE T!AttachWireless
  <2> DEFINE d == T!FoldLeft(T!Hang, T!Drawn, stations)
             Client == [mac : Addresses, ap : Addresses]
  <2>1. T!Drawn \in Places /\ stations \in Seq(Client)
    BY <1>4 DEF T!AttachWireless, T!Attach, MapInv, T!TopologyAssumption
  <2>2. \A k \in DOMAIN stations : stations[k] \in Client
    <3> HIDE DEF Client
    <3> QED BY <2>1, ElementsIn
  <2>3. \A k \in DOMAIN stations, p \in Places : T!Hang(p, stations[k]) \in Places
    BY <2>2, HangKeeps
  <2>4. d \in Places
    <3> HIDE DEF Client
    <3> QED BY ONLY <2>1, <2>3, HangStays
  <2>5. nodes' = d.nodes /\ edges' = d.edges /\ leaves' = d.leaves /\ drawing' = "drawn"
        /\ UNCHANGED <<doc, stations, root, unclaimed>>
    BY <1>4 DEF T!AttachWireless, T!Attach
  <2> HIDE DEF d
  <2>6. d = [nodes |-> d.nodes, edges |-> d.edges, leaves |-> d.leaves]
    BY <2>4 DEF Places
  <2> QED BY <2>4, <2>5, <2>6, <1>2 DEF T!Drawn
<1>5. CASE UNCHANGED T!vars
  <2>1. UNCHANGED <<doc, stations, root, unclaimed, nodes, edges, leaves, drawing>>
    BY <1>5 DEF T!vars
  <2>2. T!Managed' = T!Managed /\ T!Drawn' = T!Drawn
    BY <2>1 DEF T!Managed, T!Drawn
  <2>3. Guess' = Guess /\ Places' = Places
    BY <2>1, <2>2 DEF Guess, Places, Together
  <2>4. LeavesCounted(unclaimed, nodes, leaves)' <=> LeavesCounted(unclaimed, nodes, leaves)
    BY <2>1 DEF LeavesCounted, Hidden
  <2> QED BY <2>1, <2>2, <2>3, <2>4 DEF MapInv
<1> QED BY <1>1, <1>3, <1>4, <1>5 DEF T!Next

(* The map holds together, no guess stands beside a fact and the leaves    *)
(* are off the map, from the controller's answer until it is drawn: for    *)
(* any answers, addresses, monitored devices and wireless clients          *)
(* (unifiTopology, dedupeEdges, attachKnown, attachWireless).              *)
THEOREM MapsAreTrue == ASSUME T!TopologyAssumption PROVE T!Spec => []MapIsTrue
<1>1. T!Init => MapInv
  BY DEF T!Init, MapInv
<1>2. MapInv => MapIsTrue
  <2> SUFFICES ASSUME MapInv PROVE MapIsTrue
    OBVIOUS
  <2>1. ASSUME drawing # "extract" PROVE nodes \subseteq Addresses /\ Together(nodes, edges, root) /\ Yields(edges, root)
    BY <2>1 DEF MapInv, Places, T!Drawn
  <2>2. T!HoldsTogether /\ T!GuessesYield
    BY <2>1 DEF T!HoldsTogether, T!GuessesYield, Together, Yields
  <2>3. T!LeavesAreOffMap
    <3> SUFFICES ASSUME drawing \in {"known", "wireless"},
                        \A i, j \in DOMAIN unclaimed : unclaimed[i].to = unclaimed[j].to => i = j, NEW a \in nodes
                 PROVE  leaves[a] = T!Cardinality({i \in DOMAIN unclaimed : unclaimed[i].from = a /\ unclaimed[i].to \notin nodes})
      BY DEF T!LeavesAreOffMap
    <3>1. a \in Addresses
      BY <2>1
    <3>2. leaves[a] = Cardinality(Hidden(unclaimed, nodes, a))
      BY <3>1 DEF MapInv, LeavesCounted
    <3> QED BY <3>2 DEF Hidden, T!Cardinality, Cardinality
  <2> QED BY <2>2, <2>3 DEF MapIsTrue, T!MapIsTrue
<1> QED BY <1>1, <1>2, MapStep, PTL DEF T!Spec

=============================================================================
