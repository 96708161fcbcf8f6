---------------------------- MODULE SafetyProofs ----------------------------
(***************************************************************************)
(* What holds of an agent's services.  An answered command's output is     *)
(* complete, or cut at the collector's cap and said to be, for any         *)
(* commands, sizes and caps.  A desktop with nothing new to say is what    *)
(* the viewer shows, for tiles of any shape and any paints.  A file that   *)
(* was answered whole is whole, for any names, sizes and frames under way. *)
(* An encoder's units come out whole, once and in order, for any number of *)
(* frames and processes and however the pipe is read.  And the estimate of *)
(* what the link carries follows the path, for any path.                   *)
(*                                                                         *)
(* The messages of commands are summed by a running total: counts[i] is    *)
(* what each command has written on each stream up to the i-th message of  *)
(* toHub, and taken what the collectors were given or readLoop dropped.    *)
(* The totals are no variable of the model; that there are such is what    *)
(* the invariant says, and so are the positions of the uploads, pos[i],    *)
(* after the i-th frame on its way to a file session.                      *)
(***************************************************************************)
EXTENDS MCSafety, SequenceTheorems, FiniteSetTheorems, TLAPS

Totals == [Commands -> [Streams -> Nat]]

Count(t, msg) ==
  IF msg.kind \in Streams THEN [t EXCEPT ![msg.cmd][msg.kind] = @ + msg.size] ELSE t

Shape ==
  /\ TypeOK
  /\ \A c \in Commands : Held(c) <= MaxOutput

(* A command goes its way once: from its caller to the agent, there to its *)
(* end.  An empty piece of output is that of a character read in two.      *)
Whole(msg) == msg.kind \in Streams => (msg.size = 0 => msg.cmd \in split)
Stages ==
  /\ \A c \in Commands : c \in registry <=> caller[c] = "waiting"
  /\ \A c \in Commands : caller[c] = "idle" => /\ got[c] = Nothing /\ ~truncated[c] /\ ~finished[c]
                                               /\ proc[c] = "none" /\ c \notin toAgent
  /\ \A c \in Commands : proc[c] = "none" => wrote[c] = Nothing
  /\ \A c \in toAgent : proc[c] = "none"
  /\ \A i \in 1..Len(toHub) : Whole(toHub[i])
  /\ reading # None => Whole(reading) /\ caller[reading.cmd] # "idle"

(* The running totals: of the messages, and never more than was written.   *)
(* All that was written is counted while the command may still write or    *)
(* report, and where its end is.                                           *)
Summed(taken, counts) ==
  /\ taken \in Totals /\ counts \in [0..Len(toHub) -> Totals]
  /\ counts[0] = IF reading = None THEN taken ELSE Count(taken, reading)
  /\ \A i \in 1..Len(toHub) : counts[i] = Count(counts[i - 1], toHub[i])
Ended(c, t) == proc[c] = "reported" /\ t[c] = wrote[c]
Bounded(taken, counts) ==
  /\ \A c \in Commands, st \in Streams : taken[c][st] <= counts[0][c][st]
  /\ \A i \in 0..Len(toHub), c \in Commands, st \in Streams : counts[i][c][st] <= wrote[c][st]
  /\ \A c \in Commands : proc[c] \in {"none", "running", "exited"} => counts[Len(toHub)][c] = wrote[c]
  /\ \A i \in 1..Len(toHub) : toHub[i].kind = "done" => Ended(toHub[i].cmd, counts[i])
  /\ reading # None => (reading.kind = "done" => Ended(reading.cmd, taken))

(* What a collector in use, or an answered caller's, holds of what its     *)
(* command has written and the collector was given.                        *)
Collected(c, t) ==
  /\ finished[c] => Ended(c, t)
  /\ ~truncated[c] => got[c] = t[c]
  /\ truncated[c] => Held(c) = MaxOutput /\ (t[c]["stdout"] + t[c]["stderr"] > MaxOutput \/ c \in split)
InUse == {c \in Commands : caller[c] \in {"waiting", "answered"}}

Accounted(taken, counts) ==
  /\ Summed(taken, counts) /\ Bounded(taken, counts)
  /\ \A c \in InUse : Collected(c, taken)
  /\ \A c \in Commands : caller[c] = "answered" => finished[c]

IInv == Shape /\ Stages /\ \E taken, counts : Accounted(taken, counts)
-----------------------------------------------------------------------------
LEMMA StreamsAre == "stdout" \in Streams /\ "stderr" \in Streams /\ \A st \in Streams : st \in {"stdout", "stderr"}
  BY DEF Streams

LEMMA CountIs ==
  ASSUME BoundsAssumption, NEW t \in Totals, NEW msg \in Messages
  PROVE  /\ Count(t, msg) \in Totals
         /\ \A c \in Commands, st \in Streams :
              Count(t, msg)[c][st] = IF c = msg.cmd /\ st = msg.kind THEN t[c][st] + msg.size ELSE t[c][st]
         /\ \A c \in Commands : c # msg.cmd => Count(t, msg)[c] = t[c]
         /\ msg.kind = "done" => Count(t, msg) = t
<1>1. msg.cmd \in Commands /\ msg.kind \in Streams \cup {"done"} /\ msg.size \in Nat
  BY DEF Messages, BoundsAssumption
<1>2. "done" \notin Streams
  BY DEF Streams
<1>3. CASE msg.kind \in Streams
  <2> DEFINE n == t[msg.cmd][msg.kind] + msg.size
  <2>1. n \in Nat
    BY <1>1, <1>3 DEF Totals
  <2>2. Count(t, msg) = [t EXCEPT ![msg.cmd] = [t[msg.cmd] EXCEPT ![msg.kind] = n]]
    BY <1>3 DEF Count
  <2> HIDE DEF n
  <2>3. [t[msg.cmd] EXCEPT ![msg.kind] = n] \in [Streams -> Nat]
    BY <1>1, <2>1 DEF Totals
  <2>4. Count(t, msg) \in Totals
    BY <2>2, <2>3 DEF Totals
  <2>5. \A c \in Commands : Count(t, msg)[c] = IF c = msg.cmd THEN [t[c] EXCEPT ![msg.kind] = n] ELSE t[c]
    BY <2>2 DEF Totals
  <2>6. \A st \in Streams : [t[msg.cmd] EXCEPT ![msg.kind] = n][st] = IF st = msg.kind THEN n ELSE t[msg.cmd][st]
    BY <1>1 DEF Totals
  <2> QED
    BY <1>2, <1>3, <2>4, <2>5, <2>6 DEF n
<1>4. CASE msg.kind = "done"
  BY <1>2, <1>4 DEF Count
<1> QED
  BY <1>1, <1>3, <1>4

LEMMA SameTotals ==
  ASSUME NEW a \in [Streams -> Nat], NEW b \in [Streams -> Nat], \A st \in Streams : a[st] = b[st]
  PROVE  a = b
  OBVIOUS

LEMMA MessagesAre ==
  ASSUME TypeOK
  PROVE  /\ Len(toHub) \in Nat /\ \A i \in 1..Len(toHub) : toHub[i] \in Messages
         /\ reading # None => reading \in Messages
<1>1. toHub \in Seq(Messages)
  BY DEF TypeOK
<1>2. Len(toHub) \in Nat /\ \A i \in 1..Len(toHub) : toHub[i] \in Messages
  BY <1>1, ElementOfSeq, LenProperties
<1> QED
  BY <1>2 DEF TypeOK

(* What touches no message, no count and no collector. *)
LEMMA SameAccounts ==
  ASSUME Stages, TypeOK, NEW taken, NEW counts, Accounted(taken, counts),
         UNCHANGED <<got, truncated, finished, reading, wrote, toHub, split>>,
         \A c \in Commands : proc[c] = "reported" => proc'[c] = "reported",
         \A c \in Commands : proc'[c] \in {"none", "running", "exited"} => proc[c] \in {"none", "running", "exited"},
         \A c \in Commands : caller'[c] \in {"waiting", "answered"} =>
           caller[c] \in {"waiting", "answered"} \/ caller[c] = "idle",
         \A c \in Commands : caller'[c] = "answered" => finished[c]
  PROVE  Accounted(taken, counts)'
<1>1. Summed(taken, counts)'
  BY DEF Accounted, Summed
<1>2. Bounded(taken, counts)'
  <2>1. \A i \in 1..Len(toHub) : toHub[i] \in Messages /\ toHub[i].cmd \in Commands
    BY MessagesAre DEF Messages
  <2>2. reading # None => reading.cmd \in Commands
    BY MessagesAre DEF Messages
  <2> QED
    BY <2>1, <2>2 DEF Accounted, Bounded, Ended
<1>3. ASSUME NEW c \in InUse' PROVE Collected(c, taken)'
  <2>1. CASE c \in InUse
    BY <2>1 DEF Accounted, Collected, Ended, Held, InUse
  <2>2. CASE c \notin InUse
    <3>1. c \in Commands /\ caller[c] = "idle"
      BY <1>3, <2>2 DEF InUse
    <3>2. got[c] = Nothing /\ wrote[c] = Nothing /\ ~truncated[c] /\ ~finished[c]
      BY <3>1 DEF Stages
    <3>3. taken[c] = Nothing
      <4>1. taken[c] \in [Streams -> Nat] /\ counts[0] \in Totals
        BY <3>1, MessagesAre DEF Accounted, Summed, Totals
      <4>2. \A st \in Streams : taken[c][st] <= counts[0][c][st] /\ counts[0][c][st] <= 0 /\ counts[0][c][st] \in Nat
        BY <3>1, <3>2, <4>1, MessagesAre DEF Accounted, Bounded, Nothing, Totals
      <4>3. \A st \in Streams : taken[c][st] = 0
        BY <4>1, <4>2
      <4> QED
        BY <4>1, <4>3 DEF Nothing
    <3> QED
      BY <3>2, <3>3 DEF Collected
  <2> QED
    BY <2>1, <2>2
<1> QED
  BY <1>1, <1>2, <1>3 DEF Accounted

LEMMA RefuseStep == ASSUME IInv, NEW c \in Commands, Refuse(c) PROVE IInv'
<1>1. Shape'
  BY DEF Refuse, agentVars, IInv, Shape, TypeOK, Held
<1>2. Stages'
  BY DEF Refuse, agentVars, IInv, Shape, TypeOK, Stages, Whole, Messages
<1>3. PICK taken, counts : Accounted(taken, counts)
  BY DEF IInv
<1>4. \A d \in Commands : caller'[d] = IF d = c THEN "refused" ELSE caller[d]
  BY DEF Refuse, IInv, Shape, TypeOK
<1>5. Accounted(taken, counts)'
  BY <1>3, <1>4, SameAccounts DEF Refuse, agentVars, IInv, Shape, Accounted
<1> QED
  BY <1>1, <1>2, <1>5 DEF IInv

LEMMA CallStep == ASSUME IInv, NEW c \in Commands, Call(c) PROVE IInv'
<1>1. caller[c] = "idle" /\ registry' = registry \cup {c} /\ toAgent' \subseteq toAgent \cup {c}
      /\ UNCHANGED <<got, truncated, finished, reading, agentVars, up, toHub>>
  BY DEF Call
<1>2. \A d \in Commands : caller'[d] = IF d = c THEN "waiting" ELSE caller[d]
  BY DEF Call, IInv, Shape, TypeOK
<1>3. Shape'
  BY <1>1 DEF Call, agentVars, IInv, Shape, TypeOK, Held
<1>4. Stages'
  BY <1>1, <1>2, MessagesAre DEF agentVars, IInv, Shape, Stages, Whole, Messages
<1>5. PICK taken, counts : Accounted(taken, counts)
  BY DEF IInv
<1>6. Accounted(taken, counts)'
  BY <1>1, <1>2, <1>5, SameAccounts DEF agentVars, IInv, Shape, Accounted
<1> QED
  BY <1>3, <1>4, <1>6 DEF IInv

LEMMA ReturnStep == ASSUME IInv, NEW c \in Commands, Return(c) PROVE IInv'
<1>1. caller[c] = "waiting" /\ finished[c] /\ registry' = registry \ {c}
      /\ UNCHANGED <<got, truncated, finished, reading, agentVars, up, toAgent, toHub>>
  BY DEF Return
<1>2. \A d \in Commands : caller'[d] = IF d = c THEN "answered" ELSE caller[d]
  BY DEF Return, IInv, Shape, TypeOK
<1>3. Shape'
  BY <1>1 DEF Return, agentVars, IInv, Shape, TypeOK, Held
<1>4. Stages'
  BY <1>1, <1>2, MessagesAre DEF agentVars, IInv, Shape, Stages, Whole, Messages
<1>5. PICK taken, counts : Accounted(taken, counts)
  BY DEF IInv
<1>6. Accounted(taken, counts)'
  BY <1>1, <1>2, <1>5, SameAccounts DEF agentVars, IInv, Shape, Accounted
<1> QED
  BY <1>3, <1>4, <1>6 DEF IInv

LEMMA TimeOutStep == ASSUME IInv, NEW c \in Commands, TimeOut(c) PROVE IInv'
<1>1. caller[c] = "waiting" /\ registry' = registry \ {c}
      /\ UNCHANGED <<got, truncated, finished, reading, agentVars, up, toAgent, toHub>>
  BY DEF TimeOut
<1>2. \A d \in Commands : caller'[d] = IF d = c THEN "timed out" ELSE caller[d]
  BY DEF TimeOut, IInv, Shape, TypeOK
<1>3. Shape'
  BY <1>1 DEF TimeOut, agentVars, IInv, Shape, TypeOK, Held
<1>4. Stages'
  BY <1>1, <1>2, MessagesAre DEF agentVars, IInv, Shape, Stages, Whole, Messages
<1>5. PICK taken, counts : Accounted(taken, counts)
  BY DEF IInv
<1>6. Accounted(taken, counts)'
  BY <1>1, <1>2, <1>5, SameAccounts DEF agentVars, IInv, Shape, Accounted
<1> QED
  BY <1>3, <1>4, <1>6 DEF IInv

LEMMA StartStep == ASSUME IInv, NEW c \in Commands, Start(c) PROVE IInv'
<1>1. c \in toAgent /\ toAgent' = toAgent \ {c} /\ UNCHANGED <<hubVars, wrote, split, up, toHub>>
  BY DEF Start
<1>2. PICK s \in {"running", "exited"} : proc' = [proc EXCEPT ![c] = s]
  BY DEF Start
<1>3. \A d \in Commands : proc'[d] = IF d = c THEN s ELSE proc[d]
  BY <1>2 DEF IInv, Shape, TypeOK
<1>4. proc[c] = "none" /\ caller[c] # "idle"
  BY <1>1 DEF IInv, Stages
<1>5. Shape'
  BY <1>1, <1>2 DEF hubVars, IInv, Shape, TypeOK, Held
<1>6. Stages'
  BY <1>1, <1>3, <1>4, MessagesAre DEF hubVars, IInv, Shape, TypeOK, Stages, Whole, Messages
<1>7. PICK taken, counts : Accounted(taken, counts)
  BY DEF IInv
<1>8. Accounted(taken, counts)'
  BY <1>1, <1>3, <1>4, <1>7, SameAccounts DEF hubVars, IInv, Shape, Accounted
<1> QED
  BY <1>5, <1>6, <1>8 DEF IInv

LEMMA ExitStep == ASSUME IInv, NEW c \in Commands, Exit(c) PROVE IInv'
<1>1. proc[c] = "running" /\ UNCHANGED <<hubVars, wrote, split, up, toAgent, toHub>>
  BY DEF Exit
<1>2. \A d \in Commands : proc'[d] = IF d = c THEN "exited" ELSE proc[d]
  BY DEF Exit, IInv, Shape, TypeOK
<1>3. Shape'
  BY <1>1 DEF Exit, hubVars, IInv, Shape, TypeOK, Held
<1>4. Stages'
  BY <1>1, <1>2, MessagesAre DEF hubVars, IInv, Shape, TypeOK, Stages, Whole, Messages
<1>5. PICK taken, counts : Accounted(taken, counts)
  BY DEF IInv
<1>6. Accounted(taken, counts)'
  BY <1>1, <1>2, <1>5, SameAccounts DEF hubVars, IInv, Shape, Accounted
<1> QED
  BY <1>3, <1>4, <1>6 DEF IInv

LEMMA IdleStep ==
  ASSUME IInv, UNCHANGED <<hubVars, agentVars, toAgent, toHub>>, up' \in BOOLEAN
  PROVE  IInv'
<1>1. Shape'
  BY DEF hubVars, agentVars, IInv, Shape, TypeOK, Held
<1>2. Stages'
  BY MessagesAre DEF hubVars, agentVars, IInv, Shape, Stages, Whole, Messages
<1>3. PICK taken, counts : Accounted(taken, counts)
  BY DEF IInv
<1>4. Accounted(taken, counts)'
  BY <1>3, SameAccounts DEF hubVars, agentVars, IInv, Shape, Accounted
<1> QED
  BY <1>1, <1>2, <1>4 DEF IInv

-----------------------------------------------------------------------------
(* A message is forwarded: the totals go on by what it carries. *)
LEMMA ForwardedIsSummed ==
  ASSUME BoundsAssumption, TypeOK, NEW taken, NEW counts, Summed(taken, counts), NEW msg \in Messages,
         toHub' = Append(toHub, msg), reading' = reading
  PROVE  \E more : /\ Summed(taken, more)'
                   /\ Len(toHub') = Len(toHub) + 1 /\ more[Len(toHub')] = Count(counts[Len(toHub)], msg)
                   /\ \A i \in 0..Len(toHub) : more[i] = counts[i]
                   /\ toHub'[Len(toHub')] = msg /\ \A i \in 1..Len(toHub) : toHub'[i] = toHub[i]
<1> DEFINE n == Len(toHub)
           last == Count(counts[n], msg)
<1>1. n \in Nat /\ counts[n] \in Totals
  BY MessagesAre DEF Summed
<1>2. last \in Totals
  BY <1>1, CountIs
<1>3. Len(toHub') = n + 1 /\ toHub'[n + 1] = msg /\ \A i \in 1..n : toHub'[i] = toHub[i]
  <2>1. toHub \in Seq(Messages)
    BY DEF TypeOK
  <2> QED
    BY <2>1, AppendProperties
<1>4. PICK more : more \in [0..(n + 1) -> Totals] /\ more[n + 1] = last /\ \A i \in 0..n : more[i] = counts[i]
  <2> DEFINE f == [i \in 0..(n + 1) |-> IF i = n + 1 THEN last ELSE counts[i]]
  <2> HIDE DEF last
  <2>1. f \in [0..(n + 1) -> Totals] /\ f[n + 1] = last /\ \A i \in 0..n : f[i] = counts[i]
    BY <1>1, <1>2 DEF Summed
  <2> QED
    BY <2>1
<1> HIDE DEF last, n
<1>5. more[0] = IF reading = None THEN taken ELSE Count(taken, reading)
  BY <1>1, <1>4 DEF Summed
<1>6. ASSUME NEW i \in 1..(n + 1) PROVE more[i] = Count(more[i - 1], toHub'[i])
  <2>1. CASE i = n + 1
    BY <1>1, <1>3, <1>4, <2>1 DEF last
  <2>2. CASE i \in 1..n
    <3>1. counts[i] = Count(counts[i - 1], toHub[i])
      BY <2>2 DEF Summed, n
    <3> QED
      BY <1>1, <1>3, <1>4, <2>2, <3>1
  <2>3. n \in Nat /\ i \in Nat /\ 1 <= i /\ i <= n + 1
    BY <1>1
  <2>4. i = n + 1 \/ i \in 1..n
    BY ONLY <2>3
  <2> QED
    BY <2>1, <2>2, <2>4
<1>7. Summed(taken, more)'
  BY <1>3, <1>4, <1>5, <1>6 DEF Summed
<1> QED
  BY <1>1, <1>3, <1>4, <1>7 DEF n, last

(* A command that is not yet reported writes, or reports its end. *)
LEMMA ForwardStep ==
  ASSUME BoundsAssumption, IInv, NEW c \in Commands, NEW msg \in Messages,
         msg.cmd = c, proc[c] \in {"running", "exited"}, Room, toHub' = Append(toHub, msg),
         UNCHANGED <<hubVars, up, toAgent>>,
         wrote' \in [Commands -> [Streams -> 0..MaxWritten]],
         \A d \in Commands \ {c} : wrote'[d] = wrote[d],
         \A st \in Streams : wrote'[c][st] = IF st = msg.kind THEN wrote[c][st] + msg.size ELSE wrote[c][st],
         proc' \in [Commands -> {"none", "running", "exited", "reported", "killed"}],
         \A d \in Commands \ {c} : proc'[d] = proc[d],
         proc'[c] = IF msg.kind = "done" THEN "reported" ELSE proc[c],
         split \subseteq split', split' \subseteq Commands, Whole(msg)'
  PROVE  IInv'
<1> DEFINE n == Len(toHub)
<1>1. TypeOK /\ Stages
  BY DEF IInv, Shape
<1>0. wrote \in [Commands -> [Streams -> 0..MaxWritten]]
  BY <1>1 DEF TypeOK
<1>2. n \in Nat /\ n < InFlight /\ InFlight \in Nat /\ Len(toHub') = n + 1
      /\ toHub' \in Seq(Messages) /\ toHub'[n + 1] = msg /\ \A i \in 1..n : toHub'[i] = toHub[i]
  <2>1. toHub \in Seq(Messages) /\ Len(toHub) < InFlight
    BY <1>1 DEF TypeOK, Room
  <2>2. Len(toHub) \in Nat
    BY <2>1, LenProperties
  <2> QED
    BY <2>1, <2>2, AppendProperties DEF BoundsAssumption
<1>3. Shape'
  <2>1. Len(toHub') <= InFlight
    BY <1>2
  <2> QED
    BY <1>2, <2>1 DEF hubVars, IInv, Shape, TypeOK, Held
<1>4. caller[c] # "idle"
  BY <1>1 DEF Stages
<1>5. Stages'
  <2>1. \A d \in Commands : proc'[d] = "none" => d # c /\ proc[d] = "none" /\ wrote'[d] = Nothing
    BY <1>1 DEF Stages
  <2>2. \A d \in Commands : proc[d] = "none" => proc'[d] = "none"
    BY <1>1
  <2>3. ASSUME NEW i \in 1..(n + 1) PROVE Whole(toHub[i])'
    <3>1. i = n + 1 \/ i \in 1..n
      BY <1>2
    <3>2. \A j \in 1..n : Whole(toHub[j])
      BY <1>1 DEF Stages
    <3>3. CASE i = n + 1
      BY <1>2, <3>3
    <3>4. CASE i \in 1..n
      BY <1>2, <3>2, <3>4 DEF Whole
    <3> QED
      BY <3>1, <3>3, <3>4
  <2>4. reading' # None => Whole(reading)' /\ caller'[reading'.cmd] # "idle"
    BY <1>1 DEF Stages, Whole, hubVars
  <2> QED
    BY <1>1, <1>2, <1>4, <2>1, <2>2, <2>3, <2>4 DEF Stages, TypeOK, hubVars
<1>6. PICK taken, counts : Accounted(taken, counts)
  BY DEF IInv
<1>7. reading' = reading /\ Summed(taken, counts)
  BY <1>6 DEF hubVars, Accounted
<1>8. PICK more : /\ Summed(taken, more)' /\ more[n + 1] = Count(counts[n], msg)
                  /\ \A i \in 0..n : more[i] = counts[i]
  BY <1>1, <1>2, <1>7, ForwardedIsSummed
<1>9. Bounded(taken, counts) /\ counts \in [0..n -> Totals] /\ taken \in Totals
  BY <1>6 DEF Accounted, Summed
<1>10. /\ more[n + 1] \in Totals
       /\ \A d \in Commands \ {c} : more[n + 1][d] = counts[n][d]
       /\ \A st \in Streams : more[n + 1][c][st] = IF st = msg.kind THEN counts[n][c][st] + msg.size ELSE counts[n][c][st]
  <2>1. counts[n] \in Totals
    <3> HIDE DEF n
    <3>1. n \in 0..n
      BY <1>2
    <3> QED
      BY <1>9, <3>1
  <2>2. /\ Count(counts[n], msg) \in Totals
        /\ \A d \in Commands : d # msg.cmd => Count(counts[n], msg)[d] = counts[n][d]
        /\ \A d \in Commands, st \in Streams :
             Count(counts[n], msg)[d][st] = IF d = msg.cmd /\ st = msg.kind THEN counts[n][d][st] + msg.size ELSE counts[n][d][st]
    BY <2>1, CountIs
  <2> HIDE DEF n
  <2> QED
    BY <1>8, <2>2
<1>11. more[n + 1][c] = wrote'[c]
  <2>1. more[n + 1] \in Totals
    BY <1>10
  <2>2. counts[n][c] = wrote[c]
    BY <1>9 DEF Bounded
  <2>3. \A st \in Streams : more[n + 1][c][st] = IF st = msg.kind THEN counts[n][c][st] + msg.size ELSE counts[n][c][st]
    BY <1>10
  <2>4. \A st \in Streams : more[n + 1][c][st] = wrote'[c][st]
    BY <2>2, <2>3
  <2>5. more[n + 1][c] \in [Streams -> Nat] /\ wrote'[c] \in [Streams -> Nat]
    BY <2>1 DEF Totals, BoundsAssumption
  <2> QED
    BY <2>4, <2>5, SameTotals
<1>12. \A d \in Commands, st \in Streams : wrote[d][st] <= wrote'[d][st]
  <2> SUFFICES ASSUME NEW d \in Commands, NEW st \in Streams PROVE wrote[d][st] <= wrote'[d][st]
    OBVIOUS
  <2>1. wrote[d][st] \in Nat /\ msg.size \in Nat
    BY <1>0 DEF Messages, BoundsAssumption
  <2>2. wrote'[d][st] \in {wrote[d][st], wrote[d][st] + msg.size}
    OBVIOUS
  <2> QED
    BY <2>1, <2>2
<1>13. \A d \in Commands : \A t : Ended(d, t) => d # c /\ proc'[d] = "reported" /\ t[d] = wrote'[d]
  BY DEF Ended
<1>14. Bounded(taken, more)'
  <2>1. \A d \in Commands, st \in Streams : taken[d][st] <= more[0][d][st]
    BY <1>2, <1>8, <1>9 DEF Bounded
  <2>2. ASSUME NEW i \in 0..(n + 1), NEW d \in Commands, NEW st \in Streams
        PROVE  more[i][d][st] <= wrote'[d][st]
    <3>1. i = n + 1 \/ i \in 0..n
      BY <1>2
    <3>2. wrote[d][st] \in 0..MaxWritten /\ wrote'[d][st] \in 0..MaxWritten /\ MaxWritten \in Nat
      BY <1>0 DEF BoundsAssumption
    <3>3. \A j \in 0..n : counts[j][d][st] \in Nat /\ counts[j][d][st] <= wrote[d][st]
      BY <1>9 DEF Bounded, Totals
    <3>4. CASE i \in 0..n
      BY <1>8, <1>12, <3>2, <3>3, <3>4
    <3>5. CASE i = n + 1
      <4>1. CASE d = c
        BY <1>11, <3>2, <3>5, <4>1
      <4>2. CASE d # c
        <5>1. n \in 0..n
          BY <1>2
        <5>2. more[i][d] = counts[n][d]
          BY <1>10, <3>5, <4>2
        <5> QED
          BY <1>12, <3>2, <3>3, <5>1, <5>2
      <4> QED
        BY <4>1, <4>2
    <3> QED
      BY <3>1, <3>4, <3>5
  <2>3. ASSUME NEW d \in Commands, proc'[d] \in {"none", "running", "exited"}
        PROVE  more[n + 1][d] = wrote'[d]
    <3>1. d # c => counts[n][d] = wrote[d]
      BY <1>9, <2>3 DEF Bounded
    <3> QED
      BY <1>10, <1>11, <3>1
  <2>4. ASSUME NEW i \in 1..(n + 1), toHub'[i].kind = "done"
        PROVE  Ended(toHub[i].cmd, more[i])'
    <3>1. i = n + 1 \/ i \in 1..n
      BY <1>2
    <3>2. CASE i = n + 1
      <4>1. toHub'[i] = msg /\ proc'[c] = "reported" /\ more[i][c] = wrote'[c]
        BY <1>2, <1>11, <2>4, <3>2
      <4> QED
        BY <4>1 DEF Ended
    <3>3. CASE i \in 1..n
      <4>1. toHub'[i] = toHub[i] /\ more[i] = counts[i]
        BY <1>2, <1>8, <3>3
      <4>2. toHub[i] \in Messages /\ Ended(toHub[i].cmd, counts[i])
        BY <1>1, <1>2, <1>9, <2>4, <3>3, <4>1, MessagesAre DEF Bounded
      <4>3. toHub[i].cmd \in Commands
        BY <4>2 DEF Messages
      <4> QED
        BY <1>13, <4>1, <4>2, <4>3 DEF Ended
    <3> QED
      BY <3>1, <3>2, <3>3
  <2>5. reading' # None => (reading'.kind = "done" => Ended(reading.cmd, taken)')
    <3>1. reading # None => reading.cmd \in Commands
      BY <1>1, MessagesAre DEF Messages
    <3> QED
      BY <1>7, <1>9, <1>13, <3>1 DEF Bounded, Ended
  <2> QED
    BY <1>2, <1>7, <2>1, <2>2, <2>3, <2>4, <2>5 DEF Bounded
<1>15. \A d \in InUse' : Collected(d, taken)'
  BY <1>6, <1>13 DEF Accounted, Collected, Ended, InUse, Held, hubVars
<1>16. Accounted(taken, more)'
  BY <1>6, <1>8, <1>14, <1>15 DEF Accounted, hubVars
<1> QED
  BY <1>3, <1>5, <1>16 DEF IInv

LEMMA WriteStep == ASSUME BoundsAssumption, IInv, NEW c \in Commands, NEW st \in Streams, Write(c, st) PROVE IInv'
<1>1. PICK size \in Sizes : /\ wrote[c][st] + size <= MaxWritten
                            /\ wrote' = [wrote EXCEPT ![c][st] = @ + size]
                            /\ Forward(c, st, size)
  BY DEF Write
<1>2. proc[c] = "running" /\ Room /\ UNCHANGED <<hubVars, proc, split, up, toAgent>>
  BY DEF Write
<1> DEFINE msg == [cmd |-> c, kind |-> st, size |-> size]
<1>3. size \in Nat \ {0} /\ wrote[c][st] \in Nat /\ size \in 0..MaxWritten
  <2>1. size \in Nat \ {0} /\ wrote[c][st] \in 0..MaxWritten /\ MaxWritten \in Nat
    BY DEF BoundsAssumption, IInv, Shape, TypeOK
  <2> QED
    BY <1>1, <2>1
<1>4. msg \in Messages /\ msg.cmd = c /\ msg.kind = st /\ msg.size = size /\ toHub' = Append(toHub, msg)
  BY <1>1, <1>3 DEF Messages, Forward
<1>5. wrote[c][st] + size \in 0..MaxWritten
  BY <1>1, <1>3 DEF BoundsAssumption
<1>6. wrote' \in [Commands -> [Streams -> 0..MaxWritten]]
      /\ (\A d \in Commands \ {c} : wrote'[d] = wrote[d])
      /\ \A s \in Streams : wrote'[c][s] = IF s = st THEN wrote[c][s] + size ELSE wrote[c][s]
  BY <1>1, <1>5 DEF IInv, Shape, TypeOK
<1>7. Whole(msg)'
  BY <1>3, <1>4 DEF Whole
<1>8. msg.kind # "done" /\ proc' \in [Commands -> {"none", "running", "exited", "reported", "killed"}]
  BY <1>2, <1>4, StreamsAre DEF IInv, Shape, TypeOK
<1> HIDE DEF msg
<1> QED
  <2>1. split \subseteq split' /\ split' \subseteq Commands
    BY <1>2 DEF IInv, Shape, TypeOK
  <2>2. proc'[c] = proc[c] /\ \A d \in Commands \ {c} : proc'[d] = proc[d]
    BY <1>2
  <2> QED
    BY <1>2, <1>4, <1>6, <1>7, <1>8, <2>1, <2>2, ForwardStep

LEMMA WriteSplitStep ==
  ASSUME BoundsAssumption, IInv, NEW c \in Commands, NEW st \in Streams, WriteSplit(c, st)
  PROVE  IInv'
<1> DEFINE msg == [cmd |-> c, kind |-> st, size |-> 0]
<1>1. proc[c] = "running" /\ Room /\ split' = split \cup {c} /\ toHub' = Append(toHub, msg)
      /\ UNCHANGED <<hubVars, proc, wrote, up, toAgent>>
  BY DEF WriteSplit, Forward
<1>2. msg \in Messages /\ msg.cmd = c /\ msg.kind = st /\ msg.size = 0 /\ msg.kind # "done"
  BY StreamsAre DEF Messages, BoundsAssumption
<1>3. wrote' \in [Commands -> [Streams -> 0..MaxWritten]] /\ split' \subseteq Commands
      /\ proc' \in [Commands -> {"none", "running", "exited", "reported", "killed"}]
  BY <1>1 DEF IInv, Shape, TypeOK
<1>4. Whole(msg)'
  BY <1>1, <1>2 DEF Whole
<1> HIDE DEF msg
<1>5. \A s \in Streams : wrote'[c][s] = IF s = msg.kind THEN wrote[c][s] + msg.size ELSE wrote[c][s]
  <2>1. \A s \in Streams : wrote[c][s] \in Nat
    <3>1. wrote \in [Commands -> [Streams -> 0..MaxWritten]]
      BY DEF IInv, Shape, TypeOK
    <3> QED
      BY <3>1 DEF BoundsAssumption
  <2> QED
    BY <1>1, <1>2, <2>1
<1> QED
  BY <1>1, <1>2, <1>3, <1>4, <1>5, ForwardStep

LEMMA ReportStep == ASSUME BoundsAssumption, IInv, NEW c \in Commands, Report(c) PROVE IInv'
<1> DEFINE msg == [cmd |-> c, kind |-> "done", size |-> 0]
<1>1. proc[c] = "exited" /\ Room /\ toHub' = Append(toHub, msg) /\ proc' = [proc EXCEPT ![c] = "reported"]
      /\ UNCHANGED <<hubVars, wrote, split, up, toAgent>>
  BY DEF Report, Forward
<1>2. msg \in Messages /\ msg.cmd = c /\ msg.kind = "done" /\ "done" \notin Streams
  BY DEF Messages, BoundsAssumption, Streams
<1>3. wrote' \in [Commands -> [Streams -> 0..MaxWritten]] /\ split' \subseteq Commands
      /\ proc' \in [Commands -> {"none", "running", "exited", "reported", "killed"}]
      /\ proc'[c] = "reported" /\ \A d \in Commands \ {c} : proc'[d] = proc[d]
  BY <1>1 DEF IInv, Shape, TypeOK
<1>4. Whole(msg)'
  BY <1>2 DEF Whole
<1> HIDE DEF msg
<1>5. \A s \in Streams : wrote'[c][s] = IF s = msg.kind THEN wrote[c][s] + msg.size ELSE wrote[c][s]
  BY <1>1, <1>2
<1> QED
  BY <1>1, <1>2, <1>3, <1>4, <1>5, ForwardStep

(* The connection drops: what is still read is a prefix, and its totals    *)
(* are those there were. *)
LEMMA DropStep == ASSUME BoundsAssumption, IInv, Drop PROVE IInv'
<1>1. TypeOK /\ Stages /\ Len(toHub) \in Nat
  BY MessagesAre DEF IInv, Shape
<1>2. PICK n \in 0..Len(toHub) : toHub' = SubSeq(toHub, 1, n)
  BY DEF Drop
<1>3. toHub' \in Seq(Messages) /\ Len(toHub') = n /\ \A i \in 1..n : toHub'[i] = toHub[i]
  <2>0. toHub \in Seq(Messages)
    BY <1>1 DEF TypeOK
  <2>1. toHub \in Seq(Messages) /\ n \in Nat /\ n <= Len(toHub)
    BY <1>1, <1>2, <2>0
  <2>2. \A i \in 1..n : toHub[i] \in Messages
    BY <2>1, ElementOfSeq
  <2> QED
    BY <1>1, <1>2, <2>1, <2>2, SubSeqProperties
<1>4. toAgent' = {} /\ up' = FALSE /\ UNCHANGED <<hubVars, wrote, split>>
  BY DEF Drop
<1>5. \A c \in Commands : proc'[c] = IF proc[c] \in {"running", "exited"} THEN "killed" ELSE proc[c]
  BY DEF Drop
<1>6. proc' \in [Commands -> {"none", "running", "exited", "reported", "killed"}]
  BY <1>1 DEF Drop, TypeOK
<1>7. Shape'
  <2>0. Len(toHub) <= InFlight /\ InFlight \in Nat
    BY <1>1 DEF TypeOK, BoundsAssumption
  <2>1. Len(toHub') <= InFlight
    BY <1>1, <1>2, <1>3, <2>0
  <2> QED
    BY <1>3, <1>4, <1>6, <2>1 DEF hubVars, IInv, Shape, TypeOK, Held
<1>8. Stages'
  BY <1>1, <1>3, <1>4, <1>5, MessagesAre DEF hubVars, Stages, Whole, Messages
<1>9. PICK taken, counts : Accounted(taken, counts)
  BY DEF IInv
<1> DEFINE f == [i \in 0..n |-> counts[i]]
<1>10. PICK fewer : fewer \in [0..n -> Totals] /\ \A i \in 0..n : fewer[i] = counts[i]
  <2>1. f \in [0..n -> Totals] /\ \A i \in 0..n : f[i] = counts[i]
    BY <1>1, <1>9 DEF Accounted, Summed
  <2> QED
    BY <2>1
<1>11. Summed(taken, fewer)'
  <2>1. ASSUME NEW i \in 1..n PROVE fewer[i] = Count(fewer[i - 1], toHub'[i])
    <3>1. i \in 1..Len(toHub) /\ i \in 0..n /\ i - 1 \in 0..n
      BY <1>1
    <3>2. counts[i] = Count(counts[i - 1], toHub[i])
      BY <1>9, <3>1 DEF Accounted, Summed
    <3> QED
      BY <1>3, <1>10, <3>1, <3>2
  <2>2. 0 \in 0..n
    BY <1>1
  <2> QED
    BY <1>3, <1>4, <1>9, <1>10, <2>1, <2>2 DEF Accounted, Summed, hubVars
<1>12. \A c \in Commands : \A t : Ended(c, t) => Ended(c, t)'
  BY <1>4, <1>5 DEF Ended
<1>13. Bounded(taken, fewer)'
  <2>1. \A i \in 0..n : i \in 0..Len(toHub) /\ fewer[i] = counts[i]
    BY <1>1, <1>10
  <2>2. 0 \in 0..n /\ n \in 0..n
    BY <1>1
  <2>3. ASSUME NEW c \in Commands, proc'[c] \in {"none", "running", "exited"} PROVE fewer[n][c] = wrote[c]
    <3>1. wrote[c] = Nothing
      BY <1>1, <1>5, <2>3 DEF Stages
    <3>2. fewer[n][c] \in [Streams -> Nat] /\ \A st \in Streams : fewer[n][c][st] <= wrote[c][st]
      BY <1>9, <1>10, <2>1, <2>2 DEF Accounted, Bounded, Totals
    <3>3. \A st \in Streams : fewer[n][c][st] = 0
      BY <3>1, <3>2 DEF Nothing
    <3> QED
      BY <3>1, <3>2, <3>3 DEF Nothing
  <2>4. ASSUME NEW i \in 1..n, toHub'[i].kind = "done" PROVE proc'[toHub'[i].cmd] = "reported" /\ fewer[i][toHub'[i].cmd] = wrote'[toHub'[i].cmd]
    <3>1. i \in 1..Len(toHub) /\ i \in 0..n /\ toHub'[i] = toHub[i]
      BY <1>1, <1>3
    <3>2. Ended(toHub[i].cmd, counts[i]) /\ toHub[i].cmd \in Commands
      BY <1>1, <1>9, <2>4, <3>1, MessagesAre DEF Accounted, Bounded, Messages
    <3> QED
      BY <1>4, <1>5, <2>1, <3>1, <3>2 DEF Ended
  <2>5. reading # None => (reading.kind = "done" => Ended(reading.cmd, taken) /\ reading.cmd \in Commands)
    BY <1>1, <1>9, MessagesAre DEF Accounted, Bounded, Messages
  <2>6. reading' = reading /\ wrote' = wrote
    BY <1>4 DEF hubVars
  <2>7. \A c \in Commands, st \in Streams : taken[c][st] <= fewer[0][c][st]
    BY <1>9, <2>1, <2>2 DEF Accounted, Bounded
  <2>8. \A i \in 0..n, c \in Commands, st \in Streams : fewer[i][c][st] <= wrote[c][st]
    BY <1>9, <2>1 DEF Accounted, Bounded
  <2> QED
    BY <1>3, <1>5, <2>3, <2>4, <2>5, <2>6, <2>7, <2>8 DEF Bounded, Ended
<1>14. \A c \in InUse' : Collected(c, taken)'
  BY <1>4, <1>9, <1>12 DEF Accounted, Collected, InUse, Held, hubVars
<1>15. Accounted(taken, fewer)'
  BY <1>4, <1>9, <1>11, <1>13, <1>14 DEF Accounted, hubVars
<1> QED
  BY <1>7, <1>8, <1>15 DEF IInv

(* readLoop takes the next message, or drops it when nobody waits for it:  *)
(* nothing is lost to a caller who is there, and one already answered has  *)
(* all there was. *)
LEMMA LookupStep == ASSUME CommandsAssumption, BoundsAssumption, IInv, Lookup PROVE IInv'
<1> DEFINE n == Len(toHub)
           m == Head(toHub)
           wanted == m.cmd \in registry
<1>1. TypeOK /\ Stages
  BY DEF IInv, Shape
<1>2. toHub # <<>> /\ reading = None /\ toHub' = Tail(toHub) /\ reading' = (IF wanted THEN m ELSE None)
      /\ UNCHANGED <<caller, registry, got, truncated, finished, agentVars, up, toAgent>>
  BY DEF Lookup
<1>3. toHub \in Seq(Messages) /\ n <= InFlight
  BY <1>1 DEF TypeOK
<1>4. n \in Nat /\ n >= 1 /\ m \in Messages /\ m = toHub[1]
  BY <1>2, <1>3, HeadTailProperties, EmptySeq, LenProperties
<1>5. toHub' \in Seq(Messages) /\ Len(toHub') = n - 1 /\ \A i \in 1..(n - 1) : toHub'[i] = toHub[i + 1]
  BY <1>2, <1>3, HeadTailProperties
<1>6. m.cmd \in Commands /\ m # None
  BY <1>4 DEF Messages, CommandsAssumption
<1> HIDE DEF n, m
<1>7. Shape'
  <2>1. Len(toHub') <= InFlight /\ reading' \in Messages \cup {None}
    BY <1>2, <1>3, <1>4, <1>5 DEF BoundsAssumption
  <2> QED
    BY <1>2, <1>5, <2>1 DEF agentVars, IInv, Shape, TypeOK, Held
<1>8. Stages'
  <2>1. \A i \in 1..n : Whole(toHub[i])
    BY <1>1 DEF Stages, n
  <2>2. \A i \in 1..(n - 1) : Whole(toHub[i + 1])
    BY <1>4, <2>1
  <2>3. ASSUME NEW i \in 1..(n - 1) PROVE Whole(toHub[i])'
    BY <1>2, <1>5, <2>2 DEF Whole, agentVars
  <2>4. Whole(m) /\ (wanted => caller[m.cmd] = "waiting")
    BY <1>1, <1>4, <1>6, <2>1 DEF Stages
  <2>5. reading' # None => Whole(reading)' /\ caller'[reading'.cmd] # "idle"
    BY <1>2, <2>4 DEF Whole, agentVars
  <2> QED
    BY <1>1, <1>2, <1>5, <2>3, <2>5 DEF Stages, TypeOK, agentVars
<1>9. PICK taken, counts : Accounted(taken, counts)
  BY DEF IInv
<1>10. counts \in [0..n -> Totals] /\ counts[0] = taken /\ taken \in Totals
       /\ \A i \in 1..n : counts[i] = Count(counts[i - 1], toHub[i])
  BY <1>2, <1>9 DEF Accounted, Summed, n
<1>11. counts[1] \in Totals /\ counts[1] = Count(taken, m)
  <2>1. 1 \in 0..n /\ 1 \in 1..n /\ 1 - 1 = 0
    BY <1>4
  <2> QED
    BY <1>4, <1>10, <2>1
<1>12. /\ \A c \in Commands, st \in Streams : taken[c][st] <= counts[1][c][st]
       /\ \A c \in Commands : c # m.cmd => counts[1][c] = taken[c]
       /\ m.kind = "done" => counts[1] = taken
  <2>1. /\ \A c \in Commands, st \in Streams :
             Count(taken, m)[c][st] = IF c = m.cmd /\ st = m.kind THEN taken[c][st] + m.size ELSE taken[c][st]
        /\ \A c \in Commands : c # m.cmd => Count(taken, m)[c] = taken[c]
        /\ m.kind = "done" => Count(taken, m) = taken
    BY <1>4, <1>10, CountIs
  <2>2. m.size \in Nat /\ \A c \in Commands, st \in Streams : taken[c][st] \in Nat
    BY <1>4, <1>10 DEF Messages, Totals, BoundsAssumption
  <2> QED
    BY <1>11, <2>1, <2>2
<1>13. \A c \in Commands, st \in Streams : counts[1][c][st] <= wrote[c][st]
  <2>1. 1 \in 0..Len(toHub)
    BY <1>4 DEF n
  <2> QED
    BY <1>9, <2>1 DEF Accounted, Bounded
<1>14. PICK passed : passed = IF wanted THEN taken ELSE counts[1]
  OBVIOUS
<1>15. PICK fewer : fewer \in [0..(n - 1) -> Totals] /\ \A i \in 0..(n - 1) : fewer[i] = counts[i + 1]
  <2> DEFINE f == [i \in 0..(n - 1) |-> counts[i + 1]]
  <2>1. \A i \in 0..(n - 1) : i + 1 \in 0..n
    BY <1>4
  <2>2. f \in [0..(n - 1) -> Totals] /\ \A i \in 0..(n - 1) : f[i] = counts[i + 1]
    BY <1>10, <2>1
  <2> QED
    BY <2>2
<1>16. fewer[0] = counts[1] /\ fewer[n - 1] = counts[n]
  BY <1>4, <1>15
<1>17. Summed(passed, fewer)'
  <2>1. passed \in Totals
    BY <1>10, <1>11, <1>14
  <2>2. fewer[0] = IF reading' = None THEN passed ELSE Count(passed, reading')
    BY <1>2, <1>6, <1>11, <1>14, <1>16
  <2>3. ASSUME NEW i \in 1..(n - 1) PROVE fewer[i] = Count(fewer[i - 1], toHub'[i])
    <3>1. i \in 0..(n - 1) /\ i - 1 \in 0..(n - 1) /\ i + 1 \in 1..n /\ (i - 1) + 1 = i /\ (i + 1) - 1 = i
      BY <1>4
    <3>2. fewer[i] = counts[i + 1] /\ fewer[i - 1] = counts[i]
      BY <1>15, <3>1
    <3>3. counts[i + 1] = Count(counts[i], toHub[i + 1])
      BY <1>10, <3>1
    <3> QED
      BY <1>5, <3>2, <3>3
  <2> QED
    BY <1>5, <1>15, <2>1, <2>2, <2>3 DEF Summed
<1>18. Bounded(passed, fewer)'
  <2>1. \A c \in Commands, st \in Streams : passed[c][st] <= fewer[0][c][st]
    <3>1. \A c \in Commands, st \in Streams : counts[1][c][st] \in Nat
      BY <1>11 DEF Totals
    <3> QED
      BY <1>12, <1>14, <1>16, <3>1
  <2>2. ASSUME NEW i \in 0..(n - 1), NEW c \in Commands, NEW st \in Streams PROVE fewer[i][c][st] <= wrote'[c][st]
    <3>1. i + 1 \in 0..Len(toHub)
      BY <1>4 DEF n
    <3>2. counts[i + 1][c][st] <= wrote[c][st]
      BY <1>9, <3>1 DEF Accounted, Bounded
    <3> QED
      BY <1>2, <1>15, <3>2 DEF agentVars
  <2>3. \A c \in Commands : proc'[c] \in {"none", "running", "exited"} => fewer[n - 1][c] = wrote'[c]
    BY <1>2, <1>9, <1>16 DEF Accounted, Bounded, agentVars, n
  <2>4. ASSUME NEW i \in 1..(n - 1), toHub'[i].kind = "done"
        PROVE  proc'[toHub'[i].cmd] = "reported" /\ fewer[i][toHub'[i].cmd] = wrote'[toHub'[i].cmd]
    <3>1. i + 1 \in 1..Len(toHub) /\ i \in 0..(n - 1)
      BY <1>4 DEF n
    <3>2. Ended(toHub[i + 1].cmd, counts[i + 1])
      BY <1>5, <1>9, <2>4, <3>1 DEF Accounted, Bounded
    <3> QED
      BY <1>2, <1>5, <1>15, <3>1, <3>2 DEF Ended, agentVars
  <2>5. reading' # None => (reading'.kind = "done" =>
          proc'[reading'.cmd] = "reported" /\ passed[reading'.cmd] = wrote'[reading'.cmd])
    <3> SUFFICES ASSUME wanted, m.kind = "done" PROVE proc[m.cmd] = "reported" /\ passed[m.cmd] = wrote[m.cmd]
      BY <1>2 DEF agentVars
    <3>1. 1 \in 1..Len(toHub)
      BY <1>4 DEF n
    <3>2. Ended(m.cmd, counts[1])
      BY <1>4, <1>9, <3>1 DEF Accounted, Bounded
    <3> QED
      BY <1>12, <1>14, <3>2 DEF Ended
  <2> QED
    BY <1>5, <2>1, <2>2, <2>3, <2>4, <2>5 DEF Bounded, Ended
<1>19. ASSUME NEW c \in InUse' PROVE Collected(c, passed)'
  <2>1. c \in InUse /\ c \in Commands /\ Collected(c, taken)
    BY <1>2, <1>9 DEF Accounted, InUse
  <2>2. passed[c] = taken[c]
    <3>1. CASE wanted \/ c # m.cmd
      BY <1>12, <1>14, <2>1, <3>1
    <3>2. CASE ~wanted /\ c = m.cmd
      <4>1. caller[c] = "answered"
        BY <1>1, <2>1, <3>2 DEF Stages, InUse
      <4>2. taken[c] = wrote[c]
        BY <1>9, <2>1, <4>1 DEF Accounted, Collected, Ended
      <4>3. counts[1][c] \in [Streams -> Nat] /\ taken[c] \in [Streams -> Nat]
        BY <1>10, <1>11, <2>1 DEF Totals
      <4>4. \A st \in Streams : counts[1][c][st] = taken[c][st]
        BY <1>12, <1>13, <2>1, <4>2, <4>3
      <4> QED
        BY <1>14, <3>2, <4>3, <4>4, SameTotals
    <3> QED
      BY <3>1, <3>2
  <2> QED
    BY <1>2, <2>1, <2>2 DEF Collected, Ended, Held, agentVars
<1>20. Accounted(passed, fewer)'
  BY <1>2, <1>9, <1>17, <1>18, <1>19 DEF Accounted
<1> QED
  BY <1>7, <1>8, <1>20 DEF IInv

(* The cap: what is kept of a piece of output. *)
LEMMA KeptIs ==
  ASSUME NEW had \in Nat, NEW size \in Nat, MaxOutput \in Nat, had <= MaxOutput,
         NEW kept, kept = IF had + size > MaxOutput THEN MaxOutput - had ELSE size
  PROVE  /\ kept \in Nat /\ had + kept <= MaxOutput
         /\ ~(kept < size \/ had >= MaxOutput) => kept = size
         /\ kept < size \/ had >= MaxOutput => had + kept = MaxOutput /\ (had + size > MaxOutput \/ size = 0)
         /\ had = MaxOutput => kept = 0
  OBVIOUS

LEMMA OutputAppended ==
  ASSUME BoundsAssumption, Shape, NEW m \in Messages, m.kind \in Streams, AppendOutput(m)
  PROVE  /\ got' \in [Commands -> [Streams -> 0..MaxOutput]] /\ truncated' \in [Commands -> BOOLEAN]
         /\ \A c \in Commands : Held(c)' <= MaxOutput
         /\ \A c \in Commands \ {m.cmd} : got'[c] = got[c] /\ truncated'[c] = truncated[c]
         /\ ~truncated'[m.cmd] =>
              ~truncated[m.cmd] /\ \A st \in Streams : got'[m.cmd][st] = IF st = m.kind THEN got[m.cmd][st] + m.size ELSE got[m.cmd][st]
         /\ truncated'[m.cmd] /\ ~truncated[m.cmd] =>
              Held(m.cmd)' = MaxOutput /\ (Held(m.cmd) + m.size > MaxOutput \/ m.size = 0)
         /\ truncated[m.cmd] /\ Held(m.cmd) = MaxOutput => truncated'[m.cmd] /\ Held(m.cmd)' = MaxOutput
<1> DEFINE c == m.cmd
           k == Kept(c, m.size)
           cut == k < m.size \/ Held(c) >= MaxOutput
<1>1. got \in [Commands -> [Streams -> 0..MaxOutput]] /\ truncated \in [Commands -> BOOLEAN] /\ MaxOutput \in Nat
  BY DEF Shape, TypeOK, BoundsAssumption
<1>2. c \in Commands /\ m.size \in Nat
  BY DEF Messages, BoundsAssumption
<1>3. \A d \in Commands, st \in Streams : got[d][st] \in Nat
  BY <1>1
<1>4. Held(c) \in Nat /\ Held(c) <= MaxOutput
  BY <1>2, <1>3, StreamsAre DEF Held, Shape
<1>5. k = IF Held(c) + m.size > MaxOutput THEN MaxOutput - Held(c) ELSE m.size
  BY DEF Kept
<1>6. got' = [got EXCEPT ![c] = [got[c] EXCEPT ![m.kind] = got[c][m.kind] + k]]
  BY DEF AppendOutput
<1>7. truncated' = [truncated EXCEPT ![c] = truncated[c] \/ cut]
  BY DEF AppendOutput
<1> HIDE DEF c, k
<1>8. /\ k \in Nat /\ Held(c) + k <= MaxOutput
      /\ ~cut => k = m.size
      /\ cut => Held(c) + k = MaxOutput /\ (Held(c) + m.size > MaxOutput \/ m.size = 0)
      /\ Held(c) = MaxOutput => k = 0
  BY <1>1, <1>2, <1>4, <1>5, KeptIs
<1> HIDE DEF cut
<1>9. \A d \in Commands : truncated'[d] = IF d = c THEN truncated[c] \/ cut ELSE truncated[d]
  BY <1>1, <1>2, <1>7
<1>10. \A d \in Commands \ {c} : got'[d] = got[d]
  BY <1>1, <1>2, <1>6
<1>11. \A st \in Streams : got'[c][st] = IF st = m.kind THEN got[c][st] + k ELSE got[c][st]
  BY <1>1, <1>2, <1>6
<1>12. Held(c)' = Held(c) + k
  <2>1. m.kind = "stdout" \/ m.kind = "stderr"
    BY StreamsAre
  <2>2. m.cmd' = m.cmd
    OBVIOUS
  <2>3. got'[c]["stdout"] + got'[c]["stderr"] = got[c]["stdout"] + got[c]["stderr"] + k
    BY <1>2, <1>3, <1>8, <1>11, <2>1, StreamsAre
  <2> QED
    BY <2>2, <2>3 DEF Held, c
<1>13. got' \in [Commands -> [Streams -> 0..MaxOutput]]
  <2>1. got[c][m.kind] + k \in 0..MaxOutput
    <3>1. got[c][m.kind] <= Held(c)
      BY <1>2, <1>3, StreamsAre DEF Held
    <3>2. got[c][m.kind] \in Nat
      BY <1>2, <1>3
    <3> QED
      BY <1>1, <1>4, <1>8, <3>1, <3>2
  <2>2. [got[c] EXCEPT ![m.kind] = got[c][m.kind] + k] \in [Streams -> 0..MaxOutput]
    BY <1>1, <1>2, <2>1
  <2> QED
    BY <1>1, <1>6, <2>2
<1>14. truncated' \in [Commands -> BOOLEAN]
  <2>1. (truncated[c] \/ cut) \in BOOLEAN
    OBVIOUS
  <2> QED
    BY <1>1, <1>7, <2>1
<1>15. ASSUME NEW d \in Commands PROVE Held(d)' <= MaxOutput
  <2>1. CASE d = c
    BY <1>8, <1>12, <2>1 DEF c
  <2>2. CASE d # c
    BY <1>10, <2>2 DEF Held, Shape
  <2> QED
    BY <2>1, <2>2
<1>16. ~truncated'[c] => ~truncated[c] /\ k = m.size
  BY <1>2, <1>8, <1>9
<1>17. truncated'[c] /\ ~truncated[c] => cut
  BY <1>2, <1>9
<1>18. truncated[c] => truncated'[c]
  BY <1>2, <1>9
<1> QED
  BY <1>2, <1>4, <1>8, <1>9, <1>10, <1>11, <1>12, <1>13, <1>14, <1>15, <1>16, <1>17, <1>18 DEF c

(* A collector takes its message. *)
LEMMA CollectStep == ASSUME CommandsAssumption, BoundsAssumption, IInv, Collect PROVE IInv'
<1> DEFINE m == reading
<1>1. TypeOK /\ Stages /\ Shape
  BY DEF IInv, Shape
<1>2. reading # None /\ reading' = None /\ UNCHANGED <<caller, registry, agentVars, up, toAgent, toHub>>
  BY DEF Collect
<1>3. m \in Messages /\ m.cmd \in Commands /\ m.size \in Nat /\ m.kind \in Streams \cup {"done"} /\ "done" \notin Streams
  BY <1>1, <1>2, MessagesAre DEF Messages, BoundsAssumption, Streams
<1>4. caller[m.cmd] # "idle" /\ Whole(m)
  BY <1>1, <1>2 DEF Stages
<1>5. PICK taken, counts : Accounted(taken, counts)
  BY DEF IInv
<1>6. counts[0] \in Totals /\ taken \in Totals /\ counts[0] = Count(taken, m)
  <2>1. 0 \in 0..Len(toHub)
    BY <1>1, MessagesAre
  <2> QED
    BY <1>2, <1>5, <2>1 DEF Accounted, Summed
<1>7. /\ \A c \in Commands, st \in Streams :
           counts[0][c][st] = IF c = m.cmd /\ st = m.kind THEN taken[c][st] + m.size ELSE taken[c][st]
      /\ \A c \in Commands : c # m.cmd => counts[0][c] = taken[c]
      /\ m.kind = "done" => counts[0] = taken
  BY <1>3, <1>6, CountIs
<1>8. \A c \in Commands, st \in Streams : taken[c][st] <= counts[0][c][st] /\ counts[0][c][st] <= wrote[c][st]
  <2>1. 0 \in 0..Len(toHub)
    BY <1>1, MessagesAre
  <2> QED
    BY <1>5, <2>1 DEF Accounted, Bounded
<1>9. PICK passed : passed = counts[0]
  OBVIOUS
<1>10. Summed(passed, counts)'
  BY <1>2, <1>5, <1>6, <1>9 DEF Accounted, Summed
<1>11. Bounded(passed, counts)'
  <2>1. \A c \in Commands, st \in Streams : passed[c][st] <= counts[0][c][st]
    <3>1. \A c \in Commands, st \in Streams : counts[0][c][st] \in Nat
      BY <1>6 DEF Totals
    <3> QED
      BY <1>9, <3>1
  <2> QED
    BY <1>2, <1>5, <2>1 DEF Accounted, Bounded, Ended, agentVars
<1>12. \A c \in Commands : finished[c] /\ c \in InUse => Ended(c, taken)
  BY <1>5 DEF Accounted, Collected, InUse
(* What has ended is all there is: another message adds nothing to it. *)
<1>13. \A c \in Commands : Ended(c, taken) => Ended(c, passed)
  <2> SUFFICES ASSUME NEW c \in Commands, Ended(c, taken) PROVE Ended(c, passed)
    OBVIOUS
  <2>1. counts[0][c] \in [Streams -> Nat] /\ taken[c] \in [Streams -> Nat] /\ taken[c] = wrote[c]
    BY <1>6 DEF Totals, Ended
  <2>2. \A st \in Streams : counts[0][c][st] = taken[c][st]
    BY <1>8, <2>1
  <2>3. counts[0][c] = taken[c]
    BY <2>1, <2>2, SameTotals
  <2> QED
    BY <1>9, <2>3 DEF Ended
<1>14. CASE m.kind = "done"
  <2>1. Finish(m)
    BY <1>3, <1>14 DEF Collect
  <2>2. got' = got /\ truncated' = truncated
    BY <2>1 DEF Finish
  <2>3. \A c \in Commands : finished'[c] = (c = m.cmd \/ finished[c])
    BY <1>1, <1>3, <2>1 DEF Finish, TypeOK
  <2>4. finished' \in [Commands -> BOOLEAN]
    BY <1>1, <2>1 DEF Finish, TypeOK
  <2>5. Shape'
    BY <1>1, <1>2, <2>2, <2>4 DEF Shape, TypeOK, Held, agentVars
  <2>6. Stages'
    BY <1>1, <1>2, <1>4, <2>2, <2>3 DEF Stages, Whole, agentVars
  <2>7. Ended(m.cmd, taken) /\ passed = taken
    BY <1>2, <1>5, <1>7, <1>9, <1>14 DEF Accounted, Bounded
  <2>8. ASSUME NEW c \in InUse' PROVE Collected(c, passed)'
    <3>1. c \in InUse /\ c \in Commands /\ Collected(c, taken)
      BY <1>2, <1>5 DEF Accounted, InUse
    <3> QED
      BY <1>2, <2>2, <2>3, <2>7, <3>1 DEF Collected, Ended, Held, agentVars
  <2>9. Accounted(passed, counts)'
    BY <1>2, <1>5, <1>10, <1>11, <2>3, <2>8 DEF Accounted
  <2> QED
    BY <2>5, <2>6, <2>9 DEF IInv
<1>15. CASE m.kind \in Streams
  <2>1. AppendOutput(m) /\ finished' = finished
    BY <1>15 DEF Collect, AppendOutput
  <2>2. /\ got' \in [Commands -> [Streams -> 0..MaxOutput]] /\ truncated' \in [Commands -> BOOLEAN]
        /\ \A c \in Commands : Held(c)' <= MaxOutput
        /\ \A c \in Commands \ {m.cmd} : got'[c] = got[c] /\ truncated'[c] = truncated[c]
    BY <1>1, <1>3, <1>15, <2>1, OutputAppended
  <2>3. Shape'
    BY <1>1, <1>2, <2>1, <2>2 DEF Shape, TypeOK, agentVars
  <2>4. Stages'
    BY <1>1, <1>2, <1>4, <2>1, <2>2 DEF Stages, Whole, agentVars
  <2>5. ASSUME NEW c \in InUse' PROVE Collected(c, passed)'
    <3>1. c \in InUse /\ c \in Commands /\ Collected(c, taken)
      BY <1>2, <1>5 DEF Accounted, InUse
    <3>2. CASE c # m.cmd
      <4>1. passed[c] = taken[c] /\ Held(c)' = Held(c)
        BY <1>7, <1>9, <2>2, <3>1, <3>2 DEF Held
      <4> QED
        BY <1>2, <2>1, <2>2, <3>1, <3>2, <4>1 DEF Collected, Ended, agentVars
    <3>3. CASE c = m.cmd
      <4>1. finished'[c] => Ended(c, passed)'
        BY <1>2, <1>12, <1>13, <2>1, <3>1 DEF Ended, agentVars
      <4>2. passed[c] \in [Streams -> Nat] /\ taken[c] \in [Streams -> Nat]
            /\ \A st \in Streams : passed[c][st] = IF st = m.kind THEN taken[c][st] + m.size ELSE taken[c][st]
        BY <1>6, <1>7, <1>9, <3>1, <3>3 DEF Totals
      <4>3. ~truncated'[c] => got'[c] = passed[c]
        <5> SUFFICES ASSUME ~truncated'[c] PROVE got'[c] = passed[c]
          OBVIOUS
        <5>1. ~truncated[c] /\ \A st \in Streams : got'[c][st] = IF st = m.kind THEN got[c][st] + m.size ELSE got[c][st]
          BY <1>1, <1>3, <1>15, <2>1, <3>3, OutputAppended
        <5>2. got[c] = taken[c]
          BY <3>1, <5>1 DEF Collected
        <5>3. got'[c] \in [Streams -> Nat]
          BY <2>2, <3>1 DEF BoundsAssumption
        <5>4. \A st \in Streams : got'[c][st] = passed[c][st]
          BY <4>2, <5>1, <5>2
        <5> QED
          BY <4>2, <5>3, <5>4, SameTotals
      <4>4. passed[c]["stdout"] + passed[c]["stderr"] = taken[c]["stdout"] + taken[c]["stderr"] + m.size
        <5>1. m.kind = "stdout" \/ m.kind = "stderr"
          BY <1>15, StreamsAre
        <5> QED
          BY <1>3, <4>2, <5>1, StreamsAre
      <4>5. truncated'[c] => Held(c)' = MaxOutput /\ (passed[c]["stdout"] + passed[c]["stderr"] > MaxOutput \/ c \in split')
        <5> SUFFICES ASSUME truncated'[c]
                     PROVE  Held(c)' = MaxOutput /\ (passed[c]["stdout"] + passed[c]["stderr"] > MaxOutput \/ c \in split')
          OBVIOUS
        <5>1. CASE truncated[c]
          <6>1. Held(c) = MaxOutput /\ (taken[c]["stdout"] + taken[c]["stderr"] > MaxOutput \/ c \in split)
            BY <3>1, <5>1 DEF Collected
          <6>2. Held(c)' = MaxOutput
            BY <1>1, <1>3, <1>15, <2>1, <3>3, <5>1, <6>1, OutputAppended
          <6> QED
            BY <1>2, <1>3, <4>2, <4>4, <6>1, <6>2, StreamsAre DEF BoundsAssumption, agentVars
        <5>2. CASE ~truncated[c]
          <6>1. Held(c)' = MaxOutput /\ (Held(c) + m.size > MaxOutput \/ m.size = 0)
            BY <1>1, <1>3, <1>15, <2>1, <3>3, <5>2, OutputAppended
          <6>2. Held(c) = taken[c]["stdout"] + taken[c]["stderr"]
            BY <3>1, <5>2 DEF Collected, Held
          <6>3. m.size = 0 => c \in split'
            BY <1>2, <1>4, <1>15, <3>3 DEF Whole, agentVars
          <6> QED
            BY <4>4, <6>1, <6>2, <6>3
        <5> QED
          BY <5>1, <5>2
      <4> QED
        BY <4>1, <4>3, <4>5 DEF Collected
    <3> QED
      BY <3>2, <3>3
  <2>6. Accounted(passed, counts)'
    BY <1>2, <1>5, <1>10, <1>11, <2>1, <2>5 DEF Accounted
  <2> QED
    BY <2>3, <2>4, <2>6 DEF IInv
<1> QED
  BY <1>3, <1>14, <1>15

LEMMA InitIsSound == ASSUME BoundsAssumption, Init PROVE IInv
<1>1. Len(toHub) = 0 /\ toHub \in Seq(Messages) /\ reading = None
  BY EmptySeq DEF Init
<1>2. Shape
  <2>1. got \in [Commands -> [Streams -> 0..MaxOutput]] /\ wrote \in [Commands -> [Streams -> 0..MaxWritten]]
    BY DEF Init, Nothing, BoundsAssumption
  <2>2. ASSUME NEW c \in Commands PROVE Held(c) = 0
    <3>1. got[c] = Nothing
      BY DEF Init
    <3>2. Nothing["stdout"] = 0 /\ Nothing["stderr"] = 0
      BY StreamsAre DEF Nothing
    <3> QED
      BY <3>1, <3>2 DEF Held
  <2>3. 0 <= MaxOutput /\ Len(toHub) <= InFlight
    BY <1>1 DEF BoundsAssumption
  <2>4. truncated \in [Commands -> BOOLEAN] /\ finished \in [Commands -> BOOLEAN] /\ up \in BOOLEAN
    BY DEF Init
  <2> QED
    BY <1>1, <2>1, <2>2, <2>3, <2>4 DEF Init, Shape, TypeOK
<1>3. Stages
  <2>1. \A c \in Commands : got[c] = Nothing /\ wrote[c] = Nothing /\ ~truncated[c] /\ ~finished[c]
    BY DEF Init
  <2> QED
    BY <1>1, <2>1 DEF Init, Stages
<1>4. PICK zero : zero = [c \in Commands |-> Nothing]
  OBVIOUS
<1>5. PICK counts : counts = [i \in 0..0 |-> zero]
  OBVIOUS
<1>6. zero \in Totals /\ counts \in [0..0 -> Totals] /\ counts[0] = zero
  BY <1>4, <1>5 DEF Totals, Nothing
<1>7. wrote = zero /\ got = zero
  BY <1>4 DEF Init
<1>8. Summed(zero, counts)
  BY <1>1, <1>6 DEF Summed
<1>9. Bounded(zero, counts)
  <2>1. \A c \in Commands, st \in Streams : zero[c][st] <= zero[c][st]
    BY <1>6 DEF Totals
  <2>2. \A i \in 0..Len(toHub) : counts[i] = zero
    BY <1>1, <1>6
  <2> QED
    BY <1>1, <1>6, <1>7, <2>1, <2>2 DEF Bounded
<1>10. \A c \in Commands : ~(c \in InUse) /\ caller[c] = "idle"
  BY DEF Init, InUse
<1>11. Accounted(zero, counts)
  BY <1>8, <1>9, <1>10 DEF Accounted, InUse
<1> QED
  BY <1>2, <1>3, <1>11 DEF IInv

LEMMA StepIsSound == ASSUME CommandsAssumption, BoundsAssumption, IInv, [Next]_vars PROVE IInv'
<1> USE CommandsAssumption, BoundsAssumption
<1>1. CASE Lookup
  BY <1>1, LookupStep
<1>2. CASE Collect
  BY <1>2, CollectStep
<1>3. CASE Drop
  BY <1>3, DropStep
<1>4. CASE Reconnect
  BY <1>4, IdleStep DEF Reconnect
<1>5. ASSUME NEW c \in Commands, Refuse(c) \/ Call(c) \/ Return(c) \/ TimeOut(c) PROVE IInv'
  BY <1>5, RefuseStep, CallStep, ReturnStep, TimeOutStep
<1>6. ASSUME NEW c \in Commands, Start(c) \/ Exit(c) \/ Report(c) PROVE IInv'
  BY <1>6, StartStep, ExitStep, ReportStep
<1>7. ASSUME NEW c \in Commands, NEW st \in Streams, Write(c, st) \/ WriteSplit(c, st) PROVE IInv'
  BY <1>7, WriteStep, WriteSplitStep
<1>8. CASE UNCHANGED vars
  <2>1. up' \in BOOLEAN
    BY <1>8 DEF vars, IInv, Shape, TypeOK
  <2> QED
    BY <1>8, <2>1, IdleStep DEF vars
<1> QED
  BY <1>1, <1>2, <1>3, <1>4, <1>5, <1>6, <1>7, <1>8 DEF Next

LEMMA Inductive == ASSUME CommandsAssumption, BoundsAssumption PROVE Spec => []IInv
<1>1. Init => IInv
  BY InitIsSound
<1>2. IInv /\ [Next]_vars => IInv'
  BY StepIsSound
<1> QED
  BY <1>1, <1>2, PTL DEF Spec

-----------------------------------------------------------------------------
(* Callers, collectors, messages and commands have the values they are     *)
(* meant to have, and a collector's output never passes its cap (server/   *)
(* exec.go: execCollector.append).                                         *)
THEOREM ExchangeTypes == ASSUME CommandsAssumption, BoundsAssumption PROVE Spec => []TypeOK
<1>1. IInv => TypeOK
  BY DEF IInv, Shape
<1> QED
  BY <1>1, Inductive, PTL

(* An answered caller has the whole output, or the cap's worth of more and *)
(* is told so, and its command has ended on the host (server/exec.go:      *)
(* runOnAgent; agent/exec.go: runExec reports after both pipes drained).   *)
THEOREM AnsweredIsTrue == ASSUME CommandsAssumption, BoundsAssumption PROVE Spec => []AnswersAreTrue
<1>1. IInv => AnswersAreTrue
  <2> SUFFICES ASSUME IInv, NEW c \in Commands, caller[c] = "answered"
               PROVE  /\ IF truncated[c]
                           THEN /\ Held(c) = MaxOutput
                                /\ (wrote[c]["stdout"] + wrote[c]["stderr"] > MaxOutput \/ c \in split)
                           ELSE got[c] = wrote[c]
                      /\ proc[c] = "reported"
    BY DEF AnswersAreTrue, ResultIsComplete, AnsweredMeansEnded
  <2>1. PICK taken, counts : Accounted(taken, counts)
    BY DEF IInv
  <2>2. Collected(c, taken) /\ finished[c]
    BY <2>1 DEF Accounted, InUse
  <2>3. proc[c] = "reported" /\ taken[c] = wrote[c]
    BY <2>2 DEF Collected, Ended
  <2> QED
    BY <2>2, <2>3 DEF Collected
<1> QED
  BY <1>1, Inductive, PTL

-----------------------------------------------------------------------------
(* The picture (FrameStream). *)

Panes == {d1, d2}

(* The duplication knows what is on its display but for what has changed   *)
(* since its last frame; the tiles an encoder does not look at are those   *)
(* it has sent as they are; and the viewer shows what the encoder has sent *)
(* and, when no frame is on its way, what the duplication knows. *)
PictureTypes ==
  /\ screen \in [Panes -> [F!Tiles -> Paints]]
  /\ sel \in Panes /\ region \in Panes /\ open \in Panes \cup {None} /\ first \in BOOLEAN
  /\ fast \in {"on", "dropped", "closed"} /\ (fast # "on" => open = None)
  /\ open = None => ~first

DuplicationKnows ==
  open # None =>
    /\ first => buf = F!Blank
    /\ ~first => /\ buf = [t \in Shapes[open] |-> buf[t]]
                 /\ \A t \in Shapes[open] \ changed : buf[t] = screen[open][t]

InHand ==
  /\ img = [t \in DOMAIN img |-> img[t]]
  /\ open # None => open = region /\ ~first /\ img = buf
  /\ dirty = F!All \/ \A t \in DOMAIN img \ dirty : DOMAIN prev = DOMAIN img => prev[t] = img[t]

PictureInv ==
  /\ PictureTypes /\ DuplicationKnows
  /\ DOMAIN prev # {} => viewer = prev
  /\ loop = "encoding" => InHand
  /\ loop \in {"top", "grabbing"} /\ open # None /\ ~first => viewer = buf

LEMMA BlankIsEmpty == DOMAIN F!Blank = {}
BY DEF F!Blank

LEMMA PictureStart == ASSUME F!FrameAssumption, F!Init PROVE PictureInv
<1>1. screen \in [Panes -> [F!Tiles -> Paints]]
  BY DEF F!Init, Panes
<1> QED BY <1>1, BlankIsEmpty DEF F!Init, PictureInv, PictureTypes, DuplicationKnows, Panes

LEMMA PictureStep == ASSUME F!FrameAssumption, PictureInv, [F!Next]_(F!vars) PROVE PictureInv'
<1> USE DEF PictureInv, PictureTypes, DuplicationKnows, InHand, Panes
<1> USE BlankIsEmpty
<1>1. CASE F!Capture
  BY <1>1 DEF F!Capture, F!source, F!cap, F!Tiles
<1>2. CASE F!Reopen
  BY <1>2 DEF F!Reopen, F!frame, F!Tiles, F!Opened, F!FrameAssumption
<1>3. CASE F!Acquire
  <2>1. PICK rects \in (IF first THEN SUBSET Shapes[region] ELSE {changed}) \cup {F!All} : F!Says(rects)
    BY <1>3 DEF F!Acquire
  <2>2. /\ loop = "grabbing" /\ open = region /\ open # None /\ fast = "on"
        /\ UNCHANGED <<screen, open, sel, fast, region, force, keyDue, prev, viewer, closing>>
        /\ first' = FALSE /\ changed' = {} /\ loop' = "encoding"
    BY <1>3 DEF F!Acquire, F!Opened, F!FrameAssumption
  <2>3. buf' = F!Converted(rects) /\ img' = buf' /\ dirty' = F!Damage(rects)
    BY <2>1 DEF F!Says
  <2>4. buf' = [t \in Shapes[region] |-> buf'[t]] /\ \A t \in Shapes[region] : buf'[t] = screen[region][t]
    BY <2>1, <2>2, <2>3 DEF F!Converted
  <2>5. dirty' = F!All \/ \A t \in DOMAIN img' \ dirty' : DOMAIN prev = DOMAIN img' => prev[t] = img'[t]
    BY <2>1, <2>2, <2>3, <2>4 DEF F!Damage, F!Converted
  <2> QED BY <2>2, <2>3, <2>4, <2>5 DEF F!Tiles
<1>4. CASE F!NoChange
  BY <1>4 DEF F!NoChange, F!source, F!Tiles
<1>5. CASE F!AccessLost
  BY <1>5 DEF F!AccessLost, F!cap, F!Tiles
<1>6. CASE F!BackendFails
  BY <1>6 DEF F!BackendFails, F!frame, F!Tiles
<1>7. CASE F!Screenshot
  BY <1>7 DEF F!Screenshot, F!source, F!Tiles, F!Restricted
<1>8. CASE F!Encode
  <2>1. /\ prev' = [t \in DOMAIN img |-> IF t \in F!Sent THEN img[t] ELSE prev[t]]
        /\ viewer' = [t \in DOMAIN img |-> IF t \in F!Sent THEN img[t] ELSE viewer[t]]
        /\ loop = "encoding" /\ loop' = "top" /\ UNCHANGED <<screen, open, first, changed, buf, sel, fast, dirty, region, img>>
    BY <1>8 DEF F!Encode, F!source, F!cap
  <2>2. ASSUME NEW t \in DOMAIN img, t \notin F!Sent PROVE DOMAIN prev = DOMAIN img /\ prev[t] = img[t] /\ viewer[t] = img[t]
    BY <2>1, <2>2 DEF F!Sent, F!Scanned, F!Differs, F!Whole, F!NewSize
  <2>3. prev' = [t \in DOMAIN img |-> img[t]] /\ viewer' = [t \in DOMAIN img |-> img[t]]
    BY <2>1, <2>2
  <2> QED BY <2>1, <2>3 DEF F!Tiles
<1>9. ASSUME NEW d \in Panes, NEW t \in Shapes[d], NEW p \in Paints, F!Paint(d, t, p) PROVE PictureInv'
  <2>1. t \in F!Tiles
    BY DEF F!Tiles
  <2>2. screen' \in [Panes -> [F!Tiles -> Paints]]
    BY <1>9, <2>1 DEF F!Paint
  <2>3. open # None /\ ~first => \A x \in Shapes[open] \ changed' : buf[x] = screen'[open][x]
    <3>1. SUFFICES ASSUME open # None, ~first, NEW x \in Shapes[open] \ changed' PROVE buf[x] = screen'[open][x]
      OBVIOUS
    <3>2. x \in F!Tiles /\ screen' = [screen EXCEPT ![d][t] = p] /\ changed' = IF open = d THEN changed \cup {t} ELSE changed
      BY <1>9, <3>1 DEF F!Tiles, F!Paint
    <3> QED BY <3>1, <3>2
  <2> QED BY <1>9, <2>2, <2>3 DEF F!Paint, F!cap, F!frame, F!Tiles
<1>10. ASSUME NEW d \in Panes, F!Select(d) PROVE PictureInv'
  BY <1>10 DEF F!Select, F!source, F!frame, F!Tiles
<1>11. CASE F!NewEncoder
  BY <1>11 DEF F!NewEncoder, F!source, F!frame, F!cap, F!Tiles
<1>12. CASE F!EndSession
  BY <1>12 DEF F!EndSession, F!frame, F!Tiles
<1>13. CASE F!LoopNotices
  BY <1>13 DEF F!LoopNotices, F!source, F!cap, F!Tiles
<1>14. CASE UNCHANGED F!vars
  BY <1>14 DEF F!vars, F!source, F!cap, F!frame, F!Tiles
<1> QED
  BY <1>1, <1>2, <1>3, <1>4, <1>5, <1>6, <1>7, <1>8, <1>9, <1>10, <1>11, <1>12, <1>13, <1>14 DEF F!Next, F!LoopStep

(* A desktop with nothing new to say is what the viewer shows, for tiles   *)
(* of any shape and any paints, however the displays are painted, chosen   *)
(* and lost and the encoders replaced (dxgi_windows.go, stream.go).        *)
THEOREM ScreenIsShown == ASSUME F!FrameAssumption PROVE F!Spec => []QuietScreenIsShown
<1>1. F!Init => PictureInv
  BY PictureStart
<1>2. PictureInv /\ [F!Next]_(F!vars) => PictureInv'
  BY PictureStep
<1>3. PictureInv => QuietScreenIsShown
  <2> SUFFICES ASSUME PictureInv, loop = "top", open = sel, ~first, changed = {}
               PROVE  viewer = [t \in Shapes[sel] |-> screen[sel][t]]
    BY DEF QuietScreenIsShown, F!QuietScreenIsShown, F!Restricted
  <2>1. viewer = buf /\ buf = [t \in Shapes[sel] |-> buf[t]] /\ \A t \in Shapes[sel] : buf[t] = screen[sel][t]
    BY DEF PictureInv, PictureTypes, DuplicationKnows, Panes, F!FrameAssumption
  <2> QED BY <2>1
<1> QED BY <1>1, <1>2, <1>3, PTL DEF F!Spec

-----------------------------------------------------------------------------
(* Files (SideSessions). *)

Sides == {f1, f2}
Chunks == (T!Ids \cup {None}) \X Nat
FileFrames ==
  [t : {"put"}, id : T!Ids, name : Names, size : Nat] \cup [t : {"bin"}, chunk : Chunks]
    \cup [t : {"get"}, name : Names] \cup [t : {"ls"}]
Transfers == [id : T!Ids \cup {None}, name : Names \cup {None}, size : Nat, inode : T!Ids \cup {None}, got : Seq(Chunks)]

FileTypes ==
  /\ kind = [s \in Sides |-> "files"] /\ sock \in [Sides -> {"open", "left", "closed"}]
  /\ uploads \in [Sides -> Seq(FileFrames)] /\ at \in [Sides -> {"start", "loop", "recv", "send", "over"}]
  /\ puts \in [Sides -> Nat] /\ DOMAIN sending = Sides
  /\ op \in [Sides -> Transfers] /\ alone \in [Sides -> BOOLEAN]
  /\ told \in [Sides -> {"nothing", "ok", "done", "err", "list"}]
  /\ dir \in [Names -> T!Ids \cup {None}] /\ data \in [T!Ids -> Seq(Chunks)]

(* Where the dashboard's uploads are before and after each frame on its    *)
(* way: which upload, of what size, and how much of it has been sent.  A   *)
(* put comes when the one before is complete, a chunk when it is not.      *)
Uploads == [id : T!Ids \cup {None}, size : Nat, sent : Nat]
Fits(p, f) ==
  /\ f.t = "put" => p.sent = p.size
  /\ f.t = "bin" => p.sent < p.size /\ f.chunk = <<p.id, p.sent + 1>>
Beyond(p, f) ==
  IF f.t = "put" THEN [id |-> f.id, size |-> f.size, sent |-> 0]
  ELSE IF f.t = "bin" THEN [p EXCEPT !.sent = p.sent + 1] ELSE p
Rest(p) == IF p.sent = p.size THEN {} ELSE {p}
Under(s) == [id |-> op[s].id, size |-> op[s].size, sent |-> Len(op[s].got)]

Follows(u, pos) ==
  /\ \A i \in 0..Len(u) : pos[i].sent <= pos[i].size
  /\ \A i \in 1..Len(u) : Fits(pos[i - 1], u[i]) /\ pos[i] = Beyond(pos[i - 1], u[i])
InOrder(s) ==
  \E pos \in [0..Len(uploads[s]) -> Uploads] :
    /\ Follows(uploads[s], pos)
    /\ at[s] = "recv" => pos[0] = Under(s)
    /\ sock[s] = "open" => sending[s] = Rest(pos[Len(uploads[s])])

(* The puts on their way have ids of their own.                            *)
Inodes == {dir[n] : n \in Names} \cup {op[s].inode : s \in Sides}
NumberedIn(s, u, n, inodes) ==
  /\ \A i \in 1..Len(u) : u[i].t = "put" => (\E k \in 1..n : u[i].id = <<s, k>>) /\ u[i].id \notin inodes
  /\ \A i, k \in 1..Len(u) : u[i].t = "put" /\ u[k].t = "put" /\ i # k => u[i].id # u[k].id
  /\ \A k \in Nat : k > n /\ <<s, k>> \in T!Ids => <<s, k>> \notin inodes
Numbered(s) == NumberedIn(s, uploads[s], puts[s], Inodes)

(* A file has one name, and no other session writes what is one's own.     *)
OneName ==
  /\ \A n, o \in Names : dir[n] = dir[o] /\ dir[n] # None => n = o
  /\ \A s \in Sides, n \in Names : dir[n] = op[s].inode /\ dir[n] # None => n = op[s].name
  /\ \A s, o \in Sides : op[s].inode = op[o].inode /\ op[s].inode # None => op[s].name = op[o].name
Uncontested ==
  \A s, o \in Sides : alone[s] /\ o # s /\ at[o] = "recv" => op[o].name # op[s].name

Contents(s) ==
  /\ at[s] \in {"recv", "send"} => told[s] = "nothing"
  /\ at[s] \in {"recv", "send"} \/ told[s] \in {"ok", "done"} => op[s].inode # None /\ op[s].name \in Names
  /\ at[s] = "recv" => /\ op[s].got = T!Frames(op[s].id, Len(op[s].got))
                       /\ alone[s] => dir[op[s].name] = op[s].inode /\ data[op[s].inode] = op[s].got
  /\ at[s] = "send" /\ alone[s] =>
       /\ op[s].size = Len(data[op[s].inode]) /\ Len(op[s].got) <= op[s].size
       /\ \A i \in 1..Len(op[s].got) : op[s].got[i] = data[op[s].inode][i]
  /\ told[s] = "ok" /\ alone[s] => dir[op[s].name] = op[s].inode /\ data[op[s].inode] = T!Frames(op[s].id, op[s].size)
  /\ told[s] = "done" /\ alone[s] => op[s].got = data[op[s].inode] /\ Len(op[s].got) = op[s].size

FilesInv ==
  /\ FileTypes /\ OneName /\ Uncontested
  /\ \A s \in Sides : InOrder(s) /\ Numbered(s) /\ Contents(s)

LEMMA FilesStart == ASSUME T!SideAssumption, T!Init PROVE FilesInv
<1> USE DEF T!Init
<1>1. FileTypes
  <2>1. T!NoOp \in Transfers
    BY DEF T!NoOp, Transfers
  <2> QED BY <2>1 DEF FileTypes, Sides
<1>2. OneName /\ Uncontested
  BY DEF OneName, Uncontested, T!NoOp, Sides
<1>3. ASSUME NEW s \in Sides PROVE InOrder(s) /\ Numbered(s) /\ Contents(s)
  <2>1. Follows(uploads[s], [i \in 0..0 |-> [id |-> None, size |-> 0, sent |-> 0]])
    BY DEF Follows, Sides
  <2>2. Contents(s)
    BY DEF Contents, Sides
  <2>3. Inodes \subseteq {None}
    BY DEF Inodes, T!NoOp, Sides
  <2>4. Numbered(s)
    BY <2>3 DEF Numbered, NumberedIn, Sides, T!SideAssumption
  <2>5. [i \in 0..0 |-> [id |-> None, size |-> 0, sent |-> 0]] \in [0..Len(uploads[s]) -> Uploads]
    BY DEF Uploads, Sides
  <2>6. InOrder(s)
    BY <2>1, <2>5 DEF InOrder, Rest, Sides
  <2> QED BY <2>2, <2>4, <2>6
<1> QED BY <1>1, <1>2, <1>3 DEF FilesInv

LEMMA FrameShapes ==
  /\ \A f \in FileFrames : /\ f.t \in {"put", "bin", "get", "ls"}
                           /\ f.t = "put" => f.id \in T!Ids /\ f.name \in Names /\ f.size \in Nat
                           /\ f.t = "bin" => f.chunk \in Chunks
                           /\ f.t = "get" => f.name \in Names
BY DEF FileFrames

(* What is left of a stream when its first frame has been read, and with a *)
(* frame more.                                                             *)
LEMMA FollowsTail ==
  ASSUME NEW u \in Seq(FileFrames), u # <<>>, NEW pos \in [0..Len(u) -> Uploads], Follows(u, pos)
  PROVE  /\ pos[0] \in Uploads /\ pos[0].sent <= pos[0].size /\ Fits(pos[0], Head(u)) /\ pos[1] = Beyond(pos[0], Head(u))
         /\ \E later \in [0..Len(Tail(u)) -> Uploads] :
              Follows(Tail(u), later) /\ later[0] = pos[1] /\ later[Len(Tail(u))] = pos[Len(u)]
<1>1. Len(u) \in Nat /\ Len(u) > 0 /\ Len(Tail(u)) = Len(u) - 1 /\ Head(u) = u[1]
  OBVIOUS
<1>2. \A i \in 1..Len(Tail(u)) : Tail(u)[i] = u[i + 1] /\ i + 1 \in 1..Len(u)
  BY <1>1
<1> DEFINE later == [i \in 0..Len(Tail(u)) |-> pos[i + 1]]
<1>3. later \in [0..Len(Tail(u)) -> Uploads] /\ \A i \in 0..Len(Tail(u)) : later[i].sent <= later[i].size
  BY <1>1 DEF Follows
<1>4. ASSUME NEW i \in 1..Len(Tail(u)) PROVE Fits(later[i - 1], Tail(u)[i]) /\ later[i] = Beyond(later[i - 1], Tail(u)[i])
  <2>1. later[i - 1] = pos[(i + 1) - 1] /\ later[i] = pos[i + 1]
    BY <1>1
  <2>2. Fits(pos[(i + 1) - 1], u[i + 1]) /\ pos[i + 1] = Beyond(pos[(i + 1) - 1], u[i + 1])
    BY <1>2 DEF Follows
  <2> HIDE DEF later
  <2> QED BY <1>2, <2>1, <2>2
<1>5. later[0] = pos[1] /\ later[Len(Tail(u))] = pos[Len(u)]
  BY <1>1
<1>6. Follows(Tail(u), later)
  BY <1>3, <1>4 DEF Follows
<1>7. pos[0] \in Uploads /\ pos[0].sent <= pos[0].size /\ Fits(pos[0], Head(u)) /\ pos[1] = Beyond(pos[0], Head(u))
  BY <1>1 DEF Follows
<1> QED BY <1>3, <1>5, <1>6, <1>7

LEMMA FollowsAppend ==
  ASSUME NEW u \in Seq(FileFrames), NEW f \in FileFrames, NEW pos \in [0..Len(u) -> Uploads], Follows(u, pos),
         Fits(pos[Len(u)], f), Beyond(pos[Len(u)], f) \in Uploads, Beyond(pos[Len(u)], f).sent <= Beyond(pos[Len(u)], f).size
  PROVE  \E more \in [0..Len(Append(u, f)) -> Uploads] :
           Follows(Append(u, f), more) /\ more[0] = pos[0] /\ more[Len(Append(u, f))] = Beyond(pos[Len(u)], f)
<1>1. Len(u) \in Nat /\ Len(Append(u, f)) = Len(u) + 1
      /\ Append(u, f)[Len(u) + 1] = f /\ \A i \in 1..Len(u) : Append(u, f)[i] = u[i]
  OBVIOUS
<1> DEFINE more == [i \in 0..Len(Append(u, f)) |-> IF i = Len(u) + 1 THEN Beyond(pos[Len(u)], f) ELSE pos[i]]
<1>2. more \in [0..Len(Append(u, f)) -> Uploads]
  BY <1>1
<1>3. \A i \in 0..Len(Append(u, f)) : more[i].sent <= more[i].size
  BY <1>1 DEF Follows
<1>4. ASSUME NEW i \in 1..Len(Append(u, f)) PROVE Fits(more[i - 1], Append(u, f)[i]) /\ more[i] = Beyond(more[i - 1], Append(u, f)[i])
  <2>1. CASE i \in 1..Len(u)
    <3>1. more[i - 1] = pos[i - 1] /\ more[i] = pos[i] /\ Append(u, f)[i] = u[i]
      BY <1>1, <2>1
    <3> HIDE DEF more
    <3> QED BY <2>1, <3>1 DEF Follows
  <2>2. CASE i = Len(u) + 1
    <3>1. more[i - 1] = pos[Len(u)] /\ more[i] = Beyond(pos[Len(u)], f) /\ Append(u, f)[i] = f
      BY <1>1, <2>2
    <3> HIDE DEF more
    <3> QED BY <3>1
  <2> QED BY <1>1, <2>1, <2>2
<1>5. more[0] = pos[0] /\ more[Len(Append(u, f))] = Beyond(pos[Len(u)], f)
  BY <1>1
<1>6. Follows(Append(u, f), more)
  BY <1>3, <1>4 DEF Follows
<1> QED BY <1>2, <1>5, <1>6

(* A session reads a frame, *)
LEMMA PopStep ==
  ASSUME NEW s \in Sides, FileTypes, InOrder(s), uploads[s] # <<>>, uploads' = [uploads EXCEPT ![s] = Tail(@)],
         UNCHANGED <<sock, sending>>,
         \A p \in Uploads : p.sent <= p.size /\ Fits(p, Head(uploads[s])) /\ (at[s] = "recv" => p = Under(s)) =>
                            (at'[s] = "recv" => Beyond(p, Head(uploads[s])) = Under(s)')
  PROVE  InOrder(s)'
<1> DEFINE u == uploads[s]
<1>1. u \in Seq(FileFrames) /\ uploads'[s] = Tail(u)
  BY DEF FileTypes
<1>2. PICK pos \in [0..Len(u) -> Uploads] :
        Follows(u, pos) /\ (at[s] = "recv" => pos[0] = Under(s)) /\ (sock[s] = "open" => sending[s] = Rest(pos[Len(u)]))
  BY DEF InOrder
<1>3. /\ pos[0] \in Uploads /\ pos[0].sent <= pos[0].size /\ Fits(pos[0], Head(u)) /\ pos[1] = Beyond(pos[0], Head(u))
      /\ \E later \in [0..Len(Tail(u)) -> Uploads] :
           Follows(Tail(u), later) /\ later[0] = pos[1] /\ later[Len(Tail(u))] = pos[Len(u)]
  BY <1>1, <1>2, FollowsTail
<1>4. at'[s] = "recv" => pos[1] = Under(s)'
  BY <1>2, <1>3
<1> QED BY <1>1, <1>2, <1>3, <1>4 DEF InOrder

(* or is sent one, *)
LEMMA SendStep ==
  ASSUME NEW s \in Sides, FileTypes, InOrder(s), NEW f \in FileFrames, uploads' = [uploads EXCEPT ![s] = Append(@, f)],
         UNCHANGED <<sock, at, op>>, sock[s] = "open",
         \A p \in Uploads : p.sent <= p.size /\ sending[s] = Rest(p) =>
           /\ Fits(p, f) /\ Beyond(p, f) \in Uploads /\ Beyond(p, f).sent <= Beyond(p, f).size
           /\ sending'[s] = Rest(Beyond(p, f))
  PROVE  InOrder(s)'
<1> DEFINE u == uploads[s]
<1>1. u \in Seq(FileFrames) /\ Len(u) \in 0..Len(u) /\ uploads'[s] = Append(u, f)
  BY DEF FileTypes
<1>2. PICK pos \in [0..Len(u) -> Uploads] :
        Follows(u, pos) /\ (at[s] = "recv" => pos[0] = Under(s)) /\ (sock[s] = "open" => sending[s] = Rest(pos[Len(u)]))
  BY DEF InOrder
<1> DEFINE p == pos[Len(u)]
<1>3. p \in Uploads /\ p.sent <= p.size /\ sending[s] = Rest(p)
  BY <1>1, <1>2 DEF Follows
<1>4. /\ Fits(p, f) /\ Beyond(p, f) \in Uploads /\ Beyond(p, f).sent <= Beyond(p, f).size
      /\ sending'[s] = Rest(Beyond(p, f))
  BY <1>3
<1>5. \E more \in [0..Len(Append(u, f)) -> Uploads] :
           Follows(Append(u, f), more) /\ more[0] = pos[0] /\ more[Len(Append(u, f))] = Beyond(p, f)
  BY <1>1, <1>2, <1>4, FollowsAppend
<1>6. Under(s)' = Under(s)
  BY DEF Under
<1> QED BY <1>1, <1>2, <1>4, <1>5, <1>6 DEF InOrder

(* or its stream is as it was. *)
LEMMA StayStep ==
  ASSUME NEW s \in Sides, InOrder(s), uploads'[s] = uploads[s],
         sock'[s] = "open" => sock[s] = "open" /\ sending'[s] = sending[s],
         at'[s] = "recv" => at[s] = "recv" /\ Under(s)' = Under(s)
  PROVE  InOrder(s)'
BY DEF InOrder

(* No put on its way is for an inode there is: when one is read, *)
LEMMA NumbersStay ==
  ASSUME NEW s, NEW u \in Seq(FileFrames), NEW n \in Nat, NEW inodes, NEW then, NumberedIn(s, u, n, inodes),
         NEW v, v = u \/ (u # <<>> /\ v = Tail(u)),
         \A i \in then \cap T!Ids : \/ i \in inodes
                                    \/ u # <<>> /\ v = Tail(u) /\ u[1].t = "put" /\ i = u[1].id
                                    \/ \E o, k : o # s /\ i = <<o, k>>
  PROVE  NumberedIn(s, v, n, then)
<1>1. Len(u) \in Nat /\ (u # <<>> => 1 \in 1..Len(u))
  OBVIOUS
<1>2. \A i \in 1..Len(u) : u[i].t = "put" => u[i].id \in T!Ids
  BY FrameShapes
<1>3. /\ \A i \in 1..Len(u) : u[i].t = "put" => (\E k \in 1..n : u[i].id = <<s, k>>) /\ u[i].id \notin inodes
      /\ \A i, k \in 1..Len(u) : u[i].t = "put" /\ u[k].t = "put" /\ i # k => u[i].id # u[k].id
      /\ \A k \in Nat : k > n /\ <<s, k>> \in T!Ids => <<s, k>> \notin inodes
  BY DEF NumberedIn
<1>4. \A k \in Nat : k > n /\ <<s, k>> \in T!Ids => <<s, k>> \notin then
  <2> SUFFICES ASSUME NEW k \in Nat, k > n, <<s, k>> \in T!Ids, <<s, k>> \in then PROVE FALSE
    OBVIOUS
  <2>1. u # <<>> /\ u[1].t = "put" /\ <<s, k>> = u[1].id
    BY <1>3
  <2>2. \E j \in 1..n : <<s, k>> = <<s, j>>
    BY <1>1, <1>3, <2>1
  <2> QED BY <2>2
<1>5. CASE v = u /\ (u # <<>> => v # Tail(u))
  BY <1>2, <1>3, <1>4, <1>5 DEF NumberedIn
<1>6. CASE u # <<>> /\ v = Tail(u)
  <2>1. \A i \in 1..Len(v) : v[i] = u[i + 1] /\ i + 1 \in 2..Len(u)
    BY <1>1, <1>6
  <2>2. ASSUME NEW i \in 2..Len(u), u[i].t = "put" PROVE u[i].id \notin then
    BY <1>1, <1>2, <1>3, <1>6, <2>2
  <2>3. \A i \in 1..Len(v) : v[i].t = "put" => (\E k \in 1..n : v[i].id = <<s, k>>) /\ v[i].id \notin then
    <3> SUFFICES ASSUME NEW i \in 1..Len(v), v[i].t = "put" PROVE (\E k \in 1..n : v[i].id = <<s, k>>) /\ v[i].id \notin then
      OBVIOUS
    <3>1. v[i] = u[i + 1] /\ i + 1 \in 2..Len(u) /\ i + 1 \in 1..Len(u)
      BY <1>1, <2>1
    <3>2. u[i + 1].t = "put"
      BY <3>1
    <3> QED BY <1>3, <2>2, <3>1, <3>2
  <2>4. \A i, k \in 1..Len(v) : v[i].t = "put" /\ v[k].t = "put" /\ i # k => v[i].id # v[k].id
    <3> SUFFICES ASSUME NEW i \in 1..Len(v), NEW k \in 1..Len(v), v[i].t = "put", v[k].t = "put", i # k PROVE v[i].id # v[k].id
      OBVIOUS
    <3>1. i + 1 \in 1..Len(u) /\ k + 1 \in 1..Len(u) /\ i + 1 # k + 1 /\ v[i] = u[i + 1] /\ v[k] = u[k + 1]
      BY <1>1, <2>1
    <3> QED BY <1>3, <3>1
  <2> QED BY <1>4, <2>3, <2>4 DEF NumberedIn
<1> QED BY <1>5, <1>6

LEMMA NumbersGo ==
  ASSUME NEW s, NEW u \in Seq(FileFrames), NEW n \in Nat, NEW inodes, NEW then, NumberedIn(s, u, n, inodes), u # <<>>,
         \A i \in then \cap T!Ids : i \in inodes \/ (u[1].t = "put" /\ i = u[1].id)
  PROVE  NumberedIn(s, Tail(u), n, then)
<1> DEFINE v == Tail(u)
<1>1. \A i \in then \cap T!Ids :
        \/ i \in inodes
        \/ u # <<>> /\ v = Tail(u) /\ u[1].t = "put" /\ i = u[1].id
        \/ \E o, k : o # s /\ i = <<o, k>>
  OBVIOUS
<1>2. v = u \/ (u # <<>> /\ v = Tail(u))
  OBVIOUS
<1> HIDE DEF v
<1>3. NumberedIn(s, v, n, then)
  BY ONLY <1>1, <1>2, NumbersStay, u \in Seq(FileFrames), n \in Nat, NumberedIn(s, u, n, inodes)
<1> QED BY <1>3 DEF v

(* and when one is sent. *)
LEMMA NumbersGrow ==
  ASSUME NEW s, NEW u \in Seq(FileFrames), NEW n \in Nat, NEW inodes, NumberedIn(s, u, n, inodes),
         NEW f \in FileFrames, NEW k \in Nat, IF f.t = "put" THEN k = n + 1 /\ f.id = <<s, k>> ELSE k = n
  PROVE  NumberedIn(s, Append(u, f), k, inodes)
<1>1. Len(u) \in Nat /\ Len(Append(u, f)) = Len(u) + 1
      /\ Append(u, f)[Len(u) + 1] = f /\ \A i \in 1..Len(u) : Append(u, f)[i] = u[i]
  OBVIOUS
<1>2. /\ \A i \in 1..Len(u) : u[i].t = "put" => (\E j \in 1..n : u[i].id = <<s, j>>) /\ u[i].id \notin inodes
      /\ \A i, j \in 1..Len(u) : u[i].t = "put" /\ u[j].t = "put" /\ i # j => u[i].id # u[j].id
      /\ \A j \in Nat : j > n /\ <<s, j>> \in T!Ids => <<s, j>> \notin inodes
  BY DEF NumberedIn
<1>3. n <= k
  OBVIOUS
<1>4. f.t = "put" => k \in 1..k /\ f.id = <<s, k>> /\ f.id \notin inodes /\ \A i \in 1..Len(u) : u[i].t = "put" => u[i].id # f.id
  <2> SUFFICES ASSUME f.t = "put" PROVE f.id \notin inodes /\ \A i \in 1..Len(u) : u[i].t = "put" => u[i].id # f.id
    OBVIOUS
  <2>1. f.id \in T!Ids /\ k > n /\ f.id = <<s, k>>
    BY FrameShapes
  <2>2. \A j \in 1..n : <<s, j>> # <<s, k>>
    BY <2>1
  <2> QED BY <1>2, <2>1, <2>2
<1>5. \A i \in 1..Len(u) : u[i].t = "put" => \E j \in 1..k : u[i].id = <<s, j>>
  BY <1>2, <1>3
<1>6. \A i \in 1..Len(Append(u, f)) : IF i \in 1..Len(u) THEN Append(u, f)[i] = u[i] ELSE i = Len(u) + 1 /\ Append(u, f)[i] = f
  BY <1>1
<1>7. \A i \in 1..Len(Append(u, f)) : Append(u, f)[i].t = "put" =>
        (\E j \in 1..k : Append(u, f)[i].id = <<s, j>>) /\ Append(u, f)[i].id \notin inodes
  BY <1>2, <1>4, <1>5, <1>6
<1>8. \A i, j \in 1..Len(Append(u, f)) : Append(u, f)[i].t = "put" /\ Append(u, f)[j].t = "put" /\ i # j =>
        Append(u, f)[i].id # Append(u, f)[j].id
  BY <1>2, <1>4, <1>6
<1>9. \A j \in Nat : j > k /\ <<s, j>> \in T!Ids => <<s, j>> \notin inodes
  BY <1>2, <1>3
<1> QED BY <1>7, <1>8, <1>9 DEF NumberedIn

(* The files of a session that another leaves as they were. *)
LEMMA ContentsStay ==
  ASSUME NEW s \in Sides, Contents(s), at'[s] = at[s], told'[s] = told[s], op'[s] = op[s], alone'[s] => alone[s],
         alone'[s] /\ op[s].inode # None /\ op[s].name \in Names =>
            dir'[op[s].name] = dir[op[s].name] /\ data'[op[s].inode] = data[op[s].inode]
  PROVE  Contents(s)'
BY DEF Contents

LEMMA ViewerSteps ==
  ASSUME T!SideAssumption, FilesInv, NEW s \in Sides, T!Click(s) \/ T!SendChunk(s) \/ T!AskFor(s) \/ T!ViewerLeaves(s)
  PROVE  FilesInv'
<1>1. UNCHANGED <<kind, system, at, op, told, alone, dir, data>>
  BY DEF T!Click, T!SendChunk, T!AskFor, T!ViewerLeaves, T!files
<1>2. OneName' /\ Uncontested' /\ \A o \in Sides : Contents(o)'
  BY <1>1 DEF FilesInv, OneName, Uncontested, Contents
<1>3. Inodes' = Inodes
  BY <1>1 DEF Inodes
<1>4. CASE T!ViewerLeaves(s)
  <2> USE <1>4 DEF T!ViewerLeaves
  <2>1. FileTypes'
    BY <1>1 DEF FilesInv, FileTypes
  <2>2. \A o \in Sides : InOrder(o)'
    BY <1>1, StayStep DEF FilesInv, FileTypes, Under
  <2>3. \A o \in Sides : Numbered(o)'
    BY <1>3 DEF FilesInv, Numbered
  <2> QED BY <1>2, <2>1, <2>2, <2>3 DEF FilesInv
<1>5. ASSUME sock[s] = "open", UNCHANGED <<sock>>, NEW f \in FileFrames, uploads' = [uploads EXCEPT ![s] = Append(@, f)],
             puts' \in [Sides -> Nat], \A o \in Sides \ {s} : puts'[o] = puts[o] /\ sending'[o] = sending[o], DOMAIN sending' = Sides,
             \A p \in Uploads : p.sent <= p.size /\ sending[s] = Rest(p) =>
               /\ Fits(p, f) /\ Beyond(p, f) \in Uploads /\ Beyond(p, f).sent <= Beyond(p, f).size
               /\ sending'[s] = Rest(Beyond(p, f)),
             IF f.t = "put" THEN puts'[s] = puts[s] + 1 /\ f.id = <<s, puts[s] + 1>> ELSE puts'[s] = puts[s]
      PROVE  FilesInv'
  <2>1. FileTypes'
    BY <1>1, <1>5 DEF FilesInv, FileTypes
  <2>2. InOrder(s)'
    BY <1>1, <1>5, SendStep DEF FilesInv
  <2>3. \A o \in Sides \ {s} : uploads'[o] = uploads[o]
    BY <1>5 DEF FilesInv, FileTypes
  <2>4. \A o \in Sides \ {s} : InOrder(o)' /\ Numbered(o)'
    BY <1>1, <1>3, <1>5, <2>3, StayStep DEF FilesInv, Numbered, Under
  <2>5. Numbered(s)'
    <3>1. uploads[s] \in Seq(FileFrames) /\ uploads'[s] = Append(uploads[s], f) /\ puts[s] \in Nat /\ puts'[s] \in Nat
      BY <1>5 DEF FilesInv, FileTypes
    <3> QED BY <1>3, <1>5, <3>1, NumbersGrow DEF FilesInv, Numbered
  <2> QED BY <1>2, <2>1, <2>2, <2>4, <2>5 DEF FilesInv
<1>6. CASE T!Click(s)
  <2> USE <1>6 DEF T!Click
  <2>1. PICK name \in Names, size \in 0..MaxSize :
          /\ uploads' = [uploads EXCEPT ![s] = Append(@, [t |-> "put", id |-> <<s, puts[s] + 1>>, name |-> name, size |-> size])]
          /\ sending' = [sending EXCEPT ![s] = IF size = 0 THEN @ ELSE @ \cup {[id |-> <<s, puts[s] + 1>>, size |-> size, sent |-> 0]}]
    BY DEF T!SendFrame
  <2> DEFINE f == [t |-> "put", id |-> <<s, puts[s] + 1>>, name |-> name, size |-> size]
  <2>2. <<s, puts[s] + 1>> \in T!Ids
    BY DEF T!Ids, T!SideAssumption, FilesInv, FileTypes, Sides
  <2>3. size \in Nat
    BY DEF T!SideAssumption
  <2>4. f \in FileFrames
    BY <2>2, <2>3 DEF FileFrames
  <2>5. sending[s] = {} /\ sock[s] = "open" /\ sock' = sock
    BY DEF T!CanSend
  <2>6. sending'[s] = IF size = 0 THEN {} ELSE {[id |-> <<s, puts[s] + 1>>, size |-> size, sent |-> 0]}
    BY <2>1, <2>5 DEF FilesInv, FileTypes
  <2>7. \A p \in Uploads : p.sent <= p.size /\ sending[s] = Rest(p) =>
               /\ Fits(p, f) /\ Beyond(p, f) \in Uploads /\ Beyond(p, f).sent <= Beyond(p, f).size
               /\ sending'[s] = Rest(Beyond(p, f))
    BY <2>2, <2>3, <2>5, <2>6 DEF Uploads, Fits, Beyond, Rest
  <2>8. puts' \in [Sides -> Nat] /\ (\A o \in Sides \ {s} : puts'[o] = puts[o] /\ sending'[o] = sending[o]) /\ DOMAIN sending' = Sides
        /\ puts'[s] = puts[s] + 1
    BY <2>1 DEF FilesInv, FileTypes
  <2>9. f.t = "put" /\ f.id = <<s, puts[s] + 1>>
    OBVIOUS
  <2>10. uploads' = [uploads EXCEPT ![s] = Append(@, f)]
    BY <2>1
  <2> HIDE DEF f
  <2> QED BY <1>5, <2>4, <2>5, <2>7, <2>8, <2>9, <2>10
<1>7. CASE T!SendChunk(s)
  <2> USE <1>7 DEF T!SendChunk
  <2>1. PICK w \in sending[s] :
          /\ uploads' = [uploads EXCEPT ![s] = Append(@, [t |-> "bin", chunk |-> <<w.id, w.sent + 1>>])]
          /\ sending' = [sending EXCEPT ![s] = (@ \ {w}) \cup IF w.sent + 1 = w.size THEN {} ELSE {[w EXCEPT !.sent = @ + 1]}]
    BY DEF T!SendFrame
  <2>2. sock[s] = "open" /\ sock' = sock /\ puts' = puts
    BY DEF T!CanSend
  <2>3. \E p \in Uploads : p.sent <= p.size /\ sending[s] = Rest(p)
    <3>1. PICK pos \in [0..Len(uploads[s]) -> Uploads] :
            Follows(uploads[s], pos) /\ (sock[s] = "open" => sending[s] = Rest(pos[Len(uploads[s])]))
      BY DEF FilesInv, InOrder
    <3>2. Len(uploads[s]) \in 0..Len(uploads[s])
      BY DEF FilesInv, FileTypes
    <3> QED BY <2>2, <3>1, <3>2 DEF Follows
  <2>4. \A p \in Uploads : sending[s] = Rest(p) => p = w /\ w.sent # w.size
    BY DEF Rest
  <2>5. w \in Uploads /\ w.sent < w.size /\ sending[s] = {w}
    BY <2>3, <2>4 DEF Uploads, Rest
  <2> DEFINE f == [t |-> "bin", chunk |-> <<w.id, w.sent + 1>>]
  <2>6. f \in FileFrames /\ f.t = "bin" /\ f.chunk = <<w.id, w.sent + 1>>
    BY <2>5 DEF FileFrames, Chunks, Uploads
  <2>7. sending'[s] = IF w.sent + 1 = w.size THEN {} ELSE {[w EXCEPT !.sent = w.sent + 1]}
    BY <2>1, <2>5 DEF FilesInv, FileTypes
  <2>8. uploads' = [uploads EXCEPT ![s] = Append(@, f)]
    BY <2>1
  <2> HIDE DEF f
  <2>9. Fits(w, f) /\ Beyond(w, f) = [w EXCEPT !.sent = w.sent + 1]
    BY <2>5, <2>6 DEF Fits, Beyond
  <2>10. Beyond(w, f) \in Uploads /\ Beyond(w, f).sent = w.sent + 1 /\ Beyond(w, f).size = w.size
    BY <2>5, <2>9 DEF Uploads
  <2>11. sending'[s] = Rest(Beyond(w, f)) /\ w.sent + 1 <= w.size
    BY <2>5, <2>7, <2>9, <2>10 DEF Rest, Uploads
  <2>12. puts' \in [Sides -> Nat] /\ (\A o \in Sides \ {s} : puts'[o] = puts[o] /\ sending'[o] = sending[o]) /\ DOMAIN sending' = Sides
    BY <2>1, <2>2 DEF FilesInv, FileTypes
  <2>13. \A p \in Uploads : p.sent <= p.size /\ sending[s] = Rest(p) =>
               /\ Fits(p, f) /\ Beyond(p, f) \in Uploads /\ Beyond(p, f).sent <= Beyond(p, f).size
               /\ sending'[s] = Rest(Beyond(p, f))
    BY <2>4, <2>9, <2>10, <2>11
  <2>14. puts'[s] = puts[s] /\ f.t # "put"
    BY <2>2, <2>6
  <2> QED BY <1>5, <2>2, <2>6, <2>8, <2>12, <2>13, <2>14
<1>8. CASE T!AskFor(s)
  <2> USE <1>8 DEF T!AskFor
  <2>1. kind[s] = "files" /\ sock[s] = "open" /\ UNCHANGED <<sock, puts, sending>>
    BY DEF T!CanSend, FilesInv, FileTypes, Sides, T!files
  <2>2. PICK f : uploads' = [uploads EXCEPT ![s] = Append(@, f)] /\ (f = [t |-> "ls"] \/ \E name \in Names : f = [t |-> "get", name |-> name])
    <3>1. CASE T!SendFrame(s, [t |-> "ls"])
      BY <3>1 DEF T!SendFrame
    <3>2. CASE \E name \in Names : T!SendFrame(s, [t |-> "get", name |-> name])
      <4>1. PICK name \in Names : T!SendFrame(s, [t |-> "get", name |-> name])
        BY <3>2
      <4>2. uploads' = [uploads EXCEPT ![s] = Append(@, [t |-> "get", name |-> name])]
        BY <4>1 DEF T!SendFrame
      <4> QED BY <4>2
    <3> QED BY <2>1, <3>1, <3>2
  <2>3. f \in FileFrames /\ f.t \in {"ls", "get"}
    BY <2>2 DEF FileFrames
  <2>4. \A p \in Uploads : Fits(p, f) /\ Beyond(p, f) = p
    BY <2>3 DEF Fits, Beyond
  <2>5. puts' \in [Sides -> Nat] /\ DOMAIN sending' = Sides
    BY <2>1 DEF FilesInv, FileTypes
  <2> QED BY <1>5, <2>1, <2>2, <2>3, <2>4, <2>5
<1> QED BY <1>4, <1>6, <1>7, <1>8

(* An agent's step takes a frame or none, and makes no inode but that of   *)
(* the put it takes. *)
LEMMA NumberedAll ==
  ASSUME FilesInv, NEW s \in Sides, puts' = puts,
         NEW taken \in BOOLEAN, IF taken THEN uploads[s] # <<>> /\ uploads' = [uploads EXCEPT ![s] = Tail(@)] ELSE uploads' = uploads,
         \A i \in Inodes' \cap T!Ids : i \in Inodes \/ (taken /\ uploads[s][1].t = "put" /\ i = uploads[s][1].id)
  PROVE  \A o \in Sides : Numbered(o)'
<1> TAKE o \in Sides
<1>1. uploads[o] \in Seq(FileFrames) /\ uploads[s] \in Seq(FileFrames) /\ puts[o] \in Nat /\ NumberedIn(o, uploads[o], puts[o], Inodes)
      /\ NumberedIn(s, uploads[s], puts[s], Inodes)
  BY DEF FilesInv, FileTypes, Numbered
<1>2. taken /\ uploads[s][1].t = "put" => \E k : uploads[s][1].id = <<s, k>>
  <2> HAVE taken /\ uploads[s][1].t = "put"
  <2>1. 1 \in 1..Len(uploads[s])
    BY <1>1
  <2> QED BY <1>1, <2>1 DEF NumberedIn
<1>3. CASE o = s /\ taken
  <2>1. uploads'[o] = Tail(uploads[o])
    BY <1>3 DEF FilesInv, FileTypes
  <2>2. \A i \in Inodes' \cap T!Ids : i \in Inodes \/ (uploads[o] # <<>> /\ uploads'[o] = Tail(uploads[o]) /\ uploads[o][1].t = "put" /\ i = uploads[o][1].id)
    BY <1>3, <2>1
  <2>3. uploads[o] # <<>>
    BY <1>3
  <2>4. NumberedIn(o, uploads'[o], puts[o], Inodes')
    <3> DEFINE u == uploads[o]  v == uploads'[o]  was == Inodes  is == Inodes'  count == puts[o]
    <3>1. u \in Seq(FileFrames) /\ count \in Nat /\ NumberedIn(o, u, count, was) /\ u # <<>> /\ v = Tail(u)
      BY <1>1, <2>1, <2>3
    <3>2. \A i \in is \cap T!Ids : i \in was \/ (u[1].t = "put" /\ i = u[1].id)
      BY <2>2
    <3> HIDE DEF u, v, was, is, count
    <3>3. NumberedIn(o, v, count, is)
      BY <3>1, <3>2, NumbersGo
    <3> QED BY <3>3 DEF u, v, was, is, count
  <2> QED BY <2>4 DEF Numbered
<1>4. CASE ~(o = s /\ taken)
  <2>1. uploads'[o] = uploads[o]
    BY <1>4 DEF FilesInv, FileTypes
  <2>2. \A i \in Inodes' \cap T!Ids : i \in Inodes \/ \E a, k : a # o /\ i = <<a, k>>
    BY <1>2, <1>4
  <2>3. NumberedIn(o, uploads'[o], puts[o], Inodes')
    BY <1>1, <2>1, <2>2, NumbersStay
  <2> QED BY <2>3 DEF Numbered
<1> QED BY <1>3, <1>4

(* Steps that touch neither the files nor the record of a transfer.        *)
LEMMA LocalStep ==
  ASSUME FilesInv, NEW s \in Sides, UNCHANGED <<kind, sock, puts, sending, op, alone, dir, data>>, FileTypes',
         uploads' = uploads \/ (uploads[s] # <<>> /\ uploads' = [uploads EXCEPT ![s] = Tail(@)]),
         \A o \in Sides \ {s} : at'[o] = at[o] /\ told'[o] = told[o],
         at'[s] = "recv" => at[s] = "recv", InOrder(s)', Contents(s)'
  PROVE  FilesInv'
<1>1. OneName'
  BY DEF FilesInv, OneName
<1>2. Uncontested'
  BY DEF FilesInv, Uncontested
<1>3. \A o \in Sides \ {s} : uploads'[o] = uploads[o]
  BY DEF FilesInv, FileTypes
<1>4. \A o \in Sides \ {s} : InOrder(o)'
  BY <1>3, StayStep DEF FilesInv, Under
<1>5. Inodes' = Inodes
  BY DEF Inodes
<1>6. \A o \in Sides : Numbered(o)'
  <2>1. CASE uploads' = uploads
    BY <1>5, <2>1, NumberedAll
  <2>2. CASE uploads[s] # <<>> /\ uploads' = [uploads EXCEPT ![s] = Tail(@)]
    BY <1>5, <2>2, NumberedAll
  <2> QED BY <2>1, <2>2
<1>7. \A o \in Sides \ {s} : Contents(o)'
  BY ContentsStay DEF FilesInv
<1> QED BY <1>1, <1>2, <1>4, <1>6, <1>7 DEF FilesInv

(* What the read of a frame finds. *)
LEMMA Reads ==
  ASSUME FilesInv, NEW s \in Sides, uploads[s] # <<>>
  PROVE  /\ uploads[s] \in Seq(FileFrames) /\ Head(uploads[s]) \in FileFrames /\ Head(uploads[s]) = uploads[s][1]
         /\ Tail(uploads[s]) \in Seq(FileFrames) /\ [uploads EXCEPT ![s] = Tail(@)] \in [Sides -> Seq(FileFrames)]
         /\ 1 \in 1..Len(uploads[s])
BY DEF FilesInv, FileTypes

LEMMA QuietSteps ==
  ASSUME FilesInv, NEW s \in Sides, T!StartFiles(s) \/ T!Skip(s) \/ T!Refuse(s) \/ T!DiskFails(s) \/ T!Received(s)
  PROVE  FilesInv'
<1> USE DEF T!NextUp
<1>1. CASE T!StartFiles(s)
  <2> USE <1>1 DEF T!StartFiles, T!Go, T!files
  <2>1. FileTypes'
    BY DEF FilesInv, FileTypes
  <2>2. at'[s] = "loop" /\ \A o \in Sides \ {s} : at'[o] = at[o] /\ told'[o] = told[o]
    BY DEF FilesInv, FileTypes
  <2>3. InOrder(s)'
    BY <2>2, StayStep DEF FilesInv
  <2>4. Contents(s)'
    BY <2>2 DEF FilesInv, Contents
  <2> QED BY <2>1, <2>2, <2>3, <2>4, LocalStep
<1>2. CASE T!Skip(s)
  <2> USE <1>2 DEF T!Skip, T!Say, T!Pop
  <2>1. told' = told \/ \E a \in {"list", "err"} : told' = [told EXCEPT ![s] = a]
    OBVIOUS
  <2>2. FileTypes'
    <3>1. told' \in [Sides -> {"nothing", "ok", "done", "err", "list"}]
      BY <2>1 DEF FilesInv, FileTypes
    <3>2. uploads' \in [Sides -> Seq(FileFrames)]
      BY Reads
    <3> QED BY <3>1, <3>2 DEF FilesInv, FileTypes
  <2>3. at'[s] = "loop" /\ \A o \in Sides \ {s} : at'[o] = at[o] /\ told'[o] = told[o]
    BY <2>1 DEF FilesInv, FileTypes
  <2>4. InOrder(s)'
    BY <2>3, PopStep DEF FilesInv
  <2>5. told'[s] \in {told[s], "list", "err"}
    BY <2>1 DEF FilesInv, FileTypes
  <2>6. Contents(s)'
    BY <2>3, <2>5 DEF FilesInv, Contents
  <2> QED BY <2>2, <2>3, <2>4, <2>6, LocalStep
<1>3. CASE T!Refuse(s)
  <2> USE <1>3 DEF T!Refuse, T!Say, T!Pop
  <2>2. FileTypes'
    BY Reads DEF FilesInv, FileTypes
  <2>3. at'[s] = "loop" /\ told'[s] = "err" /\ \A o \in Sides \ {s} : at'[o] = at[o] /\ told'[o] = told[o]
    BY DEF FilesInv, FileTypes
  <2>4. InOrder(s)'
    BY <2>3, PopStep DEF FilesInv
  <2>6. Contents(s)'
    BY <2>3 DEF FilesInv, Contents
  <2> QED BY <2>2, <2>3, <2>4, <2>6, LocalStep
<1>4. CASE T!DiskFails(s)
  <2> USE <1>4 DEF T!DiskFails, T!Say, T!Pop, T!Go
  <2>2. FileTypes'
    BY Reads DEF FilesInv, FileTypes
  <2>3. at'[s] = "loop" /\ told'[s] = "err" /\ \A o \in Sides \ {s} : at'[o] = at[o] /\ told'[o] = told[o]
    BY DEF FilesInv, FileTypes
  <2>4. InOrder(s)'
    BY <2>3, PopStep DEF FilesInv
  <2>6. Contents(s)'
    BY <2>3 DEF FilesInv, Contents
  <2> QED BY <2>2, <2>3, <2>4, <2>6, LocalStep
<1>5. CASE T!Received(s)
  <2> USE <1>5 DEF T!Received, T!Say, T!Go
  <2>2. FileTypes'
    BY DEF FilesInv, FileTypes
  <2>3. at'[s] = "loop" /\ told'[s] = "ok" /\ \A o \in Sides \ {s} : at'[o] = at[o] /\ told'[o] = told[o]
    BY DEF FilesInv, FileTypes
  <2>4. InOrder(s)'
    BY <2>3, StayStep DEF FilesInv
  <2>6. Contents(s)'
    BY <2>3 DEF FilesInv, Contents
  <2> QED BY <2>2, <2>3, <2>4, <2>6, LocalStep
<1> QED BY <1>1, <1>2, <1>3, <1>4, <1>5

LEMMA CreateStep ==
  ASSUME T!SideAssumption, FilesInv, NEW s \in Sides, T!Create(s)
  PROVE  FilesInv'
<1> DEFINE f == Head(uploads[s])
           inode == IF dir[f.name] = None THEN f.id ELSE dir[f.name]
<1> USE DEF T!Create, T!NextUp, T!Go, T!Say, T!Pop
<1>1. f \in FileFrames /\ f.t = "put" /\ f.id \in T!Ids /\ f.name \in Names /\ f.size \in Nat /\ uploads[s] # <<>>
  BY Reads, FrameShapes
<1>2. f.id \notin Inodes
  BY <1>1, Reads DEF FilesInv, Numbered, NumberedIn
<1>3. inode \in T!Ids /\ inode # None
  BY <1>1 DEF FilesInv, FileTypes, T!SideAssumption
<1>4. /\ at'[s] = "recv" /\ told'[s] = "nothing" /\ alone'[s] = ~T!Written(f.name)
      /\ op'[s] = [id |-> f.id, name |-> f.name, size |-> f.size, inode |-> inode, got |-> <<>>]
      /\ \A o \in Sides \ {s} : /\ at'[o] = at[o] /\ told'[o] = told[o] /\ op'[o] = op[o] /\ uploads'[o] = uploads[o]
                                /\ alone'[o] => alone[o] /\ op[o].name # f.name
  BY DEF FilesInv, FileTypes, T!Touched, Sides
<1>5. /\ \A name \in Names : dir'[name] = IF name = f.name THEN inode ELSE dir[name]
      /\ \A i \in T!Ids : data'[i] = IF i = inode THEN <<>> ELSE data[i]
  BY <1>1, <1>3 DEF FilesInv, FileTypes
<1>6. \A name \in Names : name # f.name => dir[name] # inode
  BY <1>1, <1>2 DEF FilesInv, OneName, Inodes
<1>7. \A o \in Sides : op[o].inode = inode => op[o].name = f.name
  BY <1>1, <1>2 DEF FilesInv, OneName, Inodes
<1>8. FileTypes'
  <2>1. op'[s] \in Transfers
    <3>1. <<>> \in Seq(Chunks)
      OBVIOUS
    <3> HIDE DEF f, inode, T!Create
    <3>2. f.id \in T!Ids \cup {None} /\ f.name \in Names \cup {None} /\ inode \in T!Ids \cup {None}
      BY <1>1, <1>3
    <3> QED BY <1>1, <1>4, <3>1, <3>2 DEF Transfers
  <2>2. op' \in [Sides -> Transfers]
    BY <1>4, <2>1 DEF FilesInv, FileTypes
  <2>3. alone' \in [Sides -> BOOLEAN]
    BY DEF T!Touched, T!Written, Sides, FilesInv, FileTypes
  <2>4. at' \in [Sides -> {"start", "loop", "recv", "send", "over"}] /\ told' \in [Sides -> {"nothing", "ok", "done", "err", "list"}]
    BY DEF FilesInv, FileTypes
  <2>5. uploads' \in [Sides -> Seq(FileFrames)]
    BY <1>1, Reads
  <2>6. dir' \in [Names -> T!Ids \cup {None}] /\ data' \in [T!Ids -> Seq(Chunks)]
    <3>1. dir \in [Names -> T!Ids \cup {None}] /\ data \in [T!Ids -> Seq(Chunks)]
      BY DEF FilesInv, FileTypes
    <3>2. dir' \in [Names -> T!Ids \cup {None}]
      BY <1>1, <1>3, <3>1
    <3>3. data' \in [T!Ids -> Seq(Chunks)]
      BY <1>1, <1>3, <3>1
    <3> QED BY ONLY <3>2, <3>3
  <2> QED BY <2>2, <2>3, <2>4, <2>5, <2>6 DEF FilesInv, FileTypes
<1> HIDE DEF inode, T!Create
<1>9. OneName'
  <2>1. \A n1, n2 \in Names : dir'[n1] = dir'[n2] /\ dir'[n1] # None => n1 = n2
    BY <1>5, <1>6 DEF FilesInv, OneName
  <2>2. ASSUME NEW o \in Sides, NEW name \in Names, dir'[name] = op'[o].inode, dir'[name] # None PROVE name = op'[o].name
    <3>1. CASE o = s
      BY <1>4, <1>5, <1>6, <2>2, <3>1
    <3>2. CASE o # s
      BY <1>4, <1>5, <1>7, <2>2, <3>2 DEF FilesInv, OneName
    <3> QED BY <3>1, <3>2
  <2>3. ASSUME NEW a \in Sides, NEW o \in Sides, op'[a].inode = op'[o].inode, op'[a].inode # None PROVE op'[a].name = op'[o].name
    BY <1>4, <1>7, <2>3 DEF FilesInv, OneName
  <2> QED BY <2>1, <2>2, <2>3 DEF OneName
<1>10. Uncontested'
  <2> SUFFICES ASSUME NEW a \in Sides, NEW o \in Sides, alone'[a], o # a, at'[o] = "recv" PROVE op'[o].name # op'[a].name
    BY DEF Uncontested
  <2>1. CASE a = s
    <3>1. at[o] = "recv" /\ op'[o] = op[o]
      BY <1>4, <2>1
    <3>2. op[o].name # f.name
      BY <1>4, <2>1, <3>1 DEF T!Written, Sides
    <3> QED BY <1>4, <2>1, <3>1, <3>2
  <2>2. CASE a # s /\ o = s
    BY <1>4, <2>2
  <2>3. CASE a # s /\ o # s
    BY <1>4, <2>3 DEF FilesInv, Uncontested
  <2> QED BY <2>1, <2>2, <2>3
<1>11. UNCHANGED <<kind, sock, puts, sending>> /\ uploads' = [uploads EXCEPT ![s] = Tail(@)]
  BY DEF T!Create
<1>12. InOrder(s)'
  <2>1. Under(s)' = [id |-> f.id, size |-> f.size, sent |-> 0]
    BY <1>4 DEF Under
  <2>2. \A p \in Uploads : Beyond(p, f) = Under(s)'
    BY <1>1, <2>1 DEF Beyond
  <2> QED BY <1>1, <1>11, <2>2, PopStep DEF FilesInv
<1>13. \A o \in Sides \ {s} : InOrder(o)'
  BY <1>4, <1>11, StayStep DEF FilesInv, Under
<1>14. \A o \in Sides : Numbered(o)'
  <2>1. \A i \in Inodes' : i \in Inodes \/ i = inode
    BY <1>4, <1>5 DEF Inodes
  <2>2. inode \in Inodes \/ inode = f.id
    BY <1>1 DEF Inodes, inode
  <2> QED BY <1>1, <1>11, <2>1, <2>2, NumberedAll, Reads
<1>15. Contents(s)'
  <2>1. T!Frames(f.id, 0) = <<>>
    BY DEF T!Frames
  <2> QED BY <1>1, <1>3, <1>4, <1>5, <2>1 DEF Contents
<1>16. ASSUME NEW o \in Sides \ {s} PROVE Contents(o)'
  <2>1. alone'[o] /\ op[o].inode # None /\ op[o].name \in Names =>
          dir'[op[o].name] = dir[op[o].name] /\ data'[op[o].inode] = data[op[o].inode]
    <3>1. op[o].inode \in T!Ids \cup {None}
      BY DEF FilesInv, FileTypes, Transfers
    <3> QED BY <1>4, <1>5, <1>7, <3>1
  <2> QED BY <1>4, <2>1, ContentsStay DEF FilesInv
<1> QED BY <1>8, <1>9, <1>10, <1>12, <1>13, <1>14, <1>15, <1>16 DEF FilesInv

(* Steps of a transfer that stays with its inode, or has none to make.     *)
LEMMA TransferStep ==
  ASSUME FilesInv, NEW s \in Sides, UNCHANGED <<kind, sock, puts, sending, dir>>, FileTypes',
         uploads' = uploads \/ (uploads[s] # <<>> /\ uploads' = [uploads EXCEPT ![s] = Tail(@)]),
         \A o \in Sides \ {s} : at'[o] = at[o] /\ told'[o] = told[o] /\ op'[o] = op[o] /\ alone'[o] = alone[o],
         \/ op'[s].inode = op[s].inode /\ op'[s].name = op[s].name
         \/ op'[s].name \in Names /\ op'[s].inode = dir[op'[s].name] /\ op'[s].inode # None,
         at'[s] = "recv" => at[s] = "recv" /\ op'[s].name = op[s].name,
         \A o \in Sides \ {s} : alone'[s] /\ at[o] = "recv" => op[o].name # op'[s].name,
         InOrder(s)', Contents(s)',
         \A o \in Sides \ {s} : alone[o] /\ op[o].inode # None /\ op[o].name \in Names => data'[op[o].inode] = data[op[o].inode]
  PROVE  FilesInv'
<1>1. OneName'
  <2>1. \A a, o \in Sides : op'[a].inode = op'[o].inode /\ op'[a].inode # None => op'[a].name = op'[o].name
    BY DEF FilesInv, OneName
  <2>2. \A o \in Sides, name \in Names : dir[name] = op'[o].inode /\ dir[name] # None => name = op'[o].name
    BY DEF FilesInv, OneName
  <2>3. \A n1, n2 \in Names : dir[n1] = dir[n2] /\ dir[n1] # None => n1 = n2
    BY DEF FilesInv, OneName
  <2> QED BY <2>1, <2>2, <2>3 DEF OneName
<1>2. Uncontested'
  <2> SUFFICES ASSUME NEW a \in Sides, NEW o \in Sides, alone'[a], o # a, at'[o] = "recv" PROVE op'[o].name # op'[a].name
    BY DEF Uncontested
  <2>1. CASE a = s
    BY <2>1
  <2>2. CASE a # s
    <3>1. alone[a] /\ at[o] = "recv" /\ op'[a] = op[a] /\ op'[o].name = op[o].name
      BY <2>2
    <3> QED BY <3>1 DEF FilesInv, Uncontested
  <2> QED BY <2>1, <2>2
<1>3. \A o \in Sides \ {s} : uploads'[o] = uploads[o]
  BY DEF FilesInv, FileTypes
<1>4. \A o \in Sides \ {s} : InOrder(o)'
  BY <1>3, StayStep DEF Under, FilesInv
<1>5. \A o \in Sides : Numbered(o)'
  <2>1. \A o \in Sides : op'[o].inode \in Inodes
    BY DEF Inodes
  <2>2. Inodes' \subseteq Inodes
    BY <2>1 DEF Inodes
  <2>3. CASE uploads' = uploads
    BY <2>2, <2>3, NumberedAll
  <2>4. CASE uploads[s] # <<>> /\ uploads' = [uploads EXCEPT ![s] = Tail(@)]
    BY <2>2, <2>4, NumberedAll
  <2> QED BY <2>3, <2>4
<1>6. \A o \in Sides \ {s} : Contents(o)'
  BY ContentsStay DEF FilesInv
<1> QED BY <1>1, <1>2, <1>4, <1>5, <1>6 DEF FilesInv

LEMMA OpenStep ==
  ASSUME T!SideAssumption, FilesInv, NEW s \in Sides, T!Open(s)
  PROVE  FilesInv'
<1> DEFINE f == Head(uploads[s])
           inode == dir[f.name]
           size == Len(data[inode])
           new == [id |-> None, name |-> f.name, size |-> size, inode |-> inode, got |-> <<>>]
<1> USE DEF T!Open, T!NextUp, T!Go, T!Say, T!Pop
<1>1. f.name \in Names /\ uploads[s] # <<>> /\ inode # None /\ inode \in T!Ids
  BY Reads, FrameShapes DEF FilesInv, FileTypes
<1>2. op' = [op EXCEPT ![s] = new] /\ op'[s] = new
  <2>1. op' = [op EXCEPT ![s] = new]
    OBVIOUS
  <2> HIDE DEF new, T!Open
  <2> QED BY <2>1 DEF FilesInv, FileTypes
<1>3. at'[s] = "send" /\ told'[s] = "nothing" /\ (alone'[s] => ~T!Written(f.name))
  BY DEF FilesInv, FileTypes
<1>4. \A o \in Sides \ {s} : at'[o] = at[o] /\ told'[o] = told[o] /\ op'[o] = op[o] /\ alone'[o] = alone[o]
  BY <1>2 DEF FilesInv, FileTypes
<1>5. data[inode] \in Seq(Chunks) /\ data' = data /\ size \in Nat
  BY <1>1 DEF FilesInv, FileTypes
<1>6. FileTypes'
  <2>1. new \in Transfers
    <3>1. <<>> \in Seq(Chunks)
      OBVIOUS
    <3>2. f.name \in Names \cup {None} /\ inode \in T!Ids \cup {None}
      BY <1>1
    <3> HIDE DEF f, inode, size, T!Open
    <3> QED BY <1>5, <3>1, <3>2 DEF Transfers
  <2>2. op' \in [Sides -> Transfers]
    BY <1>2, <2>1 DEF FilesInv, FileTypes
  <2>3. alone' \in [Sides -> BOOLEAN]
    BY DEF T!Written, FilesInv, FileTypes
  <2>4. at' \in [Sides -> {"start", "loop", "recv", "send", "over"}] /\ told' \in [Sides -> {"nothing", "ok", "done", "err", "list"}]
    BY DEF FilesInv, FileTypes
  <2>5. uploads' \in [Sides -> Seq(FileFrames)]
    BY <1>1, Reads
  <2> QED BY <2>2, <2>3, <2>4, <2>5 DEF FilesInv, FileTypes
<1>7. UNCHANGED <<kind, sock, puts, sending, dir>> /\ uploads' = [uploads EXCEPT ![s] = Tail(@)]
  OBVIOUS
<1>8. InOrder(s)'
  BY <1>1, <1>3, <1>7, PopStep DEF FilesInv
<1>9. op'[s].name = f.name /\ op'[s].inode = inode /\ op'[s].size = size /\ op'[s].got = <<>>
  <2> HIDE DEF f, inode, size, T!Open
  <2> QED BY <1>2
<1>10. Contents(s)'
  <2> HIDE DEF f, inode, T!Open, new
  <2> QED BY <1>1, <1>3, <1>5, <1>7, <1>9 DEF Contents
<1>11. \A o \in Sides \ {s} : alone'[s] /\ at[o] = "recv" => op[o].name # op'[s].name
  <2> HIDE DEF f, T!Open
  <2> QED BY <1>3, <1>9 DEF T!Written, Sides
<1>12. at'[s] # "recv" /\ uploads[s] # <<>> /\ data' = data /\ op'[s].inode = dir[op'[s].name]
  BY <1>1, <1>3, <1>5, <1>9
<1> HIDE DEF T!Open, f, new, inode
<1> QED BY <1>1, <1>4, <1>6, <1>7, <1>8, <1>9, <1>10, <1>11, <1>12, TransferStep

(* One chunk more. *)
LEMMA FramesGrow ==
  ASSUME NEW id \in T!Ids \cup {None}, NEW k \in Nat
  PROVE  /\ T!Frames(id, k) \in Seq(Chunks) /\ Len(T!Frames(id, k)) = k /\ <<id, k + 1>> \in Chunks
         /\ Append(T!Frames(id, k), <<id, k + 1>>) = T!Frames(id, k + 1)
<1>1. \A i \in Nat : <<id, i>> \in Chunks
  BY DEF Chunks
<1>2. \A j \in Nat : T!Frames(id, j) \in Seq(Chunks) /\ Len(T!Frames(id, j)) = j /\ \A i \in 1..j : T!Frames(id, j)[i] = <<id, i>>
  BY <1>1 DEF T!Frames
<1> DEFINE a == T!Frames(id, k)  b == T!Frames(id, k + 1)  c == <<id, k + 1>>
<1>3. a \in Seq(Chunks) /\ b \in Seq(Chunks) /\ c \in Chunks /\ Len(a) = k /\ Len(b) = k + 1 /\ b[k + 1] = c /\ \A i \in 1..k : a[i] = b[i]
  <2>1. a \in Seq(Chunks) /\ Len(a) = k /\ \A i \in 1..k : a[i] = <<id, i>>
    BY <1>2
  <2>2. k + 1 \in Nat /\ k + 1 \in 1..(k + 1) /\ \A i \in 1..k : i \in 1..(k + 1)
    OBVIOUS
  <2>3. b \in Seq(Chunks) /\ Len(b) = k + 1 /\ \A i \in 1..(k + 1) : b[i] = <<id, i>>
    BY <1>2, <2>2
  <2>4. c \in Chunks
    BY <1>1
  <2> HIDE DEF a, b
  <2> QED BY <2>1, <2>2, <2>3, <2>4
<1> HIDE DEF a, b, c
<1>4. Append(a, c) = b
  <2>1. Append(a, c) \in Seq(Chunks) /\ Len(Append(a, c)) = k + 1 /\ \A i \in 1..(k + 1) : Append(a, c)[i] = b[i]
    BY <1>3
  <2> QED BY <1>3, <2>1, SeqEqual
<1> QED BY <1>3, <1>4 DEF a, b, c

LEMMA PutTypes ==
  ASSUME NEW content \in Seq(Chunks), NEW k \in Nat, NEW chunk \in Chunks
  PROVE  T!Put(content, k, chunk) \in Seq(Chunks) /\ (Len(content) = k => T!Put(content, k, chunk) = Append(content, chunk))
<1>1. <<None, 0>> \in Chunks
  BY DEF Chunks
<1>2. T!Put(content, k, chunk) \in Seq(Chunks)
  <2> DEFINE size == IF Len(content) > k THEN Len(content) ELSE k + 1
  <2>1. size \in Nat /\ \A i \in 1..size : (IF i = k + 1 THEN chunk ELSE IF i <= Len(content) THEN content[i] ELSE <<None, 0>>) \in Chunks
    BY <1>1
  <2> HIDE DEF size
  <2>2. [i \in 1..size |-> IF i = k + 1 THEN chunk ELSE IF i <= Len(content) THEN content[i] ELSE <<None, 0>>] \in Seq(Chunks)
    BY <2>1
  <2> QED BY <2>2 DEF T!Put, size
<1>3. ASSUME Len(content) = k PROVE T!Put(content, k, chunk) = Append(content, chunk)
  <2> DEFINE a == Append(content, chunk)  b == T!Put(content, k, chunk)
  <2>1. a \in Seq(Chunks) /\ Len(a) = k + 1 /\ a[k + 1] = chunk /\ \A i \in 1..k : a[i] = content[i]
    BY <1>3
  <2>2. Len(b) = k + 1 /\ \A i \in 1..(k + 1) : b[i] = IF i = k + 1 THEN chunk ELSE content[i]
    BY <1>3 DEF T!Put
  <2> HIDE DEF a, b
  <2>3. \A i \in 1..Len(a) : a[i] = b[i]
    BY <1>3, <2>1, <2>2
  <2>4. b \in Seq(Chunks)
    BY <1>2 DEF b
  <2>5. a = b
    BY <2>1, <2>2, <2>3, <2>4, SeqEqual
  <2> QED BY <2>5 DEF a, b
<1> QED BY <1>2, <1>3

LEMMA ReceiveStep ==
  ASSUME T!SideAssumption, FilesInv, NEW s \in Sides, T!Receive(s)
  PROVE  FilesInv'
<1> DEFINE f == Head(uploads[s])
<1> USE DEF T!Receive, T!NextUp, T!Pop, T!Counted
<1>1. /\ at[s] = "recv" /\ Len(op[s].got) < op[s].size /\ uploads[s] # <<>> /\ f \in FileFrames
      /\ uploads' = [uploads EXCEPT ![s] = Tail(@)] /\ UNCHANGED <<kind, sock, at, puts, sending, told, alone, dir>>
  BY Reads
<1>2. op[s].id \in T!Ids \cup {None} /\ op[s].size \in Nat /\ op[s].got \in Seq(Chunks) /\ Len(op[s].got) \in Nat /\ op[s].inode \in T!Ids
      /\ op[s].name \in Names /\ op[s] \in Transfers
  BY <1>1 DEF FilesInv, FileTypes, Transfers, Contents
<1>3. Under(s) \in Uploads
  BY <1>2 DEF Uploads, Under
<1>4. uploads' \in [Sides -> Seq(FileFrames)]
  BY <1>1, Reads
<1>5. Fits(Under(s), f)
  <2>1. PICK pos \in [0..Len(uploads[s]) -> Uploads] : Follows(uploads[s], pos) /\ pos[0] = Under(s)
    BY <1>1 DEF FilesInv, InOrder
  <2> QED BY <1>1, <2>1, FollowsTail, Reads
<1>6. CASE f.t = "bin"
  <2> DEFINE k == Len(op[s].got)
             chunk == <<op[s].id, k + 1>>
             more == [op[s] EXCEPT !.got = Append(@, chunk)]
  <2>1. f.chunk = chunk
    BY <1>5, <1>6 DEF Fits, Under
  <2>2. op' = [op EXCEPT ![s].got = Append(@, chunk)] /\ data' = [data EXCEPT ![op[s].inode] = T!Put(@, k, chunk)]
    BY <1>6, <2>1
  <2> HIDE DEF T!Receive
  <2>3. chunk \in Chunks /\ Append(op[s].got, chunk) \in Seq(Chunks) /\ Len(Append(op[s].got, chunk)) = k + 1
    <3>1. chunk \in Chunks
      BY <1>2, FramesGrow
    <3> HIDE DEF chunk
    <3> QED BY <1>2, <3>1
  <2>4. more \in Transfers /\ more.id = op[s].id /\ more.name = op[s].name /\ more.size = op[s].size /\ more.inode = op[s].inode
        /\ more.got = Append(op[s].got, chunk)
    BY <1>2, <2>3 DEF Transfers
  <2>5. op' = [op EXCEPT ![s] = more]
    BY <2>2 DEF FilesInv, FileTypes
  <2> HIDE DEF more, chunk, f
  <2>6. op' \in [Sides -> Transfers] /\ op'[s] = more /\ \A o \in Sides \ {s} : op'[o] = op[o]
    BY <2>4, <2>5 DEF FilesInv, FileTypes
  <2>7. T!Put(data[op[s].inode], k, chunk) \in Seq(Chunks)
    BY <1>2, <2>3, PutTypes DEF FilesInv, FileTypes
  <2>8. data' \in [T!Ids -> Seq(Chunks)] /\ data'[op[s].inode] = T!Put(data[op[s].inode], k, chunk)
        /\ \A i \in T!Ids : i # op[s].inode => data'[i] = data[i]
    BY <1>2, <2>2, <2>7 DEF FilesInv, FileTypes
  <2>9. FileTypes'
    BY <1>1, <1>4, <2>6, <2>8 DEF FilesInv, FileTypes
  <2>10. InOrder(s)'
    <3>1. Under(s)' = [id |-> op[s].id, size |-> op[s].size, sent |-> k + 1]
      BY <2>3, <2>4, <2>6 DEF Under
    <3>2. Beyond(Under(s), f) = [id |-> op[s].id, size |-> op[s].size, sent |-> k + 1]
      BY <1>6 DEF Beyond, Under
    <3> QED BY <1>1, <3>1, <3>2, PopStep DEF FilesInv, f
  <2>11. Contents(s)'
    <3>1. op[s].got = T!Frames(op[s].id, k) /\ told[s] = "nothing" /\ op[s].inode # None
          /\ (alone[s] => dir[op[s].name] = op[s].inode /\ data[op[s].inode] = op[s].got)
      BY <1>1 DEF FilesInv, Contents
    <3>2. Append(op[s].got, chunk) = T!Frames(op[s].id, k + 1)
      BY <1>2, <3>1, FramesGrow DEF chunk
    <3>3. alone[s] => data'[op[s].inode] = Append(op[s].got, chunk)
      <4> HAVE alone[s]
      <4>1. data[op[s].inode] = op[s].got /\ Len(op[s].got) = k
        BY <3>1
      <4>2. T!Put(op[s].got, k, chunk) = Append(op[s].got, chunk)
        BY <1>2, <2>3, PutTypes
      <4> QED BY <2>8, <4>1, <4>2
    <3> QED BY <1>1, <1>2, <2>3, <2>4, <2>6, <3>1, <3>2, <3>3 DEF Contents
  <2>12. ASSUME NEW o \in Sides \ {s}, alone[o], op[o].inode # None PROVE data'[op[o].inode] = data[op[o].inode]
    <3>1. op[o].name # op[s].name
      BY <1>1, <2>12 DEF FilesInv, Uncontested
    <3>2. op[o].inode # op[s].inode
      BY <2>12, <3>1 DEF FilesInv, OneName
    <3>3. op[o].inode \in T!Ids
      BY <2>12 DEF FilesInv, FileTypes, Transfers
    <3> QED BY <2>8, <3>2, <3>3
  <2>13. \A o \in Sides \ {s} : alone'[s] /\ at[o] = "recv" => op[o].name # op'[s].name
    BY <1>1, <2>4, <2>6 DEF FilesInv, Uncontested
  <2> QED BY <1>1, <2>4, <2>6, <2>9, <2>10, <2>11, <2>12, <2>13, TransferStep
<1>7. CASE f.t # "bin"
  <2>1. UNCHANGED <<op, data>>
    BY <1>7
  <2> HIDE DEF T!Receive
  <2>2. f.t \in {"get", "ls"}
    BY <1>1, <1>2, <1>5, <1>7, FrameShapes DEF Fits, Under
  <2>3. Beyond(Under(s), f) = Under(s) /\ Under(s)' = Under(s)
    BY <2>1, <2>2 DEF Beyond, Under
  <2>4. InOrder(s)'
    BY <1>1, <2>3, PopStep DEF FilesInv
  <2>5. FileTypes'
    BY <1>1, <1>4, <2>1 DEF FilesInv, FileTypes
  <2>6. Contents(s)'
    BY <1>1, <2>1 DEF FilesInv, Contents
  <2> QED BY <1>1, <2>1, <2>4, <2>5, <2>6, LocalStep
<1> QED BY <1>6, <1>7

LEMMA SendingStep ==
  ASSUME T!SideAssumption, FilesInv, NEW s \in Sides, T!Send(s)
  PROVE  FilesInv'
<1> DEFINE k == Len(op[s].got)
           content == data[op[s].inode]
<1> USE DEF T!Send, T!Go, T!Say
<1>1. at[s] = "send" /\ UNCHANGED <<kind, sock, uploads, puts, sending, alone, dir, data>>
  OBVIOUS
<1>2. op[s].inode \in T!Ids /\ op[s].got \in Seq(Chunks) /\ k \in Nat /\ content \in Seq(Chunks) /\ DOMAIN content = 1..Len(content)
      /\ Len(content) \in Nat /\ op[s] \in Transfers /\ op[s].size \in Nat
  BY <1>1 DEF FilesInv, FileTypes, Transfers, Contents
<1>3. CASE k + 1 \in DOMAIN content /\ op' = [op EXCEPT ![s].got = Append(@, content[k + 1])] /\ UNCHANGED <<at, told>>
  <2> DEFINE more == [op[s] EXCEPT !.got = Append(@, content[k + 1])]
             longer == Append(op[s].got, content[k + 1])
  <2> HIDE DEF T!Send
  <2>1. longer \in Seq(Chunks) /\ Len(longer) = k + 1 /\ longer[k + 1] = content[k + 1] /\ \A i \in 1..k : longer[i] = op[s].got[i]
    <3>1. content[k + 1] \in Chunks
      BY <1>2, <1>3
    <3> HIDE DEF content
    <3> QED BY <1>2, <3>1
  <2>2. more \in Transfers /\ more.id = op[s].id /\ more.name = op[s].name /\ more.size = op[s].size /\ more.inode = op[s].inode
        /\ more.got = longer
    <3> HIDE DEF content
    <3> QED BY <1>2, <2>1 DEF Transfers
  <2>3. op' = [op EXCEPT ![s] = more]
    BY <1>3 DEF FilesInv, FileTypes
  <2> HIDE DEF more, longer
  <2>4. op' \in [Sides -> Transfers] /\ op'[s] = more /\ \A o \in Sides \ {s} : op'[o] = op[o]
    BY <2>2, <2>3 DEF FilesInv, FileTypes
  <2>5. FileTypes'
    BY <1>1, <1>3, <2>4 DEF FilesInv, FileTypes
  <2>6. InOrder(s)'
    BY <1>1, <1>3, StayStep DEF FilesInv
  <2>7. Contents(s)'
    <3>1. told[s] = "nothing" /\ op[s].inode # None /\ op[s].name \in Names
      BY <1>1 DEF FilesInv, Contents
    <3>2. alone[s] => op[s].size = Len(content) /\ \A i \in 1..k : op[s].got[i] = content[i]
      BY <1>1 DEF FilesInv, Contents
    <3>3. alone[s] => k + 1 <= op[s].size /\ \A i \in 1..(k + 1) : longer[i] = content[i]
      BY <1>2, <1>3, <2>1, <3>2
    <3>4. /\ at'[s] = "send" /\ told'[s] = "nothing" /\ alone' = alone /\ data' = data
          /\ op'[s].inode = op[s].inode /\ op'[s].name = op[s].name /\ op'[s].size = op[s].size
          /\ op'[s].got = longer /\ Len(longer) = k + 1
      BY <1>1, <1>3, <2>1, <2>2, <2>4, <3>1
    <3> HIDE DEF k, T!Go, T!Say
    <3> QED BY ONLY <3>1, <3>2, <3>3, <3>4 DEF Contents, content
  <2>8. \A o \in Sides \ {s} : alone'[s] /\ at[o] = "recv" => op[o].name # op'[s].name
    BY <1>1, <2>2, <2>4 DEF FilesInv, Uncontested
  <2> QED BY <1>1, <1>3, <2>2, <2>4, <2>5, <2>6, <2>7, <2>8, TransferStep
<1>4. CASE at' = [at EXCEPT ![s] = "loop"] /\ UNCHANGED op
           /\ \/ told' = [told EXCEPT ![s] = "err"]
              \/ told' = [told EXCEPT ![s] = "done"] /\ k + 1 \notin DOMAIN content
  <2> HIDE DEF T!Send
  <2>1. FileTypes'
    BY <1>1, <1>4 DEF FilesInv, FileTypes
  <2>2. at'[s] = "loop" /\ \A o \in Sides \ {s} : at'[o] = at[o] /\ told'[o] = told[o]
    BY <1>4 DEF FilesInv, FileTypes
  <2>3. InOrder(s)'
    BY <1>1, <2>2, StayStep DEF FilesInv
  <2>4. told'[s] = "err" \/ (told'[s] = "done" /\ k + 1 \notin DOMAIN content)
    BY <1>4 DEF FilesInv, FileTypes
  <2>5. told'[s] = "done" /\ alone[s] => op[s].got = content /\ k = op[s].size
    <3> HAVE told'[s] = "done" /\ alone[s]
    <3>1. op[s].size = Len(content) /\ k <= op[s].size /\ \A i \in 1..k : op[s].got[i] = content[i]
      BY <1>1 DEF FilesInv, Contents
    <3>2. k = Len(content)
      BY <1>2, <2>4, <3>1
    <3> HIDE DEF content
    <3> QED BY <1>2, <3>1, <3>2, SeqEqual
  <2>6. Contents(s)'
    <3>1. op[s].inode # None /\ op[s].name \in Names
      BY <1>1 DEF FilesInv, Contents
    <3> QED BY <1>1, <1>4, <2>2, <2>4, <2>5, <3>1 DEF Contents
  <2> QED BY <1>1, <1>4, <2>1, <2>2, <2>3, <2>6, LocalStep
<1> QED BY <1>3, <1>4

(* The viewer is gone: what came of an upload is removed by its name.      *)
LEMMA ReadFailsStep ==
  ASSUME T!SideAssumption, FilesInv, NEW s \in Sides, T!ReadFails(s)
  PROVE  FilesInv'
<1> USE DEF T!ReadFails, T!Go, T!Close, T!Say
<1>1. /\ at' = [at EXCEPT ![s] = "over"] /\ sock' = [sock EXCEPT ![s] = "closed"] /\ sending' = [sending EXCEPT ![s] = {}]
      /\ UNCHANGED <<kind, uploads, puts, op, data>>
  OBVIOUS
<1>2. \/ at[s] = "recv" /\ dir' = [dir EXCEPT ![op[s].name] = None] /\ alone' = T!Touched(s, op[s].name) /\ told' = [told EXCEPT ![s] = "err"]
      \/ UNCHANGED <<dir, alone, told>>
  OBVIOUS
<1> HIDE DEF T!ReadFails
<1>3. /\ at'[s] = "over" /\ sock'[s] = "closed" /\ told'[s] \in {told[s], "err"}
      /\ \A o \in Sides \ {s} : at'[o] = at[o] /\ told'[o] = told[o] /\ sock'[o] = sock[o] /\ sending'[o] = sending[o]
  BY <1>1, <1>2 DEF FilesInv, FileTypes
<1>4. \A o \in Sides : alone'[o] => alone[o] /\ (dir' = dir \/ o = s \/ op[o].name # op[s].name)
  BY <1>2 DEF T!Touched, Sides
<1>5. dir' = dir \/ (at[s] = "recv" /\ op[s].name \in Names /\ dir' = [dir EXCEPT ![op[s].name] = None])
  BY <1>2 DEF FilesInv, Contents
<1>6. \A name \in Names : dir'[name] = dir[name] \/ (at[s] = "recv" /\ dir'[name] = None /\ name = op[s].name)
  BY <1>5 DEF FilesInv, FileTypes
<1>7. FileTypes'
  <2>1. dir' \in [Names -> T!Ids \cup {None}]
    BY <1>5 DEF FilesInv, FileTypes
  <2>2. alone' \in [Sides -> BOOLEAN]
    BY <1>2 DEF FilesInv, FileTypes, T!Touched, Sides
  <2>3. told' \in [Sides -> {"nothing", "ok", "done", "err", "list"}]
    BY <1>2 DEF FilesInv, FileTypes
  <2>4. at' \in [Sides -> {"start", "loop", "recv", "send", "over"}] /\ sock' \in [Sides -> {"open", "left", "closed"}] /\ DOMAIN sending' = Sides
    BY <1>1 DEF FilesInv, FileTypes
  <2> QED BY <1>1, <2>1, <2>2, <2>3, <2>4 DEF FilesInv, FileTypes
<1>8. OneName'
  BY <1>1, <1>6 DEF FilesInv, OneName
<1>9. Uncontested'
  BY <1>1, <1>3, <1>4 DEF FilesInv, Uncontested
<1>10. \A o \in Sides : InOrder(o)'
  <2> TAKE o \in Sides
  <2>1. sock'[o] = "open" => sock[o] = "open" /\ sending'[o] = sending[o]
    BY <1>3
  <2>2. at'[o] = "recv" => at[o] = "recv" /\ Under(o)' = Under(o)
    BY <1>1, <1>3 DEF Under
  <2> QED BY <1>1, <2>1, <2>2, StayStep DEF FilesInv
<1>11. \A o \in Sides : Numbered(o)'
  <2>1. Inodes' \subseteq Inodes \cup {None}
    BY <1>1, <1>6 DEF Inodes
  <2>2. None \notin T!Ids
    BY DEF T!SideAssumption
  <2> QED BY <1>1, <2>1, <2>2, NumberedAll
<1>12. ASSUME NEW o \in Sides \ {s} PROVE Contents(o)'
  <2>1. alone'[o] /\ op[o].name \in Names => dir'[op[o].name] = dir[op[o].name]
    BY <1>4, <1>6
  <2> QED BY <1>1, <1>3, <1>4, <2>1, ContentsStay DEF FilesInv
<1>13. Contents(s)'
  <2>1. CASE at[s] = "recv" /\ told'[s] = "err"
    BY <1>1, <1>3, <2>1 DEF Contents
  <2>2. CASE UNCHANGED <<dir, alone, told>>
    BY <1>1, <1>3, <2>2 DEF FilesInv, Contents
  <2>3. told' = [told EXCEPT ![s] = "err"] => told'[s] = "err"
    BY DEF FilesInv, FileTypes
  <2> QED BY <1>2, <2>1, <2>2, <2>3
<1> QED BY <1>7, <1>8, <1>9, <1>10, <1>11, <1>12, <1>13 DEF FilesInv

(* A file session takes no step of a terminal that touches it. *)
LEMMA TerminalSteps ==
  ASSUME FilesInv, NEW s \in Sides,
         \/ T!StartShell(s) \/ T!NoShell(s) \/ T!Type(s) \/ T!Typed(s) \/ T!ReaderEnds(s) \/ T!OutputFails(s)
         \/ T!Closer(s) \/ T!ContextKills(s) \/ T!LoopEnds(s) \/ T!Teardown(s) \/ T!Drain(s) \/ T!ShellExits(s)
  PROVE  FilesInv'
<1>1. kind[s] = "files" /\ at[s] \notin {"term", "type", "close"}
  BY DEF FilesInv, FileTypes
<1>2. UNCHANGED <<kind, uploads, at, puts, sending, op, told, alone, dir, data>> /\ (sock' = sock \/ sock' = [sock EXCEPT ![s] = "closed"])
  <2>1. CASE T!StartShell(s) \/ T!NoShell(s) \/ T!Type(s) \/ T!Typed(s) \/ T!LoopEnds(s) \/ T!Teardown(s)
    BY <1>1, <2>1 DEF T!StartShell, T!NoShell, T!Type, T!Typed, T!LoopEnds, T!Teardown
  <2>2. CASE T!ReaderEnds(s) \/ T!OutputFails(s) \/ T!ContextKills(s) \/ T!Drain(s) \/ T!ShellExits(s)
    BY <2>2 DEF T!ReaderEnds, T!OutputFails, T!ContextKills, T!Drain, T!ShellExits, T!files
  <2>3. CASE T!Closer(s)
    BY <2>3 DEF T!Closer, T!Unblock, T!Close, T!files
  <2> QED BY <2>1, <2>2, <2>3
<1>3. FileTypes' /\ \A o \in Sides : sock'[o] = "open" => sock[o] = "open"
  BY <1>2 DEF FilesInv, FileTypes
<1>4. OneName' /\ Uncontested'
  BY <1>2 DEF FilesInv, OneName, Uncontested
<1>5. \A o \in Sides : InOrder(o)'
  BY <1>2, <1>3, StayStep DEF FilesInv, Under
<1>6. \A o \in Sides : Numbered(o)'
  BY <1>2 DEF FilesInv, Numbered, Inodes
<1>7. \A o \in Sides : Contents(o)'
  BY <1>2, ContentsStay DEF FilesInv
<1> QED BY <1>3, <1>4, <1>5, <1>6, <1>7 DEF FilesInv

LEMMA FilesStep == ASSUME T!SideAssumption, FilesInv, [T!Next]_(T!vars) PROVE FilesInv'
<1>1. CASE UNCHANGED T!vars
  <2>1. UNCHANGED <<kind, sock, uploads, at, puts, sending, op, told, alone, dir, data>>
    BY <1>1 DEF T!vars, T!files
  <2>2. FileTypes' /\ OneName' /\ Uncontested'
    BY <2>1 DEF FilesInv, FileTypes, OneName, Uncontested
  <2>3. \A o \in Sides : InOrder(o)' /\ Numbered(o)' /\ Contents(o)'
    <3> TAKE s \in Sides
    <3>1. InOrder(s)'
      BY <2>1, StayStep DEF FilesInv, Under
    <3>2. Numbered(s)'
      BY <2>1 DEF FilesInv, Numbered, Inodes
    <3>3. Contents(s)'
      BY <2>1, ContentsStay DEF FilesInv
    <3> QED BY <3>1, <3>2, <3>3
  <2> QED BY <2>2, <2>3 DEF FilesInv
<1>2. ASSUME NEW s \in Sides, T!Agent(s) PROVE FilesInv'
  BY <1>2, QuietSteps, CreateStep, ReceiveStep, OpenStep, SendingStep, ReadFailsStep, TerminalSteps DEF T!Agent
<1>3. ASSUME NEW s \in Sides,
             T!OutputFails(s) \/ T!Click(s) \/ T!SendChunk(s) \/ T!AskFor(s) \/ T!ViewerLeaves(s) \/ T!Drain(s) \/ T!ShellExits(s)
      PROVE  FilesInv'
  BY <1>3, ViewerSteps, TerminalSteps
<1> QED BY <1>1, <1>2, <1>3 DEF T!Next, Sides

(* What was answered of a transfer is the file, whatever comes in between  *)
(* and was refused or cut short before, unless another session writes it,  *)
(* for any names, sizes and frames on their way (recvFile, sendFile).      *)
THEOREM FilesAreWhole == ASSUME T!SideAssumption PROVE T!Spec => []TransfersAreWhole
<1>1. T!Init => FilesInv
  BY FilesStart
<1>2. FilesInv /\ [T!Next]_(T!vars) => FilesInv'
  BY FilesStep
<1>3. FilesInv => TransfersAreWhole
  <2> SUFFICES ASSUME FilesInv, NEW s \in Sides, alone[s]
               PROVE  /\ told[s] = "ok" => dir[op[s].name] # None /\ data[dir[op[s].name]] = T!Frames(op[s].id, op[s].size)
                      /\ told[s] = "done" => op[s].got = data[op[s].inode] /\ Len(op[s].got) = op[s].size
    BY DEF TransfersAreWhole, T!TransfersAreWhole, Sides
  <2>1. Contents(s)
    BY DEF FilesInv
  <2> QED BY <2>1 DEF Contents
<1> QED BY <1>1, <1>2, <1>3, PTL DEF T!Spec

-----------------------------------------------------------------------------
(* The pipeline (H264Pipeline): a place k in what a process writes, two    *)
(* pieces to a unit; each holder of output goes on where the one before it *)
(* ends.                                                                   *)
Readers == 1..MaxProcs
Pieces == Nat \X {1, 2}
WholeUnit(n) == <<<<n, 1>>, <<n, 2>>>>

(* The k-th piece a process writes, and what comes after the first k. *)
IsPiece(x, k) == \E n \in Nat : (k = 2 * n + 1 /\ x = <<n + 1, 1>>) \/ (k = 2 * n + 2 /\ x = <<n + 1, 2>>)
GoesOn(b, k) == \A i \in 1..Len(b) : IsPiece(b[i], k + i)

PipeTypes ==
  /\ alive \in [Readers -> BOOLEAN] /\ half \in [Readers -> BOOLEAN] /\ drained \in [Readers -> BOOLEAN] /\ made \in [Readers -> Nat]
  /\ pipe \in [Readers -> Seq(Pieces)] /\ chunks \in [Readers -> Seq(Seq(Pieces))] /\ nals \in [Readers -> Seq(Pieces)]
  /\ given \in [Readers -> Seq(Seq(Pieces))]
  /\ ffmpeg \in 0..started /\ started \in 0..MaxProcs
  /\ \A g \in Readers : half[g] => made[g] > 0

(* What the splitter holds goes on after the units it gave, the chunks it  *)
(* was handed after that, the pipe after those, up to what is written.     *)
Begun(g) == IF half[g] THEN 2 * made[g] - 1 ELSE 2 * made[g]
Handed(ch, from, pos) ==
  pos[0] = from /\ \A i \in 1..Len(ch) : GoesOn(ch[i], pos[i - 1]) /\ pos[i] = pos[i - 1] + Len(ch[i])
Coming(ch, from, pi, end, living) ==
  \E pos \in [0..Len(ch) -> Nat] :
    /\ Handed(ch, from, pos) /\ GoesOn(pi, pos[Len(ch)])
    /\ living => pos[Len(ch)] + Len(pi) = end
InStep(g) ==
  /\ \A i \in 1..Len(given[g]) : given[g][i] = WholeUnit(i)
  /\ Len(nals[g]) <= 2 /\ GoesOn(nals[g], 2 * Len(given[g]))
  /\ Coming(chunks[g], 2 * Len(given[g]) + Len(nals[g]), pipe[g], Begun(g), alive[g])

(* A process that is gone left half a unit behind. *)
CutShort(g) ==
  /\ ~alive[g] /\ nals[g] = <<>> /\ chunks[g] = <<>> /\ pipe[g] = <<>>
  /\ \A i \in 1..Len(given[g]) : given[g][i] = WholeUnit(i) \/ (i = Len(given[g]) /\ given[g][i] = <<<<i, 1>>>>)

Unstarted(g) ==
  ~alive[g] /\ given[g] = <<>> /\ nals[g] = <<>> /\ chunks[g] = <<>> /\ pipe[g] = <<>> /\ made[g] = 0 /\ ~half[g]

PipelineInv ==
  /\ PipeTypes /\ token \in BOOLEAN /\ woken \in BOOLEAN /\ (enc \in {"feeding", "waiting"} /\ token => woken)
  /\ \A g \in Readers : (InStep(g) \/ CutShort(g)) /\ (g > started => Unstarted(g))

-----------------------------------------------------------------------------
(* Pieces. *)
LEMMA PieceIs ==
  ASSUME NEW x, NEW n \in Nat
  PROVE  /\ IsPiece(x, 2 * n + 1) => x = <<n + 1, 1>>
         /\ IsPiece(x, 2 * n + 2) => x = <<n + 1, 2>>
         /\ IsPiece(<<n + 1, 1>>, 2 * n + 1) /\ IsPiece(<<n + 1, 2>>, 2 * n + 2)
BY DEF IsPiece

(* A count of the odd numbers, which is that of the delimiters. *)
Odds(m) == {2 * j - 1 : j \in 1..m}

LEMMA OddsAre == ASSUME NEW m \in Nat PROVE IsFiniteSet(Odds(m)) /\ Cardinality(Odds(m)) = m /\ Odds(m) \subseteq Nat
<1> DEFINE f == [j \in 1..m |-> 2 * j - 1]
<1>1. f \in Bijection(1..m, Odds(m))
  <2>1. f \in [1..m -> Odds(m)] /\ \A a, b \in 1..m : f[a] = f[b] => a = b
    BY DEF Odds
  <2>2. \A t \in Odds(m) : \E j \in 1..m : f[j] = t
    BY DEF Odds
  <2>3. DOMAIN f = 1..m
    OBVIOUS
  <2> HIDE DEF f
  <2> QED BY <2>1, <2>2, <2>3 DEF Bijection, Injection, Surjection, IsInjective
<1>2. ExistsBijection(1..m, Odds(m))
  BY <1>1 DEF ExistsBijection
<1>3. IsFiniteSet(1..m) /\ Cardinality(1..m) = m
  BY FS_Interval
<1> QED BY <1>2, <1>3, FS_Bijection DEF Odds

LEMMA SamePipelineCount == ASSUME NEW S PROVE H!Cardinality(S) = Cardinality(S)
BY DEF H!Cardinality, Cardinality

(* A part of a sequence. *)
LEMMA PartOf ==
  ASSUME NEW S, NEW b \in Seq(S), NEW i \in Nat \ {0}, NEW j \in Nat, i <= j + 1, j <= Len(b)
  PROVE  /\ SubSeq(b, i, j) \in Seq(S) /\ Len(SubSeq(b, i, j)) = j - i + 1
         /\ \A k \in 1..j - i + 1 : SubSeq(b, i, j)[k] = b[i - 1 + k]
<1>1. \A k \in i..j : b[k] \in S
  BY ElementOfSeq
<1>2. /\ SubSeq(b, i, j) \in Seq(S)
      /\ Len(SubSeq(b, i, j)) = IF i <= j THEN j - i + 1 ELSE 0
      /\ \A k \in 1..j - i + 1 : SubSeq(b, i, j)[k] = b[i + k - 1]
  BY <1>1, SubSeqProperties
<1>3. (IF i <= j THEN j - i + 1 ELSE 0) = j - i + 1 /\ \A k \in 1..j - i + 1 : i + k - 1 = i - 1 + k
  OBVIOUS
<1> QED BY <1>2, <1>3

LEMMA AsSequence == ASSUME NEW S, NEW n \in Nat, NEW f \in [1..n -> S] PROVE f \in Seq(S) /\ Len(f) = n
OBVIOUS

(* push: whole units, and no more than one held back.                      *)
LEMMA CutIsWhole ==
  ASSUME NEW b \in Seq(Pieces), NEW n \in Nat, GoesOn(b, 2 * n)
  PROVE  /\ H!Cut(b).units \in Seq(Seq(Pieces)) /\ H!Cut(b).rest \in Seq(Pieces)
         /\ \A i \in 1..Len(H!Cut(b).units) : H!Cut(b).units[i] = WholeUnit(n + i)
         /\ Len(H!Cut(b).rest) <= 2 /\ 2 * Len(H!Cut(b).units) + Len(H!Cut(b).rest) = Len(b)
         /\ GoesOn(H!Cut(b).rest, 2 * (n + Len(H!Cut(b).units)))
<1> DEFINE marks == H!Delimiters(b)
           all == Len(b)
<1>1. all \in Nat /\ \A i \in 1..all : b[i] \in Pieces
  OBVIOUS
<1>2. PICK m \in Nat : all = 2 * m \/ (m > 0 /\ all = 2 * m - 1)
  <2>1. (all + 1) \div 2 \in Nat /\ (all = 2 * ((all + 1) \div 2) \/ all = 2 * ((all + 1) \div 2) - 1)
    BY <1>1
  <2> QED BY <1>1, <2>1
<1>3. \A j \in 1..m :
        /\ b[2 * j - 1] = <<n + j, 1>> /\ 2 * j - 1 \in 1..all
        /\ 2 * j \in 1..all => b[2 * j] = <<n + j, 2>>
  <2> TAKE j \in 1..m
  <2>1. 2 * j - 1 \in 1..all
    BY <1>1, <1>2
  <2>2. IsPiece(b[2 * j - 1], 2 * n + (2 * j - 1)) /\ (2 * j \in 1..all => IsPiece(b[2 * j], 2 * n + 2 * j))
    BY <2>1 DEF GoesOn
  <2>3. n + j - 1 \in Nat /\ 2 * n + (2 * j - 1) = 2 * (n + j - 1) + 1 /\ 2 * n + 2 * j = 2 * (n + j - 1) + 2 /\ (n + j - 1) + 1 = n + j
    OBVIOUS
  <2> QED BY <2>1, <2>2, <2>3, PieceIs
<1>4. marks = Odds(m)
  <2>1. ASSUME NEW i \in 1..all PROVE b[i][2] = 1 <=> i \in Odds(m)
    <3>1. PICK j \in 1..m : i = 2 * j - 1 \/ i = 2 * j
      <4>1. (i + 1) \div 2 \in 1..m /\ (i = 2 * ((i + 1) \div 2) - 1 \/ i = 2 * ((i + 1) \div 2))
        BY <1>1, <1>2
      <4> QED BY <4>1
    <3>2. CASE i = 2 * j - 1
      <4>1. i \in Odds(m)
        BY <3>2 DEF Odds
      <4>2. b[i] = <<n + j, 1>>
        BY <1>3, <3>2
      <4> QED BY <4>1, <4>2
    <3>3. CASE i = 2 * j
      <4>1. i \notin Odds(m)
        BY <3>3 DEF Odds
      <4>2. b[i] = <<n + j, 2>>
        BY <1>3, <3>3
      <4> QED BY <4>1, <4>2
    <3> QED BY <3>1, <3>2, <3>3
  <2>2. Odds(m) \subseteq 1..all
    BY <1>3 DEF Odds
  <2>3. DOMAIN b = 1..all
    OBVIOUS
  <2> QED BY <2>1, <2>2, <2>3 DEF H!Delimiters
<1>5. H!Cardinality(marks) = m
  BY <1>4, OddsAre, SamePipelineCount
<1> HIDE DEF all, marks
<1>6. CASE m < 2
  <2>1. H!Cut(b) = [units |-> <<>>, rest |-> b]
    BY <1>5, <1>6 DEF H!Cut, marks
  <2>2. Len(b) <= 2
    BY <1>2, <1>6 DEF all
  <2> QED BY <1>1, <2>1, <2>2
<1>7. CASE m >= 2
  <2> DEFINE P(i) == CHOOSE p \in marks : H!Cardinality({q \in marks : q < p}) = i - 1
             units == [i \in 1..m - 1 |-> SubSeq(b, P(i), H!FirstOf({q \in marks : q > P(i)}) - 1)]
             rest == SubSeq(b, H!LastOf(marks), Len(b))
  <2>1. H!Cut(b) = [units |-> units, rest |-> rest]
    BY <1>5, <1>7 DEF H!Cut, marks
  <2>2. ASSUME NEW i \in 1..m PROVE P(i) = 2 * i - 1
    <3>1. \A j \in 1..m : {q \in marks : q < 2 * j - 1} = Odds(j - 1)
      BY <1>4 DEF Odds
    <3>2. \A j \in 1..m : H!Cardinality({q \in marks : q < 2 * j - 1}) = j - 1
      <4> TAKE j \in 1..m
      <4>1. j - 1 \in Nat
        OBVIOUS
      <4>2. H!Cardinality(Odds(j - 1)) = j - 1
        BY <4>1, OddsAre, SamePipelineCount
      <4> QED BY <3>1, <4>2
    <3>3. 2 * i - 1 \in marks
      BY <1>4 DEF Odds
    <3>4. \A p \in marks : \E j \in 1..m : p = 2 * j - 1
      BY <1>4 DEF Odds
    <3>5. \A p \in marks : H!Cardinality({q \in marks : q < p}) = i - 1 <=> p = 2 * i - 1
      <4> TAKE p \in marks
      <4>1. PICK j \in 1..m : p = 2 * j - 1
        BY <3>4
      <4>2. H!Cardinality({q \in marks : q < p}) = j - 1
        BY <3>2, <4>1
      <4> QED BY <4>1, <4>2
    <3> QED BY <3>3, <3>5
  <2>3. ASSUME NEW i \in 1..m - 1 PROVE H!FirstOf({q \in marks : q > 2 * i - 1}) = 2 * i + 1
    <3>1. 2 * i + 1 \in {q \in marks : q > 2 * i - 1} /\ \A q \in {p \in marks : p > 2 * i - 1} : 2 * i + 1 <= q /\ q \in Nat
      BY <1>4 DEF Odds
    <3> QED BY <3>1 DEF H!FirstOf
  <2>4. H!LastOf(marks) = 2 * m - 1
    <3>1. 2 * m - 1 \in marks /\ \A q \in marks : 2 * m - 1 >= q /\ q \in Nat
      BY <1>4, <1>7 DEF Odds
    <3> QED BY <3>1 DEF H!LastOf
  <2> HIDE DEF P
  <2>5. \A i \in 1..m - 1 : units[i] = SubSeq(b, 2 * i - 1, 2 * i)
    <3> TAKE i \in 1..m - 1
    <3>1. P(i) = 2 * i - 1 /\ H!FirstOf({q \in marks : q > P(i)}) - 1 = 2 * i
      <4>1. i \in 1..m
        BY <1>7
      <4>2. P(i) = 2 * i - 1
        BY <2>2, <4>1
      <4>3. H!FirstOf({q \in marks : q > P(i)}) = 2 * i + 1
        BY <2>3, <4>2
      <4> QED BY <4>2, <4>3
    <3> QED BY <3>1
  <2>6. ASSUME NEW i \in 1..m - 1 PROVE SubSeq(b, 2 * i - 1, 2 * i) = WholeUnit(n + i) /\ WholeUnit(n + i) \in Seq(Pieces)
    <3>1. i \in 1..m /\ 2 * i - 1 \in Int /\ 2 * i \in 1..all /\ b[2 * i - 1] = <<n + i, 1>> /\ b[2 * i] = <<n + i, 2>>
      BY <1>1, <1>2, <1>3
    <3>2. <<n + i, 1>> \in Pieces /\ <<n + i, 2>> \in Pieces /\ WholeUnit(n + i) \in Seq(Pieces)
      BY DEF Pieces, WholeUnit
    <3> DEFINE w == WholeUnit(n + i)  z == SubSeq(b, 2 * i - 1, 2 * i)
    <3>3. Len(w) = 2 /\ w[1] = <<n + i, 1>> /\ w[2] = <<n + i, 2>>
      BY DEF WholeUnit
    <3>4. z \in Seq(Pieces) /\ Len(z) = 2 /\ \A k \in 1..2 : z[k] = b[2 * i - 2 + k]
      <4>1. 2 * i - 1 \in Nat \ {0} /\ 2 * i \in Nat /\ 2 * i - 1 <= 2 * i + 1 /\ 2 * i <= Len(b)
        BY <3>1 DEF all
      <4>2. 2 * i - (2 * i - 1) + 1 = 2 /\ 2 * i - 1 - 1 = 2 * i - 2
        OBVIOUS
      <4>3. /\ z \in Seq(Pieces) /\ Len(z) = 2 * i - (2 * i - 1) + 1
            /\ \A k \in 1..2 * i - (2 * i - 1) + 1 : z[k] = b[2 * i - 1 - 1 + k]
        <5> DEFINE low == 2 * i - 1  high == 2 * i
        <5>1. low \in Nat \ {0} /\ high \in Nat /\ low <= high + 1 /\ high <= Len(b) /\ b \in Seq(Pieces)
          BY <4>1
        <5> HIDE DEF low, high
        <5>2. /\ SubSeq(b, low, high) \in Seq(Pieces) /\ Len(SubSeq(b, low, high)) = high - low + 1
              /\ \A k \in 1..high - low + 1 : SubSeq(b, low, high)[k] = b[low - 1 + k]
          BY ONLY <5>1, PartOf
        <5> QED BY ONLY <5>2 DEF low, high, z
      <4> QED BY <4>2, <4>3
    <3> HIDE DEF z
    <3>5. z[1] = <<n + i, 1>> /\ z[2] = <<n + i, 2>>
      <4>1. 2 * i - 2 + 1 = 2 * i - 1 /\ 2 * i - 2 + 2 = 2 * i
        OBVIOUS
      <4> QED BY <3>1, <3>4, <4>1
    <3> HIDE DEF w
    <3>6. \A k \in 1..Len(z) : z[k] = w[k]
      <4>1. \A k \in 1..2 : k = 1 \/ k = 2
        OBVIOUS
      <4>2. z[1] = w[1] /\ z[2] = w[2]
        BY <3>3, <3>5
      <4> QED BY <3>4, <4>1, <4>2
    <3>7. z = w
      BY <3>2, <3>3, <3>4, <3>6, SeqEqual DEF w
    <3> QED BY <3>2, <3>7 DEF w, z
  <2>7. units \in Seq(Seq(Pieces)) /\ Len(units) = m - 1
    <3>1. \A i \in 1..m - 1 : units[i] \in Seq(Pieces)
      BY <2>5, <2>6
    <3>2. m - 1 \in Nat
      BY <1>7
    <3>3. units \in [1..m - 1 -> Seq(Pieces)]
      BY <3>1
    <3> HIDE DEF units
    <3> QED BY <3>2, <3>3, AsSequence
  <2>8. \A i \in 1..m - 1 : units[i] = WholeUnit(n + i)
    BY <2>5, <2>6
  <2>9. rest \in Seq(Pieces) /\ Len(rest) = all - 2 * m + 2 /\ \A i \in 1..Len(rest) : rest[i] = b[2 * m - 2 + i]
    <3>1. 2 * m - 1 \in 1..all /\ Len(b) = all
      BY <1>1, <1>2, <1>7 DEF all
    <3>2. \A i \in (2 * m - 1)..all : b[i] \in Pieces
      BY <1>1, <3>1
    <3>3. rest = SubSeq(b, 2 * m - 1, all)
      BY <2>4 DEF all
    <3> HIDE DEF rest
    <3>4. rest \in Seq(Pieces) /\ Len(rest) = all - (2 * m - 1) + 1 /\ \A i \in 1..all - (2 * m - 1) + 1 : rest[i] = b[2 * m - 1 + i - 1]
      BY <3>1, <3>2, <3>3, <1>1, SubSeqProperties
    <3> QED BY <1>1, <3>1, <3>4
  <2> HIDE DEF units, rest
  <2>10. GoesOn(rest, 2 * (n + (m - 1)))
    <3> SUFFICES ASSUME NEW i \in 1..Len(rest) PROVE IsPiece(rest[i], 2 * (n + (m - 1)) + i)
      BY DEF GoesOn
    <3>1. 2 * m - 2 + i \in 1..all
      BY <1>1, <1>2, <1>7, <2>9
    <3>2. IsPiece(b[2 * m - 2 + i], 2 * n + (2 * m - 2 + i))
      BY <3>1 DEF GoesOn, all
    <3>3. 2 * n + (2 * m - 2 + i) = 2 * (n + (m - 1)) + i
      BY <2>9
    <3> QED BY <2>9, <3>2, <3>3
  <2>11. Len(rest) <= 2 /\ 2 * (m - 1) + Len(rest) = Len(b)
    BY <1>1, <1>2, <2>9 DEF all
  <2>12. H!Cut(b).units = units /\ H!Cut(b).rest = rest
    BY <2>1
  <2> QED BY <2>7, <2>8, <2>9, <2>10, <2>11, <2>12
<1>8. m < 2 \/ m >= 2
  OBVIOUS
<1> QED BY <1>6, <1>7, <1>8

-----------------------------------------------------------------------------
(* Steps. *)
LEMMA StaysSo ==
  ASSUME PipeTypes, NEW g \in Readers, InStep(g) \/ CutShort(g), g > started => Unstarted(g),
         given'[g] = given[g], nals'[g] = nals[g], chunks'[g] = chunks[g], made'[g] = made[g], half'[g] = half[g],
         pipe'[g] = pipe[g] \/ (pipe'[g] = <<>> /\ ~alive'[g]), alive'[g] => alive[g]
  PROVE  (InStep(g) \/ CutShort(g))' /\ (g > started => Unstarted(g)')
<1>1. g > started => Unstarted(g)'
  BY DEF Unstarted
<1>2. CutShort(g) => CutShort(g)'
  BY DEF CutShort
<1>3. Coming(chunks[g], 2 * Len(given[g]) + Len(nals[g]), pipe[g], Begun(g), alive[g])
      => Coming(chunks'[g], 2 * Len(given'[g]) + Len(nals'[g]), pipe'[g], Begun(g)', alive'[g])
  <2>1. Begun(g)' = Begun(g)
    BY DEF Begun
  <2>2. GoesOn(<<>>, 0) /\ \A k : GoesOn(<<>>, k)
    BY DEF GoesOn
  <2> QED BY <2>1, <2>2 DEF Coming
<1>4. InStep(g) => InStep(g)'
  BY <1>3 DEF InStep
<1> QED BY <1>1, <1>2, <1>4

LEMMA GoesOnFurther ==
  ASSUME NEW b \in Seq(Pieces), NEW x, NEW k \in Nat, GoesOn(b, k), IsPiece(x, k + Len(b) + 1)
  PROVE  GoesOn(Append(b, x), k)
<1> SUFFICES ASSUME NEW i \in 1..Len(Append(b, x)) PROVE IsPiece(Append(b, x)[i], k + i)
  BY DEF GoesOn
<1>1. CASE i \in 1..Len(b)
  <2>1. Append(b, x)[i] = b[i]
    BY <1>1
  <2> QED BY <1>1, <2>1 DEF GoesOn
<1>2. CASE i = Len(b) + 1
  <2>1. Append(b, x)[i] = x /\ k + Len(b) + 1 = k + i
    BY <1>2
  <2> QED BY <2>1
<1> QED BY <1>1, <1>2

LEMMA GoesOnJoined ==
  ASSUME NEW b \in Seq(Pieces), NEW c \in Seq(Pieces), NEW k \in Nat, GoesOn(b, k), GoesOn(c, k + Len(b))
  PROVE  GoesOn(b \o c, k)
<1> SUFFICES ASSUME NEW i \in 1..Len(b \o c) PROVE IsPiece((b \o c)[i], k + i)
  BY DEF GoesOn
<1>1. CASE i \in 1..Len(b)
  <2>1. (b \o c)[i] = b[i]
    BY <1>1
  <2> QED BY <1>1, <2>1 DEF GoesOn
<1>2. CASE i > Len(b)
  <2>1. i - Len(b) \in 1..Len(c) /\ (b \o c)[i] = c[i - Len(b)] /\ k + Len(b) + (i - Len(b)) = k + i
    BY <1>2
  <2>2. IsPiece(c[i - Len(b)], k + Len(b) + (i - Len(b)))
    BY <2>1 DEF GoesOn
  <2> QED BY <2>1, <2>2
<1> QED BY <1>1, <1>2

LEMMA GoesOnApart ==
  ASSUME NEW b \in Seq(Pieces), NEW k \in Nat, GoesOn(b, k), NEW j \in 1..Len(b)
  PROVE  /\ SubSeq(b, 1, j) \in Seq(Pieces) /\ Len(SubSeq(b, 1, j)) = j /\ GoesOn(SubSeq(b, 1, j), k)
         /\ SubSeq(b, j + 1, Len(b)) \in Seq(Pieces) /\ Len(SubSeq(b, j + 1, Len(b))) = Len(b) - j
         /\ GoesOn(SubSeq(b, j + 1, Len(b)), k + j)
<1> DEFINE p == SubSeq(b, 1, j)  q == SubSeq(b, j + 1, Len(b))
<1>1. Len(b) \in Nat /\ j \in Nat /\ 1 \in Nat \ {0} /\ j + 1 \in Nat \ {0} /\ j <= Len(b)
  OBVIOUS
<1>2. p \in Seq(Pieces) /\ Len(p) = j /\ \A i \in 1..j : p[i] = b[i]
  <2>1. /\ p \in Seq(Pieces) /\ Len(p) = j - 1 + 1
        /\ \A i \in 1..j - 1 + 1 : p[i] = b[1 - 1 + i]
    BY <1>1, PartOf
  <2>2. j - 1 + 1 = j /\ \A i \in 1..j : 1 - 1 + i = i
    OBVIOUS
  <2> QED BY <2>1, <2>2
<1>3. q \in Seq(Pieces) /\ Len(q) = Len(b) - j /\ \A i \in 1..Len(b) - j : q[i] = b[j + i]
  <2>1. /\ q \in Seq(Pieces) /\ Len(q) = Len(b) - (j + 1) + 1
        /\ \A i \in 1..Len(b) - (j + 1) + 1 : q[i] = b[j + 1 - 1 + i]
    BY <1>1, PartOf
  <2>2. Len(b) - (j + 1) + 1 = Len(b) - j /\ \A i \in 1..Len(b) - j : j + 1 - 1 + i = j + i
    BY <1>1
  <2> QED BY <2>1, <2>2
<1> HIDE DEF p, q
<1>4. GoesOn(p, k)
  <2> SUFFICES ASSUME NEW i \in 1..Len(p) PROVE IsPiece(p[i], k + i)
    BY DEF GoesOn
  <2>1. i \in 1..j /\ i \in 1..Len(b)
    BY <1>1, <1>2
  <2>2. p[i] = b[i] /\ IsPiece(b[i], k + i)
    BY <1>2, <2>1 DEF GoesOn
  <2> QED BY <2>2
<1>5. GoesOn(q, k + j)
  <2> SUFFICES ASSUME NEW i \in 1..Len(q) PROVE IsPiece(q[i], k + j + i)
    BY DEF GoesOn
  <2>1. j + i \in 1..Len(b) /\ q[i] = b[j + i] /\ k + (j + i) = k + j + i
    BY <1>1, <1>3
  <2>2. IsPiece(b[j + i], k + (j + i))
    BY <2>1 DEF GoesOn
  <2> QED BY <2>1, <2>2
<1> QED BY <1>2, <1>3, <1>4, <1>5 DEF p, q
LEMMA ComingMore ==
  ASSUME NEW ch \in Seq(Seq(Pieces)), NEW from \in Nat, NEW pi \in Seq(Pieces), NEW end \in Nat, NEW x,
         Coming(ch, from, pi, end, TRUE), IsPiece(x, end + 1)
  PROVE  Coming(ch, from, Append(pi, x), end + 1, TRUE)
<1>1. PICK pos \in [0..Len(ch) -> Nat] : Handed(ch, from, pos) /\ GoesOn(pi, pos[Len(ch)]) /\ pos[Len(ch)] + Len(pi) = end
  BY DEF Coming
<1>2. pos[Len(ch)] \in Nat
  <2>1. Len(ch) \in 0..Len(ch)
    OBVIOUS
  <2> QED BY <1>1, <2>1
<1>3. GoesOn(Append(pi, x), pos[Len(ch)])
  BY <1>1, <1>2, GoesOnFurther
<1>4. pos[Len(ch)] + Len(Append(pi, x)) = end + 1
  BY <1>1, <1>2
<1> QED BY <1>1, <1>3, <1>4 DEF Coming

LEMMA ComingRead ==
  ASSUME NEW ch \in Seq(Seq(Pieces)), NEW from \in Nat, NEW pi \in Seq(Pieces), NEW end \in Nat, NEW living \in BOOLEAN,
         Coming(ch, from, pi, end, living), NEW k \in 1..Len(pi)
  PROVE  Coming(Append(ch, SubSeq(pi, 1, k)), from, SubSeq(pi, k + 1, Len(pi)), end, living)
<1>1. PICK pos \in [0..Len(ch) -> Nat] :
        /\ Handed(ch, from, pos) /\ GoesOn(pi, pos[Len(ch)])
        /\ living => pos[Len(ch)] + Len(pi) = end
  BY DEF Coming
<1> DEFINE n == Len(ch)
           ch2 == Append(ch, SubSeq(pi, 1, k))
           pi2 == SubSeq(pi, k + 1, Len(pi))
           pos2 == [i \in 0..n + 1 |-> IF i = n + 1 THEN pos[n] + k ELSE pos[i]]
<1>2. n \in Nat /\ pos[n] \in Nat /\ Len(pi) \in Nat /\ k \in Nat
  BY <1>1
<1>3. /\ SubSeq(pi, 1, k) \in Seq(Pieces) /\ Len(SubSeq(pi, 1, k)) = k /\ GoesOn(SubSeq(pi, 1, k), pos[n])
      /\ pi2 \in Seq(Pieces) /\ Len(pi2) = Len(pi) - k /\ GoesOn(pi2, pos[n] + k)
  BY <1>1, <1>2, GoesOnApart
<1>4. Len(ch2) = n + 1 /\ ch2[n + 1] = SubSeq(pi, 1, k) /\ \A i \in 1..n : ch2[i] = ch[i]
  BY <1>2
<1>5. pos2 \in [0..n + 1 -> Nat] /\ pos2[n + 1] = pos[n] + k /\ \A i \in 0..n : pos2[i] = pos[i]
  BY <1>1, <1>2
<1> HIDE DEF ch2, pi2, pos2
<1>6. Handed(ch2, from, pos2)
  <2>1. pos2[0] = from
    BY <1>1, <1>2, <1>5 DEF Handed
  <2>2. ASSUME NEW i \in 1..Len(ch2) PROVE GoesOn(ch2[i], pos2[i - 1]) /\ pos2[i] = pos2[i - 1] + Len(ch2[i])
    <3>1. CASE i = n + 1
      <4>1. i - 1 = n /\ pos2[n] = pos[n]
        BY <1>2, <1>5, <3>1
      <4> QED BY <1>3, <1>4, <1>5, <3>1, <4>1
    <3>2. CASE i \in 1..n
      <4>1. i - 1 \in 0..n /\ i \in 0..n
        BY <1>2, <3>2
      <4>2. GoesOn(ch[i], pos[i - 1]) /\ pos[i] = pos[i - 1] + Len(ch[i])
        BY <1>1, <3>2 DEF Handed
      <4> QED BY <1>4, <1>5, <3>2, <4>1, <4>2
    <3>3. i = n + 1 \/ i \in 1..n
      BY <1>2, <1>4
    <3> QED BY <3>1, <3>2, <3>3
  <2> QED BY <2>1, <2>2 DEF Handed
<1>7. living => pos2[n + 1] + Len(pi2) = end
  BY <1>1, <1>2, <1>3, <1>5
<1>8. GoesOn(pi2, pos2[n + 1])
  BY <1>3, <1>5
<1>9. Coming(ch2, from, pi2, end, living)
  BY <1>4, <1>5, <1>6, <1>7, <1>8 DEF Coming
<1> QED BY <1>9 DEF ch2, pi2

LEMMA ComingHanded ==
  ASSUME NEW ch \in Seq(Seq(Pieces)), NEW from \in Nat, NEW pi \in Seq(Pieces), NEW end \in Nat, NEW living \in BOOLEAN,
         Coming(ch, from, pi, end, living), ch # <<>>
  PROVE  GoesOn(Head(ch), from) /\ Coming(Tail(ch), from + Len(Head(ch)), pi, end, living)
<1>1. PICK pos \in [0..Len(ch) -> Nat] :
        /\ Handed(ch, from, pos) /\ GoesOn(pi, pos[Len(ch)])
        /\ living => pos[Len(ch)] + Len(pi) = end
  BY DEF Coming
<1> DEFINE n == Len(ch)  ch2 == Tail(ch)  pos2 == [i \in 0..n - 1 |-> pos[i + 1]]
<1>2. n \in Nat \ {0} /\ Head(ch) = ch[1] /\ Len(ch2) = n - 1 /\ \A i \in 1..n - 1 : ch2[i] = ch[i + 1]
  OBVIOUS
<1>3. pos2 \in [0..n - 1 -> Nat] /\ pos2[n - 1] = pos[n] /\ \A i \in 0..n - 1 : pos2[i] = pos[i + 1]
  BY <1>1, <1>2
<1> HIDE DEF ch2, pos2
<1>4. GoesOn(ch[1], from) /\ pos[1] = from + Len(ch[1])
  <2>1. 1 \in 1..n /\ 1 - 1 = 0
    BY <1>2
  <2> QED BY <1>1, <2>1 DEF Handed
<1>5. Handed(ch2, from + Len(ch[1]), pos2)
  <2>1. pos2[0] = from + Len(ch[1])
    BY <1>2, <1>3, <1>4
  <2>2. ASSUME NEW i \in 1..n - 1 PROVE GoesOn(ch2[i], pos2[i - 1]) /\ pos2[i] = pos2[i - 1] + Len(ch2[i])
    <3>1. i + 1 \in 1..n /\ i - 1 \in 0..n - 1 /\ i \in 0..n - 1 /\ i - 1 + 1 = i /\ i + 1 - 1 = i
      BY <1>2
    <3>2. GoesOn(ch[i + 1], pos[i + 1 - 1]) /\ pos[i + 1] = pos[i + 1 - 1] + Len(ch[i + 1])
      BY <1>1, <3>1 DEF Handed
    <3>3. pos2[i - 1] = pos[i] /\ pos2[i] = pos[i + 1] /\ ch2[i] = ch[i + 1]
      BY <1>2, <1>3, <3>1
    <3> QED BY <3>1, <3>2, <3>3
  <2> QED BY <1>2, <2>1, <2>2 DEF Handed
<1>6. Coming(ch2, from + Len(ch[1]), pi, end, living)
  BY <1>1, <1>2, <1>3, <1>5 DEF Coming
<1> QED BY <1>2, <1>4, <1>6 DEF ch2

LEMMA ComingNothing ==
  ASSUME NEW from \in Nat, NEW end \in Nat, NEW living \in BOOLEAN
  PROVE  Coming(<<>>, from, <<>>, end, living) <=> (living => from = end)
<1>1. ASSUME living => from = end PROVE Coming(<<>>, from, <<>>, end, living)
  <2> DEFINE pos == [i \in 0..0 |-> from]
  <2>1. pos \in [0..0 -> Nat] /\ pos[0] = from
    OBVIOUS
  <2> HIDE DEF pos
  <2>2. Handed(<<>>, from, pos) /\ GoesOn(<<>>, pos[0])
    BY <2>1 DEF Handed, GoesOn
  <2>3. Len(<<>>) = 0 /\ (living => pos[0] + 0 = end)
    BY <1>1, <2>1
  <2> QED BY <2>1, <2>2, <2>3 DEF Coming
<1>2. ASSUME Coming(<<>>, from, <<>>, end, living) PROVE living => from = end
  <2>1. PICK pos \in [0..Len(<<>>) -> Nat] :
          /\ Handed(<<>>, from, pos)
          /\ living => pos[Len(<<>>)] + Len(<<>>) = end
    BY <1>2 DEF Coming
  <2>2. Len(<<>>) = 0 /\ pos[0] = from
    BY <2>1 DEF Handed
  <2> QED BY <2>1, <2>2
<1> QED BY <1>1, <1>2

(* A step leaves one process' output, at most, other than it was.          *)
LEMMA OthersStay ==
  ASSUME PipelineInv, NEW g \in Readers,
         \A r \in Readers \ {g} :
            /\ given'[r] = given[r] /\ nals'[r] = nals[r] /\ chunks'[r] = chunks[r] /\ made'[r] = made[r] /\ half'[r] = half[r]
            /\ pipe'[r] = pipe[r] \/ (pipe'[r] = <<>> /\ ~alive'[r])
            /\ alive'[r] => alive[r],
         PipeTypes', started \in Nat, started' \in Nat, started' >= started, token' \in BOOLEAN, woken' \in BOOLEAN,
         enc' \in {"feeding", "waiting"} /\ token' => woken',
         (InStep(g) \/ CutShort(g))', g > started' => Unstarted(g)'
  PROVE  PipelineInv'
<1>1. ASSUME NEW r \in Readers, r # g PROVE (InStep(r) \/ CutShort(r))' /\ (r > started => Unstarted(r)')
  BY <1>1, StaysSo DEF PipelineInv
<1>2. ASSUME NEW r \in Readers PROVE (InStep(r) \/ CutShort(r))' /\ (r > started' => Unstarted(r)')
  <2>1. r \in Int
    BY DEF Readers
  <2> QED BY <1>1, <2>1
<1> QED BY <1>2 DEF PipelineInv

LEMMA WriteKeeps == ASSUME PipelineInv, NEW g \in Readers, H!Write(g) PROVE PipelineInv'
<1> USE DEF PipelineInv, H!Write, H!dials, H!config, H!call, H!reader
<1>1. PipeTypes /\ alive[g] /\ g <= started /\ started \in Nat
  <2>1. PipeTypes /\ alive[g] /\ started \in Nat /\ g \in Int
    BY DEF PipeTypes, Readers
  <2> QED BY <2>1 DEF Unstarted
<1>2. PICK x : /\ IsPiece(x, Begun(g) + 1) /\ x \in Pieces /\ pipe' = [pipe EXCEPT ![g] = Append(@, x)]
               /\ Begun(g)' = Begun(g) + 1 /\ Begun(g) \in Nat
               /\ half' \in [Readers -> BOOLEAN] /\ made' \in [Readers -> Nat] /\ (half'[g] => made'[g] > 0)
               /\ \A r \in Readers \ {g} : half'[r] = half[r] /\ made'[r] = made[r]
  <2>1. CASE half[g] /\ half' = [half EXCEPT ![g] = FALSE] /\ pipe' = [pipe EXCEPT ![g] = Append(@, <<made[g], 2>>)] /\ UNCHANGED <<made, due>>
    <3>1. made[g] \in Nat /\ made[g] > 0 /\ half'[g] = FALSE /\ made'[g] = made[g]
      BY <1>1, <2>1 DEF PipeTypes
    <3>2. PICK n \in Nat : made[g] = n + 1
      <4>1. made[g] - 1 \in Nat /\ made[g] = made[g] - 1 + 1
        BY <3>1
      <4> QED BY <4>1
    <3>3. Begun(g) = 2 * n + 1 /\ Begun(g)' = 2 * n + 2
      BY <2>1, <3>1, <3>2 DEF Begun
    <3>4. IsPiece(<<made[g], 2>>, 2 * n + 2) /\ <<made[g], 2>> \in Pieces
      BY <3>1, <3>2, PieceIs DEF Pieces
    <3>5. Begun(g) + 1 = 2 * n + 2 /\ Begun(g) \in Nat
      BY <3>3
    <3>6. half' \in [Readers -> BOOLEAN] /\ made' \in [Readers -> Nat] /\ \A r \in Readers \ {g} : half'[r] = half[r] /\ made'[r] = made[r]
      BY <1>1, <2>1 DEF PipeTypes
    <3> QED BY <2>1, <3>1, <3>3, <3>4, <3>5, <3>6
  <2>2. CASE ~half[g] /\ half' = [half EXCEPT ![g] = TRUE] /\ pipe' = [pipe EXCEPT ![g] = Append(@, <<made[g] + 1, 1>>)] /\ made' = [made EXCEPT ![g] = @ + 1]
    <3>1. made[g] \in Nat /\ half'[g] = TRUE /\ made'[g] = made[g] + 1
      BY <1>1, <2>2 DEF PipeTypes
    <3>2. Begun(g) = 2 * made[g] /\ Begun(g)' = 2 * made[g] + 1
      BY <2>2, <3>1 DEF Begun
    <3>3. IsPiece(<<made[g] + 1, 1>>, 2 * made[g] + 1) /\ <<made[g] + 1, 1>> \in Pieces
      <4> DEFINE n == made[g]
      <4>1. n \in Nat
        BY <3>1
      <4> HIDE DEF n
      <4>2. IsPiece(<<n + 1, 1>>, 2 * n + 1) /\ <<n + 1, 1>> \in Pieces
        BY <4>1 DEF IsPiece, Pieces
      <4> QED BY <4>2 DEF n
    <3>4. 2 * made[g] \in Nat
      BY <3>1
    <3>5. half' \in [Readers -> BOOLEAN] /\ made' \in [Readers -> Nat] /\ \A r \in Readers \ {g} : half'[r] = half[r] /\ made'[r] = made[r]
      <4>1. half \in [Readers -> BOOLEAN] /\ made \in [Readers -> Nat]
        BY <1>1 DEF PipeTypes
      <4>2. half' \in [Readers -> BOOLEAN] /\ \A r \in Readers \ {g} : half'[r] = half[r]
        BY ONLY <4>1, <2>2
      <4>3. made' \in [Readers -> Nat] /\ \A r \in Readers \ {g} : made'[r] = made[r]
        BY ONLY <4>1, <2>2, <3>1
      <4> QED BY ONLY <4>2, <4>3
    <3>6. made[g] + 1 > 0
      BY <3>1
    <3> QED BY <2>2, <3>1, <3>2, <3>3, <3>4, <3>5, <3>6
  <2> QED BY <2>1, <2>2
<1>3. PipeTypes'
  <2>1. pipe' \in [Readers -> Seq(Pieces)]
    BY <1>1, <1>2 DEF PipeTypes
  <2>2. \A r \in Readers : half'[r] => made'[r] > 0
    BY <1>1, <1>2 DEF PipeTypes
  <2> QED BY <1>1, <1>2, <2>1, <2>2 DEF PipeTypes
<1>4. /\ pipe'[g] = Append(pipe[g], x) /\ alive'[g] = alive[g] /\ given'[g] = given[g]
      /\ nals'[g] = nals[g] /\ chunks'[g] = chunks[g] /\ started' = started /\ enc' = enc /\ token' = token /\ woken' = woken
  BY <1>1, <1>2 DEF PipeTypes
<1>5. InStep(g)
  BY <1>1 DEF CutShort
<1>6. Coming(chunks[g], 2 * Len(given[g]) + Len(nals[g]), Append(pipe[g], x), Begun(g) + 1, TRUE)
  <2>1. Coming(chunks[g], 2 * Len(given[g]) + Len(nals[g]), pipe[g], Begun(g), TRUE)
    BY <1>1, <1>5 DEF InStep
  <2>2. 2 * Len(given[g]) + Len(nals[g]) \in Nat
    BY <1>1 DEF PipeTypes
  <2>3. chunks[g] \in Seq(Seq(Pieces)) /\ pipe[g] \in Seq(Pieces)
    BY <1>1 DEF PipeTypes
  <2> QED BY <1>2, <2>1, <2>2, <2>3, ComingMore
<1>7. InStep(g)'
  <2>1. alive[g] = TRUE
    BY <1>1 DEF PipeTypes
  <2> QED BY <1>2, <1>4, <1>5, <1>6, <2>1 DEF InStep
<1>8. \A r \in Readers \ {g} :
         /\ given'[r] = given[r] /\ nals'[r] = nals[r] /\ chunks'[r] = chunks[r] /\ made'[r] = made[r] /\ half'[r] = half[r]
         /\ pipe'[r] = pipe[r] /\ alive'[r] = alive[r]
  BY <1>1, <1>2 DEF PipeTypes
<1>9. g \in Int /\ ~(g > started')
  BY <1>1, <1>4 DEF Readers
<1>10. token' \in BOOLEAN /\ woken' \in BOOLEAN /\ (enc' \in {"feeding", "waiting"} /\ token' => woken')
  BY <1>4
<1>11. started' \in Nat /\ started' >= started
  BY <1>1, <1>4
<1> HIDE DEF PipelineInv, H!Write
<1> QED BY <1>1, <1>3, <1>7, <1>8, <1>9, <1>10, <1>11, OthersStay

LEMMA TwiceAndMore == ASSUME NEW a \in Nat, NEW b \in Nat PROVE 2 * a + b \in Nat
OBVIOUS

LEMMA DiesKeeps == ASSUME PipelineInv, NEW g \in Readers, H!Dies(g) PROVE PipelineInv'
<1> USE DEF H!Dies, H!dials, H!config, H!call, H!reader
<1>1. PipeTypes /\ started \in Nat /\ (InStep(g) \/ CutShort(g)) /\ (g > started => Unstarted(g))
  BY DEF PipelineInv, PipeTypes
<1>2. PipeTypes'
  BY <1>1 DEF PipeTypes
<1>3. \A r \in Readers :
         /\ given'[r] = given[r] /\ nals'[r] = nals[r] /\ chunks'[r] = chunks[r] /\ made'[r] = made[r] /\ half'[r] = half[r]
         /\ pipe'[r] = pipe[r] /\ (alive'[r] => alive[r])
  BY <1>1 DEF PipeTypes
<1>4. (InStep(g) \/ CutShort(g))' /\ (g > started => Unstarted(g)')
  BY <1>1, <1>3, StaysSo
<1>5. started' = started /\ token' \in BOOLEAN /\ woken' \in BOOLEAN /\ (enc' \in {"feeding", "waiting"} /\ token' => woken')
  BY DEF PipelineInv
<1>6. started' \in Nat /\ started' >= started /\ (g > started' => Unstarted(g)')
  BY <1>1, <1>4, <1>5
<1> HIDE DEF H!Dies
<1> QED BY <1>1, <1>2, <1>3, <1>4, <1>5, <1>6, OthersStay

LEMMA ReadKeeps == ASSUME PipelineInv, NEW g \in Readers, H!Read(g) PROVE PipelineInv'
<1> USE DEF H!Read, H!dials, H!config, H!call
<1>1. PipeTypes /\ pipe[g] # <<>> /\ ~CutShort(g) /\ InStep(g) /\ started \in Nat /\ g <= started
  <2>1. PipeTypes /\ pipe[g] # <<>> /\ started \in Nat /\ g \in Int /\ (InStep(g) \/ CutShort(g)) /\ (g > started => Unstarted(g))
    BY DEF PipelineInv, PipeTypes, Readers
  <2> QED BY <2>1 DEF CutShort, Unstarted
<1>2. PICK k \in 1..Len(pipe[g]) : /\ chunks' = [chunks EXCEPT ![g] = Append(@, SubSeq(pipe[g], 1, k))]
                                  /\ pipe' = [pipe EXCEPT ![g] = SubSeq(@, k + 1, Len(@))]
  OBVIOUS
<1> DEFINE ch == Append(chunks[g], SubSeq(pipe[g], 1, k))
           rest == SubSeq(pipe[g], k + 1, Len(pipe[g]))
<1>3. /\ pipe[g] \in Seq(Pieces) /\ chunks[g] \in Seq(Seq(Pieces)) /\ given[g] \in Seq(Seq(Pieces)) /\ nals[g] \in Seq(Pieces)
      /\ alive[g] \in BOOLEAN /\ made[g] \in Nat /\ half[g] \in BOOLEAN /\ (half[g] => made[g] > 0)
  BY <1>1 DEF PipeTypes
<1>4. Begun(g) \in Nat /\ 2 * Len(given[g]) + Len(nals[g]) \in Nat
  <2>1. Len(given[g]) \in Nat /\ Len(nals[g]) \in Nat
    BY <1>3
  <2>2. half[g] => 2 * made[g] - 1 \in Nat
    BY <1>3
  <2>3. 2 * made[g] \in Nat
    BY <1>3
  <2>4. Begun(g) \in Nat
    BY <2>2, <2>3, Zenon DEF Begun
  <2>5. 2 * Len(given[g]) + Len(nals[g]) \in Nat
    BY <2>1, TwiceAndMore
  <2> QED BY <2>4, <2>5
<1>5. Coming(ch, 2 * Len(given[g]) + Len(nals[g]), rest, Begun(g), alive[g])
  <2>1. Coming(chunks[g], 2 * Len(given[g]) + Len(nals[g]), pipe[g], Begun(g), alive[g])
    BY <1>1 DEF InStep
  <2> DEFINE from == 2 * Len(given[g]) + Len(nals[g])  ch0 == chunks[g]  pi0 == pipe[g]  end0 == Begun(g)  living0 == alive[g]
  <2>2. from \in Nat /\ ch0 \in Seq(Seq(Pieces)) /\ pi0 \in Seq(Pieces) /\ end0 \in Nat /\ living0 \in BOOLEAN
    BY <1>3, <1>4
  <2>3. Coming(ch0, from, pi0, end0, living0) /\ k \in 1..Len(pi0)
    BY <2>1
  <2> HIDE DEF from, ch0, pi0, end0, living0
  <2>4. Coming(Append(ch0, SubSeq(pi0, 1, k)), from, SubSeq(pi0, k + 1, Len(pi0)), end0, living0)
    BY <2>2, <2>3, ComingRead
  <2> QED BY <2>4 DEF from, ch0, pi0, end0, living0
<1>6. ch \in Seq(Seq(Pieces)) /\ rest \in Seq(Pieces)
  <2>1. \A i \in 1..Len(pipe[g]) : pipe[g][i] \in Pieces
    BY <1>3
  <2>2. Len(pipe[g]) \in Nat /\ k \in Nat /\ k <= Len(pipe[g])
    BY <1>3
  <2>3. SubSeq(pipe[g], 1, k) \in Seq(Pieces) /\ SubSeq(pipe[g], k + 1, Len(pipe[g])) \in Seq(Pieces)
    <3>1. \A i \in 1..k : pipe[g][i] \in Pieces
      BY <2>1, <2>2
    <3>2. \A i \in k + 1..Len(pipe[g]) : pipe[g][i] \in Pieces
      BY <2>1, <2>2
    <3> QED BY <2>2, <3>1, <3>2, SubSeqProperties
  <2> QED BY <1>3, <2>3
<1>7. chunks' = [chunks EXCEPT ![g] = ch] /\ pipe' = [pipe EXCEPT ![g] = rest]
  BY <1>2
<1> HIDE DEF ch, rest
<1>8. PipeTypes'
  <2>1. chunks' \in [Readers -> Seq(Seq(Pieces))] /\ pipe' \in [Readers -> Seq(Pieces)]
    BY <1>1, <1>6, <1>7 DEF PipeTypes
  <2> QED BY <1>1, <2>1 DEF PipeTypes
<1>9. /\ chunks'[g] = ch /\ pipe'[g] = rest /\ given' = given /\ nals' = nals /\ alive' = alive /\ Begun(g)' = Begun(g)
      /\ started' = started /\ enc' = enc /\ token' = token /\ woken' = woken
  BY <1>1, <1>7 DEF PipeTypes, Begun
<1>10. InStep(g)'
  BY <1>1, <1>5, <1>9 DEF InStep
<1>11. \A r \in Readers \ {g} :
         /\ given'[r] = given[r] /\ nals'[r] = nals[r] /\ chunks'[r] = chunks[r] /\ made'[r] = made[r] /\ half'[r] = half[r]
         /\ pipe'[r] = pipe[r] /\ alive'[r] = alive[r]
  BY <1>1, <1>7 DEF PipeTypes
<1>12. token' \in BOOLEAN /\ woken' \in BOOLEAN /\ (enc' \in {"feeding", "waiting"} /\ token' => woken')
  BY <1>9 DEF PipelineInv
<1>13. started' \in Nat /\ started' >= started /\ ~(g > started')
  BY <1>1, <1>9 DEF Readers
<1> HIDE DEF H!Read
<1> QED BY <1>1, <1>8, <1>10, <1>11, <1>12, <1>13, OthersStay

(* appendAU. *)
LEMMA AppendedWakes ==
  ASSUME PipelineInv, NEW g \in Readers, NEW units \in Seq(Seq(Pieces)), H!Appended(g, units), enc' = enc
  PROVE  /\ token' \in BOOLEAN /\ woken' \in BOOLEAN /\ (enc' \in {"feeding", "waiting"} /\ token' => woken')
         /\ given' \in [Readers -> Seq(Seq(Pieces))] /\ given'[g] = given[g] \o units
         /\ \A r \in Readers \ {g} : given'[r] = given[r]
<1>1. given \in [Readers -> Seq(Seq(Pieces))] /\ given' = [given EXCEPT ![g] = given[g] \o units]
  BY DEF PipelineInv, PipeTypes, H!Appended
<1>2. given[g] \in Seq(Seq(Pieces)) /\ given[g] \o units \in Seq(Seq(Pieces))
  BY <1>1
<1>3. token' \in BOOLEAN /\ woken' \in BOOLEAN
  BY DEF PipelineInv, H!Appended
<1>4. enc' \in {"feeding", "waiting"} /\ token' => woken'
  BY DEF PipelineInv, H!Appended
<1> QED BY <1>1, <1>2, <1>3, <1>4

LEMMA Grown ==
  ASSUME NEW S, NEW a \in Seq(S), NEW b \in Seq(S)
  PROVE  /\ Len(a \o b) = Len(a) + Len(b) /\ \A i \in 1..Len(a) : (a \o b)[i] = a[i]
         /\ \A i \in 1..Len(b) : (a \o b)[Len(a) + i] = b[i]
         /\ \A i \in 1..Len(a \o b) : i \in 1..Len(a) \/ \E j \in 1..Len(b) : i = Len(a) + j
<1>1. Len(a) \in Nat /\ Len(b) \in Nat /\ Len(a \o b) = Len(a) + Len(b)
  OBVIOUS
<1>2. ASSUME NEW i \in 1..Len(a \o b), i \notin 1..Len(a) PROVE i - Len(a) \in 1..Len(b) /\ i = Len(a) + (i - Len(a))
  BY <1>1, <1>2
<1>3. (\A i \in 1..Len(a) : (a \o b)[i] = a[i]) /\ \A i \in 1..Len(b) : (a \o b)[Len(a) + i] = b[i]
  OBVIOUS
<1> QED BY <1>1, <1>2, <1>3

LEMMA PushKeeps == ASSUME PipelineInv, NEW g \in Readers, H!Push(g) PROVE PipelineInv'
<1> DEFINE n == Len(given[g])
           b == nals[g] \o Head(chunks[g])
           units == H!Cut(b).units
           rest == H!Cut(b).rest
<1>1. PipeTypes /\ chunks[g] # <<>> /\ InStep(g) /\ started \in Nat /\ g <= started /\ g \in Int
  <2>1. PipeTypes /\ chunks[g] # <<>> /\ started \in Nat /\ g \in Int /\ (InStep(g) \/ CutShort(g)) /\ (g > started => Unstarted(g))
    BY DEF PipelineInv, PipeTypes, Readers, H!Push
  <2> QED BY <2>1 DEF CutShort, Unstarted
<1>2. /\ pipe[g] \in Seq(Pieces) /\ chunks[g] \in Seq(Seq(Pieces)) /\ given[g] \in Seq(Seq(Pieces)) /\ nals[g] \in Seq(Pieces)
      /\ alive[g] \in BOOLEAN /\ Head(chunks[g]) \in Seq(Pieces) /\ Tail(chunks[g]) \in Seq(Seq(Pieces))
  BY <1>1 DEF PipeTypes
<1>3. n \in Nat /\ Len(nals[g]) \in Nat /\ Len(Head(chunks[g])) \in Nat /\ b \in Seq(Pieces) /\ Len(b) = Len(nals[g]) + Len(Head(chunks[g]))
  BY <1>2
<1>4. 2 * n \in Nat /\ 2 * n + Len(nals[g]) \in Nat /\ Begun(g) \in Nat
  <2>1. made[g] \in Nat /\ half[g] \in BOOLEAN /\ (half[g] => made[g] > 0)
    BY <1>1 DEF PipeTypes
  <2>2. half[g] => 2 * made[g] - 1 \in Nat
    BY <2>1
  <2>3. 2 * made[g] \in Nat
    BY <2>1
  <2>4. Begun(g) \in Nat
    BY <2>2, <2>3, Zenon DEF Begun
  <2>5. 2 * n \in Nat
    BY <1>3
  <2> QED BY <1>3, <2>4, <2>5, TwiceAndMore
<1>5. /\ GoesOn(nals[g], 2 * n) /\ GoesOn(Head(chunks[g]), 2 * n + Len(nals[g]))
      /\ Coming(Tail(chunks[g]), 2 * n + Len(nals[g]) + Len(Head(chunks[g])), pipe[g], Begun(g), alive[g])
  <2> DEFINE from == 2 * n + Len(nals[g])  ch0 == chunks[g]  pi0 == pipe[g]  end0 == Begun(g)  living0 == alive[g]
  <2>1. GoesOn(nals[g], 2 * n) /\ Coming(ch0, from, pi0, end0, living0)
    BY <1>1 DEF InStep
  <2>2. from \in Nat /\ ch0 \in Seq(Seq(Pieces)) /\ pi0 \in Seq(Pieces) /\ end0 \in Nat /\ living0 \in BOOLEAN /\ ch0 # <<>>
    BY <1>1, <1>2, <1>4
  <2> HIDE DEF from, ch0, pi0, end0, living0
  <2>3. GoesOn(Head(ch0), from) /\ Coming(Tail(ch0), from + Len(Head(ch0)), pi0, end0, living0)
    BY <2>1, <2>2, ComingHanded
  <2> QED BY <2>1, <2>3 DEF from, ch0, pi0, end0, living0
<1>6. GoesOn(b, 2 * n)
  BY <1>2, <1>4, <1>5, GoesOnJoined
<1> HIDE DEF n, b
<1>7. /\ units \in Seq(Seq(Pieces)) /\ rest \in Seq(Pieces)
      /\ \A i \in 1..Len(units) : units[i] = WholeUnit(n + i)
      /\ Len(rest) <= 2 /\ 2 * Len(units) + Len(rest) = Len(b) /\ GoesOn(rest, 2 * (n + Len(units)))
  BY <1>3, <1>6, CutIsWhole
<1> HIDE DEF units, rest
<1>8. H!Appended(g, units) /\ nals' = [nals EXCEPT ![g] = rest] /\ chunks' = [chunks EXCEPT ![g] = Tail(chunks[g])]
  BY DEF H!Push, units, rest, b
<1>9. started' = started /\ enc' = enc /\ alive' = alive /\ due' = due /\ made' = made /\ half' = half /\ pipe' = pipe /\ ffmpeg' = ffmpeg /\ drained' = drained
  BY DEF H!Push, H!config, H!ffmpeg
<1>10. /\ token' \in BOOLEAN /\ woken' \in BOOLEAN /\ (enc' \in {"feeding", "waiting"} /\ token' => woken')
       /\ given' \in [Readers -> Seq(Seq(Pieces))] /\ given'[g] = given[g] \o units
       /\ \A r \in Readers \ {g} : given'[r] = given[r]
  BY <1>7, <1>8, <1>9, AppendedWakes
<1>11. PipeTypes'
  <2>1. nals' \in [Readers -> Seq(Pieces)]
    BY <1>1, <1>7, <1>8 DEF PipeTypes
  <2>2. chunks' \in [Readers -> Seq(Seq(Pieces))]
    BY <1>1, <1>2, <1>8 DEF PipeTypes
  <2> QED BY <1>1, <1>9, <1>10, <2>1, <2>2 DEF PipeTypes
<1>12. nals'[g] = rest /\ chunks'[g] = Tail(chunks[g])
  BY <1>1, <1>8 DEF PipeTypes
<1>13. InStep(g)'
  <2>1. /\ Len(given'[g]) = n + Len(units)
        /\ \A i \in 1..Len(given'[g]) : given'[g][i] = WholeUnit(i)
    <3> DEFINE a == given[g]
    <3>1. a \in Seq(Seq(Pieces)) /\ n = Len(a) /\ given'[g] = a \o units
      BY <1>2, <1>10 DEF n
    <3>2. \A i \in 1..Len(a) : a[i] = WholeUnit(i)
      BY <1>1 DEF InStep
    <3> HIDE DEF a
    <3>3. /\ Len(a \o units) = Len(a) + Len(units) /\ \A i \in 1..Len(a) : (a \o units)[i] = a[i]
          /\ \A i \in 1..Len(units) : (a \o units)[Len(a) + i] = units[i]
          /\ \A i \in 1..Len(a \o units) : i \in 1..Len(a) \/ \E j \in 1..Len(units) : i = Len(a) + j
      BY <1>7, <3>1, Grown
    <3>4. ASSUME NEW i \in 1..Len(a \o units) PROVE (a \o units)[i] = WholeUnit(i)
      <4>1. CASE i \in 1..Len(a)
        BY <3>2, <3>3, <4>1
      <4>2. ASSUME NEW j \in 1..Len(units), i = Len(a) + j PROVE (a \o units)[i] = WholeUnit(i)
        <5>1. (a \o units)[Len(a) + j] = units[j] /\ units[j] = WholeUnit(n + j)
          BY <1>7, <3>3
        <5> QED BY <3>1, <4>2, <5>1
      <4> QED BY <3>3, <4>1, <4>2
    <3> QED BY <3>1, <3>3, <3>4
  <2>2. 2 * (n + Len(units)) + Len(rest) = 2 * n + Len(nals[g]) + Len(Head(chunks[g]))
    <3>1. Len(units) \in Nat /\ Len(rest) \in Nat
      BY <1>7
    <3>2. 2 * Len(units) + Len(rest) = Len(nals[g]) + Len(Head(chunks[g]))
      BY <1>3, <1>7
    <3> DEFINE u == Len(units)  m == Len(rest)  a == Len(nals[g])  c == Len(Head(chunks[g]))
    <3>3. n \in Nat /\ u \in Nat /\ m \in Nat /\ a \in Nat /\ c \in Nat /\ 2 * u + m = a + c
      BY <1>3, <3>1, <3>2
    <3> HIDE DEF u, m, a, c
    <3>4. 2 * (n + u) + m = 2 * n + a + c
      BY <3>3
    <3> QED BY <3>4 DEF u, m, a, c
  <2>3. GoesOn(nals'[g], 2 * Len(given'[g])) /\ Len(nals'[g]) <= 2
    BY <1>7, <1>12, <2>1
  <2>4. Begun(g)' = Begun(g)
    BY <1>9 DEF Begun
  <2>5. 2 * Len(given'[g]) + Len(nals'[g]) = 2 * n + Len(nals[g]) + Len(Head(chunks[g]))
    BY <1>12, <2>1, <2>2
  <2>6. Coming(chunks'[g], 2 * Len(given'[g]) + Len(nals'[g]), pipe'[g], Begun(g)', alive'[g])
    BY <1>5, <1>9, <1>12, <2>4, <2>5
  <2> QED BY <2>1, <2>3, <2>6 DEF InStep
<1>14. \A r \in Readers \ {g} :
         /\ given'[r] = given[r] /\ nals'[r] = nals[r] /\ chunks'[r] = chunks[r] /\ made'[r] = made[r] /\ half'[r] = half[r]
         /\ pipe'[r] = pipe[r] /\ alive'[r] = alive[r]
  BY <1>1, <1>8, <1>9, <1>10 DEF PipeTypes
<1>15. started' \in Nat /\ started' >= started /\ ~(g > started')
  BY <1>1, <1>9
<1> QED BY <1>1, <1>10, <1>11, <1>13, <1>14, <1>15, OthersStay

LEMMA FlushKeeps == ASSUME PipelineInv, NEW g \in Readers, H!Flush(g) PROVE PipelineInv'
<1> DEFINE n == Len(given[g])
           units == IF nals[g] = <<>> THEN <<>> ELSE <<nals[g]>>
<1>1. PipeTypes /\ started \in Nat /\ g \in Int /\ (InStep(g) \/ CutShort(g)) /\ (g > started => Unstarted(g))
  BY DEF PipelineInv, PipeTypes, Readers
<1>2. /\ H!Appended(g, units) /\ nals' = [nals EXCEPT ![g] = <<>>] /\ started' = started /\ enc' = enc
      /\ alive' = alive /\ due' = due /\ made' = made /\ half' = half /\ pipe' = pipe /\ ffmpeg' = ffmpeg /\ chunks' = chunks
  BY DEF H!Flush, H!config, H!ffmpeg
<1>3. chunks[g] = <<>> /\ pipe[g] = <<>> /\ (half[g] => ~alive[g])
  BY DEF H!Flush, H!Quiet, H!Ended
<1>4. drained' \in [Readers -> BOOLEAN]
  BY <1>1 DEF H!Flush, PipeTypes
<1>5. /\ given[g] \in Seq(Seq(Pieces)) /\ nals[g] \in Seq(Pieces) /\ alive[g] \in BOOLEAN
      /\ made[g] \in Nat /\ n \in Nat /\ Len(nals[g]) \in Nat
  BY <1>1 DEF PipeTypes
<1>6. units \in Seq(Seq(Pieces))
  BY <1>5
<1> HIDE DEF units
<1>7. /\ token' \in BOOLEAN /\ woken' \in BOOLEAN /\ (enc' \in {"feeding", "waiting"} /\ token' => woken')
      /\ given' \in [Readers -> Seq(Seq(Pieces))] /\ given'[g] = given[g] \o units
      /\ \A r \in Readers \ {g} : given'[r] = given[r]
  BY <1>2, <1>6, AppendedWakes
<1>8. PipeTypes'
  <2>1. nals' \in [Readers -> Seq(Pieces)]
    BY <1>1, <1>2 DEF PipeTypes
  <2> QED BY <1>1, <1>2, <1>4, <1>7, <2>1 DEF PipeTypes
<1>9. \A r \in Readers \ {g} :
         /\ given'[r] = given[r] /\ nals'[r] = nals[r] /\ chunks'[r] = chunks[r] /\ made'[r] = made[r] /\ half'[r] = half[r]
         /\ pipe'[r] = pipe[r] /\ alive'[r] = alive[r]
  BY <1>1, <1>2, <1>7 DEF PipeTypes
<1>10. nals'[g] = <<>>
  BY <1>1, <1>2 DEF PipeTypes
<1>11. (InStep(g) \/ CutShort(g))' /\ (g > started' => Unstarted(g)')
  <2>1. CASE nals[g] = <<>>
    <3>1. units = <<>> /\ given'[g] = given[g]
      BY <1>5, <1>7, <2>1 DEF units
    <3> QED BY <1>1, <1>2, <1>10, <2>1, <3>1, StaysSo
  <2>2. CASE nals[g] # <<>>
    <3>1. InStep(g) /\ g <= started
      BY <1>1, <2>2 DEF CutShort, Unstarted
    <3>2. units = <<nals[g]>> /\ given'[g] = given[g] \o <<nals[g]>>
      BY <1>7, <2>2 DEF units
    <3>3. /\ Len(given'[g]) = n + 1 /\ given'[g][n + 1] = nals[g]
          /\ \A i \in 1..n : given'[g][i] = given[g][i]
      BY <1>5, <3>2
    <3>4. \A i \in 1..n : given'[g][i] = WholeUnit(i)
      BY <3>1, <3>3 DEF InStep
    <3>5. alive[g] => 2 * n + Len(nals[g]) = 2 * made[g] /\ Begun(g) = 2 * made[g]
      <4>1. Coming(<<>>, 2 * n + Len(nals[g]), <<>>, Begun(g), alive[g])
        BY <1>3, <3>1 DEF InStep
      <4>2. alive[g] => Begun(g) = 2 * made[g]
        BY <1>3 DEF Begun
      <4>3. ASSUME alive[g] PROVE 2 * n + Len(nals[g]) = 2 * made[g]
        <5> DEFINE from == 2 * n + Len(nals[g])  end0 == 2 * made[g]
        <5>1. from \in Nat
          BY <1>5, TwiceAndMore
        <5>2. end0 \in Nat
          BY <1>5
        <5>3. Coming(<<>>, from, <<>>, end0, TRUE)
          BY <1>5, <4>1, <4>2, <4>3
        <5> HIDE DEF from, end0
        <5>4. from = end0
          BY <5>1, <5>2, <5>3, ComingNothing
        <5> QED BY <5>4 DEF from, end0
      <4> QED BY <4>2, <4>3
    <3>6. Len(nals[g]) = 1 \/ Len(nals[g]) = 2
      <4> DEFINE m == Len(nals[g])
      <4>1. m # 0 /\ m <= 2 /\ m \in Nat
        BY <1>5, <2>2, <3>1 DEF InStep
      <4> HIDE DEF m
      <4>2. m = 1 \/ m = 2
        BY <4>1
      <4> QED BY <4>2 DEF m
    <3>7. nals[g][1] = <<n + 1, 1>> /\ (Len(nals[g]) = 2 => nals[g][2] = <<n + 1, 2>>)
      <4>1. GoesOn(nals[g], 2 * n)
        BY <3>1 DEF InStep
      <4>2. IsPiece(nals[g][1], 2 * n + 1) /\ (Len(nals[g]) = 2 => IsPiece(nals[g][2], 2 * n + 2))
        BY <3>6, <4>1 DEF GoesOn
      <4> HIDE DEF n
      <4> QED BY <1>5, <4>2, PieceIs
    <3>8. CASE Len(nals[g]) = 2
      <4>1. nals[g] = WholeUnit(n + 1)
        <5>1. \A x \in Seq(Pieces) : Len(x) = 2 => x = <<x[1], x[2]>>
          OBVIOUS
        <5>2. nals[g] = <<nals[g][1], nals[g][2]>>
          BY <1>5, <3>8, <5>1
        <5> QED BY <3>7, <3>8, <5>2 DEF WholeUnit
      <4>2. \A i \in 1..Len(given'[g]) : given'[g][i] = WholeUnit(i)
        <5>1. \A i \in 1..n + 1 : i \in 1..n \/ i = n + 1
          BY <1>5
        <5> QED BY <3>3, <3>4, <4>1, <5>1
      <4>3. Len(nals'[g]) = 0 /\ GoesOn(nals'[g], 2 * Len(given'[g]))
        BY <1>10 DEF GoesOn
      <4>4. Coming(<<>>, 2 * (n + 1), <<>>, Begun(g), alive[g])
        <5> DEFINE from == 2 * (n + 1)  end0 == Begun(g)  living0 == alive[g]
        <5>1. from \in Nat /\ living0 \in BOOLEAN
          BY <1>5
        <5>2. living0 => from = end0
          BY <1>5, <3>5, <3>8
        <5>3. end0 \in Nat
          <6>1. half[g] \in BOOLEAN /\ (half[g] => made[g] > 0)
            BY <1>1 DEF PipeTypes
          <6>2. (half[g] => 2 * made[g] - 1 \in Nat) /\ 2 * made[g] \in Nat
            BY <1>5, <6>1
          <6> QED BY <6>2, Zenon DEF Begun
        <5> HIDE DEF from, end0, living0
        <5>4. Coming(<<>>, from, <<>>, end0, living0)
          BY <5>1, <5>2, <5>3, ComingNothing
        <5> QED BY <5>4 DEF from, end0, living0
      <4>5. Begun(g)' = Begun(g) /\ 2 * Len(given'[g]) + Len(nals'[g]) = 2 * (n + 1)
        <5>1. 2 * (n + 1) + 0 = 2 * (n + 1)
          BY <1>5
        <5>2. Begun(g)' = Begun(g)
          BY <1>2 DEF Begun
        <5> QED BY <3>3, <4>3, <5>1, <5>2
      <4>6. Coming(chunks'[g], 2 * Len(given'[g]) + Len(nals'[g]), pipe'[g], Begun(g)', alive'[g])
        BY <1>2, <1>3, <4>4, <4>5
      <4>7. InStep(g)'
        BY <4>2, <4>3, <4>6 DEF InStep
      <4> QED BY <1>1, <1>2, <3>1, <4>7
    <3>9. CASE Len(nals[g]) = 1
      <4>1. ~alive[g]
        <5>1. 2 * n + 1 # 2 * made[g]
          BY <1>5
        <5> QED BY <3>5, <3>9, <5>1
      <4>2. nals[g] = <<<<n + 1, 1>>>>
        <5>1. \A x \in Seq(Pieces) : Len(x) = 1 => x = <<x[1]>>
          OBVIOUS
        <5> QED BY <1>5, <3>7, <3>9, <5>1
      <4>3. ASSUME NEW i \in 1..Len(given'[g])
            PROVE given'[g][i] = WholeUnit(i) \/ (i = Len(given'[g]) /\ given'[g][i] = <<<<i, 1>>>>)
        <5>1. i \in 1..n \/ i = n + 1
          BY <1>5, <3>3
        <5> QED BY <3>3, <3>4, <4>2, <5>1
      <4>4. CutShort(g)'
        BY <1>2, <1>3, <1>10, <4>1, <4>3 DEF CutShort
      <4> QED BY <1>1, <1>2, <3>1, <4>4
    <3> QED BY <3>6, <3>8, <3>9
  <2> QED BY <2>1, <2>2
<1>12. started' \in Nat /\ started' >= started
  BY <1>1, <1>2
<1> QED BY <1>1, <1>7, <1>8, <1>9, <1>11, <1>12, OthersStay

(* A step that moves no output: processes may be killed, none is started.  *)
LEMMA AllStay ==
  ASSUME PipelineInv, UNCHANGED <<given, nals, chunks, made, half, started>>,
         \A r \in Readers : pipe'[r] = pipe[r] \/ (pipe'[r] = <<>> /\ ~alive'[r]),
         \A r \in Readers : alive'[r] => alive[r],
         alive' \in [Readers -> BOOLEAN], pipe' \in [Readers -> Seq(Pieces)],
         ffmpeg' \in 0..started, drained' \in [Readers -> BOOLEAN],
         token' \in BOOLEAN, woken' \in BOOLEAN, enc' \in {"feeding", "waiting"} /\ token' => woken'
  PROVE  PipelineInv'
<1>1. PipeTypes'
  BY DEF PipelineInv, PipeTypes
<1>2. ASSUME NEW r \in Readers PROVE (InStep(r) \/ CutShort(r))' /\ (r > started => Unstarted(r)')
  BY StaysSo DEF PipelineInv
<1>3. \A r \in Readers : (InStep(r) \/ CutShort(r))' /\ (r > started' => Unstarted(r)')
  BY <1>2
<1> QED BY <1>1, <1>3 DEF PipelineInv

LEMMA QuietKeeps == ASSUME PipelineInv, H!SetDials \/ H!HoldPasses \/ H!Feed \/ H!Collect PROVE PipelineInv'
<1>1. UNCHANGED <<given, nals, chunks, made, half, started, alive, pipe, ffmpeg, drained>>
  BY DEF H!SetDials, H!HoldPasses, H!Feed, H!Collect, H!config, H!ffmpeg, H!reader
<1>2. token \in BOOLEAN /\ woken \in BOOLEAN /\ (enc \in {"feeding", "waiting"} /\ token => woken)
  BY DEF PipelineInv
<1>3. token' \in BOOLEAN /\ woken' \in BOOLEAN /\ (enc' \in {"feeding", "waiting"} /\ token' => woken')
  <2>1. CASE H!SetDials
    BY <1>2, <2>1 DEF H!SetDials, H!call
  <2>2. CASE H!HoldPasses
    BY <1>2, <2>2 DEF H!HoldPasses, H!call
  <2>3. CASE H!Feed
    BY <1>2, <2>3 DEF H!Feed
  <2>4. CASE H!Collect
    <3>1. token' \in BOOLEAN /\ woken' = FALSE /\ enc' = "idle"
      BY <1>2, <2>4 DEF H!Collect
    <3> QED BY <3>1
  <2> QED BY <2>1, <2>2, <2>3, <2>4
<1>4. PipeTypes
  BY DEF PipelineInv
<1>5. alive' \in [Readers -> BOOLEAN] /\ pipe' \in [Readers -> Seq(Pieces)] /\ ffmpeg' \in 0..started /\ drained' \in [Readers -> BOOLEAN]
  BY <1>1, <1>4 DEF PipeTypes
<1> QED BY <1>1, <1>3, <1>5, AllStay

LEMMA CloseKeeps == ASSUME PipelineInv, H!Close PROVE PipelineInv'
<1>1. PipeTypes /\ UNCHANGED <<given, nals, chunks, made, half, started, drained, token, woken>> /\ ffmpeg' = 0
  BY DEF PipelineInv, H!Close, H!reader
<1>2. /\ \A r \in Readers : pipe'[r] = pipe[r] \/ (pipe'[r] = <<>> /\ ~alive'[r])
      /\ \A r \in Readers : alive'[r] => alive[r]
      /\ alive' \in [Readers -> BOOLEAN] /\ pipe' \in [Readers -> Seq(Pieces)]
  <2>1. CASE ffmpeg = 0
    <3>1. alive' = alive /\ pipe' = pipe
      BY <2>1 DEF H!Close
    <3> QED BY <1>1, <3>1 DEF PipeTypes
  <2>2. CASE ffmpeg # 0
    <3>1. alive' = [alive EXCEPT ![ffmpeg] = FALSE] /\ pipe' = [pipe EXCEPT ![ffmpeg] = <<>>]
      BY <2>2 DEF H!Close, H!Killed
    <3>2. alive \in [Readers -> BOOLEAN] /\ pipe \in [Readers -> Seq(Pieces)] /\ <<>> \in Seq(Pieces)
      BY <1>1 DEF PipeTypes
    <3> QED BY <3>1, <3>2
  <2> QED BY <2>1, <2>2
<1>3. token' \in BOOLEAN /\ woken' \in BOOLEAN /\ (enc' \in {"feeding", "waiting"} /\ token' => woken')
  <2>1. token \in BOOLEAN /\ woken \in BOOLEAN /\ (enc \in {"feeding", "waiting"} /\ token => woken)
    BY DEF PipelineInv
  <2>2. enc' \in {"feeding", "waiting"} => enc \in {"feeding", "waiting"}
    BY DEF H!Close
  <2> QED BY <1>1, <2>1, <2>2
<1>4. ffmpeg' \in 0..started /\ drained' \in [Readers -> BOOLEAN]
  BY <1>1 DEF PipeTypes
<1> QED BY <1>1, <1>2, <1>3, <1>4, AllStay

LEMMA BeginKeeps == ASSUME PipelineInv, H!Begin, MaxProcs \in Nat \ {0} PROVE PipelineInv'
<1>1. PipeTypes /\ UNCHANGED <<given, nals, chunks, made, half, due>> /\ token' = FALSE /\ woken' = FALSE
  BY DEF PipelineInv, H!Begin, H!Clear
<1>2. CASE UNCHANGED <<ffmpeg, ran, held, started, alive, pipe, drained>>
  <2>1. ffmpeg' \in 0..started /\ alive' \in [Readers -> BOOLEAN] /\ pipe' \in [Readers -> Seq(Pieces)] /\ drained' \in [Readers -> BOOLEAN]
    BY <1>1, <1>2 DEF PipeTypes
  <2> QED BY <1>1, <1>2, <2>1, AllStay
<1>3. CASE /\ started < MaxProcs /\ started' = started + 1 /\ ffmpeg' = started + 1
           /\ alive' = [r \in Readers |-> r = started + 1 \/ (alive[r] /\ r # ffmpeg)]
           /\ pipe' = [r \in Readers |-> IF r = ffmpeg THEN <<>> ELSE pipe[r]]
           /\ drained' = [drained EXCEPT ![started + 1] = TRUE]
  <2>0. started + 1 \in Readers
    BY <1>1, <1>3 DEF PipeTypes, Readers
  <2> PICK g \in Readers : g = started + 1
    BY <2>0
  <2>1. g = started + 1 /\ started \in Nat /\ g > started /\ ffmpeg # g /\ started' \in Nat /\ started' >= started /\ ~(g > started')
    BY <1>1, <1>3 DEF PipeTypes, Readers
  <2>2. PipeTypes'
    <3>1. alive' \in [Readers -> BOOLEAN]
      <4>1. \A r \in Readers : (r = started + 1 \/ (alive[r] /\ r # ffmpeg)) \in BOOLEAN
        OBVIOUS
      <4> QED BY <1>3, <4>1
    <3>2. pipe \in [Readers -> Seq(Pieces)] /\ <<>> \in Seq(Pieces)
      BY <1>1 DEF PipeTypes
    <3>3. pipe' \in [Readers -> Seq(Pieces)]
      BY <1>3, <3>2
    <3>4. drained' \in [Readers -> BOOLEAN] /\ ffmpeg' \in 0..started' /\ started' \in 0..MaxProcs
      BY <1>1, <1>3, <2>1 DEF PipeTypes
    <3> QED BY <1>1, <3>1, <3>3, <3>4 DEF PipeTypes
  <2>3. Unstarted(g) /\ alive'[g] = TRUE /\ pipe'[g] = <<>>
    <3>1. Unstarted(g)
      BY <2>1 DEF PipelineInv
    <3>2. alive'[g] = TRUE
      BY <1>3, <2>1
    <3> QED BY <1>3, <2>1, <3>1, <3>2 DEF Unstarted
  <2>4. InStep(g)'
    <3>1. given'[g] = <<>> /\ nals'[g] = <<>> /\ chunks'[g] = <<>> /\ Begun(g)' = 0
      <4>1. given'[g] = <<>> /\ nals'[g] = <<>> /\ chunks'[g] = <<>> /\ ~half'[g] /\ made'[g] = 0
        BY <1>1, <2>3 DEF Unstarted
      <4>2. Begun(g)' = 2 * 0
        BY <4>1 DEF Begun
      <4> QED BY <4>1, <4>2
    <3>2. Coming(<<>>, 0, <<>>, 0, TRUE)
      BY ComingNothing
    <3>3. Len(given'[g]) = 0 /\ Len(nals'[g]) = 0 /\ GoesOn(nals'[g], 2 * Len(given'[g]))
      BY <3>1 DEF GoesOn
    <3>4. Coming(chunks'[g], 2 * Len(given'[g]) + Len(nals'[g]), pipe'[g], Begun(g)', alive'[g])
      <4>1. 2 * Len(given'[g]) + Len(nals'[g]) = 0
        BY <3>3
      <4> QED BY <2>3, <3>1, <3>2, <4>1
    <3>5. \A i \in 1..Len(given'[g]) : given'[g][i] = WholeUnit(i)
      BY <3>3
    <3> QED BY <3>3, <3>4, <3>5 DEF InStep
  <2>5. \A r \in Readers \ {g} :
          /\ given'[r] = given[r] /\ nals'[r] = nals[r] /\ chunks'[r] = chunks[r] /\ made'[r] = made[r] /\ half'[r] = half[r]
          /\ pipe'[r] = pipe[r] \/ (pipe'[r] = <<>> /\ ~alive'[r])
          /\ alive'[r] => alive[r]
    BY <1>1, <1>3, <2>1
  <2>6. token' \in BOOLEAN /\ woken' \in BOOLEAN /\ (enc' \in {"feeding", "waiting"} /\ token' => woken')
    BY <1>1
  <2> QED BY <2>1, <2>2, <2>4, <2>5, <2>6, OthersStay
<1>4. \/ UNCHANGED <<ffmpeg, ran, held, started, alive, pipe, drained>>
      \/ /\ started < MaxProcs /\ started' = started + 1 /\ ffmpeg' = started + 1
         /\ alive' = [r \in Readers |-> r = started + 1 \/ (alive[r] /\ r # ffmpeg)]
         /\ pipe' = [r \in Readers |-> IF r = ffmpeg THEN <<>> ELSE pipe[r]]
         /\ drained' = [drained EXCEPT ![started + 1] = TRUE]
  BY DEF H!Begin, H!config, H!Procs, Readers
<1> QED BY <1>2, <1>3, <1>4

LEMMA PipelineStarts == ASSUME H!Init, MaxProcs \in Nat \ {0} PROVE PipelineInv
<1> USE DEF H!Init, H!Each, H!Procs, Readers
<1>1. PipeTypes
  BY DEF PipeTypes
<1>2. ASSUME NEW g \in Readers PROVE Unstarted(g) /\ InStep(g)
  <2>1. Unstarted(g)
    BY DEF Unstarted
  <2>2. Len(given[g]) = 0 /\ Len(nals[g]) = 0 /\ Begun(g) = 0 /\ GoesOn(nals[g], 2 * Len(given[g])) /\ alive[g] = FALSE
    BY DEF Begun, GoesOn
  <2>3. Coming(<<>>, 0, <<>>, 0, FALSE)
    BY ComingNothing
  <2>4. Coming(chunks[g], 2 * Len(given[g]) + Len(nals[g]), pipe[g], Begun(g), alive[g])
    <3>1. 2 * Len(given[g]) + Len(nals[g]) = 0
      BY <2>2
    <3> QED BY <2>1, <2>2, <2>3, <3>1 DEF Unstarted
  <2>5. \A i \in 1..Len(given[g]) : given[g][i] = WholeUnit(i)
    BY <2>2
  <2>6. Len(nals[g]) <= 2
    BY <2>2
  <2>7. GoesOn(nals[g], 2 * Len(given[g]))
    BY <2>2
  <2>8. InStep(g)
    BY <2>4, <2>5, <2>6, <2>7 DEF InStep
  <2> QED BY <2>1, <2>8
<1> QED BY <1>1, <1>2 DEF PipelineInv

LEMMA PipelineKeeps == ASSUME PipelineInv, MaxProcs \in Nat \ {0}, [H!Next]_(H!vars) PROVE PipelineInv'
<1>1. CASE UNCHANGED H!vars
  <2>1. UNCHANGED <<given, nals, chunks, made, half, started, alive, pipe, ffmpeg, drained, token, woken, enc>>
    BY <1>1 DEF H!vars, H!config, H!call, H!ffmpeg, H!reader
  <2>2. /\ alive \in [Readers -> BOOLEAN] /\ pipe \in [Readers -> Seq(Pieces)] /\ ffmpeg \in 0..started /\ drained \in [Readers -> BOOLEAN]
        /\ token \in BOOLEAN /\ woken \in BOOLEAN /\ (enc \in {"feeding", "waiting"} /\ token => woken)
    BY DEF PipelineInv, PipeTypes
  <2> QED BY <2>1, <2>2, AllStay
<1>2. CASE H!Next
  <2>1. CASE H!SetDials \/ H!HoldPasses \/ H!Feed \/ H!Collect
    BY <2>1, QuietKeeps
  <2>2. CASE H!Begin
    BY <2>2, BeginKeeps
  <2>3. CASE H!Close
    BY <2>3, CloseKeeps
  <2>4. ASSUME NEW g \in Readers, H!Write(g) \/ H!Dies(g) \/ H!Read(g) \/ H!Push(g) \/ H!Flush(g) PROVE PipelineInv'
    BY <2>4, WriteKeeps, DiesKeeps, ReadKeeps, PushKeeps, FlushKeeps
  <2> QED BY <1>2, <2>1, <2>2, <2>3, <2>4 DEF H!Next, H!Procs, Readers
<1> QED BY <1>1, <1>2

(* What comes out of an encoder is every unit ffmpeg wrote, once and in    *)
(* order and whole but for the last of a process that is gone; and Encode  *)
(* is not woken by a unit of an earlier frame: for any sizes, rates and    *)
(* ceilings, any number of processes and frames, however the pipe is read  *)
(* and the codec closed or restarted (h264.go: push, readLoop, Encode).    *)
THEOREM UnitsComeOut == ASSUME H!PipelineAssumption PROVE H!Spec => []OutputIsSound
<1>1. MaxProcs \in Nat \ {0}
  BY DEF H!PipelineAssumption
<1>2. H!Init => PipelineInv
  BY <1>1, PipelineStarts
<1>3. PipelineInv /\ [H!Next]_(H!vars) => PipelineInv'
  BY <1>1, PipelineKeeps
<1>4. PipelineInv => OutputIsSound
  <2> SUFFICES ASSUME PipelineInv PROVE H!UnitsAreWhole /\ H!WaitIsForThisFrame
    BY DEF OutputIsSound, H!OutputIsSound
  <2>1. ASSUME NEW g \in Readers, NEW i \in DOMAIN given[g]
        PROVE given[g][i] = WholeUnit(i) \/ (given[g][i] = <<<<i, 1>>>> /\ i = Len(given[g]) /\ ~alive[g])
    <3>1. given[g] \in Seq(Seq(Pieces)) /\ (InStep(g) \/ CutShort(g))
      BY DEF PipelineInv, PipeTypes
    <3>2. i \in 1..Len(given[g])
      BY <3>1
    <3> QED BY <3>1, <3>2 DEF InStep, CutShort
  <2>2. H!UnitsAreWhole
    BY <2>1 DEF H!UnitsAreWhole, H!Procs, Readers, WholeUnit
  <2>3. H!WaitIsForThisFrame
    BY DEF PipelineInv, H!WaitIsForThisFrame
  <2> QED BY <2>2, <2>3
<1> QED BY <1>2, <1>3, <1>4, PTL DEF H!Spec

-----------------------------------------------------------------------------
(* The estimate of what the link carries (LinkRate), for any paths, when   *)
(* every report comes within its second. *)

(* More than the path carries by a third, and what is owed of this second. *)
Over(e) == 10 * e > 13 * path.cap
Waiting == phase = "open" /\ (~reported \/ reports # <<>>)
Unrolled == phase = "write" \/ ~rolled

Numbers ==
  /\ est \in Nat /\ L!MinRate <= est /\ est <= L!MaxRate
  /\ rx \in Nat /\ short \in 0..2 /\ since \in Nat /\ hot \in Nat /\ late = 0
  /\ sentTotal \in Nat /\ rxTotal \in Nat /\ sentPrev \in Nat /\ backlog \in Nat
  /\ bytes \in Nat /\ queue \in Nat /\ arrived \in Nat
Flags == rxSeen \in BOOLEAN /\ busy \in BOOLEAN /\ rolled \in BOOLEAN /\ reported \in BOOLEAN /\ phase \in {"write", "open"}
LinkTypes == path \in Paths /\ Numbers /\ Flags /\ (reports = <<>> \/ reports = <<arrived>>)

(* The two ends' totals: what was sent is there or queued, and what the    *)
(* agent compares the viewer's total with is a window old.                 *)
Accounts ==
  /\ sentTotal = arrived + queue /\ bytes <= sentTotal /\ rxTotal <= arrived
  /\ reports # <<>> => arrived > 0 /\ phase = "open" /\ reported
  /\ reports = <<>> => rxTotal = arrived /\ (rxSeen <=> arrived > 0)
  /\ rxSeen => arrived > 0
  /\ rxSeen /\ Waiting => sentPrev = sentTotal - bytes /\ since = 1
  /\ rxSeen /\ ~Waiting => sentPrev = sentTotal
  /\ rxSeen /\ phase = "write" => since = 1
  /\ rxSeen /\ phase = "open" /\ ~Waiting => since = 0

(* A path that carries everything within the second leaves no backlog.     *)
Unqueued ==
  /\ busy => path.kind = "direct"
  /\ path.kind = "healthy" => backlog = 0 /\ (phase = "open" /\ reported => queue <= bytes)

(* After k seconds of sending e, each a third more than the path carries,  *)
(* while e grows by no more than the probe does, this much is queued.      *)
QueuedAfter(q, k, e) ==
  /\ k >= 1 => 1000 * q >= 213 * e
  /\ k >= 2 => 1000 * q >= 410 * e
  /\ k >= 3 => 1000 * q >= 593 * e
  /\ k >= 4 => 1000 * q >= 762 * e
  /\ k >= 5 => 1000 * q >= 919 * e
  /\ k >= 6 => 1000 * q >= 1064 * e
  /\ k >= 7 => 1000 * q >= 1198 * e
  /\ k >= 8 => 1000 * q >= 1322 * e

(* What was queued when the window began, or no more than that. *)
Before == queue - bytes + (IF reported THEN path.cap ELSE 0)

(* A path that swallows everything: the viewer cannot count more than it   *)
(* delivers, the queue grows with every hot window, the backlog follows a  *)
(* window behind, from the ninth on it is deep and the third deep window   *)
(* lowers the estimate.                                                    *)
QueueGrows ==
  /\ phase = "open" => Before >= 0 /\ (reported /\ bytes > 0 => arrived > 0)
  /\ hot >= 1 /\ Unrolled => rxSeen
  /\ hot >= 2 => rxSeen
  /\ phase = "write" /\ Over(est) => QueuedAfter(queue, hot, est)
  /\ phase = "open" /\ ~rolled /\ Over(est) => QueuedAfter(Before, hot, est)
  /\ phase = "open" /\ rolled /\ hot >= 1 =>
       Over(bytes) /\ QueuedAfter(Before, hot - 1, bytes) /\ (Over(est) => 100 * est <= 108 * bytes)
BacklogFollows ==
  /\ rx <= path.cap /\ arrived - rxTotal <= path.cap
  /\ phase = "open" /\ ~Waiting /\ ~rolled /\ Over(est) /\ hot >= 8 => 1000 * (backlog + path.cap) >= 1322 * est
  /\ phase = "open" /\ ~Waiting /\ rolled /\ hot >= 9 => 1000 * (backlog + path.cap) >= 1322 * bytes
  /\ Unrolled /\ Over(est) /\ hot >= 9 => 2 * backlog > est
ShortCounts ==
  /\ Over(est) /\ hot >= 9 => short >= hot - 9
  /\ hot <= 12

LinkInv ==
  /\ LinkTypes /\ Accounts /\ Unqueued
  /\ IF path.kind = "absorbing" THEN QueueGrows /\ BacklogFollows /\ ShortCounts ELSE hot = 0

(* Every report comes within its second, and the floor of the estimate is  *)
(* not itself a third more than a path carries.                            *)
Followable == MaxLate = 0 /\ \A p \in Paths : p.kind = "absorbing" => 13 * p.cap >= 10 * L!MinRate

LEMMA Probed == ASSUME NEW e \in Nat, L!MinRate <= e, e <= L!MaxRate, NEW f, f = L!ClampRate((e * 108) \div 100)
                PROVE  f \in Nat /\ e <= f /\ f <= L!MaxRate /\ 100 * f <= 108 * e
<1>1. (e * 108) \div 100 \in Nat /\ e <= (e * 108) \div 100 /\ 100 * ((e * 108) \div 100) <= 108 * e
  OBVIOUS
<1> QED BY <1>1 DEF L!ClampRate, L!MinRate, L!MaxRate

LEMMA Clamped == ASSUME NEW e \in Nat PROVE L!ClampRate(e) \in Nat /\ L!MinRate <= L!ClampRate(e) /\ L!ClampRate(e) <= L!MaxRate
BY DEF L!ClampRate, L!MinRate, L!MaxRate

LEMMA LinkStart == ASSUME L!LinkAssumption, Followable, L!Init PROVE LinkInv
<1>1. est \in Nat /\ L!MinRate <= est /\ est <= L!MaxRate
  BY Clamped DEF L!Init, L!LinkAssumption
<1>2. LinkTypes
  <2>1. path \in Paths /\ rx = 0 /\ short = 0 /\ since = 0 /\ hot = 0 /\ sentTotal = 0 /\ rxTotal = 0 /\ sentPrev = 0
        /\ backlog = 0 /\ bytes = 0 /\ queue = 0 /\ late = 0 /\ reports = <<>>
    BY DEF L!Init
  <2>2. rxSeen = FALSE /\ busy = FALSE /\ rolled = FALSE /\ reported = FALSE /\ phase = "write" /\ arrived = 0
    BY DEF L!Init
  <2>3. Numbers
    BY <1>1, <2>1, <2>2 DEF Numbers
  <2>4. Flags
    BY <2>2 DEF Flags
  <2> QED BY <2>1, <2>3, <2>4 DEF LinkTypes
<1>3. Accounts /\ Unqueued
  BY DEF L!Init, Accounts, Unqueued, Waiting
<1>4. QueueGrows /\ BacklogFollows /\ ShortCounts /\ hot = 0
  BY <1>2 DEF L!Init, QueueGrows, BacklogFollows, ShortCounts, QueuedAfter, Unrolled, Waiting, LinkTypes, Numbers, L!LinkAssumption
<1> QED BY <1>2, <1>3, <1>4 DEF LinkInv

LEMMA EmitStep == ASSUME L!LinkAssumption, Followable, LinkInv, L!Write PROVE LinkInv'
<1>1. path.cap \in Nat /\ est \div 4 \in Nat
  BY DEF LinkInv, LinkTypes, Numbers, L!LinkAssumption
<1>2. \A a, b \in Nat : L!Least(a, b) \in Nat
  BY DEF L!Least
<1>3. PICK w \in Nat : bytes' = w
  <2>1. PICK want \in Nat : bytes' = (IF path.kind = "direct" THEN L!Least(want, path.cap) ELSE want)
    BY <1>1 DEF L!Write, LinkInv, LinkTypes, Numbers
  <2> QED BY <1>1, <1>2, <2>1
<1>4. /\ sentTotal' = sentTotal + w /\ queue' = queue + w /\ bytes' = w
      /\ UNCHANGED <<path, est, rx, short, rxTotal, sentPrev, backlog, since, arrived, reports, late, hot>>
  BY <1>3 DEF L!Write
<1>5. phase = "write" /\ phase' = "open" /\ rolled' = FALSE /\ reported' = FALSE /\ rxSeen' = rxSeen
  BY DEF L!Write
<1>6. busy' \in BOOLEAN /\ (busy' => path.kind = "direct")
  BY DEF L!Write
<1>7. LinkTypes'
  <2>1. Numbers'
    BY <1>4 DEF LinkInv, LinkTypes, Numbers
  <2>2. Flags'
    BY <1>5, <1>6 DEF LinkInv, LinkTypes, Flags
  <2> QED BY <1>4, <2>1, <2>2 DEF LinkInv, LinkTypes
<1>8. reports = <<>> /\ Accounts'
  BY <1>4, <1>5 DEF LinkInv, LinkTypes, Numbers, Accounts, Waiting
<1>9. Unqueued'
  BY <1>4, <1>5, <1>6 DEF LinkInv, Unqueued
<1>10. ASSUME path.kind = "absorbing" PROVE QueueGrows' /\ BacklogFollows' /\ ShortCounts'
  <2>1. Before' = queue /\ queue >= 0
    BY <1>4, <1>5 DEF LinkInv, LinkTypes, Numbers, Before
  <2>2. QueueGrows'
    BY <1>4, <1>5, <1>10, <2>1 DEF LinkInv, QueueGrows, Over, QueuedAfter, Unrolled
  <2>3. BacklogFollows' /\ ShortCounts'
    BY <1>4, <1>5, <1>10 DEF LinkInv, BacklogFollows, ShortCounts, Unrolled, Over, Waiting
  <2> QED BY <2>2, <2>3
<1> QED BY <1>4, <1>7, <1>8, <1>9, <1>10 DEF LinkInv

(* A window's verdict: not over, not busy and not deep, or as QueueGrows has it. *)
LEMMA Verdict ==
  ASSUME LinkInv, L!Roll
  PROVE  /\ L!Lowered \in Nat /\ (est * 108) \div 100 \in Nat
         /\ L!Shorts \in 0..3 /\ short' \in 0..2 /\ (L!Shorts < 3 => short' = L!Shorts)
         /\ L!Shorts >= 3 => L!Lowered = L!Least((rx * 105) \div 100, est)
         /\ L!Shorts < 3 /\ ~busy => L!Lowered = est
<1>1. est \in Nat /\ rx \in Nat /\ bytes \in Nat /\ short \in 0..2
  BY DEF LinkInv, LinkTypes, Numbers
<1>2. (est * 108) \div 100 \in Nat /\ (rx * 105) \div 100 \in Nat /\ (bytes * 9) \div 10 \in Nat
  BY <1>1
<1>3. L!Shorts \in 0..3
  BY <1>1 DEF L!Shorts
<1>4. short' = (IF L!Shorts >= 3 THEN 0 ELSE L!Shorts)
  BY DEF L!Roll, L!shortWindows
<1>5. short' \in 0..2 /\ (L!Shorts < 3 => short' = L!Shorts)
  BY <1>3, <1>4
<1>6. CASE L!Shorts >= 3
  <2>1. L!Lowered = L!Least((rx * 105) \div 100, est)
    BY <1>3, <1>6 DEF L!Lowered, L!shortWindows
  <2> QED BY <1>1, <1>2, <1>3, <1>5, <1>6, <2>1 DEF L!Least
<1>7. CASE ~(L!Shorts >= 3)
  <2>1. L!Shorts < 3
    BY <1>3, <1>7
  <2>2. L!Lowered = (IF busy THEN L!Least((bytes * 9) \div 10, est) ELSE est)
    BY <1>7, <2>1 DEF L!Lowered, L!shortWindows
  <2>3. L!Lowered \in Nat /\ (~busy => L!Lowered = est)
    BY <1>1, <1>2, <2>2 DEF L!Least
  <2> QED BY <1>2, <1>3, <1>5, <1>7, <2>1, <2>3
<1> QED BY <1>6, <1>7

LEMMA RollStep == ASSUME L!LinkAssumption, Followable, LinkInv, L!Roll PROVE LinkInv'
<1>1. /\ est' = L!ClampRate(IF L!Probing THEN (est * 108) \div 100 ELSE L!Lowered)
      /\ UNCHANGED <<path, rx, sentTotal, rxTotal, sentPrev, backlog, since, bytes, queue, arrived, reports, late>>
  BY DEF L!Roll, L!totals, L!viewer
<1>2. phase = "open" /\ ~rolled /\ rolled' = TRUE /\ UNCHANGED <<phase, reported, rxSeen, busy>>
  BY DEF L!Roll, L!viewer
<1>3. PICK h \in Nat, s \in 0..2, f \in Nat : hot' = h /\ short' = s /\ est' = f /\ L!MinRate <= f /\ f <= L!MaxRate
  <2>1. hot' \in Nat
    BY DEF L!Roll, LinkInv, LinkTypes, Numbers
  <2>2. est' \in Nat /\ L!MinRate <= est' /\ est' <= L!MaxRate
    BY <1>1, Verdict, Clamped
  <2> QED BY <2>1, <2>2, Verdict
<1>4. LinkTypes'
  <2>1. Numbers'
    BY <1>1, <1>3 DEF LinkInv, LinkTypes, Numbers
  <2>2. Flags'
    BY <1>2 DEF LinkInv, LinkTypes, Flags
  <2> QED BY <1>1, <2>1, <2>2 DEF LinkInv, LinkTypes
<1>5. Accounts' /\ Unqueued'
  BY <1>1, <1>2 DEF LinkInv, Accounts, Unqueued, Waiting
<1>6. ASSUME path.kind = "absorbing" PROVE QueueGrows' /\ BacklogFollows' /\ ShortCounts'
  <2>1. QueueGrows /\ BacklogFollows /\ ShortCounts /\ Before' = Before /\ ~busy /\ path.cap \in Nat /\ 13 * path.cap >= 6000
        /\ path \in Paths
    BY <1>1, <1>2, <1>6 DEF LinkInv, LinkTypes, Unqueued, Before, L!LinkAssumption, Followable, L!MinRate
  <2>2. est \in Nat /\ bytes \in Nat /\ hot \in Nat /\ L!MinRate <= est /\ est <= L!MaxRate /\ short \in 0..2 /\ rx \in Nat
    BY DEF LinkInv, LinkTypes, Numbers
  <2>3. h >= 1 => bytes = est /\ Over(est) /\ h = hot + 1
    BY <1>3, <1>6, <2>2 DEF L!Roll, Over
  <2>4. ASSUME L!Shorts < 3 PROVE s = L!Shorts /\ 100 * f <= 108 * est
    <3>1. s = L!Shorts /\ L!Lowered = est
      BY <1>3, <2>1, <2>4, Verdict
    <3>2. CASE L!Probing
      BY <1>1, <1>3, <2>2, <3>1, <3>2, Probed
    <3>3. CASE ~L!Probing
      BY <1>1, <1>3, <2>2, <3>1, <3>3 DEF L!ClampRate
    <3> QED BY <3>1, <3>2, <3>3
  <2>5. ASSUME ~(L!Shorts < 3) PROVE ~Over(f)
    <3>1. ~L!Probing /\ L!Lowered = L!Least((rx * 105) \div 100, est)
      BY <2>5, Verdict DEF L!Probing, L!shortWindows
    <3>2. PICK q \in Nat : q = (rx * 105) \div 100 /\ 10 * q <= 13 * path.cap
      BY <2>1, <2>2 DEF BacklogFollows
    <3>3. L!Lowered \in Nat /\ 10 * L!Lowered <= 13 * path.cap
      <4>1. \A a, b \in Nat : L!Least(a, b) \in Nat /\ L!Least(a, b) <= a
        BY DEF L!Least
      <4>2. L!Lowered \in Nat /\ L!Lowered <= q
        BY <2>2, <3>1, <3>2, <4>1
      <4> QED BY <2>1, <3>2, <4>2
    <3>4. f = L!ClampRate(L!Lowered)
      BY <1>1, <1>3, <3>1
    <3> QED BY <2>1, <3>3, <3>4 DEF L!ClampRate, L!MinRate, L!MaxRate, Over
  <2>6. hot >= 9 /\ Over(est) => L!Shorts = short + 1
    BY <1>2, <2>1, <2>2 DEF L!Shorts, L!Deep, BacklogFollows, QueueGrows, Unrolled
  <2>7. QueueGrows'
    BY <1>1, <1>2, <1>3, <2>1, <2>2, <2>3, <2>4, <2>5 DEF QueueGrows, Over, Unrolled
  <2>8. BacklogFollows'
    BY <1>1, <1>2, <1>3, <2>1, <2>2, <2>3 DEF BacklogFollows, Unrolled, Waiting, Over
  <2>9. ShortCounts'
    BY <1>1, <1>2, <1>3, <2>1, <2>2, <2>3, <2>4, <2>5, <2>6, Verdict DEF ShortCounts, Over
  <2> QED BY <2>7, <2>8, <2>9
<1>7. path.kind # "absorbing" => hot' = 0
  BY DEF L!Roll
<1> QED BY <1>1, <1>4, <1>5, <1>6, <1>7 DEF LinkInv

LEMMA DeliverStep == ASSUME L!LinkAssumption, Followable, LinkInv, L!Deliver PROVE LinkInv'
<1>1. queue \in Nat /\ bytes \in Nat /\ arrived \in Nat /\ path.cap \in Nat
  BY DEF LinkInv, LinkTypes, Numbers, L!LinkAssumption
<1>2. \A a, b \in Nat :
      /\ L!Minus(a, b) \in Nat /\ L!Minus(a, b) <= a /\ a - L!Minus(a, b) <= b
      /\ L!Least(a, b) \in Nat /\ L!Least(a, b) <= a /\ L!Least(a, b) <= b /\ L!Least(a, b) \in {a, b}
  BY DEF L!Minus, L!Least
<1>3. PICK n \in L!Carried :
      /\ queue' = queue - n /\ arrived' = arrived + n
      /\ reports' = (IF arrived + n > 0 THEN Append(reports, arrived + n) ELSE reports)
  BY DEF L!Deliver
<1>4. /\ n \in Nat /\ n <= queue
      /\ path.kind = "healthy" => queue - n <= bytes
      /\ path.kind # "healthy" => n <= path.cap /\ n \in {queue, path.cap}
  <2>1. CASE path.kind = "healthy"
    <3>1. n = L!Minus(queue, bytes) \/ n = queue
      BY <2>1 DEF L!Carried
    <3> QED BY <1>1, <1>2, <2>1, <3>1
  <2>2. CASE path.kind # "healthy"
    <3>1. n = L!Least(queue, path.cap)
      BY <2>2 DEF L!Carried
    <3> QED BY <1>1, <1>2, <2>2, <3>1
  <2> QED BY <2>1, <2>2
<1>5. /\ phase = "open" /\ reported = FALSE /\ reported' = TRUE /\ reports = <<>>
      /\ UNCHANGED <<phase, rolled, rxSeen, busy>>
      /\ UNCHANGED <<path, est, rx, short, sentTotal, rxTotal, sentPrev, backlog, since, bytes, late, hot>>
  BY DEF L!Deliver, L!totals, LinkInv, Accounts
<1>6. /\ arrived + n > 0 => reports' = <<arrived'>> /\ reports' # <<>>
      /\ ~(arrived + n > 0) => reports' = <<>>
  BY <1>1, <1>3, <1>4, <1>5
<1>7. LinkTypes'
  <2>1. Numbers'
    BY <1>1, <1>3, <1>4, <1>5 DEF LinkInv, LinkTypes, Numbers
  <2>2. Flags'
    BY <1>5 DEF LinkInv, LinkTypes, Flags
  <2> QED BY <1>5, <1>6, <2>1, <2>2 DEF LinkInv, LinkTypes
<1>8. Accounts'
  BY <1>1, <1>3, <1>4, <1>5, <1>6 DEF LinkInv, LinkTypes, Numbers, Accounts, Waiting
<1>9. Unqueued'
  BY <1>3, <1>4, <1>5 DEF LinkInv, Unqueued
<1>10. ASSUME path.kind = "absorbing" PROVE QueueGrows' /\ BacklogFollows' /\ ShortCounts'
  <2>1. QueueGrows /\ BacklogFollows /\ ShortCounts /\ path.cap > 0 /\ rxTotal = arrived /\ (rxSeen => arrived > 0)
    BY <1>1, <1>5, <1>10 DEF LinkInv, LinkTypes, Accounts, Followable, L!MinRate
  <2>2. PICK x \in Int, y \in Int : Before = x /\ Before' = y /\ x <= y /\ x = queue - bytes
    BY <1>1, <1>3, <1>4, <1>5, <1>10 DEF Before
  <2>3. bytes > 0 => arrived + n > 0
    BY <1>1, <1>4, <1>5, <1>10, <2>1, <2>2 DEF QueueGrows
  <2>4. est \in Nat /\ hot \in Nat
    BY DEF LinkInv, LinkTypes, Numbers
  <2>5. \A k, e \in Int : QueuedAfter(x, k, e) => QueuedAfter(y, k, e)
    BY <2>2 DEF QueuedAfter
  <2>6. QueueGrows'
    BY <1>1, <1>3, <1>4, <1>5, <2>1, <2>2, <2>3, <2>4, <2>5 DEF QueueGrows, Over, Unrolled, QueuedAfter
  <2>7. BacklogFollows'
    BY <1>1, <1>3, <1>4, <1>5, <1>6, <1>10, <2>1, <2>4 DEF BacklogFollows, QueueGrows, Unrolled, Waiting, Over
  <2>8. ShortCounts'
    BY <1>5, <2>1 DEF ShortCounts, Over
  <2> QED BY <2>6, <2>7, <2>8
<1> QED BY <1>5, <1>7, <1>8, <1>9, <1>10 DEF LinkInv

LEMMA ReceivedStep == ASSUME L!LinkAssumption, Followable, LinkInv, L!Received PROVE LinkInv'
<1>1. /\ phase = "open" /\ reported = TRUE /\ reports = <<arrived>> /\ reports # <<>> /\ arrived > 0
      /\ UNCHANGED <<phase, reported, rolled, busy>>
  BY DEF L!Received, LinkInv, LinkTypes, Accounts
<1>2. /\ reports' = <<>> /\ since' = 0 /\ sentPrev' = sentTotal /\ rxTotal' = arrived
      /\ UNCHANGED <<path, est, short, sentTotal, bytes, queue, arrived, hot>>
  BY <1>1 DEF L!Received
<1>3. rxSeen' = TRUE /\ late' = 0
  BY DEF L!Received, LinkInv, LinkTypes, Numbers
<1>4. Numbers
  BY DEF LinkInv, LinkTypes
<1>5. PICK b \in Nat :
      /\ backlog' = b /\ (rxSeen => b >= queue - bytes)
      /\ path.kind = "healthy" => b = 0
  <2>0. backlog' = (IF rxSeen THEN L!Minus(sentPrev, arrived) ELSE backlog)
    BY <1>1 DEF L!Received, L!Baseline
  <2>1. CASE rxSeen
    <3>1. sentPrev = arrived + queue - bytes
      BY <1>1, <1>4, <2>1 DEF LinkInv, Accounts, Waiting, Numbers
    <3>2. L!Minus(sentPrev, arrived) = (IF queue > bytes THEN queue - bytes ELSE 0)
      BY <1>4, <3>1 DEF Numbers, L!Minus
    <3>3. path.kind = "healthy" => queue <= bytes
      BY <1>1 DEF LinkInv, Unqueued
    <3> QED BY <1>4, <2>0, <2>1, <3>2, <3>3 DEF Numbers
  <2>2. CASE ~rxSeen
    BY <1>4, <2>0, <2>2 DEF LinkInv, Unqueued, Numbers
  <2> QED BY <2>1, <2>2
<1>6. PICK r \in Nat : rx' = r /\ (path.kind = "absorbing" => r <= path.cap)
  <2>1. arrived - rxTotal \in Nat /\ (path.kind = "absorbing" => arrived - rxTotal <= path.cap /\ rx <= path.cap) /\ path.cap \in Nat
    BY <1>4 DEF Numbers, LinkInv, LinkTypes, Accounts, BacklogFollows, L!LinkAssumption
  <2>2. CASE rxSeen /\ arrived > rxTotal
    <3>1. (IF since = 0 THEN 4 * (arrived - rxTotal) ELSE (arrived - rxTotal) \div since) = arrived - rxTotal
      BY <1>1, <2>1, <2>2 DEF LinkInv, Accounts, Waiting
    <3>2. rx' = (IF rx = 0 THEN arrived - rxTotal ELSE (4 * (arrived - rxTotal) + 6 * rx) \div 10)
      BY <1>1, <2>2, <3>1 DEF L!Received
    <3>3. \A x, y, c \in Nat :
          /\ (4 * x + 6 * y) \div 10 \in Nat
          /\ x <= c /\ y <= c => (4 * x + 6 * y) \div 10 <= c
      OBVIOUS
    <3>4. PICK x \in Nat : x = arrived - rxTotal
      BY <2>1
    <3>5. rx \in Nat /\ rx' = (IF rx = 0 THEN x ELSE (4 * x + 6 * rx) \div 10)
      BY <1>4, <3>2, <3>4 DEF Numbers
    <3>6. path.kind = "absorbing" => x <= path.cap /\ rx <= path.cap
      BY <2>1, <3>4
    <3> QED BY <2>1, <3>3, <3>5, <3>6
  <2>3. CASE ~(rxSeen /\ arrived > rxTotal)
    <3>1. rx' = rx
      BY <1>1, <2>3 DEF L!Received
    <3> QED BY <1>4, <2>1, <3>1 DEF Numbers
  <2> QED BY <2>2, <2>3
<1>7. LinkTypes'
  <2>1. Numbers'
    BY <1>2, <1>3, <1>4, <1>5, <1>6 DEF Numbers
  <2>2. Flags'
    BY <1>1, <1>3 DEF LinkInv, LinkTypes, Flags
  <2> QED BY <1>2, <2>1, <2>2 DEF LinkInv, LinkTypes
<1>8. Accounts'
  BY <1>1, <1>2, <1>3, <1>4 DEF LinkInv, Numbers, Accounts, Waiting
<1>9. Unqueued'
  BY <1>1, <1>2, <1>5 DEF LinkInv, Unqueued
<1>10. ASSUME path.kind = "absorbing" PROVE QueueGrows' /\ BacklogFollows' /\ ShortCounts'
  <2>1. QueueGrows /\ BacklogFollows /\ ShortCounts /\ path.cap \in Nat
    BY <1>10 DEF LinkInv, LinkTypes, L!LinkAssumption
  <2>2. Before = queue - bytes + path.cap /\ Before' = queue - bytes + path.cap
    BY <1>1, <1>2 DEF Before
  <2>3. QueueGrows'
    BY <1>1, <1>2, <1>3, <2>1, <2>2 DEF QueueGrows, Over, Unrolled
  <2>4. hot >= 8 => b + path.cap >= queue - bytes + path.cap
    <3>1. hot >= 8 => b >= queue - bytes
      BY <1>4, <1>5, <2>1 DEF Numbers, QueueGrows
    <3> QED BY <1>4, <2>1, <3>1 DEF Numbers
  <2>5. ~rolled /\ Over(est) /\ hot >= 8 => 1000 * (b + path.cap) >= 1322 * est
    BY <1>1, <1>4, <2>1, <2>2, <2>4 DEF Numbers, QueueGrows, QueuedAfter
  <2>6. rolled /\ hot >= 9 => 1000 * (b + path.cap) >= 1322 * bytes
    BY <1>1, <1>4, <2>1, <2>2, <2>4 DEF Numbers, QueueGrows, QueuedAfter
  <2>7. ~rolled /\ Over(est) /\ hot >= 9 => 2 * b > est
    BY <1>4, <2>1, <2>5 DEF Numbers, Over
  <2>8. BacklogFollows'
    BY <1>1, <1>2, <1>4, <1>5, <1>6, <1>10, <2>1, <2>5, <2>6, <2>7 DEF BacklogFollows, Unrolled, Waiting, Over, Numbers
  <2>9. ShortCounts'
    BY <1>2, <2>1 DEF ShortCounts, Over
  <2> QED BY <2>3, <2>8, <2>9
<1> QED BY <1>2, <1>7, <1>8, <1>9, <1>10 DEF LinkInv

(* One window more, at most the probe's eight per cent above the last. *)
LEMMA OneMore ==
  ASSUME NEW q \in Int, NEW c \in Nat, NEW k \in Nat, NEW b \in Nat, NEW e \in Nat,
         k >= 1, 10 * b > 13 * c, 100 * e <= 108 * b, q - b + c >= 0, QueuedAfter(q - b + c, k - 1, b)
  PROVE  QueuedAfter(q, k, e)
BY DEF QueuedAfter

LEMMA TickStep == ASSUME L!LinkAssumption, Followable, LinkInv, L!Tick PROVE LinkInv'
<1>1. phase = "open" /\ rolled /\ reported /\ phase' = "write" /\ UNCHANGED <<rxSeen, busy, rolled, reported>>
  BY DEF L!Tick
<1>2. Numbers
  BY DEF LinkInv, LinkTypes
<1>3. /\ since' = since + 1 /\ late' = 0 /\ reports = <<>>
      /\ UNCHANGED <<path, est, rx, short, sentTotal, rxTotal, sentPrev, backlog, bytes, queue, arrived, reports, hot>>
  <2>1. late' = (IF reports # <<>> THEN late + 1 ELSE late) /\ late' <= 0
    BY DEF L!Tick, Followable
  <2>2. late = 0
    BY <1>2 DEF Numbers
  <2>3. reports = <<>>
    BY <2>1, <2>2
  <2> QED BY <2>1, <2>2, <2>3 DEF L!Tick, L!totals
<1>4. LinkTypes'
  <2>1. Numbers'
    BY <1>2, <1>3 DEF Numbers
  <2>2. Flags'
    BY <1>1 DEF LinkInv, LinkTypes, Flags
  <2> QED BY <1>3, <2>1, <2>2 DEF LinkInv, LinkTypes
<1>5. Accounts'
  BY <1>1, <1>2, <1>3 DEF LinkInv, Accounts, Waiting, Numbers
<1>6. Unqueued'
  BY <1>1, <1>3 DEF LinkInv, Unqueued
<1>7. ASSUME path.kind = "absorbing" PROVE QueueGrows' /\ BacklogFollows' /\ ShortCounts'
  <2>1. QueueGrows /\ BacklogFollows /\ ShortCounts /\ path.cap \in Nat
    BY <1>7 DEF LinkInv, LinkTypes, L!LinkAssumption
  <2>2. hot >= 1 => Over(bytes) /\ (Over(est) => 100 * est <= 108 * bytes) /\ QueuedAfter(Before, hot - 1, bytes)
    BY <1>1, <2>1 DEF QueueGrows
  <2>3. hot >= 1 => bytes > 0
    BY <1>2, <2>1, <2>2 DEF Numbers, Over
  <2>4. hot >= 1 => rxSeen
    BY <1>1, <1>2, <1>3, <2>1, <2>3 DEF Numbers, QueueGrows, LinkInv, Accounts
  <2>5. Before = queue - bytes + path.cap /\ Before >= 0
    BY <1>1, <2>1 DEF Before, QueueGrows
  <2>6. Over(est) => QueuedAfter(queue, hot, est)
    <3>1. CASE hot >= 1
      BY <1>2, <2>1, <2>2, <2>5, <3>1, OneMore DEF Numbers, Over
    <3>2. CASE hot = 0
      BY <3>2 DEF QueuedAfter
    <3> QED BY <1>2, <3>1, <3>2 DEF Numbers
  <2>7. QueueGrows'
    BY <1>1, <1>3, <2>4, <2>6, <1>2 DEF QueueGrows, Over, Unrolled, Numbers
  <2>8. Over(est) /\ hot >= 9 => 1000 * (backlog + path.cap) >= 1322 * bytes
    BY <1>1, <1>3, <2>1 DEF BacklogFollows, Waiting
  <2>9. Over(est) /\ hot >= 9 => 2 * backlog > est
    BY <1>2, <2>1, <2>2, <2>8 DEF Numbers, Over
  <2>10. BacklogFollows'
    BY <1>1, <1>3, <2>1, <2>9 DEF BacklogFollows, Over
  <2>11. ShortCounts'
    BY <1>3, <2>1 DEF ShortCounts, Over
  <2> QED BY <2>7, <2>10, <2>11
<1> QED BY <1>3, <1>4, <1>5, <1>6, <1>7 DEF LinkInv

(* The estimate of a path that carries everything never falls, whatever    *)
(* bursts and pauses it carries; and on a path that swallows everything it *)
(* never stays a third over what is carried for more than twelve windows   *)
(* of full use, which is for how long a queue may grow before three        *)
(* windows in a row have found it deep: for any such paths that the        *)
(* estimate's floor leaves room for and any start, when every report comes *)
(* within its second (roll, observeReceived).                              *)
THEOREM EstimateFollows ==
  ASSUME L!LinkAssumption, Followable, NoticeWithin >= 12 PROVE L!Spec => EstimateIsFair
<1>1. L!Init => LinkInv
  BY LinkStart
<1>2. LinkInv /\ [L!Next]_(L!vars) => LinkInv'
  <2> SUFFICES ASSUME LinkInv, [L!Next]_(L!vars) PROVE LinkInv'
    OBVIOUS
  <2>1. CASE UNCHANGED L!vars
    <3>1. UNCHANGED <<path, est, rx, rxSeen, short, sentTotal, rxTotal, sentPrev, backlog, since, bytes, busy, phase, rolled,
            queue, arrived, reports, reported, late, hot>>
      BY <2>1 DEF L!vars, L!totals, L!viewer
    <3> QED BY <3>1 DEF LinkInv, LinkTypes, Numbers, Flags, Accounts, Unqueued, QueueGrows, BacklogFollows, ShortCounts,
      QueuedAfter, Before, Over, Waiting, Unrolled
  <2> QED BY <2>1, EmitStep, RollStep, DeliverStep, ReceivedStep, TickStep DEF L!Next
<1>3. LinkInv /\ LinkInv' /\ [L!Next]_(L!vars) => [L!HealthyPathIsNeverCut /\ L!OverloadIsNoticed']_(L!vars)
  <2> SUFFICES ASSUME LinkInv, LinkInv', L!Next PROVE L!HealthyPathIsNeverCut /\ L!OverloadIsNoticed'
    OBVIOUS
  <2>1. L!OverloadIsNoticed'
    <3>1. PICK h \in Nat : hot' = h
      BY DEF LinkInv, LinkTypes, Numbers
    <3>2. h <= 12
      BY <3>1 DEF LinkInv, ShortCounts
    <3> QED BY <3>1, <3>2 DEF L!OverloadIsNoticed, L!LinkAssumption
  <2>2. ASSUME path.kind = "healthy" PROVE est' >= est
    <3>1. Numbers /\ backlog = 0 /\ ~busy
      BY <2>2 DEF LinkInv, LinkTypes, Unqueued
    <3>2. CASE L!Roll
      <4>1. L!Shorts = 0
        BY <3>1 DEF Numbers, L!Shorts, L!Deep
      <4>2. L!Lowered = est
        BY <3>1, <3>2, <4>1, Verdict
      <4>3. est' = L!ClampRate(IF L!Probing THEN (est * 108) \div 100 ELSE est)
        BY <3>2, <4>2 DEF L!Roll
      <4>4. CASE L!Probing
        BY <3>1, <4>3, <4>4, Probed DEF Numbers
      <4>5. CASE ~L!Probing
        <5>1. L!ClampRate(est) = est
          BY <3>1 DEF Numbers, L!ClampRate, L!MinRate, L!MaxRate
        <5>2. est' = est
          BY <4>3, <4>5, <5>1
        <5> QED BY <3>1, <5>2 DEF Numbers
      <4> QED BY <4>4, <4>5
    <3>3. CASE ~L!Roll
      <4>1. est' = est
        BY <3>3 DEF L!Next, L!Write, L!Deliver, L!Received, L!Tick
      <4> QED BY <3>1, <4>1 DEF Numbers
    <3> QED BY <3>2, <3>3
  <2> QED BY <2>1, <2>2 DEF L!HealthyPathIsNeverCut
<1> QED BY <1>1, <1>2, <1>3, PTL DEF L!Spec, EstimateIsFair, L!EstimateIsFair
=============================================================================
