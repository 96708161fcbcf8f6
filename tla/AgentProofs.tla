---------------------------- MODULE AgentProofs ----------------------------
(***************************************************************************)
(* What holds of an agent's machines.  However often the codec is switched,*)
(* on either socket, an encoder that is open has one owner: the holder, or *)
(* the input loop that is about to install or to close it; for any         *)
(* encoders, with and without ffmpeg and with and without an input socket. *)
(* A supervisor past its start has one console worker at most, for any     *)
(* workers, consoles, versions and updaters.  And an unenrolment removes a *)
(* host only when a half of it is on its way off the machine.              *)
(***************************************************************************)
EXTENDS MCAgentMachines, TLAPS, SequenceTheorems

-----------------------------------------------------------------------------
(* The encoders of a screen session (EncoderSwap). *)

(* A loop carries an encoder while it switches, and one that was made and, *)
(* until the session is torn down, not closed; so is the held one made.    *)
InHand ==
  /\ held \in made
  /\ \A l \in Loops :
       /\ hand[l] # None <=> loop[l] \in {"created", "swapped"}
       /\ hand[l] # None => hand[l] \in made /\ (phase # "over" => hand[l] \notin closed)

IInv == TypeOK /\ InHand /\ EncodersAreOwned

-----------------------------------------------------------------------------
LEMMA TypeStep == ASSUME EncodersAssumption, TypeOK, InHand, [Next]_vars PROVE TypeOK'
<1> USE DEF EncodersAssumption, TypeOK, InHand, Loops
<1>1. ASSUME NEW l \in Loops, NewEncoder(l) PROVE TypeOK'
  BY <1>1 DEF NewEncoder
<1>2. ASSUME NEW l \in Loops, Swap(l) PROVE TypeOK'
  BY <1>2 DEF Swap
<1>3. ASSUME NEW l \in Loops, CloseOld(l) PROVE TypeOK'
  BY <1>3 DEF CloseOld, Close
<1>4. ASSUME NEW l \in Loops, LoopEnds(l) PROVE TypeOK'
  BY <1>4 DEF LoopEnds
<1>5. CASE Cancel
  BY <1>5 DEF Cancel
<1>6. CASE CloseHeld
  BY <1>6 DEF CloseHeld, Close
<1>7. CASE FrameStep
  BY <1>7 DEF FrameStep, CheckContext, Capture, Encode
<1>8. CASE UNCHANGED vars
  BY <1>8 DEF vars
<1> QED
  BY <1>1, <1>2, <1>3, <1>4, <1>5, <1>6, <1>7, <1>8 DEF Next, LoopStep

(* The frame loop, the loops that end and the context leave every encoder  *)
(* where it is. *)
LEMMA Untouched ==
  ASSUME IInv, TypeOK', UNCHANGED <<hand, held, made, closed>>,
         phase' = "over" <=> phase = "over",
         \A l \in Loops : loop'[l] \in {"created", "swapped"} <=> loop[l] \in {"created", "swapped"}
  PROVE  IInv'
  BY DEF IInv, InHand, EncodersAreOwned, OneOwner, NoneForgotten

(* What a switch does to the two hands and the holder.                     *)
LEMMA InvariantStep == ASSUME EncodersAssumption, IInv, [Next]_vars PROVE IInv'
<1>0. TypeOK'
  BY TypeStep DEF IInv
<1>1. ASSUME NEW l \in Loops, NewEncoder(l) PROVE IInv'
  <2> PICK e \in Encoders \ made : made' = made \cup {e} /\ hand' = [hand EXCEPT ![l] = e]
    BY <1>1 DEF NewEncoder
  <2>1. e # None /\ e # held /\ e \notin closed /\ \A k \in Loops : hand[k] # e
    BY DEF IInv, TypeOK, InHand, EncodersAssumption
  <2>2. hand[l] = None
    BY <1>1 DEF NewEncoder, IInv, InHand, TypeOK
  <2>3. InHand'
    BY <1>1, <2>1 DEF NewEncoder, IInv, InHand, TypeOK
  <2>4. OneOwner'
    BY <1>1, <2>1 DEF NewEncoder, IInv, TypeOK, EncodersAreOwned, OneOwner, Loops
  <2>5. NoneForgotten'
    BY <1>1, <2>1, <2>2 DEF NewEncoder, IInv, InHand, TypeOK, EncodersAssumption, EncodersAreOwned, NoneForgotten
  <2> QED
    BY <1>0, <2>3, <2>4, <2>5 DEF IInv, EncodersAreOwned
<1>2. ASSUME NEW l \in Loops, Swap(l) PROVE IInv'
  <2>1. hand[l] # None /\ held # None
    BY <1>2 DEF Swap, IInv, InHand, TypeOK, EncodersAssumption
  <2>2. InHand'
    BY <1>2, <2>1 DEF Swap, IInv, InHand, TypeOK, EncodersAreOwned, OneOwner
  <2>3. OneOwner'
    BY <1>2, <2>1 DEF Swap, IInv, InHand, TypeOK, EncodersAreOwned, OneOwner, Loops
  <2>4. NoneForgotten'
    BY <1>2, <2>1 DEF Swap, IInv, TypeOK, EncodersAreOwned, NoneForgotten
  <2> QED
    BY <1>0, <2>2, <2>3, <2>4 DEF IInv, EncodersAreOwned
<1>3. ASSUME NEW l \in Loops, CloseOld(l) PROVE IInv'
  <2>1. hand[l] # None
    BY <1>3 DEF CloseOld, IInv, InHand
  <2>2. hand[l] # held /\ \A k \in Loops : k # l /\ hand[k] # None => hand[k] # hand[l]
    BY <2>1 DEF IInv, EncodersAreOwned, OneOwner, Loops
  <2>3. InHand'
    BY <1>3, <2>2 DEF CloseOld, Close, IInv, InHand, TypeOK
  <2>4. OneOwner'
    BY <1>3, <2>2 DEF CloseOld, Close, IInv, TypeOK, EncodersAreOwned, OneOwner, Loops
  <2>5. NoneForgotten'
    BY <1>3 DEF CloseOld, Close, IInv, TypeOK, EncodersAreOwned, NoneForgotten
  <2> QED
    BY <1>0, <2>3, <2>4, <2>5 DEF IInv, EncodersAreOwned
<1>4. ASSUME NEW l \in Loops, LoopEnds(l) PROVE IInv'
  <2>1. \A k \in Loops : loop'[k] \in {"created", "swapped"} <=> loop[k] \in {"created", "swapped"}
    BY <1>4 DEF LoopEnds, IInv, TypeOK
  <2> QED
    BY <1>0, <1>4, <2>1, Untouched DEF LoopEnds
<1>5. CASE Cancel
  BY <1>0, <1>5, Untouched DEF Cancel
<1>6. CASE CloseHeld
  BY <1>0, <1>6 DEF CloseHeld, Close, IInv, InHand, EncodersAreOwned, OneOwner, NoneForgotten
<1>7. CASE FrameStep
  BY <1>0, <1>7, Untouched DEF FrameStep, CheckContext, Capture, Encode
<1>8. CASE UNCHANGED vars
  BY <1>0, <1>8, Untouched DEF vars
<1> QED
  BY <1>1, <1>2, <1>3, <1>4, <1>5, <1>6, <1>7, <1>8 DEF Next, LoopStep

-----------------------------------------------------------------------------
LEMMA Invariance == ASSUME EncodersAssumption PROVE Spec => []IInv
<1>1. Init => IInv
  BY DEF Init, IInv, TypeOK, InHand, EncodersAreOwned, OneOwner, NoneForgotten, Loops, EncodersAssumption
<1>2. IInv /\ [Next]_vars => IInv'
  BY InvariantStep
<1> QED
  BY <1>1, <1>2, PTL DEF Spec

(* The encoders of a session, the loops that switch them and the frame     *)
(* loop (encHolder, switchCodec, frameLoop).                               *)
THEOREM TypeCorrect == ASSUME EncodersAssumption PROVE Spec => []TypeOK
<1>1. IInv => TypeOK
  BY DEF IInv
<1> QED
  BY <1>1, Invariance, PTL

(* Two codec switches at once close each encoder once between them and     *)
(* forget none (encHolder.swap).                                           *)
THEOREM EveryEncoderOwned == ASSUME EncodersAssumption PROVE Spec => []EncodersAreOwned
<1>1. IInv => EncodersAreOwned
  BY DEF IInv
<1> QED
  BY <1>1, Invariance, PTL

-----------------------------------------------------------------------------
(* The console worker (AgentProcess). *)

ProcessTypes ==
  /\ console \in Consoles \cup {None} /\ sid \in Consoles \cup {None}
  /\ proc \in Workers \cup {None}
  /\ alive \in [Workers -> Consoles \cup {None}]

(* A worker that is alive is the one the supervisor has on record, and     *)
(* there is none while it is about to launch one. *)
OnRecord ==
  /\ sup = "polling" => \A w \in Workers : alive[w] # None => w = proc
  /\ sup = "launching" => \A w \in Workers : alive[w] = None

LEMMA WorkerInit == ASSUME P!Init PROVE ProcessTypes /\ OnRecord
BY DEF P!Init, ProcessTypes, OnRecord

LEMMA WorkerStep ==
  ASSUME P!ProcessAssumption, ProcessTypes, OnRecord, [P!Next]_(P!vars)
  PROVE  ProcessTypes' /\ OnRecord'
<1> USE DEF ProcessTypes, OnRecord
<1>1. CASE P!Ends
  BY <1>1 DEF P!Ends
<1>2. CASE P!Relaunch
  BY <1>2 DEF P!Relaunch, P!workers
<1>3. CASE P!Reap
  BY <1>3 DEF P!Reap
<1>4. CASE P!Poll
  <2>1. sup = "polling" /\ sid' = console /\ UNCHANGED console
    BY <1>4 DEF P!Poll
  <2>2. CASE P!Stop
    <3>1. None \notin Workers
      BY DEF P!ProcessAssumption
    <3>2. proc' = None /\ alive' \in [Workers -> Consoles \cup {None}]
      BY <2>2 DEF P!Stop
    <3>3. \A w \in Workers : alive'[w] = None
      BY <2>1, <2>2, <3>1 DEF P!Stop
    <3> QED BY <2>1, <3>2, <3>3
  <2>3. CASE UNCHANGED <<sup, proc, session, P!workers>>
    BY <2>1, <2>3 DEF P!workers
  <2> QED BY <1>4, <2>2, <2>3 DEF P!Poll
<1>5. ASSUME NEW w \in Workers, P!LaunchWorker(w) PROVE ProcessTypes' /\ OnRecord'
  BY <1>5 DEF P!LaunchWorker
<1>6. CASE P!LaunchFails
  BY <1>6 DEF P!LaunchFails, P!workers
<1>7. ASSUME NEW w \in Workers, P!WorkerDies(w) PROVE ProcessTypes' /\ OnRecord'
  BY <1>7 DEF P!WorkerDies, P!supervisor
<1>8. CASE P!SwitchConsole
  BY <1>8 DEF P!SwitchConsole, P!supervisor, P!workers
<1>9. CASE UNCHANGED <<console, P!supervisor, P!workers>>
  BY <1>9 DEF P!supervisor, P!workers
<1> QED
  BY <1>1, <1>2, <1>3, <1>4, <1>5, <1>6, <1>7, <1>8, <1>9
     DEF P!Next, P!vars, P!CheckOnce, P!RemoveBackup, P!MoveAway, P!MoveIn, P!Exit, P!Crash, P!Release

(* Whatever workers earlier helpers left behind, and whenever this one was *)
(* stopped, a supervisor that polls or launches has one worker at most     *)
(* (superviseConsole, killStrayWorkers, stop).                             *)
THEOREM WorkerIsOne == ASSUME P!ProcessAssumption PROVE P!Spec => []OneWorker
<1>1. P!Init => ProcessTypes /\ OnRecord
  BY WorkerInit
<1>2. ProcessTypes /\ OnRecord /\ [P!Next]_(P!vars) => (ProcessTypes /\ OnRecord)'
  BY WorkerStep
<1>3. OnRecord => OneWorker
  BY DEF OnRecord, OneWorker, P!OneWorker
<1> QED BY <1>1, <1>2, <1>3, PTL DEF P!Spec

-----------------------------------------------------------------------------
(* The unenrolment (Unenroll). *)

Both == {"user", "elevated"}
Lists == {<<>>, <<"user">>, <<"elevated">>, <<"user", "elevated">>}

(* What an accepting answer rests on at every stage of its way to the      *)
(* count, and what the handler has counted where it is. *)
Launched ==
  /\ \A h \in Both : req[h] = "accepting" \/ col[h] = "ok" => h \in torn
  /\ accepted \subseteq torn
Counted ==
  /\ waits \in Lists
  /\ U!EveryHalfCounted
  /\ pc = "idle" => accepted = {} /\ failed = {} /\ \A h \in Both : req[h] = "none"
  /\ pc \in {"watching", "removing"} => accepted # {}
UnenrolInv ==
  /\ req \in [Both -> {"none", "sent", "accepting", "refusing", "over"}]
  /\ col \in [Both -> {"waiting", "ok", "error"}]
  /\ Launched /\ Counted

LEMMA Listed ==
  /\ U!ControlConns \in Lists
  /\ \A h \in Both : h \in attached <=> h \in U!ToSet(U!ControlConns)
<1>1. U!ToSet(<<>>) = {} /\ U!ToSet(<<"user">>) = {"user"} /\ U!ToSet(<<"elevated">>) = {"elevated"}
      /\ U!ToSet(<<"user", "elevated">>) = Both
  BY DEF U!ToSet, Both
<1>2. CASE "user" \in attached /\ "elevated" \in attached
  <2>1. Append(<<"user">>, "elevated") = <<"user", "elevated">>
    <3> DEFINE s == Append(<<"user">>, "elevated")
               t == <<"user", "elevated">>
    <3>1. s \in Seq(Both) /\ t \in Seq(Both) /\ Len(s) = 2 /\ Len(t) = 2
      BY DEF Both
    <3>2. s[1] = t[1] /\ s[2] = t[2]
      OBVIOUS
    <3>3. \A i \in 1 .. Len(s) : s[i] = t[i]
      BY <3>1, <3>2
    <3> HIDE DEF s, t
    <3>4. s = t
      BY <3>1, <3>3, SeqEqual
    <3> QED BY <3>4 DEF s, t
  <2>2. U!ControlConns = <<"user", "elevated">>
    BY <1>2, <2>1 DEF U!ControlConns
  <2> QED BY <1>1, <1>2, <2>2 DEF Lists, Both
<1>3. CASE "user" \in attached /\ "elevated" \notin attached
  <2>1. U!ControlConns = <<"user">>
    BY <1>3 DEF U!ControlConns
  <2> QED BY <1>1, <1>3, <2>1 DEF Lists, Both
<1>4. CASE "user" \notin attached /\ "elevated" \in attached
  <2>1. U!ControlConns = <<"elevated">>
    BY <1>4 DEF U!ControlConns
  <2> QED BY <1>1, <1>4, <2>1 DEF Lists, Both
<1>5. CASE "user" \notin attached /\ "elevated" \notin attached
  <2>1. U!ControlConns = <<>>
    BY <1>5 DEF U!ControlConns
  <2> QED BY <1>1, <1>5, <2>1 DEF Lists, Both
<1> QED BY <1>2, <1>3, <1>4, <1>5

(* The half waited for is taken off the list, once. *)
LEMMA TakenOffTheList ==
  ASSUME waits \in Lists, waits # <<>>
  PROVE  /\ Tail(waits) \in Lists /\ Head(waits) \in Both
         /\ Head(waits) \in U!ToSet(waits)
         /\ U!ToSet(Tail(waits)) = U!ToSet(waits) \ {Head(waits)}
<1>1. U!ToSet(<<>>) = {} /\ U!ToSet(<<"user">>) = {"user"} /\ U!ToSet(<<"elevated">>) = {"elevated"}
      /\ U!ToSet(<<"user", "elevated">>) = Both
  BY DEF U!ToSet, Both
<1>2. CASE waits = <<"user">>
  BY <1>1, <1>2 DEF Lists, Both
<1>3. CASE waits = <<"elevated">>
  BY <1>1, <1>3 DEF Lists, Both
<1>4. CASE waits = <<"user", "elevated">>
  <2>1. Head(waits) = "user" /\ Tail(waits) = <<"elevated">>
    BY <1>4
  <2> QED BY <1>1, <1>4, <2>1 DEF Lists, Both
<1> QED BY <1>2, <1>3, <1>4 DEF Lists

LEMMA UnenrolStart == ASSUME U!Init PROVE UnenrolInv
<1>1. U!ToSet(<<>>) = {}
  BY DEF U!ToSet
<1> QED BY <1>1 DEF U!Init, UnenrolInv, Launched, Counted, Both, Lists, U!EveryHalfCounted

LEMMA UnenrolStep == ASSUME UnenrolInv, [U!Next]_(U!vars) PROVE UnenrolInv'
<1> USE DEF UnenrolInv, Launched, Counted, U!EveryHalfCounted
<1>1. CASE U!Refuse
  BY <1>1 DEF U!Refuse, U!agentVars, U!ToSet
<1>2. CASE U!Ask
  BY <1>2, Listed DEF U!Ask, U!ToSet, Both
<1>3. CASE U!Collect
  <2>1. waits \in Lists /\ waits # <<>> /\ waits' = Tail(waits) /\ UNCHANGED <<torn, req, col, pc>> /\ pc = "collecting"
    BY <1>3 DEF U!Collect, U!agentVars
  <2>2. waits' \in Lists /\ Head(waits) \in Both /\ Head(waits) \in U!ToSet(waits)
        /\ U!ToSet(waits)' = U!ToSet(waits) \ {Head(waits)}
    BY <2>1, TakenOffTheList DEF U!ToSet
  <2>3. \/ col[Head(waits)] = "ok" /\ accepted' = accepted \cup {Head(waits)} /\ failed' = failed
        \/ accepted' = accepted /\ failed' = failed \cup {Head(waits)}
    BY <1>3 DEF U!Collect
  <2> HIDE DEF U!EveryHalfCounted
  <2>4. U!EveryHalfCounted'
    BY <2>1, <2>2, <2>3 DEF U!EveryHalfCounted
  <2> QED BY <2>1, <2>2, <2>3, <2>4
<1>4. CASE U!TimeOut
  <2>1. waits \in Lists /\ waits # <<>> /\ waits' = Tail(waits) /\ UNCHANGED <<torn, req, col, pc, accepted>>
        /\ pc = "collecting" /\ failed' = failed \cup {Head(waits)}
    BY <1>4 DEF U!TimeOut, U!agentVars
  <2>2. waits' \in Lists /\ Head(waits) \in Both /\ Head(waits) \in U!ToSet(waits)
        /\ U!ToSet(waits)' = U!ToSet(waits) \ {Head(waits)}
    BY <2>1, TakenOffTheList DEF U!ToSet
  <2> HIDE DEF U!EveryHalfCounted
  <2>3. U!EveryHalfCounted'
    BY <2>1, <2>2 DEF U!EveryHalfCounted
  <2> QED BY <2>1, <2>2, <2>3
<1>5. CASE U!Count
  BY <1>5 DEF U!Count, U!agentVars, U!ToSet
<1>6. CASE U!SeesGone \/ U!WatchExpires \/ U!TimerFires \/ U!OtherRemove \/ U!RemoveHost
  BY <1>6 DEF U!SeesGone, U!WatchExpires, U!TimerFires, U!OtherRemove, U!RemoveHost, U!agentVars, U!hubVars, U!ToSet
<1>7. ASSUME NEW r \in U!Roles, U!Register(r) \/ U!Drop(r) PROVE UnenrolInv'
  BY <1>7 DEF U!Register, U!Drop, U!Lost, U!hubVars, U!ToSet, Both
<1>8. ASSUME NEW h \in Both, U!RunUninstall(h) PROVE UnenrolInv'
  BY <1>8 DEF U!RunUninstall, U!hubVars, U!ToSet, Both
<1>9. ASSUME NEW h \in Both, U!AnswerArrives(h) PROVE UnenrolInv'
  BY <1>9 DEF U!AnswerArrives, U!hubVars, U!ToSet, Both
<1>10. ASSUME NEW h \in Both, U!TakenOff(h) PROVE UnenrolInv'
  BY <1>10 DEF U!TakenOff, U!Lost, U!hubVars, U!ToSet, Both
<1>11. CASE UNCHANGED U!vars
  BY <1>11 DEF U!vars, U!agentVars, U!hubVars, U!ToSet
<1> QED
  BY <1>1, <1>2, <1>3, <1>4, <1>5, <1>6, <1>7, <1>8, <1>9, <1>10, <1>11 DEF U!Next, U!HubStep, Both

(* A host is only removed from the dashboard when a half that accepted is  *)
(* on its way off the machine and nothing of it is attached, and each half *)
(* is counted as what it came to (unenrollHost, askAgentsToUninstall).     *)
THEOREM WillingHostsOnly == U!Spec => OnlyWillingHostsRemoved
<1>1. U!Init => UnenrolInv
  BY UnenrolStart
<1>2. UnenrolInv /\ [U!Next]_(U!vars) => UnenrolInv'
  BY UnenrolStep
<1>3. UnenrolInv /\ UnenrolInv' /\ [U!Next]_(U!vars) =>
        [/\ pc = "removing" /\ listed /\ ~listed' => accepted \cap torn # {} /\ attached = {}
         /\ U!CountsAreTrue']_(U!vars)
  <2> SUFFICES ASSUME UnenrolInv, UnenrolInv', U!Next
               PROVE  /\ pc = "removing" /\ listed /\ ~listed' => accepted \cap torn # {} /\ attached = {}
                      /\ U!CountsAreTrue'
    OBVIOUS
  <2>1. U!CountsAreTrue'
    BY DEF UnenrolInv, Launched, Counted, U!CountsAreTrue, U!AcceptedMeansLaunched
  <2>2. pc = "removing" => accepted # {} /\ accepted \subseteq torn
    BY DEF UnenrolInv, Launched, Counted
  <2>3. listed /\ ~listed' => attached = {}
    BY DEF U!Next, U!HubStep, U!agentVars, U!hubVars, U!Refuse, U!Ask, U!Collect, U!TimeOut, U!Count,
      U!SeesGone, U!WatchExpires, U!RemoveHost, U!TimerFires, U!OtherRemove, U!Register, U!Drop, U!RunUninstall,
      U!AnswerArrives, U!TakenOff
  <2> QED BY <2>1, <2>2, <2>3
<1> QED BY <1>1, <1>2, <1>3, PTL DEF U!Spec, OnlyWillingHostsRemoved, U!OnlyWillingHostsRemoved

=============================================================================
