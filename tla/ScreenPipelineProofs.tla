------------------------ MODULE ScreenPipelineProofs ------------------------
(***************************************************************************)
(* With distinct session ids, an agent process never runs two screen       *)
(* sessions neither of which has been told to stop, for any number of      *)
(* sessions started in any order.                                          *)
(***************************************************************************)
EXTENDS ScreenPipeline, TLAPS

LEMMA TypeStep == ASSUME TypeOK, [Next]_vars PROVE TypeOK'
<1> USE IdOfIsAFunction, NativeIsAMode DEF TypeOK, Phases, Go
<1>1. ASSUME NEW s \in Sessions, Dial(s) PROVE TypeOK'
  BY <1>1 DEF Dial
<1>2. ASSUME NEW s \in Sessions, Claim(s) PROVE TypeOK'
  BY <1>2 DEF Claim
<1>3. ASSUME NEW s \in Sessions, EndPrevious(s) PROVE TypeOK'
  BY <1>3 DEF EndPrevious
<1>4. ASSUME NEW s \in Sessions, OpenCapturer(s) PROVE TypeOK'
  BY <1>4 DEF OpenCapturer
<1>5. ASSUME NEW s \in Sessions, StartEncoder(s) \/ CloseEncoder(s) \/ CloseCapturer(s)
      PROVE TypeOK'
  BY <1>5 DEF StartEncoder, CloseEncoder, CloseCapturer
<1>6. ASSUME NEW s \in Sessions, CloseSuperseded(s) \/ PeerLeaves(s) \/ InputLoopEnds(s)
      PROVE TypeOK'
  BY <1>6 DEF CloseSuperseded, PeerLeaves, InputLoopEnds
<1>7. ASSUME NEW s \in Sessions, RememberMode(s) \/ SetDisplayMode(s) \/ RestoreMode(s)
      PROVE TypeOK'
  BY <1>7 DEF RememberMode, Remember, SetDisplayMode, RestoreMode
<1>8. ASSUME NEW s \in Sessions, Release(s) PROVE TypeOK'
  BY <1>8 DEF Release
<1>10. ASSUME NEW s \in Sessions, AuxStep(s) PROVE TypeOK'
  BY <1>10 DEF AuxStep, AuxGo, DialInput, AuxReads, AuxRemembers, AuxSets, AuxEnds, Remember
<1>9. CASE UNCHANGED vars
  BY <1>9 DEF vars
<1> QED
  BY <1>1, <1>2, <1>3, <1>4, <1>5, <1>6, <1>7, <1>8, <1>9, <1>10 DEF Next, Step

(* Every variable keeps its type; in particular a session only ever puts   *)
(* back a mode it has seen (restore's guard on what was remembered).       *)
THEOREM TypeCorrect == Spec => []TypeOK
<1>1. Init => TypeOK
  BY NativeIsAMode DEF Init, TypeOK, Phases
<1> QED
  BY <1>1, TypeStep, PTL DEF Spec

-----------------------------------------------------------------------------
(* The slot's id and its stop function are one session's, which has not    *)
(* released it; and only a session between claim and endPrevious owes      *)
(* another a stop.                                                         *)
SlotIsConsistent ==
  \A a \in Agents :
    holder[a] # None => /\ Claimed(holder[a])
                        /\ server[holder[a]] = a
                        /\ slotId[a] = IdOf[holder[a]]

OnlyClaimedOwes == \A s \in Sessions : prev[s] # None => pc[s] = "claimed"

(* A capturer is closed before, an encoder before that, the claim is       *)
(* released. *)
TornDownInOrder ==
  \A s \in Sessions : /\ encoder[s] => pc[s] \in {"running", "setting", "restoring", "encoding"}
                      /\ capturer[s] => pc[s] \in {"capturing", "running", "setting",
                                                   "restoring", "encoding", "closing"}

IInv ==
  TypeOK /\ SlotIsConsistent /\ OnlyClaimedOwes /\ TornDownInOrder /\ ActiveIsRecorded

(* Steps that touch neither the slots nor who has been told to stop, and   *)
(* leave every session on the same side of its claim.                      *)
LEMMA LocalSteps ==
  ASSUME IInv, TypeOK', TornDownInOrder',
         UNCHANGED <<server, slotId, holder, prev, closed>>,
         \A s \in Sessions : Claimed(s)' <=> Claimed(s),
         \A s \in Sessions : (pc[s] = "claimed") <=> (pc'[s] = "claimed")
  PROVE  IInv'
<1>1. SlotIsConsistent'
  BY NoneIsNothing DEF IInv, TypeOK, SlotIsConsistent
<1>2. OnlyClaimedOwes'
  BY DEF IInv, OnlyClaimedOwes
<1>3. \A s \in Sessions : Superseded(s)' <=> Superseded(s)
  BY DEF Superseded
<1>4. ActiveIsRecorded'
  BY <1>3 DEF IInv, ActiveIsRecorded
<1> QED
  BY <1>1, <1>2, <1>4 DEF IInv

LEMMA InvariantStep ==
  ASSUME IdsAreDistinct, IInv, [Next]_vars PROVE IInv'
<1> USE NoneIsNothing
<1>0. TypeOK'
  BY TypeStep DEF IInv
<1>a. TornDownInOrder'
  BY DEF IInv, TypeOK, TornDownInOrder, Next, Step, vars, Go, Dial, Claim, EndPrevious,
         OpenCapturer, StartEncoder, CloseSuperseded, PeerLeaves, RememberMode,
         SetDisplayMode, InputLoopEnds, RestoreMode, CloseEncoder, CloseCapturer, Release,
         AuxStep, DialInput, AuxReads, AuxRemembers, AuxSets, AuxEnds
<1>1. ASSUME NEW s \in Sessions, Dial(s) PROVE IInv'
  BY <1>0, <1>1, <1>a DEF Dial, Go, IInv, TypeOK, SlotIsConsistent, OnlyClaimedOwes,
                          ActiveIsRecorded, Superseded, Claimed
<1>2. ASSUME NEW s \in Sessions, Claim(s) PROVE IInv'
  <2> DEFINE a == server[s]
  <2>1. /\ pc[s] = "dialled" /\ pc' = [pc EXCEPT ![s] = "claimed"]
        /\ prev' = [prev EXCEPT ![s] = holder[a]]
        /\ slotId' = [slotId EXCEPT ![a] = IdOf[s]]
        /\ holder' = [holder EXCEPT ![a] = s]
        /\ UNCHANGED <<server, closed>>
    BY <1>2 DEF Claim, Go
  <2>2. SlotIsConsistent'
    BY <2>1 DEF IInv, TypeOK, SlotIsConsistent, Claimed
  <2>3. OnlyClaimedOwes'
    BY <2>1 DEF IInv, TypeOK, OnlyClaimedOwes
  <2>4. ActiveIsRecorded'
    <3> SUFFICES ASSUME NEW t \in Sessions, Claimed(t)', ~Superseded(t)'
                 PROVE  holder'[server'[t]] = t /\ slotId'[server'[t]] = IdOf[t]
      BY DEF ActiveIsRecorded
    <3>1. CASE t = s
      BY <2>1, <3>1 DEF IInv, TypeOK
    <3>2. CASE t # s
      <4>1. Claimed(t) /\ ~closed[t]
        BY <2>1, <3>2 DEF IInv, TypeOK, Claimed, Superseded
      <4>2. ~Superseded(t)
        BY <2>1, <4>1 DEF IInv, TypeOK, Superseded
      <4>3. holder[server[t]] = t
        BY <4>1, <4>2 DEF IInv, ActiveIsRecorded
      <4>4. server[t] # a
        BY <2>1, <4>3 DEF IInv, TypeOK, Superseded
      <4> QED
        BY <2>1, <4>1, <4>2, <4>4 DEF IInv, TypeOK, ActiveIsRecorded
    <3> QED
      BY <3>1, <3>2
  <2> QED
    BY <1>0, <1>a, <2>2, <2>3, <2>4 DEF IInv
<1>3. ASSUME NEW s \in Sessions, EndPrevious(s) PROVE IInv'
  <2>1. /\ pc[s] = "claimed" /\ pc' = [pc EXCEPT ![s] = "setup"]
        /\ closed' = [t \in Sessions |-> closed[t] \/ t = prev[s]]
        /\ prev' = [prev EXCEPT ![s] = None]
        /\ UNCHANGED <<server, slotId, holder>>
    BY <1>3 DEF EndPrevious, Go
  <2>2. SlotIsConsistent'
    BY <2>1 DEF IInv, TypeOK, SlotIsConsistent, Claimed
  <2>3. OnlyClaimedOwes'
    BY <2>1 DEF IInv, TypeOK, OnlyClaimedOwes
  <2>4. \A t \in Sessions : Superseded(t) => Superseded(t)'
    BY <2>1 DEF IInv, TypeOK, Superseded
  <2>5. \A t \in Sessions : Claimed(t)' => Claimed(t)
    BY <2>1 DEF IInv, TypeOK, Claimed
  <2>6. ActiveIsRecorded'
    BY <2>1, <2>4, <2>5 DEF IInv, ActiveIsRecorded
  <2> QED
    BY <1>0, <1>a, <2>2, <2>3, <2>6 DEF IInv
<1>4. ASSUME NEW s \in Sessions, Release(s) PROVE IInv'
  <2>1. /\ pc[s] = "captured" /\ pc' = [pc EXCEPT ![s] = "over"]
        /\ slotId' = [slotId EXCEPT ![server[s]] = IF MayRelease(s) THEN None ELSE @]
        /\ holder' = [holder EXCEPT ![server[s]] = IF MayRelease(s) THEN None ELSE @]
        /\ UNCHANGED <<server, prev, closed>>
    BY <1>4 DEF Release, Go
  <2>2. \A a \in Agents : holder'[a] # None => holder[a] # s /\ holder'[a] = holder[a]
                                               /\ slotId'[a] = slotId[a]
    BY <2>1 DEF IInv, TypeOK, SlotIsConsistent, MayRelease
  <2>3. SlotIsConsistent'
    BY <2>1, <2>2 DEF IInv, TypeOK, SlotIsConsistent, Claimed
  <2>4. OnlyClaimedOwes'
    BY <2>1 DEF IInv, TypeOK, OnlyClaimedOwes
  <2>5. ActiveIsRecorded'
    <3> SUFFICES ASSUME NEW t \in Sessions, Claimed(t)', ~Superseded(t)'
                 PROVE  holder'[server'[t]] = t /\ slotId'[server'[t]] = IdOf[t]
      BY DEF ActiveIsRecorded
    <3>1. t # s /\ Claimed(t)
      BY <2>1 DEF IInv, TypeOK, Claimed
    <3>2. ~Superseded(t)
      BY <2>1 DEF IInv, TypeOK, Superseded
    <3>3. holder[server[t]] = t /\ slotId[server[t]] = IdOf[t]
      BY <3>1, <3>2 DEF IInv, ActiveIsRecorded
    <3>4. server[t] = server[s] => ~MayRelease(s)
      BY <3>1, <3>3 DEF MayRelease, IdsAreDistinct
    <3> QED
      BY <2>1, <3>3, <3>4 DEF IInv, TypeOK
  <2> QED
    BY <1>0, <1>a, <2>3, <2>4, <2>5 DEF IInv
<1>5. ASSUME NEW s \in Sessions,
             OpenCapturer(s) \/ StartEncoder(s) \/ CloseSuperseded(s) \/ PeerLeaves(s)
             \/ RememberMode(s) \/ SetDisplayMode(s) \/ InputLoopEnds(s) \/ RestoreMode(s)
             \/ CloseEncoder(s) \/ CloseCapturer(s)
      PROVE IInv'
  <2>1. UNCHANGED <<server, slotId, holder, prev, closed>>
    BY <1>5 DEF OpenCapturer, StartEncoder, CloseSuperseded, PeerLeaves, RememberMode,
                SetDisplayMode, InputLoopEnds, RestoreMode, CloseEncoder, CloseCapturer
  <2>2. \A t \in Sessions : /\ Claimed(t)' <=> Claimed(t)
                            /\ (pc[t] = "claimed") <=> (pc'[t] = "claimed")
    BY <1>5 DEF IInv, TypeOK, Claimed, Go, OpenCapturer, StartEncoder, CloseSuperseded,
                PeerLeaves, RememberMode, SetDisplayMode, InputLoopEnds, RestoreMode,
                CloseEncoder, CloseCapturer
  <2> QED
    BY <1>0, <1>a, <2>1, <2>2, LocalSteps
<1>7. ASSUME NEW s \in Sessions, AuxStep(s) PROVE IInv'
  <2>1. UNCHANGED <<pc, server, slotId, holder, prev, closed>>
    BY <1>7 DEF AuxStep, DialInput, AuxReads, AuxRemembers, AuxSets, AuxEnds
  <2>2. \A t \in Sessions : Claimed(t)' <=> Claimed(t)
    BY <2>1 DEF Claimed
  <2> QED
    BY <1>0, <1>a, <2>1, <2>2, LocalSteps
<1>6. CASE UNCHANGED vars
  <2>1. \A t \in Sessions : Claimed(t)' <=> Claimed(t)
    BY <1>6 DEF vars, Claimed
  <2> QED
    BY <1>0, <1>6, <1>a, <2>1, LocalSteps DEF vars
<1> QED
  BY <1>1, <1>2, <1>3, <1>4, <1>5, <1>6, <1>7 DEF Next, Step

LEMMA Invariance == ASSUME IdsAreDistinct PROVE Spec => []IInv
<1>1. Init => IInv
  BY NativeIsAMode, NoneIsNothing
  DEF Init, IInv, TypeOK, Phases, SlotIsConsistent, OnlyClaimedOwes, TornDownInOrder,
      ActiveIsRecorded, Claimed
<1>2. IInv /\ [Next]_vars => IInv'
  BY InvariantStep
<1> QED
  BY <1>1, <1>2, PTL DEF Spec

(* The session that has not been told to stop is the one on record, so the *)
(* next claim will stop it (claim and release in screensession.go).        *)
THEOREM ActiveOnRecord == ASSUME IdsAreDistinct PROVE Spec => []ActiveIsRecorded
  BY Invariance, PTL DEF IInv

(* At most one session of an agent has not been superseded.                *)
THEOREM AtMostOneActive == ASSUME IdsAreDistinct PROVE Spec => []OneUnsuperseded
<1>1. IInv => OneUnsuperseded
  BY DEF IInv, ActiveIsRecorded, OneUnsuperseded
<1> QED
  BY <1>1, Invariance, PTL

(* When the slot is free no session that was not told to stop still holds  *)
(* a capturer or an encoder: the deferred calls of startSession release    *)
(* the claim last.                                                         *)
THEOREM QuietWhenFree == ASSUME IdsAreDistinct PROVE Spec => []FreeSlotIsQuiet
<1>1. IInv => FreeSlotIsQuiet
  BY NoneIsNothing
  DEF IInv, TypeOK, TornDownInOrder, ActiveIsRecorded, FreeSlotIsQuiet, HasPipeline, Claimed
<1> QED
  BY <1>1, Invariance, PTL

=============================================================================
