----------------------------- MODULE MCAlerting -----------------------------
(* Alerting for TLC under fairness: one host, with the offline rule and    *)
(* the CPU one, or with a watched service.  The rule of each that can      *)
(* last has a fix. *)
EXTENDS Integers, Sequences

CONSTANTS Hosts

VARIABLES host, cpu, up, mute, watch, seen, states, attempts, pc, views, todo, fix, reply, due, poll, removal, told, fixed
VARIABLE rules   \* which rules are configured

vars == <<rules, host, cpu, up, mute, watch, seen, states, attempts, pc, views, todo, fix, reply, due, poll, removal, told, fixed>>

M == INSTANCE Alerting WITH Rules <- {"offline", "cpu"}, Fixable <- {"cpu"}, For <- 1, OfflineAfter <- 1,
       MaxAttempts <- 1, Window <- 3, Prompt <- TRUE
S == INSTANCE Alerting WITH Rules <- {"service"}, Fixable <- {"service"}, For <- 1, OfflineAfter <- 1,
       MaxAttempts <- 1, Window <- 2, Prompt <- TRUE

ASSUME M!RulesAssumption /\ M!TimesAssumption /\ S!RulesAssumption /\ S!TimesAssumption

Init == (rules = "metrics" /\ M!Init) \/ (rules = "services" /\ S!Init)

Metrics(step) == rules = "metrics" /\ step /\ UNCHANGED rules
Services(step) == rules = "services" /\ step /\ UNCHANGED rules

Next == Metrics(M!Next) \/ Services(S!Next)

(* The two loops run, time passes, and an agent that stays connected       *)
(* answers some of the polls it is sent.                                   *)
FairSpec ==
  /\ Init /\ [][Next]_vars
  /\ WF_vars(Metrics(M!Work)) /\ WF_vars(Services(S!Work))
  /\ WF_vars(Metrics(M!PollRound)) /\ WF_vars(Services(S!PollRound))
  /\ WF_vars(Metrics(M!Tick)) /\ WF_vars(Services(S!Tick))
  /\ \A h \in Hosts :
       /\ WF_vars(Metrics(M!Polling(h))) /\ WF_vars(Services(S!Polling(h)))
       /\ SF_vars(Services(S!PollReads(h)))

(* What each machine promises in the end (evaluate, dispatch, remediate).  *)
AnnouncedInTheEnd ==
  /\ rules = "metrics" => M!AnnouncedInTheEnd
  /\ rules = "services" => S!AnnouncedInTheEnd
=============================================================================
