----------------------------- MODULE Accounts -----------------------------
(***************************************************************************)
(* The hub's accounts and tokens, in three files that two programs change: *)
(* the hub for its operators' requests (server/adminapi.go, http.go) and   *)
(* the administrator's command (autormm-server admin, reset), which use    *)
(* the same package for the accounts (internal/adminstore) without a lock  *)
(* between them. Every operation reads the whole file and writes it whole. *)
(* A start of the hub fills in its tokens from the environment or from the *)
(* file it saved, and makes up what is missing (autoconfig.go).            *)
(*                                                                         *)
(* Abstracted: passwords and their hashes to values; tokens to the number  *)
(* of the draw that made them; the database's path; flags, which the       *)
(* installed service does not pass; who may ask. A login ticket is signed  *)
(* with a secret made of both tokens.                                      *)
(* Operators named Action_Fault are single-fault variants of Action.       *)
(***************************************************************************)
EXTENDS Naturals, FiniteSets

CONSTANTS
  Requests,    \* handlers of the hub
  Names, Passwords,
  MaxResets,   \* bounds how often the command resets
  None

Cli == "cli"

AccountsAssumption == None \notin Requests \cup Names \cup Passwords /\ Cli \notin Requests /\ MaxResets \in Nat

Procs == Requests \cup {Cli}

VARIABLES
  file,     \* admins.json: name -> password, {} when it is not there
  work,     \* work[p]: idle, or what p does to the copy it read
  holder,   \* the handler with the hub's lock
  overlap,  \* the two programs have worked on the file at once
  due,      \* what the file should hold, by the changes answered so far
  config,   \* autormm.json
  envFile,  \* server.env, if the installer made one
  hub,      \* the tokens the hub runs with, or down
  reset,    \* the step of a reset under way, 0 when there is none
  cut,      \* a reset was cut short
  draws,    \* tokens drawn so far
  resets

accounts == <<file, work, holder, overlap, due>>
tokens == <<config, envFile, hub, reset, cut, draws, resets>>
vars == <<accounts, tokens>>

Nobody == [n \in Names |-> None]
Idle == [pc |-> "idle"]
NoTokens == [admin |-> 0, enroll |-> 0]

Init ==
  /\ file = Nobody /\ work = [p \in Procs |-> Idle]
  /\ holder = None /\ overlap = FALSE /\ due = Nobody
  /\ config = NoTokens /\ envFile \in {NoTokens, [admin |-> 1, enroll |-> 2]}
  /\ hub = NoTokens /\ reset = 0 /\ cut = FALSE /\ resets = 0
  /\ draws = envFile.enroll

-----------------------------------------------------------------------------
(* adminstore: Set and Remove. *)

Up == hub # NoTokens
Working(p) == work[p].pc # "idle"
Loaded(p) == work[p].pc = "loaded"

(* A handler takes the Store's lock; the command has a Store of its own.   *)
Lock(p) == IF p = Cli THEN UNCHANGED holder ELSE holder = None /\ holder' = p
Unlock(p) == IF p = Cli THEN UNCHANGED holder ELSE holder' = None

(* The other program is at work on the file. *)
Elsewhere(p) ==
  IF p = Cli THEN \E q \in Requests : Loaded(q) ELSE Loaded(Cli) \/ reset # 0

Load(p, n, pw) ==
  /\ ~Working(p) /\ (IF p = Cli THEN reset = 0 ELSE Up)
  /\ Lock(p)
  /\ work' = [work EXCEPT ![p] = [pc |-> "loaded", copy |-> file, name |-> n, pw |-> pw]]
  /\ overlap' = (overlap \/ Elsewhere(p))
  /\ UNCHANGED <<file, due, tokens>>

(* Set changes or adds the account; Remove, here with the password None,   *)
(* writes nothing when there is no such account.                           *)
Changed(w) == [w.copy EXCEPT ![w.name] = w.pw]
Missing(w) == w.pw = None /\ w.copy[w.name] = None
Save(p) ==
  /\ Loaded(p)
  /\ file' = IF Missing(work[p]) THEN file ELSE Changed(work[p])
  /\ due' = [due EXCEPT ![work[p].name] = work[p].pw]
  /\ work' = [work EXCEPT ![p] = Idle]
  /\ Unlock(p)
  /\ UNCHANGED <<overlap, tokens>>

(* handleSetup looks at the list before it decodes the request and sets.   *)
Setup(q, n, pw) ==
  /\ Up /\ ~Working(q) /\ file = Nobody /\ pw # None
  /\ work' = [work EXCEPT ![q] = [pc |-> "setup", name |-> n, pw |-> pw]]
  /\ UNCHANGED <<file, holder, overlap, due, tokens>>

SetupLoads(q) ==
  /\ work[q].pc = "setup"
  /\ Lock(q)
  /\ work' = [work EXCEPT ![q] = [pc |-> "loaded", copy |-> file, name |-> work[q].name, pw |-> work[q].pw]]
  /\ overlap' = (overlap \/ Elsewhere(q))
  /\ UNCHANGED <<file, due, tokens>>

-----------------------------------------------------------------------------
(* resolveConfig: the environment first, then the saved file, then a draw; *)
(* what was drawn is saved with the rest.                                  *)
Either(a, b) == IF a # 0 THEN a ELSE b
Drawn == [admin |-> draws + 1, enroll |-> draws + 2]

Start ==
  /\ ~Up
  /\ LET known == [k \in {"admin", "enroll"} |-> Either(envFile[k], config[k])]
     IN /\ hub' = [k \in {"admin", "enroll"} |-> Either(known[k], Drawn[k])]
        /\ IF 0 \in {known.admin, known.enroll}
           THEN config' = hub' /\ draws' = draws + 2
           ELSE UNCHANGED <<config, draws>>
  /\ UNCHANGED <<accounts, envFile, reset, cut, resets>>

Stop ==
  /\ Up
  /\ hub' = NoTokens /\ holder' = None
  /\ work' = [p \in Procs |-> IF p = Cli THEN work[p] ELSE Idle]
  /\ UNCHANGED <<file, overlap, due, config, envFile, reset, cut, draws, resets>>

(* runResetCmd: both tokens anew, in the saved file, then in server.env if *)
(* there is one, and the accounts go; each in a step of its own.           *)
ResetConfig ==
  /\ reset = 0 /\ ~Working(Cli) /\ resets < MaxResets
  /\ config' = Drawn /\ draws' = draws + 2
  /\ reset' = 1 /\ resets' = resets + 1
  /\ overlap' = (overlap \/ Elsewhere(Cli))
  /\ UNCHANGED <<file, work, holder, due, envFile, hub, cut>>

ResetEnv_Forgotten ==
  /\ reset = 1 /\ reset' = 2
  /\ UNCHANGED <<accounts, config, envFile, hub, cut, draws, resets>>

ResetEnv ==
  /\ reset = 1 /\ reset' = 2
  /\ envFile' = IF envFile = NoTokens THEN NoTokens ELSE config
  /\ UNCHANGED <<accounts, config, hub, cut, draws, resets>>

ResetAccounts ==
  /\ reset = 2 /\ reset' = 0
  /\ file' = Nobody /\ due' = Nobody
  /\ UNCHANGED <<work, holder, overlap, config, envFile, hub, cut, draws, resets>>

(* The command dies between its steps. *)
ResetDies ==
  /\ reset # 0 /\ reset' = 0 /\ cut' = TRUE
  /\ UNCHANGED <<accounts, config, envFile, hub, draws, resets>>

-----------------------------------------------------------------------------
Next ==
  \/ \E p \in Procs, n \in Names, pw \in Passwords \cup {None} : Load(p, n, pw)
  \/ \E q \in Requests, n \in Names, pw \in Passwords : Setup(q, n, pw)
  \/ \E p \in Procs : Save(p)
  \/ \E q \in Requests : SetupLoads(q)
  \/ Start \/ Stop \/ ResetConfig \/ ResetEnv \/ ResetAccounts \/ ResetDies

Spec == Init /\ [][Next]_vars

-----------------------------------------------------------------------------
(* As long as the two programs have not worked on the file at once, it     *)
(* holds every change that was answered, and nothing else: no request of   *)
(* the hub undoes another's, over its stops and starts.                    *)
NothingForgotten == ~overlap => file = due

(* After a reset that came to its end, a hub that is started runs with the *)
(* tokens it drew, wherever the installer keeps them (admincmd.go, "the    *)
(* previous enrollment token no longer works"); and a hub that was not     *)
(* reset starts with the tokens it had ("so they stay stable across        *)
(* restarts").                                                             *)
ResetTakesHold ==
  ~Up /\ hub' # NoTokens /\ reset = 0 /\ ~cut =>
    hub' = IF config' = NoTokens THEN envFile ELSE config'

(* What was answered about an account or a token is what a hub runs with   *)
(* from then on (Store.Set, resolveConfig).                                *)
AnsweredIsKept == [][NothingForgotten' /\ ResetTakesHold]_vars

=============================================================================
