--------------------------- MODULE OperatorClient ---------------------------
(***************************************************************************)
(* The operator's command-line client (cmd/autormm-client, client): each   *)
(* process is one command.  It reads the configuration, asks the hub for   *)
(* scripts and hosts, finds the ones that were named, sends one request    *)
(* and ends with what became of it.  Several run at once on one machine,   *)
(* a login among them, and the hub's hosts change between their requests.  *)
(*                                                                         *)
(* Abstracted: names to Names, up to case and surrounding blanks; a server *)
(* with its token to a member of Configs; output and formatting; flags and *)
(* usage errors.  A ticket of a screen session goes to a browser.          *)
(* External: the hub and its hosts, the terminal, and the operator.        *)
(* Operators named Action_Fault are single-fault variants of Action.       *)
(***************************************************************************)
EXTENDS Naturals, FiniteSets, Sequences, SequencesExt, FiniteSetsExt

CONSTANTS
  Procs,     \* processes of the client
  Logins,    \* those of them that only ever log in (a bound)
  Names,     \* hostnames, ids and what operators type
  Within,    \* [Names -> SUBSET Names]: the names a name is a part of
  Fleets,    \* sets of hosts [id, name, online, exec, stream] the hub may have
  Scripts,   \* the scripts on the hub
  Configs,   \* configurations
  Good,      \* those the hub accepts
  None

OnHost == {"connect", "exec", "inventory", "shell", "script run", "script schedule", "script runs --host"}
OnScript == {"script run", "script rm", "script schedule"}
Plain == {"hosts", "watch", "script list", "script add", "script schedules", "script unschedule", "script runs"}
Commands == OnHost \cup OnScript \cup Plain \cup {"login"}

ClientAssumption ==
  /\ Logins \subseteq Procs
  /\ Good \subseteq Configs /\ None \notin Names \cup Configs /\ {"none", "garbage"} \cap Configs = {}
  /\ \A n \in Names : n \in Within[n]
  /\ \A f \in Fleets : \A g, h \in f : g.id = h.id => g = h

VARIABLES
  disk,      \* client.json: "none", a configuration, or "garbage"
  fleet,     \* external: the hub's hosts
  cmd,       \* the command of each process: [kind, ref, script]
  pc,        \* "idle", "load", "verify", "save", "truncated", "script", "hosts", "ask", "await", "shell", "done"
  config,    \* its Config
  listed,    \* what the hub listed to it
  target,    \* the host it found
  hub,       \* external: what became of its request: [is, code]
  status,    \* its exit status
  stdin,     \* shell: "open", "eof" (and EOT was sent)
  verified   \* configurations a login has tried with success

vars == <<disk, fleet, cmd, pc, config, listed, target, hub, status, stdin, verified>>

NoCommand == [kind |-> "none", ref |-> None, script |-> None]
Unasked == [is |-> "unasked", code |-> 0]

Init ==
  /\ disk = "none" /\ fleet \in Fleets /\ verified = {}
  /\ cmd = [p \in Procs |-> NoCommand] /\ pc = [p \in Procs |-> "idle"]
  /\ config = [p \in Procs |-> None] /\ listed = [p \in Procs |-> <<>>] /\ target = [p \in Procs |-> None]
  /\ hub = [p \in Procs |-> Unasked] /\ status = [p \in Procs |-> 0] /\ stdin = [p \in Procs |-> "open"]

Go(p, to) == pc' = [pc EXCEPT ![p] = to]
Exit(p, code) == Go(p, "done") /\ status' = [status EXCEPT ![p] = code]

-----------------------------------------------------------------------------
(* Configuration: read from the file, the environment over it. *)

Start(p) ==
  /\ pc[p] = "idle" /\ Go(p, "load")
  /\ \E k \in IF p \in Logins THEN {"login"} ELSE Commands, n \in Names, s \in Scripts \cup {None} :
       cmd' = [cmd EXCEPT ![p] = [kind |-> k, ref |-> IF k \in OnHost THEN n ELSE None,
                                  script |-> IF k \in OnScript THEN s ELSE None]]
  /\ UNCHANGED <<disk, fleet, config, listed, target, hub, status, stdin, verified>>

First(p) == IF cmd[p].kind \in OnScript THEN "script" ELSE IF cmd[p].kind \in OnHost THEN "hosts" ELSE "ask"

Load(p) ==
  /\ pc[p] = "load" /\ cmd[p].kind # "login"
  /\ \E env \in Configs \cup {None} :
       LET c == IF env # None THEN env ELSE IF disk \in Configs THEN disk ELSE None IN
       /\ config' = [config EXCEPT ![p] = c]
       /\ IF c = None THEN Exit(p, 1) ELSE Go(p, First(p)) /\ UNCHANGED status
  /\ UNCHANGED <<disk, fleet, cmd, listed, target, hub, stdin, verified>>

(* login takes what is given over what is saved.  With a file it cannot    *)
(* read it has no configuration to put that in, and panics. *)
LoginLoads(p) ==
  /\ pc[p] = "load" /\ cmd[p].kind = "login"
  /\ IF disk = "garbage" THEN Exit(p, 2) /\ UNCHANGED config
     ELSE /\ Go(p, "verify") /\ UNCHANGED status
          /\ \E given \in Configs : config' = [config EXCEPT ![p] = given]
  /\ UNCHANGED <<disk, fleet, cmd, listed, target, hub, stdin, verified>>

Verify(p) ==
  /\ pc[p] = "verify"
  /\ \/ config[p] \in Good /\ Go(p, "save") /\ verified' = verified \cup {config[p]} /\ UNCHANGED status
     \/ Exit(p, 1) /\ UNCHANGED verified   \* refused, or no answer
  /\ UNCHANGED <<disk, fleet, cmd, config, listed, target, hub, stdin>>

Truncate(p) ==
  /\ pc[p] = "save" /\ Go(p, "truncated") /\ disk' = "garbage"
  /\ UNCHANGED <<fleet, cmd, config, listed, target, hub, status, stdin, verified>>
Write(p) ==
  /\ pc[p] = "truncated" /\ Exit(p, 0) /\ disk' = config[p]
  /\ UNCHANGED <<fleet, cmd, config, listed, target, hub, stdin, verified>>

-----------------------------------------------------------------------------
(* Finding what was named. *)

(* The script by its id or name.  It may be gone from the hub. *)
FindScript(p) ==
  /\ pc[p] = "script"
  /\ \/ config[p] \in Good /\ cmd[p].script # None /\ UNCHANGED status
        /\ Go(p, IF cmd[p].kind \in OnHost THEN "hosts" ELSE "ask")
     \/ Exit(p, 1)   \* not found, refused, or no answer
  /\ UNCHANGED <<disk, fleet, cmd, config, listed, target, hub, stdin, verified>>

(* Who is online comes first; hosts of one name come in any order. *)
Listings == {l \in SetToSeqs(fleet) : \A i, j \in DOMAIN l : i < j /\ l[j].online => l[i].online}

ListHosts(p) ==
  /\ pc[p] = "hosts" /\ listed[p] = <<>>
  /\ \/ config[p] \in Good /\ fleet # {} /\ \E l \in Listings : listed' = [listed EXCEPT ![p] = l]
        /\ UNCHANGED <<pc, status>>
     \/ Exit(p, 1) /\ UNCHANGED listed   \* none, refused, or no answer
  /\ UNCHANGED <<disk, fleet, cmd, config, target, hub, stdin, verified>>

(* FindHost: the first of that very name or id, or else the only one of    *)
(* whose name or id it is a part. *)
Bears(h, ref) == ref \in {h.id, h.name}
PartOf(h, ref) == \E n \in {h.id, h.name} : n \in Within[ref]
FindHost_First(list, ref) ==   \* a bug: a part is as good as the whole
  LET found == {i \in DOMAIN list : PartOf(list[i], ref)} IN
  IF found = {} THEN None ELSE list[Min(found)]
FindHost(list, ref) ==
  LET exact == {i \in DOMAIN list : Bears(list[i], ref)}
      part == {i \in DOMAIN list : PartOf(list[i], ref)}
  IN IF exact # {} THEN list[Min(exact)]
     ELSE IF Cardinality(part) = 1 THEN list[Min(part)]
     ELSE None

Resolve(p) ==
  /\ pc[p] = "hosts" /\ listed[p] # <<>>
  /\ LET h == FindHost(listed[p], cmd[p].ref) IN
       /\ target' = [target EXCEPT ![p] = h]
       /\ IF h = None \/ (cmd[p].kind = "connect" /\ ~(h.online /\ h.stream)) THEN Exit(p, 1)
          ELSE Go(p, "ask") /\ UNCHANGED status
  /\ UNCHANGED <<disk, fleet, cmd, config, listed, hub, stdin, verified>>

-----------------------------------------------------------------------------
(* The one request, and what the process makes of the answer. *)

Ask(p) ==
  /\ pc[p] = "ask" /\ Go(p, "await") /\ hub' = [hub EXCEPT ![p].is = "asked"]
  /\ UNCHANGED <<disk, fleet, cmd, config, listed, target, status, stdin, verified>>

Current(p) == {h \in fleet : h.id = target[p].id}
Able(p) ==
  CASE cmd[p].kind \notin OnHost \/ cmd[p].kind \in {"script schedule", "script runs --host"} -> TRUE
    [] cmd[p].kind = "connect" -> \E h \in Current(p) : h.online /\ h.stream
    [] cmd[p].kind = "inventory" -> \E h \in Current(p) : h.online
    [] OTHER -> \E h \in Current(p) : h.online /\ h.exec

(* External: the hub refuses, or does what is asked; a command that runs   *)
(* has a code, one that is cut short has -1.  It may take longer than the  *)
(* client waits. *)
Serve(p) ==
  /\ hub[p].is = "asked"
  /\ \/ config[p] \in Good /\ Able(p)
        /\ \E code \in {0, 1, 255} : hub' = [hub EXCEPT ![p] = [is |-> "did", code |-> code]]
     \/ hub' = [hub EXCEPT ![p].is = "refused"]
  /\ UNCHANGED <<disk, fleet, cmd, pc, config, listed, target, status, stdin, verified>>

HasCode(p) == cmd[p].kind \in {"exec", "script run"}

Answered(p) ==
  /\ pc[p] = "await" /\ hub[p].is \in {"did", "refused"}
  /\ CASE hub[p].is = "refused" /\ cmd[p].kind = "watch" -> UNCHANGED <<pc, status>>
       [] hub[p].is = "refused" /\ cmd[p].kind # "watch" -> Exit(p, 1)
       [] hub[p].is = "did" /\ cmd[p].kind = "shell" -> Go(p, "shell") /\ UNCHANGED status
       [] hub[p].is = "did" /\ cmd[p].kind = "watch" -> UNCHANGED <<pc, status>>
       [] OTHER -> Exit(p, IF HasCode(p) THEN hub[p].code ELSE 0)
  /\ hub' = IF cmd[p].kind = "watch" THEN [hub EXCEPT ![p].is = "asked"] ELSE hub
  /\ UNCHANGED <<disk, fleet, cmd, config, listed, target, stdin, verified>>

(* http.Client.Timeout: fifteen seconds, whatever the command's timeout.   *)
GivesUp(p) ==
  /\ pc[p] = "await" /\ cmd[p].kind # "watch" /\ Exit(p, 1)
  /\ UNCHANGED <<disk, fleet, cmd, config, listed, target, hub, stdin, verified>>

(* A shell lasts until the far end closes: the end of standard input only  *)
(* sends an EOT.  Every way of closing is a good end. *)
InputEnds(p) ==
  /\ pc[p] = "shell" /\ stdin[p] = "open" /\ stdin' = [stdin EXCEPT ![p] = "eof"]
  /\ UNCHANGED <<disk, fleet, cmd, pc, config, listed, target, hub, status, verified>>
ShellEnds(p) ==
  /\ pc[p] = "shell" /\ \E code \in {0, 1} : Exit(p, code)   \* 1: the agent says so
  /\ UNCHANGED <<disk, fleet, cmd, config, listed, target, hub, stdin, verified>>

(* External: hosts come, go and change.                                    *)
Change ==
  /\ fleet' \in Fleets
  /\ UNCHANGED <<disk, cmd, pc, config, listed, target, hub, status, stdin, verified>>
Again(p) ==   \* another command, or the operator interrupts this one
  /\ pc[p] # "idle" /\ Go(p, "idle")
  /\ cmd' = [cmd EXCEPT ![p] = NoCommand] /\ config' = [config EXCEPT ![p] = None]
  /\ listed' = [listed EXCEPT ![p] = <<>>] /\ target' = [target EXCEPT ![p] = None]
  /\ hub' = [hub EXCEPT ![p] = Unasked] /\ status' = [status EXCEPT ![p] = 0] /\ stdin' = [stdin EXCEPT ![p] = "open"]
  /\ UNCHANGED <<disk, fleet, verified>>

Step(p) ==
  \/ Start(p) \/ Load(p) \/ LoginLoads(p) \/ Verify(p) \/ Truncate(p) \/ Write(p) \/ FindScript(p) \/ ListHosts(p)
  \/ Resolve(p) \/ Ask(p) \/ Serve(p) \/ Answered(p) \/ GivesUp(p) \/ InputEnds(p) \/ ShellEnds(p) \/ Again(p)
Next == Change \/ \E p \in Procs : Step(p)

Spec == Init /\ [][Next]_vars

-----------------------------------------------------------------------------
(* A request is for the host that was named: one that bore the name when   *)
(* it was listed, or, if none did, the only one the name was a part of     *)
(* (FindHost, "ambiguous").                                                *)
NamedHostOnly ==
  \A p \in Procs : hub[p].is # "unasked" /\ cmd[p].kind \in OnHost =>
    LET hosts == {h \in ToSet(listed[p]) : Bears(h, cmd[p].ref)}
        others == {h \in ToSet(listed[p]) : PartOf(h, cmd[p].ref)}
    IN target[p] \in hosts \/ (hosts = {} /\ others = {target[p]})

(* A process that ends well was told so: it never takes silence, a refusal *)
(* or a failed command for success.                                        *)
SuccessIsReal ==
  \A p \in Procs : pc[p] = "done" /\ status[p] = 0 /\ cmd[p].kind # "login" =>
    hub[p].is = "did" /\ (HasCode(p) => hub[p].code = 0)

(* What is saved was tried (cmdLogin, "Verify before saving"), whichever   *)
(* of two logins was the last to write.                                    *)
SavedIsVerified == disk \in Configs => disk \in verified

ClientIsTrue == NamedHostOnly /\ SuccessIsReal /\ SavedIsVerified

-----------------------------------------------------------------------------
(* Not so, for a file that cannot be read: a login is the way out of it.   *)
LoginRecovers == \A p \in Procs : cmd[p].kind = "login" /\ pc[p] = "done" => status[p] # 2
=============================================================================
