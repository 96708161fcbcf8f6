----------------------------- MODULE HubUpdate -----------------------------
(* The hub's update of itself from the published releases (update.go and   *)
(* internal/selfupdate/github.go): how versions are ordered, and the       *)
(* requests for an update, which run at the same time without a lock, each *)
(* ending the process when it has swapped the binary.                      *)
(*                                                                         *)
(* A version is the sequence of its numbers; one that is no plain number,  *)
(* such as "dev", is the empty sequence.  Abstracted: the two renames of   *)
(* the swap, which are in AgentProcess and are one step here; the archive. *)
(* External: the releases and the download.                                *)
(* Operators named Action_Fault are single-fault variants of Action.       *)
(***************************************************************************)
EXTENDS Integers, Sequences, FiniteSetsExt

CONSTANTS Requests, Builds, Releases, MaxParts

UpdateAssumption ==
  /\ Releases \subseteq Seq(Nat) \ {<<>>} /\ Builds \subseteq Seq(Nat) /\ MaxParts \in Nat
  /\ \A v \in Builds \cup Releases : Len(v) <= MaxParts

VARIABLES
  published,  \* the latest release
  sums,       \* its checksums can be had
  running,    \* Version of the hub that runs
  disk,       \* the executable: its version and what is wrong with it
  pc, latest, file   \* per request: its step, the release it asks for, the file it fetched

world == <<published, sums>>
vars == <<world, running, disk, pc, latest, file>>

NoFile == [version |-> <<>>, damage |-> "none"]
Unasked == [r \in Requests |-> "idle"]

Init ==
  /\ published \in Releases /\ sums = TRUE
  /\ running \in Builds /\ disk = [version |-> running, damage |-> "none"]
  /\ pc = Unasked /\ latest = [r \in Requests |-> <<>>] /\ file = [r \in Requests |-> NoFile]

-----------------------------------------------------------------------------
(* Versions: by the first part in which they differ, one that is missing   *)
(* counting as zero. *)

Part(v, i) == IF i <= Len(v) THEN v[i] ELSE 0
Compare(a, b) ==
  LET differ == {i \in 1..MaxParts : Part(a, i) # Part(b, i)}
  IN IF differ = {} THEN 0 ELSE IF Part(a, Min(differ)) < Part(b, Min(differ)) THEN -1 ELSE 1

UpdateAvailable_Different(new, current) == new # current   \* a bug: it was so once
UpdateAvailable(new, current) == new # <<>> /\ current # <<>> /\ Compare(new, current) = 1

-----------------------------------------------------------------------------
(* handleUpdateApply. *)

Go(r, from, to) == pc[r] = from /\ pc' = [pc EXCEPT ![r] = to]
Refuse(r) ==
  /\ pc' = [pc EXCEPT ![r] = "idle"] /\ latest' = [latest EXCEPT ![r] = <<>>] /\ file' = [file EXCEPT ![r] = NoFile]

Ask(r) ==   \* GitHubLatest
  /\ UpdateAvailable(published, running)
  /\ Go(r, "idle", "fetching") /\ latest' = [latest EXCEPT ![r] = published]
  /\ UNCHANGED <<world, running, disk, file>>

(* FetchGitHubServer: what is damaged on the way is refused by its         *)
(* checksum, when there is one to be had.                                  *)
Fetch(r) ==
  /\ pc[r] = "fetching"
  /\ \/ Refuse(r)
     \/ \E d \in (IF sums THEN {"none"} ELSE {"none", "dead", "subtle"}), v \in {latest[r], running} :
          /\ file' = [file EXCEPT ![r] = [version |-> v, damage |-> d]]
          /\ pc' = [pc EXCEPT ![r] = "fetched"] /\ UNCHANGED latest
  /\ UNCHANGED <<world, running, disk>>

(* The file must start and say that it is the version asked for.           *)
Valid(r) == file[r].version = latest[r] /\ file[r].damage # "dead"
Validate(r) ==
  /\ pc[r] = "fetched"
  /\ \/ Valid(r) /\ pc' = [pc EXCEPT ![r] = "answered"] /\ UNCHANGED <<latest, file>>
     \/ ~Valid(r) /\ Refuse(r)
  /\ UNCHANGED <<world, running, disk>>

(* A second after the answer.  The process goes on until it exits.         *)
Replace(r) ==
  /\ pc[r] = "answered"
  /\ \/ Refuse(r) /\ UNCHANGED disk   \* the renames fail
     \/ disk' = file[r] /\ pc' = [pc EXCEPT ![r] = "exiting"] /\ UNCHANGED <<latest, file>>
  /\ UNCHANGED <<world, running>>

(* os.Exit, or a crash; the service manager starts what is on disk.        *)
Relaunch ==
  /\ running' = disk.version /\ pc' = Unasked
  /\ latest' = [r \in Requests |-> <<>>] /\ file' = [r \in Requests |-> NoFile]
  /\ (\E r \in Requests : pc[r] # "idle") /\ UNCHANGED <<world, disk>>

(* External: a release is published or withdrawn. *)
Publish ==
  /\ published' \in Releases \ {published} /\ sums' \in BOOLEAN
  /\ UNCHANGED <<running, disk, pc, latest, file>>

Apply(r) == Ask(r) \/ Fetch(r) \/ Validate(r) \/ Replace(r)
Next == Relaunch \/ Publish \/ \E r \in Requests : Apply(r)

Spec == Init /\ [][Next]_vars

-----------------------------------------------------------------------------
(* What "newer" means: more in one part, and the same in all before it.    *)
Newer(a, b) == \E i \in 1..MaxParts : Part(a, i) > Part(b, i) /\ \A j \in 1..(i - 1) : Part(a, j) = Part(b, j)

(* An update never puts an older or an equal build, nor one that does not  *)
(* start, in the place of the hub that runs, whatever is published or      *)
(* withdrawn meanwhile and however many ask; a hub whose version is no     *)
(* number is left alone; and what the hub is restarted as is no older than *)
(* what it was (updateAvailable).                                          *)
UpdatesGoUp ==
  [][/\ disk' # disk => running # <<>> /\ Newer(disk'.version, running) /\ disk'.damage # "dead"
     /\ running' # running => Newer(running', running)]_vars

-----------------------------------------------------------------------------
(* Not so when the checksums could not be had: "verifies its SHA-256       *)
(* against SHA256SUMS" (FetchGitHubServer). *)
InstalledIsWhole == disk.damage = "none"

(* Not so with two requests over two releases: the last to swap wins, if   *)
(* it does before the first ends the process. *)
DiskGoesUp == [][disk' # disk => Newer(disk'.version, disk.version)]_vars
=============================================================================
