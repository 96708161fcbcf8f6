---------------------------- MODULE StatusProbe ----------------------------
(***************************************************************************)
(* Reading a device's own JSON: jsonprobe.go with its sessions, the views  *)
(* that fetch the same document (ports.go, topology.go, traffic.go), the   *)
(* edit of a check (netcheck.go) and the certificate cache of cert.go.     *)
(* The poll and a view share one held session per check: each takes it or  *)
(* signs in, fetches, and drops it when the device refuses it; the poll    *)
(* tries once more.                                                        *)
(*                                                                         *)
(* Abstracted: credentials to the edits that set them, a cookie jar to the *)
(* number of its session, a document to its table of rows, a row to        *)
(* [name, value], "" for a field it does not carry.  Modes other than      *)
(* "login" hold no session: their device is one whose sessions never end.  *)
(* External: the device, its sessions and what it serves.                  *)
(* Operators named Action_Fault are single-fault variants of Action.       *)
(***************************************************************************)
EXTENDS Naturals, FiniteSets, Sequences, FiniteSetsExt

CONSTANTS
  Tables,     \* what the device may serve: sequences of rows
  Wanted,     \* the name a probe selects
  MaxEdits, MaxLogins, MaxExpiries

Threads == {"poll", "view"}
ProbeAssumption ==
  /\ {MaxEdits, MaxLogins, MaxExpiries} \subseteq Nat
  /\ \A t \in Tables : \A i \in DOMAIN t : DOMAIN t[i] = {"name", "value"}

VARIABLES
  creds,    \* the check's credentials: edits so far
  good,     \* external: the credentials the device accepts
  held,     \* sessions.jar[id]; 0 is none
  live,     \* external: sessions the device still honours
  logins,   \* sessions it has issued
  expired,  \* and ended
  at,       \* "idle", "client", "login", "fetch", per thread
  snap,     \* the credentials a thread began with
  jar,      \* the session it fetches with
  again,    \* the poll's second attempt
  served,   \* external: the table served
  shown,    \* Readings and ReadingsErr of the check's state
  cert      \* certCache.m[id]: one was read, and within the last six hours

vars == <<creds, good, held, live, logins, expired, at, snap, jar, again, served, shown, cert>>
device == <<good, live, served>>

Absent == "no value"
NoReadings == [one |-> Absent, every |-> {}, error |-> ""]

Init ==
  /\ creds = 0 /\ good \in (SUBSET (0 .. MaxEdits)) \ {{}}
  /\ held = 0 /\ live = {} /\ logins = 0 /\ expired = 0
  /\ at = [t \in Threads |-> "idle"] /\ snap = [t \in Threads |-> 0] /\ jar = [t \in Threads |-> 0]
  /\ again = FALSE
  /\ served \in Tables /\ shown = NoReadings
  /\ cert = [known |-> FALSE, fresh |-> FALSE]

-----------------------------------------------------------------------------
(* What a document says: jsonPath with a selector, and a wildcard.         *)

(* rows[name=want].value; the first row of that name. *)
Selected(rows, want) ==
  LET hits == {i \in DOMAIN rows : rows[i].name = want} IN
  IF hits = {} \/ rows[Min(hits)].value = "" THEN Absent ELSE rows[Min(hits)].value

(* rows[*name].value: a row without the value is left out, one without the *)
(* name is called by its place. *)
Expanded(rows) ==
  {[label |-> rows[i].name, place |-> i, value |-> rows[i].value] : i \in {i \in DOMAIN rows : rows[i].value # ""}}

Extracted(rows) ==
  [one |-> Selected(rows, Wanted), every |-> Expanded(rows),
   error |-> IF Selected(rows, Wanted) = Absent \/ Expanded(rows) = {} THEN "no value at the path" ELSE ""]

-----------------------------------------------------------------------------
(* A fetch. *)

Go(t, to) == at' = [at EXCEPT ![t] = to]
Ends(t, error) ==
  /\ Go(t, "idle") /\ jar' = [jar EXCEPT ![t] = 0]
  /\ shown' = IF t = "poll" THEN [NoReadings EXCEPT !.error = error] ELSE shown

Begin(t) ==   \* the check as it is now, in a copy
  /\ at[t] = "idle" /\ Go(t, "client") /\ snap' = [snap EXCEPT ![t] = creds]
  /\ again' = IF t = "poll" THEN FALSE ELSE again
  /\ UNCHANGED <<creds, held, logins, expired, jar, device, shown, cert>>

GetClient(t) ==
  /\ at[t] = "client"
  /\ IF held # 0 THEN Go(t, "fetch") /\ jar' = [jar EXCEPT ![t] = held]
     ELSE Go(t, "login") /\ UNCHANGED jar
  /\ UNCHANGED <<creds, held, logins, expired, snap, again, device, shown, cert>>

Holds_Nothing(session) == UNCHANGED held   \* a bug: sess.set is forgotten
Holds(session) == held' = session

(* A session nobody holds any more is as good as new. *)
Sessions == 1 .. Cardinality(Threads) + 1
InUse == {held} \cup {jar[t] : t \in {u \in Threads : at[u] = "fetch"}}

SignIn(t) ==
  LET session == Min(Sessions \ InUse) IN
  /\ at[t] = "login" /\ snap[t] \in good /\ logins < MaxLogins
  /\ logins' = logins + 1 /\ live' = (live \cap InUse) \cup {session}
  /\ Holds(session) /\ jar' = [jar EXCEPT ![t] = session] /\ Go(t, "fetch")
  /\ UNCHANGED <<creds, good, expired, snap, again, served, shown, cert>>

SignInFails(t) ==   \* refused, or no answer
  /\ at[t] = "login" /\ Ends(t, "sign-in failed")
  /\ UNCHANGED <<creds, held, logins, expired, snap, again, device, cert>>

Fetched(t) ==
  /\ at[t] = "fetch" /\ jar[t] \in live
  /\ Go(t, "idle") /\ jar' = [jar EXCEPT ![t] = 0]
  /\ shown' = IF t = "poll" THEN Extracted(served) ELSE shown
  /\ UNCHANGED <<creds, held, logins, expired, snap, again, device, cert>>

(* Whoever is refused drops the held session, be it his own or another's;  *)
(* the poll does so once. *)
Refused(t) ==
  /\ at[t] = "fetch" /\ jar[t] \notin live
  /\ \/ t = "poll" /\ ~again /\ held' = 0 /\ again' = TRUE /\ Go(t, "client") /\ jar' = [jar EXCEPT ![t] = 0] /\ UNCHANGED shown
     \/ t = "poll" /\ again /\ Ends(t, "refused") /\ UNCHANGED <<held, again>>
     \/ t = "view" /\ held' = 0 /\ Ends(t, "refused") /\ UNCHANGED again
  /\ UNCHANGED <<creds, logins, expired, snap, device, cert>>

NoAnswer(t) ==
  /\ at[t] = "fetch" /\ Ends(t, "no answer")
  /\ UNCHANGED <<creds, held, logins, expired, snap, again, device, cert>>

(* An edit replaces the check, drops its session and forgets its state.    *)
Edit ==
  /\ creds < MaxEdits /\ creds' = creds + 1 /\ held' = 0 /\ shown' = NoReadings
  /\ UNCHANGED <<logins, expired, at, snap, jar, again, device, cert>>

-----------------------------------------------------------------------------
(* The certificate, read every six hours; a failed reading keeps the last. *)

ReadCert ==
  /\ ~cert.fresh
  /\ \E found \in BOOLEAN : cert' = [known |-> cert.known \/ found, fresh |-> TRUE]
  /\ UNCHANGED <<creds, held, logins, expired, at, snap, jar, again, device, shown>>

-----------------------------------------------------------------------------
(* External. *)

Expire(s) ==
  /\ s \in live \cap InUse /\ expired < MaxExpiries /\ live' = live \ {s} /\ expired' = expired + 1
  /\ UNCHANGED <<creds, good, held, logins, at, snap, jar, again, served, shown, cert>>

Serve ==
  /\ served' \in Tables
  /\ UNCHANGED <<creds, good, held, live, logins, expired, at, snap, jar, again, shown, cert>>

SixHoursPass ==
  /\ cert.fresh /\ cert' = [cert EXCEPT !.fresh = FALSE]
  /\ UNCHANGED <<creds, held, logins, expired, at, snap, jar, again, device, shown>>

Next ==
  \/ \E t \in Threads : Begin(t) \/ GetClient(t) \/ SignIn(t) \/ SignInFails(t) \/ Fetched(t) \/ Refused(t) \/ NoAnswer(t)
  \/ Edit \/ ReadCert \/ Serve \/ SixHoursPass
  \/ \E s \in live : Expire(s)

Spec == Init /\ [][Next]_vars

-----------------------------------------------------------------------------
(* A sign-in is not repeated on every poll, however the two threads drop   *)
(* each other's sessions (jsonprobe.go:68-71): a session that ends is      *)
(* dropped at most by both, and a drop, like the beginning and an edit,    *)
(* costs at most one sign-in of each.                                      *)
SignInsAreFew == logins <= 2 * (1 + 2 * expired + creds)

(* A value that is shown is the named row's, in whatever order the device  *)
(* lists its rows (jsonprobe.go:391-395); Tables name a value after its    *)
(* row.                                                                    *)
ValuesAreTheirOwn == shown.one \in {Absent, Wanted} /\ \A r \in shown.every : r.label \in {"", r.value}

(* What a status page is asked for and what is made of its answer. *)
ProbeIsSound == SignInsAreFew /\ ValuesAreTheirOwn
=============================================================================
