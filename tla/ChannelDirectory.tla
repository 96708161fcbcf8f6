-------------------------- MODULE ChannelDirectory --------------------------
(***************************************************************************)
(* What the hub's registry promises, without its handlers, locks or        *)
(* queues: each host has one channel per role; a channel is held by the    *)
(* connection that claimed it last and that has not ended since; a host is *)
(* forgotten only when none of its channels is held.                       *)
(***************************************************************************)
CONSTANTS Hosts, Roles, Conns, None

VARIABLES
  known,    \* hosts on record
  holder,   \* holder[h][r]: the connection that holds channel r of h
  fresh,    \* connections not yet used
  ended     \* connections that are over

dvars == <<known, holder, fresh, ended>>

Init ==
  /\ known = {}
  /\ holder = [h \in Hosts |-> [r \in Roles |-> None]]
  /\ fresh = Conns
  /\ ended = {}

Claim(c, h, r) ==
  /\ c \in fresh
  /\ fresh' = fresh \ {c}
  /\ known' = known \cup {h}
  /\ holder' = [holder EXCEPT ![h][r] = c]
  /\ ended' = ended

(* A connection ends: every channel it still holds is free again. *)
End(c) ==
  /\ c \in Conns \ (fresh \cup ended)
  /\ ended' = ended \cup {c}
  /\ holder' = [h \in Hosts |->
                  [r \in Roles |-> IF holder[h][r] = c THEN None ELSE holder[h][r]]]
  /\ UNCHANGED <<known, fresh>>

Forget(h) ==
  /\ h \in known
  /\ \A r \in Roles : holder[h][r] = None
  /\ known' = known \ {h}
  /\ UNCHANGED <<holder, fresh, ended>>

Next ==
  \/ \E c \in Conns, h \in Hosts, r \in Roles : Claim(c, h, r)
  \/ \E c \in Conns : End(c)
  \/ \E h \in Hosts : Forget(h)

Spec == Init /\ [][Next]_dvars

=============================================================================
