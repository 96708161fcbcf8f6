---------------------------- MODULE H264Pipeline ----------------------------
(***************************************************************************)
(* The H.264 encoder of capture/h264.go: Encode feeds a frame to ffmpeg    *)
(* and waits briefly for its access unit, a reader per ffmpeg process cuts *)
(* what comes out into units at their delimiters or when the pipe falls    *)
(* quiet, and a change of size, quality or measured rate restarts ffmpeg   *)
(* under the readers that are still running.                               *)
(*                                                                         *)
(* Abstracted: a unit to two pieces, the first of which starts with the    *)
(* delimiter; a frame to its size; rates to kbit/s; the rate derived from  *)
(* size, frame rate and quality to BaseRate; the twelve seconds of         *)
(* rateHold to "held".  Timing assumption (the comment on `settled`        *)
(* measured it): the pipe is never quiet for 3 ms inside a unit.           *)
(* External: ffmpeg writes one unit per frame, in order, and may die.      *)
(* Operators named Action_Fault are single-fault variants of Action.       *)
(***************************************************************************)
EXTENDS Naturals, Sequences, FiniteSets

CONSTANTS
  Sizes, Qualities,
  Ceilings,        \* what the link may be measured to carry; 0 is not measured
  BaseRate(_, _),  \* BaseRate(size, quality), before a measurement
  MaxProcs,        \* ffmpeg processes started
  MaxUnits         \* frames fed to each

PipelineAssumption == 0 \in Ceilings /\ Ceilings \subseteq Nat /\ MaxProcs \in Nat \ {0} /\ MaxUnits \in Nat \ {0}

Procs == 1 .. MaxProcs

VARIABLES
  quality, ceiling,  \* the dials: SetQuality, SetRateCeiling
  proc,     \* the running process; 0 is nil
  ran,      \* w, h, encQuality and encRate
  held,     \* lastStart is less than rateHold ago
  started,  \* processes started
  enc,      \* Encode: "idle", "feeding", "waiting"
  token,    \* outSig holds a wake-up
  woken,    \* a unit arrived since this Encode cleared outSig
  out,      \* units nobody has collected
  alive,    \* external: the process runs
  due,      \* external: frames it has taken and not yet encoded
  made,     \* external: units it has begun
  half,     \* external: only the first piece of the last one is written
  pipe,     \* pieces in its standard output
  chunks,   \* what the reading goroutine handed on
  buf,      \* auSplitter.buf
  reading,  \* its readLoop runs
  given,    \* the units appended for it
  closed    \* Close was called

dials == <<quality, ceiling>>
config == <<proc, ran, held, started>>
call == <<enc, woken>>
ffmpeg == <<alive, due, made, half, pipe>>
reader == <<chunks, buf, reading, given>>
vars == <<dials, config, call, token, out, ffmpeg, reader, closed>>

Each(x) == [g \in Procs |-> x]

Init ==
  /\ quality \in Qualities /\ ceiling \in Ceilings
  /\ proc = 0 /\ ran = <<>> /\ held = FALSE /\ started = 0
  /\ enc = "idle" /\ token = FALSE /\ woken = FALSE /\ out = <<>>
  /\ alive = Each(FALSE) /\ due = Each(0) /\ made = Each(0) /\ half = Each(FALSE)
  /\ pipe = Each(<<>>) /\ chunks = Each(<<>>) /\ buf = Each(<<>>)
  /\ reading = Each(FALSE) /\ given = Each(<<>>) /\ closed = FALSE

-----------------------------------------------------------------------------
(* Rates. *)

Clamp(kbps) == IF kbps < 500 THEN 500 ELSE IF kbps > 25000 THEN 25000 ELSE kbps
TargetRate(size) == Clamp(IF ceiling > 0 THEN ceiling ELSE BaseRate(size, quality))

(* A restart for the rate alone: measured, not recent, and far enough off. *)
RateMoved(size) ==
  /\ ran.rate > 0 /\ ceiling > 0 /\ ~held
  /\ \/ 100 * TargetRate(size) >= 135 * ran.rate
     \/ 100 * TargetRate(size) <= 74 * ran.rate

NeedsStart(size) ==
  \/ proc = 0
  \/ ran.size # size \/ ran.quality # quality
  \/ RateMoved(size)

SetDials ==
  /\ ~closed
  /\ quality' \in Qualities /\ ceiling' \in Ceilings
  /\ dials' # dials
  /\ UNCHANGED <<config, call, token, out, ffmpeg, reader, closed>>

HoldPasses ==
  /\ held /\ held' = FALSE
  /\ UNCHANGED <<dials, proc, ran, started, call, token, out, ffmpeg, reader, closed>>

-----------------------------------------------------------------------------
(* ffmpegProc.close kills the process and waits for it, which closes the   *)
(* pipe: what its reader has not read is lost.                             *)
Killed(g) ==
  /\ alive' = [alive EXCEPT ![g] = FALSE]
  /\ pipe' = [pipe EXCEPT ![g] = <<>>]

(* Encode, up to the frame on ffmpeg's standard input. *)
Clear == FALSE

Begin ==
  /\ enc = "idle" /\ ~closed
  /\ \E size \in Sizes :
       IF NeedsStart(size)
       THEN /\ started < MaxProcs
            /\ started' = started + 1 /\ proc' = started + 1
            /\ ran' = [size |-> size, quality |-> quality, rate |-> TargetRate(size)]
            /\ held' = TRUE
            /\ alive' = [g \in Procs |-> g = started + 1 \/ (alive[g] /\ g # proc)]
            /\ pipe' = [g \in Procs |-> IF g = proc THEN <<>> ELSE pipe[g]]
            /\ reading' = [reading EXCEPT ![started + 1] = TRUE]
       ELSE UNCHANGED <<config, alive, pipe, reading>>
  /\ enc' = "feeding" /\ token' = Clear /\ woken' = FALSE
  /\ UNCHANGED <<dials, out, due, made, half, chunks, buf, given, closed>>

(* A process that has died takes the frame nowhere, and is not noticed. *)
Feed ==
  /\ enc = "feeding" /\ proc # 0 /\ made[proc] + due[proc] < MaxUnits
  /\ due' = [due EXCEPT ![proc] = @ + (IF alive[proc] THEN 1 ELSE 0)]
  /\ enc' = "waiting"
  /\ UNCHANGED <<dials, config, token, woken, out, alive, made, half, pipe, reader, closed>>

(* waitForOutput ends with a wake-up or after half a frame; Encode takes   *)
(* whatever there is.                                                      *)
Collect ==
  /\ enc = "waiting"
  /\ token' \in {FALSE, token}
  /\ out' = <<>> /\ enc' = "idle" /\ woken' = FALSE
  /\ UNCHANGED <<dials, config, ffmpeg, reader, closed>>

(* Close, by a codec switch or the end of the session, during a call too.  *)
Close ==
  /\ ~closed /\ closed' = TRUE /\ proc' = 0
  /\ IF proc # 0 THEN Killed(proc) ELSE UNCHANGED <<alive, pipe>>
  /\ enc' = (IF enc = "feeding" THEN "waiting" ELSE enc)   \* feed finds it done
  /\ UNCHANGED <<dials, ran, held, started, token, woken, out, due, made, half, reader>>

-----------------------------------------------------------------------------
(* External: ffmpeg. *)

Write(g) ==
  /\ alive[g]
  /\ LET n == made[g] IN
     \/ /\ half[g] /\ half' = [half EXCEPT ![g] = FALSE]
        /\ pipe' = [pipe EXCEPT ![g] = Append(@, <<n, 2>>)] /\ UNCHANGED <<made, due>>
     \/ /\ ~half[g] /\ due[g] > 0 /\ half' = [half EXCEPT ![g] = TRUE]
        /\ pipe' = [pipe EXCEPT ![g] = Append(@, <<n + 1, 1>>)]
        /\ made' = [made EXCEPT ![g] = @ + 1] /\ due' = [due EXCEPT ![g] = @ - 1]
  /\ UNCHANGED <<dials, config, call, token, out, alive, reader, closed>>

Dies(g) ==
  /\ alive[g] /\ alive' = [alive EXCEPT ![g] = FALSE]
  /\ UNCHANGED <<dials, config, call, token, out, due, made, half, pipe, reader, closed>>

-----------------------------------------------------------------------------
(* readLoop and the splitter. *)

Read(g) ==
  /\ reading[g] /\ pipe[g] # <<>>
  /\ \E k \in 1 .. Len(pipe[g]) :
       /\ chunks' = [chunks EXCEPT ![g] = Append(@, SubSeq(pipe[g], 1, k))]
       /\ pipe' = [pipe EXCEPT ![g] = SubSeq(@, k + 1, Len(@))]
  /\ UNCHANGED <<dials, config, call, token, out, alive, due, made, half, buf, reading, given, closed>>

(* audPositions: where the held bytes have a delimiter. *)
Delimiters(b) == {i \in DOMAIN b : b[i][2] = 1}

FirstOf(S) == CHOOSE i \in S : \A j \in S : i <= j
LastOf(S) == CHOOSE i \in S : \A j \in S : i >= j

(* push: the units between delimiters, and what is kept from the last one. *)
Cut_All(b) == IF Cardinality(Delimiters(b)) < 2 THEN [units |-> <<>>, rest |-> b]
              ELSE [units |-> <<b>>, rest |-> <<>>]
Cut(b) ==
  LET at == Delimiters(b) IN
  IF Cardinality(at) < 2 THEN [units |-> <<>>, rest |-> b]
  ELSE [units |-> [i \in 1 .. Cardinality(at) - 1 |->
                     LET p == CHOOSE p \in at : Cardinality({q \in at : q < p}) = i - 1
                     IN  SubSeq(b, p, FirstOf({q \in at : q > p}) - 1)],
        rest |-> SubSeq(b, LastOf(at), Len(b))]

(* appendAU, for each of units. *)
Appended(g, units) ==
  /\ out' = out \o [i \in DOMAIN units |-> <<g, units[i]>>]
  /\ given' = [given EXCEPT ![g] = @ \o units]
  /\ token' = (token \/ units # <<>>)
  /\ woken' = (woken \/ units # <<>>)

Push(g) ==
  /\ reading[g] /\ chunks[g] # <<>>
  /\ LET cut == Cut(buf[g] \o Head(chunks[g])) IN
       /\ Appended(g, cut.units)
       /\ buf' = [buf EXCEPT ![g] = cut.rest]
  /\ chunks' = [chunks EXCEPT ![g] = Tail(@)]
  /\ UNCHANGED <<dials, config, enc, ffmpeg, reading, closed>>

(* The pipe has been quiet for 3 ms, or it has ended: flush. *)
Quiet(g) == chunks[g] = <<>> /\ pipe[g] = <<>> /\ ~half[g]
Ended(g) == chunks[g] = <<>> /\ pipe[g] = <<>> /\ ~alive[g]

Flush(g) ==
  /\ reading[g]
  /\ \/ Quiet(g) /\ buf[g] # <<>> /\ UNCHANGED reading
     \/ Ended(g) /\ reading' = [reading EXCEPT ![g] = FALSE]
  /\ Appended(g, IF buf[g] = <<>> THEN <<>> ELSE <<buf[g]>>)
  /\ buf' = [buf EXCEPT ![g] = <<>>]
  /\ UNCHANGED <<dials, config, enc, ffmpeg, chunks, closed>>

-----------------------------------------------------------------------------
Next ==
  \/ SetDials \/ HoldPasses \/ Begin \/ Feed \/ Collect \/ Close
  \/ \E g \in Procs : Write(g) \/ Dies(g) \/ Read(g) \/ Push(g) \/ Flush(g)

Spec == Init /\ [][Next]_vars

-----------------------------------------------------------------------------
(* Each process' units come out once, in order, none left out and each     *)
(* whole, however the pipe's reads cut them; only the last unit of a       *)
(* process that was killed or died may be cut short (auSplitter, readLoop).*)
UnitsAreWhole ==
  \A g \in Procs : \A i \in DOMAIN given[g] :
    \/ given[g][i] = <<<<i, 1>>, <<i, 2>>>>
    \/ given[g][i] = <<<<i, 1>>>> /\ i = Len(given[g]) /\ ~alive[g]

(* The wait tracks the frame just fed: it ends early only for a unit that  *)
(* came after the leftover wake-up was cleared (Encode, "a stale token     *)
(* makes waitForOutput return instantly").                                 *)
WaitIsForThisFrame == enc = "waiting" /\ token => woken

(* Both: what comes out of the pipeline is whole, and for its frame.       *)
OutputIsSound == UnitsAreWhole /\ WaitIsForThisFrame

=============================================================================
