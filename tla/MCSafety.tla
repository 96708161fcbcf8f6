------------------------------ MODULE MCSafety ------------------------------
(* The machines whose properties are of safety alone, for TLC in one run:  *)
(* two commands run on a host, which write two units at a time and more in *)
(* all than a collector keeps (the module extended); of an agent's         *)
(* sessions, what is captured and sent, the ffmpeg pipeline, the estimate  *)
(* of what the link carries and the transfer of files.  They share no      *)
(* state; a behaviour is one of them at work, the others standing where    *)
(* they begin. *)
EXTENDS CommandExchange, Integers, TLC

CONSTANTS d1, d2, d3, t1, t2, Paints   \* the screen
CONSTANTS Pictures, Qualities, Ceilings, MaxProcs, MaxUnits   \* the pipeline
CONSTANTS Paths, Starts, MaxWindows, MaxLate, NoticeWithin   \* the link
CONSTANTS f1, f2, Names, MaxSize, Buffer   \* files

VARIABLES screen, sel, fast, open, first, changed, buf, dirty
VARIABLES loop, region, img, force, keyDue, prev, viewer, closing
VARIABLES quality, ceiling, ffmpeg, ran, held, started, enc, token, woken, out
VARIABLES alive, due, made, half, pipe, chunks, nals, drained, given, closed
VARIABLES path, est, rx, rxSeen, short, sentTotal, rxTotal, sentPrev, backlog, since
VARIABLES bytes, busy, phase, rolled, queue, arrived, reports, reported, late, windows, hot
VARIABLES kind, system, sock, uploads, at, puts, sending, op, told, alone, dir, data, shell, ctx, reader, closer, full, closes
VARIABLE part   \* the machine at work

frames == <<screen, sel, fast, open, first, changed, buf, dirty, loop, region, img, force, keyDue, prev, viewer, closing>>
pipeline == <<quality, ceiling, ffmpeg, ran, held, started, enc, token, woken, out, alive, due, made, half, pipe, chunks, nals, drained, given, closed>>
link == <<path, est, rx, rxSeen, short, sentTotal, rxTotal, sentPrev, backlog, since, bytes, busy, phase, rolled, queue, arrived, reports, reported, late, windows, hot>>
files == <<kind, system, sock, uploads, at, puts, sending, op, told, alone, dir, data, shell, ctx, reader, closer, full, closes>>
media == <<frames, pipeline, link, files>>

(* Two displays of one size, or one of each of two sizes. *)
Shapes == d1 :> {t1, t2} @@ d2 :> {t1, t2} @@ d3 :> {t1}
Base(size, q) == 600 * q
AllPaths == [kind : {"direct", "absorbing"}, cap : {2000}] \cup {[kind |-> "healthy", cap |-> 0]}


F == INSTANCE FrameStream WITH Shape <- Shapes, Displays <- {d1, d2}
G == INSTANCE FrameStream WITH Shape <- Shapes, Displays <- {d1, d3}
H == INSTANCE H264Pipeline WITH Sizes <- Pictures, BaseRate <- Base, buf <- nals,
       proc <- ffmpeg, reading <- drained
L == INSTANCE LinkRate WITH made <- reported
T == INSTANCE SideSessions WITH Sessions <- {f1, f2}, Kinds <- {[s \in {f1, f2} |-> "files"]}, Systems <- {"unix"},
       MaxPuts <- f1 :> 1 @@ f2 :> 2, Askers <- {f1}, OneClick <- TRUE,
       up <- uploads

ASSUME CommandsAssumption /\ BoundsAssumption
ASSUME F!FrameAssumption /\ G!FrameAssumption /\ H!PipelineAssumption /\ L!LinkAssumption /\ T!SideAssumption

FramesAtRest == F!Init /\ sel = d1 /\ fast = "on" /\ screen[d1][t1] = CHOOSE p \in Paints : TRUE
PipelineAtRest == H!Init /\ ceiling = 0
LinkAtRest == L!Init /\ path.kind = "healthy"

MediaAtRest == FramesAtRest /\ PipelineAtRest /\ LinkAtRest /\ T!Init

SafetyInit ==
  /\ Init
  /\ \/ part = "exec" /\ MediaAtRest
     \/ part = "alike" /\ F!Init /\ PipelineAtRest /\ LinkAtRest /\ T!Init
     \/ part = "unlike" /\ G!Init /\ PipelineAtRest /\ LinkAtRest /\ T!Init
     \/ part = "pipeline" /\ H!Init /\ FramesAtRest /\ LinkAtRest /\ T!Init
     \/ part = "link" /\ L!Init /\ FramesAtRest /\ PipelineAtRest /\ T!Init
     \/ part = "files" /\ T!Init /\ FramesAtRest /\ PipelineAtRest /\ LinkAtRest

SafetyNext ==
  \/ part = "exec" /\ Next /\ UNCHANGED <<part, media>>
  \/ part = "alike" /\ F!Next /\ UNCHANGED <<part, vars, pipeline, link, files>>
  \/ part = "unlike" /\ G!Next /\ UNCHANGED <<part, vars, pipeline, link, files>>
  \/ part = "pipeline" /\ H!Next /\ UNCHANGED <<part, vars, frames, link, files>>
  \/ part = "link" /\ L!Next /\ UNCHANGED <<part, vars, frames, pipeline, files>>
  \/ part = "files" /\ T!Next /\ UNCHANGED <<part, vars, frames, pipeline, link>>

SafetySpec == SafetyInit /\ [][SafetyNext]_<<part, vars, media>>

Interchangeable == Permutations(Commands)

-----------------------------------------------------------------------------
(* The properties of the machines not extended, stated in their modules. *)

QuietScreenIsShown == F!QuietScreenIsShown   \* of G too: it speaks of the display shown

OutputIsSound == H!OutputIsSound

EstimateIsFair == L!EstimateIsFair

TransfersAreWhole == T!TransfersAreWhole

=============================================================================
