---------------------------- MODULE SideSessions ----------------------------
(***************************************************************************)
(* The terminal and file sessions of an agent (agent/terminal_unix.go,     *)
(* terminal_windows.go, file.go), which share the socket of a session but  *)
(* not its pipeline.  A terminal is a read loop, a reader of the shell's   *)
(* output and a closer; a file session is one loop over puts, gets and     *)
(* listings.  Two operators may put the same file.                         *)
(*                                                                         *)
(* Abstracted: a file to the sequence of its chunks, one frame each; what  *)
(* a listing shows; key strokes.  One directory.  External: the dashboard  *)
(* (server/web/app.js), the shell and the file system's errors.            *)
(* Operators named Action_Fault are single-fault variants of Action.       *)
(***************************************************************************)
EXTENDS Naturals, Sequences, SequencesExt

CONSTANTS
  Sessions,
  Kinds,      \* the mixes of sessions: functions from Sessions to their kind
  Systems,    \* "unix", "windows": the system of the host
  Names,      \* file names
  MaxPuts,    \* bound: uploads of each session
  MaxSize,    \* bound: chunks of a file
  Buffer,     \* bound: frames on their way to the agent
  Askers,     \* bound: sessions that also browse and download
  OneClick,   \* nobody clicks Send again before an upload has been sent
  None

Ids == UNION {{s} \X (1..MaxPuts[s]) : s \in Sessions}
SideAssumption ==
  /\ \A k \in Kinds : k \in [Sessions -> {"terminal", "files"}]
  /\ Systems \subseteq {"unix", "windows"}
  /\ MaxPuts \in [Sessions -> Nat] /\ MaxSize \in Nat /\ Buffer \in Nat /\ OneClick \in BOOLEAN
  /\ None \notin Names /\ None \notin Ids

VARIABLES
  kind, system,
  sock,     \* per session: "open", "left" by the viewer, "closed" by the agent
  up,       \* frames from the viewer
  at,       \* its loop: "start", "loop", "recv", "send", "term", "type", "close", "over"
  \* files
  puts,     \* uploads begun
  sending,  \* external: uploads the dashboard is sending: [id, size, sent]
  op,       \* the transfer under way or last: [id, name, size, inode, got]
  told,     \* the last answer: "nothing", "ok", "done", "err", "list"
  alone,    \* nobody else has written the file of op since it began
  dir,      \* the directory: [Names -> inode or None]
  data,     \* contents of the inodes
  \* terminals
  shell,    \* "none", "runs", "over"
  ctx,      \* "live", "over"
  reader,   \* "none", "reads", "over"
  closer,   \* "none", "waits", "over"
  full,     \* the shell's input is full
  closes    \* how often the console was closed

files == <<puts, sending, op, told, alone, dir, data>>
terminals == <<shell, ctx, reader, closer, full, closes>>
vars == <<kind, system, sock, up, at, files, terminals>>

NoOp == [id |-> None, name |-> None, size |-> 0, inode |-> None, got |-> <<>>]

Init ==
  /\ kind \in Kinds /\ system \in Systems
  /\ sock = [s \in Sessions |-> "open"] /\ up = [s \in Sessions |-> <<>>] /\ at = [s \in Sessions |-> "start"]
  /\ puts = [s \in Sessions |-> 0] /\ sending = [s \in Sessions |-> {}]
  /\ op = [s \in Sessions |-> NoOp] /\ told = [s \in Sessions |-> "nothing"] /\ alone = [s \in Sessions |-> FALSE]
  /\ dir = [n \in Names |-> None] /\ data = [i \in Ids |-> <<>>]
  /\ shell = [s \in Sessions |-> "none"] /\ ctx = [s \in Sessions |-> "live"]
  /\ reader = [s \in Sessions |-> "none"] /\ closer = [s \in Sessions |-> "none"]
  /\ full = [s \in Sessions |-> FALSE] /\ closes = [s \in Sessions |-> 0]

Go(s, to) == at' = [at EXCEPT ![s] = to]
Close(s) == sock' = [sock EXCEPT ![s] = "closed"]
Pop(s) == up' = [up EXCEPT ![s] = Tail(@)]
Say(s, answer) == told' = [told EXCEPT ![s] = answer]
NextUp(s) == Head(up[s]).t   \* kind of the frame to be read next

-----------------------------------------------------------------------------
(* External: the dashboard. *)

CanSend(s) == sock[s] = "open" /\ Len(up[s]) < Buffer
SendFrame(s, f) == up' = [up EXCEPT ![s] = Append(@, f)]

(* The Send button: a put, then its chunks.  Each chunk is awaited, and    *)
(* nothing keeps the button from being clicked again meanwhile.            *)
Click(s) ==
  /\ kind[s] = "files" /\ CanSend(s) /\ puts[s] < MaxPuts[s] /\ (OneClick => sending[s] = {})
  /\ puts' = [puts EXCEPT ![s] = @ + 1]
  /\ \E n \in Names, size \in 0..MaxSize :
       LET id == <<s, puts[s] + 1>> IN
       /\ SendFrame(s, [t |-> "put", id |-> id, name |-> n, size |-> size])
       /\ sending' = [sending EXCEPT ![s] = IF size = 0 THEN @ ELSE @ \cup {[id |-> id, size |-> size, sent |-> 0]}]
  /\ UNCHANGED <<kind, system, sock, at, op, told, alone, dir, data, terminals>>

SendChunk(s) ==
  /\ CanSend(s)
  /\ \E u \in sending[s] :
       /\ SendFrame(s, [t |-> "bin", chunk |-> <<u.id, u.sent + 1>>])
       /\ sending' = [sending EXCEPT ![s] = (@ \ {u}) \cup
            IF u.sent + 1 = u.size THEN {} ELSE {[u EXCEPT !.sent = @ + 1]}]
  /\ UNCHANGED <<kind, system, sock, at, puts, op, told, alone, dir, data, terminals>>

(* Browsing and downloading go on during an upload. *)
AskFor(s) ==
  /\ CanSend(s) /\ s \in Askers
  /\ \/ kind[s] = "files" /\ SendFrame(s, [t |-> "ls"])
     \/ kind[s] = "files" /\ \E n \in Names : SendFrame(s, [t |-> "get", name |-> n])
     \/ kind[s] = "terminal" /\ SendFrame(s, [t |-> "in"])
  /\ UNCHANGED <<kind, system, sock, at, files, terminals>>

ViewerLeaves(s) ==
  /\ sock[s] = "open" /\ sock' = [sock EXCEPT ![s] = "left"] /\ sending' = [sending EXCEPT ![s] = {}]
  /\ UNCHANGED <<kind, system, up, at, puts, op, told, alone, dir, data, terminals>>

-----------------------------------------------------------------------------
(* File sessions. *)

StartFiles(s) ==
  /\ at[s] = "start" /\ kind[s] = "files" /\ Go(s, "loop")
  /\ UNCHANGED <<kind, system, sock, up, files, terminals>>

Touched(s, n) == [o \in Sessions |-> alone[o] /\ (o = s \/ op[o].name # n)]
Written(n) == \E o \in Sessions : at[o] = "recv" /\ op[o].name = n

(* A listing, or the frames of an upload that was refused. *)
Skip(s) ==
  /\ at[s] = "loop" /\ up[s] # <<>> /\ NextUp(s) \in {"bin", "ls"} /\ Pop(s)
  /\ \/ NextUp(s) = "bin" /\ UNCHANGED told
     \/ NextUp(s) = "ls" /\ \E a \in {"list", "err"} : Say(s, a)
  /\ UNCHANGED <<kind, system, sock, at, puts, sending, op, alone, dir, data, terminals>>

Refuse(s) ==   \* no such directory, no such file, or an error of the system
  /\ at[s] = "loop" /\ up[s] # <<>> /\ NextUp(s) \in {"put", "get"} /\ Pop(s) /\ Say(s, "err")
  /\ UNCHANGED <<kind, system, sock, at, puts, sending, op, alone, dir, data, terminals>>

(* recvFile: os.Create empties the file there is.                          *)
Create(s) ==
  /\ at[s] = "loop" /\ up[s] # <<>> /\ NextUp(s) = "put" /\ Pop(s) /\ Go(s, "recv") /\ Say(s, "nothing")
  /\ LET f == Head(up[s]) 
         inode == IF dir[f.name] = None THEN f.id ELSE dir[f.name] IN
       /\ op' = [op EXCEPT ![s] = [id |-> f.id, name |-> f.name, size |-> f.size, inode |-> inode, got |-> <<>>]]
       /\ dir' = [dir EXCEPT ![f.name] = inode] /\ data' = [data EXCEPT ![inode] = <<>>]
       /\ alone' = [Touched(s, f.name) EXCEPT ![s] = ~Written(f.name)]
  /\ UNCHANGED <<kind, system, sock, puts, sending, terminals>>

(* Each writer has an offset of its own.                                   *)
Put(content, offset, chunk) ==
  [i \in 1..(IF Len(content) > offset THEN Len(content) ELSE offset + 1) |->
     IF i = offset + 1 THEN chunk ELSE IF i <= Len(content) THEN content[i] ELSE <<None, 0>>]

Counted_Any(s) == TRUE   \* a bug: a message in between counts as a chunk
Counted(s) == NextUp(s) = "bin"

Receive(s) ==
  /\ at[s] = "recv" /\ Len(op[s].got) < op[s].size /\ up[s] # <<>> /\ Pop(s)
  /\ IF Counted(s)
     THEN LET chunk == IF NextUp(s) = "bin" THEN Head(up[s]).chunk ELSE <<None, 0>> IN
          /\ op' = [op EXCEPT ![s].got = Append(@, chunk)]
          /\ data' = [data EXCEPT ![op[s].inode] = Put(@, Len(op[s].got), chunk)]
     ELSE UNCHANGED <<op, data>>
  /\ UNCHANGED <<kind, system, sock, at, puts, sending, told, alone, dir, terminals>>

DiskFails(s) ==   \* what was written stays
  /\ at[s] = "recv" /\ Len(op[s].got) < op[s].size /\ up[s] # <<>> /\ NextUp(s) = "bin"
  /\ Pop(s) /\ Go(s, "loop") /\ Say(s, "err")
  /\ UNCHANGED <<kind, system, sock, puts, sending, op, alone, dir, data, terminals>>

Received(s) ==
  /\ at[s] = "recv" /\ Len(op[s].got) = op[s].size /\ Go(s, "loop") /\ Say(s, "ok")
  /\ UNCHANGED <<kind, system, sock, up, puts, sending, op, alone, dir, data, terminals>>

(* sendFile: the size is of the file as it was opened; it is read to its   *)
(* end.                                                                    *)
Open(s) ==
  /\ at[s] = "loop" /\ up[s] # <<>> /\ NextUp(s) = "get" /\ Pop(s) /\ Go(s, "send") /\ Say(s, "nothing")
  /\ LET n == Head(up[s]).name IN
       /\ dir[n] # None
       /\ op' = [op EXCEPT ![s] = [id |-> None, name |-> n, size |-> Len(data[dir[n]]), inode |-> dir[n], got |-> <<>>]]
       /\ alone' = [alone EXCEPT ![s] = ~Written(n)]
  /\ UNCHANGED <<kind, system, sock, puts, sending, dir, data, terminals>>

Send(s) ==
  /\ at[s] = "send"
  /\ LET next == Len(op[s].got) + 1
         content == data[op[s].inode] IN
     \/ next \in DOMAIN content /\ op' = [op EXCEPT ![s].got = Append(@, content[next])] /\ UNCHANGED <<at, told>>
     \/ next \notin DOMAIN content /\ Go(s, "loop") /\ Say(s, "done") /\ UNCHANGED op
     \/ Go(s, "loop") /\ Say(s, "err") /\ UNCHANGED op   \* the disk or the socket fails
  /\ UNCHANGED <<kind, system, sock, up, puts, sending, alone, dir, data, terminals>>

(* The viewer is gone, or silent past the deadline: what has come of an    *)
(* upload is removed by its name, and the session is over.                 *)
ReadFails(s) ==
  /\ at[s] \in {"loop", "recv"} /\ up[s] = <<>> /\ (at[s] = "recv" => Len(op[s].got) < op[s].size)
  /\ Go(s, "over") /\ Close(s) /\ sending' = [sending EXCEPT ![s] = {}]
  /\ IF at[s] = "recv"
     THEN dir' = [dir EXCEPT ![op[s].name] = None] /\ alone' = Touched(s, op[s].name) /\ Say(s, "err")
     ELSE UNCHANGED <<dir, alone, told>>
  /\ UNCHANGED <<kind, system, up, puts, op, data, terminals>>

-----------------------------------------------------------------------------
(* Terminals. *)

StartShell(s) ==
  /\ at[s] = "start" /\ kind[s] = "terminal" /\ Go(s, "term")
  /\ shell' = [shell EXCEPT ![s] = "runs"] /\ reader' = [reader EXCEPT ![s] = "reads"]
  /\ closer' = [closer EXCEPT ![s] = "waits"]
  /\ UNCHANGED <<kind, system, sock, up, files, ctx, full, closes>>

NoShell(s) ==   \* not allowed on this host, or it does not start
  /\ at[s] = "start" /\ kind[s] = "terminal" /\ Go(s, "over") /\ Close(s)
  /\ UNCHANGED <<kind, system, up, files, terminals>>

(* Key strokes go to the shell, which may have its input full.  Once it    *)
(* has ended the write fails, which nobody looks at.                       *)
Type(s) ==
  /\ at[s] = "term" /\ sock[s] # "closed" /\ up[s] # <<>> /\ Pop(s)
  /\ IF shell[s] = "over" THEN UNCHANGED <<at, full>>
     ELSE IF full[s] THEN Go(s, "type") /\ UNCHANGED full
     ELSE (\E b \in BOOLEAN : full' = [full EXCEPT ![s] = b]) /\ UNCHANGED at
  /\ UNCHANGED <<kind, system, sock, files, shell, ctx, reader, closer, closes>>
Typed(s) ==
  /\ at[s] = "type" /\ (~full[s] \/ shell[s] = "over") /\ Go(s, "term")
  /\ UNCHANGED <<kind, system, sock, up, files, terminals>>

(* External: the shell reads its input, and ends. *)
Drain(s) ==
  /\ shell[s] = "runs" /\ full[s] /\ full' = [full EXCEPT ![s] = FALSE]
  /\ UNCHANGED <<kind, system, sock, up, at, files, shell, ctx, reader, closer, closes>>
ShellExits(s) ==
  /\ shell[s] = "runs" /\ shell' = [shell EXCEPT ![s] = "over"]
  /\ UNCHANGED <<kind, system, sock, up, at, files, ctx, reader, closer, full, closes>>

(* The reader: no more output, or one that could not be sent.              *)
ReaderEnds(s) ==
  /\ reader[s] = "reads" /\ (shell[s] = "over" \/ closes[s] > 0)
  /\ reader' = [reader EXCEPT ![s] = "over"] /\ ctx' = [ctx EXCEPT ![s] = "over"]
  /\ UNCHANGED <<kind, system, sock, up, at, files, shell, closer, full, closes>>
OutputFails(s) ==
  /\ reader[s] = "reads" /\ shell[s] = "runs"
  /\ reader' = [reader EXCEPT ![s] = "over"] /\ ctx' = [ctx EXCEPT ![s] = "over"]
  /\ UNCHANGED <<kind, system, sock, up, at, files, shell, closer, full, closes>>

(* On Windows two of them close the console, which must be closed once     *)
(* (closeOnce); its shell ends with it. *)
CloseConsole(s) ==
  closes' = [closes EXCEPT ![s] = IF @ = 0 THEN 1 ELSE @] /\ shell' = [shell EXCEPT ![s] = "over"]

Unblock_Nothing(s) == UNCHANGED sock   \* a bug: the read loop goes on waiting
Unblock(s) == Close(s)

(* The closer: lets the read loop see that the session is over.            *)
Closer(s) ==
  /\ closer[s] = "waits" /\ ctx[s] = "over" /\ closer' = [closer EXCEPT ![s] = "over"] /\ Unblock(s)
  /\ IF system = "windows" THEN CloseConsole(s) ELSE UNCHANGED <<closes, shell>>
  /\ UNCHANGED <<kind, system, up, at, files, ctx, reader, full>>

(* exec.CommandContext kills the shell of a context that is over. *)
ContextKills(s) ==
  /\ system = "unix" /\ ctx[s] = "over" /\ shell[s] = "runs" /\ shell' = [shell EXCEPT ![s] = "over"]
  /\ UNCHANGED <<kind, system, sock, up, at, files, ctx, reader, closer, full, closes>>

LoopEnds(s) ==
  /\ at[s] = "term" /\ (sock[s] = "closed" \/ (sock[s] = "left" /\ up[s] = <<>>)) /\ Go(s, "close")
  /\ IF system = "windows" THEN ctx' = [ctx EXCEPT ![s] = "over"] ELSE UNCHANGED ctx
  /\ UNCHANGED <<kind, system, sock, up, files, shell, reader, closer, full, closes>>
Teardown(s) ==   \* the deferred calls: on Unix the shell first, then the context
  /\ at[s] = "close" /\ Go(s, "over") /\ CloseConsole(s) /\ Close(s) /\ ctx' = [ctx EXCEPT ![s] = "over"]
  /\ UNCHANGED <<kind, system, up, files, reader, closer, full>>

Agent(s) ==
  \/ StartFiles(s) \/ Skip(s) \/ Refuse(s) \/ Create(s) \/ Receive(s) \/ DiskFails(s) \/ Received(s) \/ Open(s) \/ Send(s)
  \/ ReadFails(s) \/ StartShell(s) \/ NoShell(s) \/ Type(s) \/ Typed(s) \/ ReaderEnds(s) \/ Closer(s) \/ ContextKills(s)
  \/ LoopEnds(s) \/ Teardown(s)
Next == \E s \in Sessions :
  Agent(s) \/ OutputFails(s) \/ Click(s) \/ SendChunk(s) \/ AskFor(s) \/ ViewerLeaves(s) \/ Drain(s) \/ ShellExits(s)

(* The agent's goroutines go on; a shell reads what is typed.              *)
Fairness ==
  \A s \in Sessions :
    /\ WF_vars(StartShell(s) \/ NoShell(s)) /\ WF_vars(Type(s)) /\ WF_vars(Typed(s)) /\ WF_vars(Drain(s))
    /\ WF_vars(ReaderEnds(s)) /\ WF_vars(Closer(s)) /\ WF_vars(ContextKills(s)) /\ WF_vars(LoopEnds(s)) /\ WF_vars(Teardown(s))

Spec == Init /\ [][Next]_vars
FairSpec == Spec /\ Fairness

-----------------------------------------------------------------------------
(* An upload that was answered ok is the file that was sent, and a         *)
(* finished download the file as it was opened, whatever messages come in  *)
(* between and whichever transfers were refused or cut short before,       *)
(* unless another session writes that file at the same time (file.go,      *)
(* "Operations are sequential").                                           *)
Frames(id, size) == [i \in 1..size |-> <<id, i>>]
TransfersAreWhole ==
  \A s \in Sessions : alone[s] =>
    /\ told[s] = "ok" => dir[op[s].name] # None /\ data[dir[op[s].name]] = Frames(op[s].id, op[s].size)
    /\ told[s] = "done" => op[s].got = data[op[s].inode] /\ Len(op[s].got) = op[s].size

(* A terminal ends with its viewer and with its shell: the loop, the       *)
(* reader and the closer, the shell and the socket; and the console is     *)
(* closed no more than once ("a double close can crash the process").      *)
Ended(s) == at[s] = "over" /\ sock[s] = "closed" /\ shell[s] # "runs" /\ reader[s] # "reads" /\ closer[s] # "waits"
            /\ closes[s] <= 1
TerminalEnds ==
  \A s \in Sessions : kind[s] = "terminal" /\ (sock[s] # "open" \/ shell[s] = "over") ~> Ended(s)
=============================================================================
