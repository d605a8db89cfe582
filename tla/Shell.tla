-------------------------------- MODULE Shell --------------------------------
(***************************************************************************)
(* The shell plugin (plugins/shell): a child process, its standard input   *)
(* fed by Run, its standard output read line by line in a goroutine Run    *)
(* does not wait for.  Both pipes are bounded.  exec.Cmd.Wait reaps the    *)
(* child and closes the plugin's end of its output.  Around it stands the  *)
(* adapter of a Runner (runWorker.Run, core/graph/vertex.go).              *)
(***************************************************************************)
EXTENDS Integers, Sequences, SequencesExt

CONSTANTS
    Inputs, \* how many values the stage's input carries
    Lines,  \* bound: lines the child prints
    Empty,  \* those of them that are empty
    Long,   \* those over the limit of a bufio.Scanner
    Room    \* values or lines a pipe of the system holds

ASSUME ShellBounds ==
    /\ Inputs \in Nat /\ Lines \in Nat /\ Room \in Nat \ {0}
    /\ Empty \subseteq 1..Lines /\ Long \subseteq (1..Lines) \ Empty

VARIABLES
    run,       \* Run's own goroutine, and its adapter's after it
    taken,     \* values Run read from the input
    stdin,     \* the child's input: values in the pipe, who closed it
    stdout,    \* the child's output: lines in the pipe, whether the plugin reads it
    child,     \* the child: its state, what it has to print, the lines it printed
    scan,      \* handleCmdOutput: where it stands, the scanner's buffer
    delivered, \* lines the stage's reader received
    ctx        \* "cancelled"; "deaf" once nobody reads the output

vars == <<run, taken, stdin, stdout, child, scan, delivered, ctx>>

Init ==
    /\ run = "init" /\ taken = 0
    /\ stdin = [held |-> 0, open |-> TRUE]
    /\ stdout = [held |-> <<>>, open |-> TRUE]
    /\ child = [pc |-> "off", owes |-> 0, printed |-> 0, failed |-> FALSE]
    /\ scan = [pc |-> "off", buf |-> <<>>]
    /\ delivered = <<>> /\ ctx = {}

-----------------------------------------------------------------------------
(***************************************************************************)
(* Run and handleCmdInput.                                                 *)
(***************************************************************************)
Start ==
    /\ run = "init"
    /\ run' = "select"
    /\ child' = [child EXCEPT !.pc = "run"] /\ scan' = [scan EXCEPT !.pc = "scan"]
    /\ UNCHANGED <<taken, stdin, stdout, delivered, ctx>>

StartFails ==
    /\ run = "init"
    /\ run' = "errC"
    /\ UNCHANGED <<taken, stdin, stdout, child, scan, delivered, ctx>>

Take ==
    /\ run = "select" /\ taken < Inputs
    /\ run' = "write" /\ taken' = taken + 1
    /\ UNCHANGED <<stdin, stdout, child, scan, delivered, ctx>>

\* The write waits for room; with the child gone it fails, and ends the loop.
Write ==
    /\ run = "write"
    /\ \/ /\ child.pc # "exited" /\ stdin.held < Room
          /\ run' = "select" /\ stdin' = [stdin EXCEPT !.held = @ + 1]
       \/ /\ child.pc = "exited"
          /\ run' = "wait" /\ stdin' = [stdin EXCEPT !.open = FALSE]
    /\ UNCHANGED <<taken, stdout, child, scan, delivered, ctx>>

EndInput == \* the input is closed, or the context done: the pipe is closed
    /\ run = "select" /\ (taken = Inputs \/ "cancelled" \in ctx)
    /\ run' = "wait" /\ stdin' = [stdin EXCEPT !.open = FALSE]
    /\ UNCHANGED <<taken, stdout, child, scan, delivered, ctx>>

WaitNot == \* mutant: the output is closed without waiting for the child
    /\ run = "wait"
    /\ run' = "close"
    /\ stdout' = [held |-> <<>>, open |-> FALSE]
    /\ UNCHANGED <<taken, stdin, child, scan, delivered, ctx>>

\* The deferred cmd.Wait: what the scanner has not read by then is lost, and
\* the child's exit status replaces the error of the input.
Wait ==
    /\ run = "wait" /\ child.pc = "exited"
    /\ run' = IF child.failed THEN "errC" ELSE "close"
    /\ stdout' = [held |-> <<>>, open |-> FALSE]
    /\ UNCHANGED <<taken, stdin, child, scan, delivered, ctx>>

\* The adapter: report, close the output, and only then cancel.
Report ==
    /\ run = "errC"
    /\ run' = "close"
    /\ UNCHANGED <<taken, stdin, stdout, child, scan, delivered, ctx>>

Close ==
    /\ run = "close"
    /\ run' = "closed"
    /\ UNCHANGED <<taken, stdin, stdout, child, scan, delivered, ctx>>

RunnerCancel ==
    /\ run = "closed"
    /\ run' = "ended" /\ ctx' = ctx \cup {"ended"}
    /\ UNCHANGED <<taken, stdin, stdout, child, scan, delivered>>

-----------------------------------------------------------------------------
(***************************************************************************)
(* The child: a filter that prints before it reads on, and may print more  *)
(* when its input ends.  It may exit at any time; printing where nobody    *)
(* reads kills it.                                                         *)
(***************************************************************************)
Owe(k) == k \in 0..1 /\ child.printed + k <= Lines

ChildReads ==
    /\ child.pc = "run" /\ child.owes = 0 /\ stdin.held > 0
    /\ stdin' = [stdin EXCEPT !.held = @ - 1]
    /\ \E k \in 0..1 : Owe(k) /\ child' = [child EXCEPT !.owes = k]
    /\ UNCHANGED <<run, taken, stdout, scan, delivered, ctx>>

ChildPrints ==
    /\ child.owes > 0 /\ child.pc # "exited"
    /\ \/ /\ stdout.open /\ Len(stdout.held) < Room
          /\ child' = [child EXCEPT !.owes = @ - 1, !.printed = @ + 1]
          /\ stdout' = [stdout EXCEPT !.held = Append(@, child.printed + 1)]
       \/ /\ ~stdout.open
          /\ child' = [child EXCEPT !.pc = "exited", !.owes = 0, !.failed = TRUE]
          /\ UNCHANGED stdout
    /\ UNCHANGED <<run, taken, stdin, scan, delivered, ctx>>

ChildEof ==
    /\ child.pc = "run" /\ child.owes = 0 /\ stdin.held = 0 /\ ~stdin.open
    /\ \E k \in 0..1 : Owe(k) /\ child' = [child EXCEPT !.pc = "ending", !.owes = k]
    /\ UNCHANGED <<run, taken, stdin, stdout, scan, delivered, ctx>>

ChildDone ==
    /\ child.pc = "ending" /\ child.owes = 0
    /\ child' = [child EXCEPT !.pc = "exited"]
    /\ UNCHANGED <<run, taken, stdin, stdout, scan, delivered, ctx>>

ChildDies ==
    /\ child.pc \in {"run", "ending"}
    /\ child' = [child EXCEPT !.pc = "exited", !.owes = 0, !.failed = TRUE]
    /\ UNCHANGED <<run, taken, stdin, stdout, scan, delivered, ctx>>

-----------------------------------------------------------------------------
(***************************************************************************)
(* handleCmdOutput, and the yield of the runner's adapter.                 *)
(***************************************************************************)
\* The return, and the deferred outputCmd.Close: what the scanner and the pipe
\* still hold is gone.
EndOutput ==
    /\ scan' = [pc |-> "ended", buf |-> <<>>]
    /\ stdout' = [held |-> <<>>, open |-> FALSE]

FillAfterInput == \* mutant: read by Run itself, after the input
    /\ scan.pc = "scan" /\ run \notin {"select", "write"} /\ scan.buf = <<>>
    /\ \/ /\ stdout.held # <<>> /\ stdout.open
          /\ scan' = [scan EXCEPT !.buf = stdout.held]
          /\ stdout' = [stdout EXCEPT !.held = <<>>]
       \/ /\ ~stdout.open \/ (child.pc = "exited" /\ stdout.held = <<>>)
          /\ EndOutput
    /\ UNCHANGED <<run, taken, stdin, child, delivered, ctx>>

\* One read takes what the pipe holds; the buffer is emptied before the next.
Fill ==
    /\ scan.pc = "scan" /\ scan.buf = <<>>
    /\ \/ /\ stdout.held # <<>> /\ stdout.open
          /\ scan' = [scan EXCEPT !.buf = stdout.held]
          /\ stdout' = [stdout EXCEPT !.held = <<>>]
       \/ /\ ~stdout.open \/ (child.pc = "exited" /\ stdout.held = <<>>)
          /\ EndOutput
    /\ UNCHANGED <<run, taken, stdin, child, delivered, ctx>>

Scan ==
    /\ scan.pc = "scan" /\ scan.buf # <<>>
    /\ \/ /\ Head(scan.buf) \in Empty
          /\ scan' = [scan EXCEPT !.buf = Tail(@)] /\ UNCHANGED stdout
       \/ /\ Head(scan.buf) \notin Empty \cup Long /\ ctx = {}
          /\ scan' = [scan EXCEPT !.pc = "send"] /\ UNCHANGED stdout
       \/ /\ Head(scan.buf) \notin Empty \cup Long /\ ctx # {} \* yield refuses
          /\ EndOutput
       \/ /\ Head(scan.buf) \in Long \* scanner.Err
          /\ EndOutput
    /\ UNCHANGED <<run, taken, stdin, child, delivered, ctx>>

\* A send on the closed channel panics, and with it the plugin's process.
SendOutput ==
    /\ scan.pc = "send"
    /\ \/ /\ run \notin {"closed", "ended"} /\ "deaf" \notin ctx
          /\ scan' = [pc |-> "scan", buf |-> Tail(scan.buf)]
          /\ delivered' = Append(delivered, Head(scan.buf))
       \/ /\ run \in {"closed", "ended"}
          /\ scan' = [scan EXCEPT !.pc = "panic"]
          /\ UNCHANGED delivered
    /\ UNCHANGED <<run, taken, stdin, stdout, child, ctx>>

Cancel ==
    /\ "cancelled" \notin ctx
    /\ ctx' = ctx \cup {"cancelled"}
    /\ UNCHANGED <<run, taken, stdin, stdout, child, scan, delivered>>

\* GRPCServer.Run stops reading the stage when its context is done.
StopReading ==
    /\ "cancelled" \in ctx
    /\ ctx' = ctx \cup {"deaf"}
    /\ UNCHANGED <<run, taken, stdin, stdout, child, scan, delivered>>

Main   == Start \/ StartFails \/ Take \/ Write \/ EndInput \/ Wait \/ Close \/ RunnerCancel
Child  == ChildReads \/ ChildPrints \/ ChildEof \/ ChildDone
Output == Fill \/ Scan \/ SendOutput
Alive  == scan.pc # "panic" \* the plugin's process

Next == Alive /\ (Main \/ Report \/ Child \/ ChildDies \/ Output \/ Cancel \/ StopReading)

\* The plugin's goroutines and the child run on, the child until its input
\* ends; the stage's output is read for as long as GRPCServer.Run reads it.
Fairness ==
    /\ WF_vars(Alive /\ Main) /\ WF_vars(Alive /\ Output) /\ WF_vars(Alive /\ Child)

Spec == Init /\ [][Next]_vars /\ Fairness

-----------------------------------------------------------------------------
\* The lines that are not empty, in their order.
Shown(lines) ==
    LET shown[i \in 0..Len(lines)] ==
          IF i = 0 THEN <<>>
          ELSE IF lines[i] \in Empty THEN shown[i - 1] ELSE Append(shown[i - 1], lines[i])
    IN  shown[Len(lines)]
UpTo(n) == [l \in 1..n |-> l]
Printed == Shown(UpTo(child.printed))
Reaped == run \in {"errC", "close", "closed", "ended"}

\* Where a line the child printed may be missing: the child has exited and was
\* waited for (Run's deferred Wait closes the pipe); or the reader gave up,
\* because yield refused or at the first line over the scanner's limit
\* (handleCmdOutput's returns).
Excused ==
    \/ Reaped /\ child.pc = "exited"
    \/ /\ scan.pc = "ended"
       /\ ctx # {} \/ \E l \in Long : l <= child.printed /\ delivered = Shown(UpTo(l - 1))

\* The stage's reader has the beginning of what the child printed, in order and
\* without the empty lines.  Every other line is in the scanner's buffer or in
\* the pipe, but for those that Wait, a refused yield or a line over the limit
\* cut off.  A send meets the closed output only after Wait.
LinesAccounted ==
    /\ IsPrefix(delivered, Printed)
    /\ delivered \o Shown(scan.buf \o stdout.held) = Printed \/ Excused
    /\ Alive \/ Reaped

\* Run ends after its input or its context does, unless a line is owed to a
\* reader that has gone (handleCmdInput, handleCmdOutput, cmd.Wait).
Ends ==
    (run = "select" /\ (taken = Inputs \/ "cancelled" \in ctx))
        ~> (Reaped \/ (scan.pc = "send" /\ "deaf" \in ctx))
=============================================================================
