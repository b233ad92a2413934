---------------------------- MODULE ShellSession ----------------------------
(***************************************************************************)
(* One remote shell: shell/session.py and shell/emulator.py, and the       *)
(* reader thread of app.py (_read_shell).  Three actors share two pipes    *)
(* and one counter:                                                        *)
(*   - the application's event loop: the task that drains the SSH channel, *)
(*     the painting of frames, resizing and close();                       *)
(*   - the reader thread, which takes frames and acks off the pipe;        *)
(*   - the child process, which emulates the terminal.                     *)
(* A send on a full pipe blocks its sender, and a sender on the event loop *)
(* blocks the whole loop: "loop" names who holds it.                       *)
(***************************************************************************)
EXTENDS Integers, Sequences, FiniteSets

CONSTANTS
  Output,        \* bytes the remote command writes
  MaxUnacked,    \* MAX_UNACKED
  ReadChunk,     \* READ_CHUNK
  ToChild,       \* messages the pipe to the child holds
  ToParent,      \* messages the pipe to the parent holds
  Resizes        \* how often the user resizes the terminal

ASSUME ShellAssumption ==
  /\ Output \in Nat /\ MaxUnacked \in Nat \ {0} /\ ReadChunk \in Nat \ {0}
  /\ ToChild \in Nat \ {0} /\ ToParent \in Nat \ {0} /\ Resizes \in Nat

VARIABLES
  unread,    \* output the parent has not read from the channel
  unacked,   \* _unacked
  exited,    \* _exited
  drain,     \* where _drain_channel is
  got,       \* bytes of the chunk it holds
  load,      \* load[t]: the value of _unacked that thread t has read
  loop,      \* who holds the event loop
  closing,   \* where close() is
  resizes,   \* resizes left
  toChild,   \* the pipe to the child
  toParent,  \* the pipe to the parent
  child,     \* where the child is
  pending,   \* bytes fed to the emulator, not acknowledged yet
  dirty,     \* the screen changed since the last frame
  screen,    \* bytes the screen reflects
  reader,    \* where the reader thread is
  message,   \* the message it holds
  painted    \* bytes the displayed frame reflects

drainVars == <<unread, drain, got>>
counter == <<unacked, load>>
childVars == <<child, pending, dirty, screen>>
readerVars == <<reader, message, painted>>
appVars == <<closing, resizes>>
vars == <<drainVars, counter, exited, loop, appVars, toChild, toParent, childVars, readerVars>>

Feed(n) == [t |-> "feed", n |-> n]
Resize == [t |-> "resize", n |-> 0]
Quit == [t |-> "quit", n |-> 0]
Ack(n) == [t |-> "ack", n |-> n]
Frame(s) == [t |-> "frame", n |-> s]

\* start() has sent the initial size; the drain task and the reader thread run.
Init ==
  /\ unread = Output /\ unacked = 0 /\ exited = FALSE
  /\ drain = "check" /\ got = 0 /\ load = [drain |-> 0, reader |-> 0]
  /\ loop = "free" /\ closing = "no" /\ resizes = Resizes
  /\ toChild = <<Resize>> /\ toParent = <<>>
  /\ child = "poll" /\ pending = 0 /\ dirty = FALSE /\ screen = 0
  /\ reader = "check" /\ message = Ack(0) /\ painted = 0

\* Mutant: a full pipe loses the message.
SendOrDrop(m) ==
  /\ toChild' = IF Len(toChild) < ToChild THEN Append(toChild, m) ELSE toChild
  /\ exited' = (exited \/ child = "dead")

\* _send_to_child: a dead child fails the send, a full pipe blocks it.
SendToChild(m) ==
  \/ /\ child # "dead" /\ Len(toChild) < ToChild
     /\ toChild' = Append(toChild, m)
     /\ UNCHANGED exited
  \/ /\ child = "dead"
     /\ exited' = TRUE
     /\ UNCHANGED toChild

----------------------------------------------------------------------------
(* The event loop: _drain_channel. *)

\* The loop test; it sleeps for as long as the window is full.
DrainCheck ==
  /\ drain = "check" /\ loop = "free"
  /\ \/ exited /\ drain' = "done"
     \/ ~exited /\ unacked < MaxUnacked /\ drain' = "read"
  /\ UNCHANGED <<unread, got, counter, exited, loop, appVars, toChild, toParent, childVars, readerVars>>

\* Mutant: everything the channel has is taken at once.
DrainReadAll ==
  /\ drain = "read" /\ loop = "free" /\ unread > 0
  /\ unread' = 0 /\ got' = unread
  /\ drain' = "add" /\ loop' = "drain"
  /\ UNCHANGED <<counter, exited, appVars, toChild, toParent, childVars, readerVars>>

DrainRead ==
  /\ drain = "read" /\ loop = "free"
  /\ \E n \in 1..ReadChunk :
       /\ n <= unread
       /\ unread' = unread - n
       /\ got' = n
  /\ drain' = "add" /\ loop' = "drain"
  /\ UNCHANGED <<counter, exited, appVars, toChild, toParent, childVars, readerVars>>

\* An empty read: the remote closed the channel.
DrainEOF ==
  /\ drain = "read" /\ loop = "free"
  /\ unread = 0
  /\ exited' = TRUE /\ drain' = "done"
  /\ UNCHANGED <<unread, got, counter, loop, appVars, toChild, toParent, childVars, readerVars>>

\* A failed read ends the task and leaves the shell open.
DrainFails ==
  /\ drain = "read" /\ loop = "free"
  /\ drain' = "broken"
  /\ UNCHANGED <<unread, got, counter, exited, loop, appVars, toChild, toParent, childVars, readerVars>>

\* "_unacked += len(data)" loads the counter and stores the sum; the reader
\* thread may run in between.
DrainLoad ==
  /\ drain = "add"
  /\ load' = [load EXCEPT !.drain = unacked]
  /\ drain' = "store"
  /\ UNCHANGED <<unread, got, unacked, exited, loop, appVars, toChild, toParent, childVars, readerVars>>

DrainStore ==
  /\ drain = "store"
  /\ unacked' = load.drain + got
  /\ drain' = "send"
  /\ UNCHANGED <<unread, got, load, exited, loop, appVars, toChild, toParent, childVars, readerVars>>

DrainSend ==
  /\ drain = "send"
  /\ SendToChild(Feed(got))
  /\ drain' = "check" /\ got' = 0 /\ loop' = "free"
  /\ UNCHANGED <<unread, counter, appVars, toParent, childVars, readerVars>>

----------------------------------------------------------------------------
(* The event loop: resize(), close(), and the frames to paint. *)

ResizeBegin ==
  /\ loop = "free" /\ closing = "no" /\ resizes > 0
  /\ loop' = "resize" /\ resizes' = resizes - 1
  /\ UNCHANGED <<drainVars, counter, exited, closing, toChild, toParent, childVars, readerVars>>

ResizeSend ==
  /\ loop = "resize"
  /\ SendToChild(Resize)
  /\ loop' = "free"
  /\ UNCHANGED <<drainVars, counter, appVars, toParent, childVars, readerVars>>

\* close() cancels the drain task, which is at one of its awaits.
CloseBegin ==
  /\ loop = "free" /\ closing = "no"
  /\ exited' = TRUE /\ loop' = "close" /\ closing' = "quit"
  /\ drain' = IF drain \in {"check", "read"} THEN "done" ELSE drain
  /\ UNCHANGED <<unread, got, counter, resizes, toChild, toParent, childVars, readerVars>>

CloseQuit ==
  /\ closing = "quit"
  /\ SendToChild(Quit)
  /\ closing' = "kill"
  /\ UNCHANGED <<drainVars, counter, loop, resizes, toParent, childVars, readerVars>>

\* terminate(), join() and kill(); then the parent's end of the pipe is closed.
CloseKill ==
  /\ closing = "kill"
  /\ child' = "dead" /\ toParent' = <<>>
  /\ closing' = "done" /\ loop' = "free"
  /\ UNCHANGED <<drainVars, counter, exited, resizes, toChild, pending, dirty, screen, readerVars>>

\* call_from_thread() waits for the loop to run _set_shell_frame.
Paint ==
  /\ reader = "call" /\ loop = "free"
  /\ painted' = message.n
  /\ reader' = "check"
  /\ UNCHANGED <<drainVars, counter, exited, loop, appVars, toChild, toParent, childVars, message>>

----------------------------------------------------------------------------
(* The reader thread: _read_shell and next_message. *)

\* Mutant: the thread does not look at _exited.
ReaderCheckForever ==
  /\ reader = "check"
  /\ reader' = "receive"
  /\ UNCHANGED <<drainVars, counter, exited, loop, appVars, toChild, toParent, childVars, message, painted>>

\* The two tests of _exited, then the wait for a message.
ReaderCheck ==
  /\ reader = "check"
  /\ reader' = IF exited THEN "done" ELSE "receive"
  /\ UNCHANGED <<drainVars, counter, exited, loop, appVars, toChild, toParent, childVars, message, painted>>

\* The load of "_unacked = max(0, _unacked - ...)" is part of this step; the calls
\* between the load and the store are where the event loop may run.
ReaderReceive ==
  /\ reader = "receive" /\ toParent # <<>>
  /\ message' = Head(toParent) /\ toParent' = Tail(toParent)
  /\ \/ /\ message'.t = "ack"
        /\ load' = [load EXCEPT !.reader = unacked]
        /\ reader' = "subtract"
     \/ message'.t = "frame" /\ reader' = "call" /\ UNCHANGED load
  /\ UNCHANGED <<drainVars, unacked, exited, loop, appVars, toChild, childVars, painted>>

ReaderTimeout ==
  /\ reader = "receive" /\ toParent = <<>> /\ child # "dead"
  /\ reader' = "check"
  /\ UNCHANGED <<drainVars, counter, exited, loop, appVars, toChild, toParent, childVars, message, painted>>

\* The pipe is closed: the child is gone.
ReaderEOF ==
  /\ reader = "receive" /\ toParent = <<>> /\ child = "dead"
  /\ exited' = TRUE /\ reader' = "check"
  /\ UNCHANGED <<drainVars, counter, loop, appVars, toChild, toParent, childVars, message, painted>>

ReaderSubtract ==
  /\ reader = "subtract"
  /\ unacked' = IF load.reader > message.n THEN load.reader - message.n ELSE 0
  /\ reader' = "check"
  /\ UNCHANGED <<drainVars, load, exited, loop, appVars, toChild, toParent, childVars, message, painted>>

----------------------------------------------------------------------------
(* The child: emulator.main. *)

ChildReceive ==
  /\ child = "poll" /\ toChild # <<>>
  /\ toChild' = Tail(toChild)
  /\ IF Head(toChild).t = "quit"
     THEN child' = "dead" /\ UNCHANGED <<pending, dirty, screen>>
     ELSE /\ child' = "ack" /\ dirty' = TRUE
          /\ pending' = pending + Head(toChild).n
          /\ screen' = screen + Head(toChild).n
  /\ UNCHANGED <<drainVars, counter, exited, loop, appVars, toParent, readerVars>>

\* The ack, and a frame if the last one is long enough ago.
ChildAck ==
  /\ child = "ack" /\ Len(toParent) < ToParent
  /\ toParent' = Append(toParent, Ack(pending))
  /\ pending' = 0
  /\ child' \in {"emit", "poll"}
  /\ UNCHANGED <<drainVars, counter, exited, loop, appVars, toChild, dirty, screen, readerVars>>

ChildEmit ==
  /\ child = "emit" /\ Len(toParent) < ToParent
  /\ toParent' = Append(toParent, Frame(screen))
  /\ dirty' = FALSE /\ child' = "poll"
  /\ UNCHANGED <<drainVars, counter, exited, loop, appVars, toChild, pending, screen, readerVars>>

\* Mutant: no frame is due without input.
ChildWaits == child = "poll" /\ toChild = <<>> /\ UNCHANGED vars

\* No input for a frame interval: the frame that was held back is due.
ChildIdle ==
  /\ child = "poll" /\ toChild = <<>> /\ dirty
  /\ child' = "emit"
  /\ UNCHANGED <<drainVars, counter, exited, loop, appVars, toChild, toParent, pending, dirty, screen, readerVars>>

ChildCrash ==
  /\ child # "dead"
  /\ child' = "dead"
  /\ UNCHANGED <<drainVars, counter, exited, loop, appVars, toChild, toParent, pending, dirty, screen, readerVars>>

----------------------------------------------------------------------------

DrainStep ==
  DrainCheck \/ DrainRead \/ DrainLoad \/ DrainStore \/ DrainSend
ReaderStep ==
  ReaderCheck \/ ReaderReceive \/ ReaderTimeout \/ ReaderEOF \/ ReaderSubtract
ChildStep == ChildReceive \/ ChildAck \/ ChildEmit \/ ChildIdle
AppStep == ResizeSend \/ CloseQuit \/ CloseKill

\* The tab of a closed shell is gone: nothing is left to do.
Finished == closing = "done" /\ reader = "done" /\ UNCHANGED vars

Next ==
  \/ DrainStep \/ ReaderStep \/ ChildStep \/ AppStep \/ Paint
  \/ DrainEOF \/ DrainFails \/ ResizeBegin \/ CloseBegin \/ ChildCrash
  \/ Finished

Spec == Init /\ [][Next]_vars

\* Threads and processes that can run do run; the remote command need not exit,
\* the user need not resize or close the terminal.  The event loop's ready queue is
\* first in, first out: a callback that waits for the loop is not overtaken for
\* ever, hence strong fairness for the two that compete for it.
FairSpec ==
  /\ Spec
  /\ SF_vars(DrainStep) /\ SF_vars(Paint)
  /\ WF_vars(ReaderStep) /\ WF_vars(ChildStep) /\ WF_vars(AppStep)

----------------------------------------------------------------------------
(* Properties. *)

\* Every variable has its type; no read is longer than READ_CHUNK and no pipe is
\* over-full.
TypeOK ==
  /\ unread \in 0..Output /\ unacked \in Nat
  /\ got \in 0..ReadChunk /\ pending \in 0..Output
  /\ exited \in BOOLEAN /\ dirty \in BOOLEAN
  /\ drain \in {"check", "read", "add", "store", "send", "broken", "done"}
  /\ loop \in {"free", "drain", "resize", "close"}
  /\ closing \in {"no", "quit", "kill", "done"}
  /\ child \in {"poll", "ack", "emit", "dead"}
  /\ reader \in {"check", "receive", "subtract", "call", "done"}
  /\ screen \in 0..Output /\ painted \in 0..Output
  /\ Len(toChild) <= ToChild /\ Len(toParent) <= ToParent

\* The bytes that a pipe carries in messages of one kind, each named by the place
\* of its message and its place there.
BytesOf(t, pipe) ==
  UNION {{k} \X (1..pipe[k].n) : k \in {i \in 1..Len(pipe) : pipe[i].t = t}}
Bytes(t, pipe) == Cardinality(BytesOf(t, pipe))

\* Bytes sent to the child, or about to be, whose ack has not been processed.
InFlight ==
  Bytes("feed", toChild) + pending + Bytes("ack", toParent)
    + (IF drain = "send" THEN got ELSE 0)
    + (IF reader = "subtract" THEN message.n ELSE 0)

\* Above MAX_UNACKED unacknowledged bytes, reading the channel stops entirely (the
\* module's docstring): the drain task reads only while fewer are in flight.  The
\* counter it tests loses updates, so it does not know.
ReadsWithinWindow == child # "dead" /\ drain = "read" => InFlight < MaxUnacked

\* No byte of the output is lost or doubled on its way to the screen, however
\* often the pipe is full: it is unread, in the drain task's hand, in the pipe
\* or on the screen.
OutputConserved ==
  child # "dead" => unread + got + Bytes("feed", toChild) + screen = Output

\* Something ended the shell before its time.
Disturbed == closing # "no" \/ child = "dead" \/ drain = "broken"

\* A frame that was held back is painted without further output: the display
\* catches up with the child's screen again and again.
OutputPainted == []<>(painted = screen \/ Disturbed \/ exited)

\* A runaway command cannot freeze the application (the package's docstring):
\* nothing the shell does keeps the event loop for ever.
LoopIsFreed == []<>(loop = "free")

\* close() leaves neither a child process nor a reader thread behind.
CloseEnds == closing # "no" ~> child = "dead" /\ reader = "done" /\ closing = "done"

=============================================================================
