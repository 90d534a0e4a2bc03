----------------------------- MODULE SignalPipe -----------------------------
(***************************************************************************)
(* How signals reach the event loop of vibepods-daemon: signalHandler      *)
(* writes one byte to a pipe, a socket notifier in main() reads it there   *)
(* and calls refreshNow or quit.  All of that is in the main thread; a     *)
(* handler interrupts it anywhere, and a handler of another signal         *)
(* interrupts that one (sa_mask is empty).  The kernel keeps one pending   *)
(* instance of each signal.                                                *)
(*                                                                         *)
(* VibepodsDaemon takes the bytes one by one as RefreshNow and Quit; here  *)
(* the way they take is modelled, from before the handlers are installed   *)
(* to after the pipe is closed.                                            *)
(***************************************************************************)
EXTENDS Naturals, Sequences

CONSTANTS
    Capacity,       \* bytes the pipe holds
    Chunk,          \* bytes one read takes at most (32)
    SigpipeResults, \* SIGPIPE: "killed", or "ignored" as libraries may arrange
    MaxRaised       \* bound: signals raised

ASSUME SignalAssumption ==
    /\ Capacity \in Nat \ {0}
    /\ Chunk \in Nat \ {0}
    /\ SigpipeResults \subseteq {"killed", "ignored"}
    /\ MaxRaised \in Nat

Signals == {"USR1", "INT", "TERM"}

Codes == {"R", "Q"}

(* Where main() is: before and after installSignalHandlers, in the event   *)
(* loop or in a slot it called, in the notifier's slot, after exec's loop, *)
(* and through the three steps of aboutToQuit.                             *)
Places == {"boot", "installed", "loop", "busy", "serving", "leaving",
           "cleaned", "readClosed", "closed", "ended", "killed"}

VARIABLES
    at,        \* where main() is
    quitting,  \* app.quit() has been called
    cleaned,   \* history: cleanup has run
    started,   \* history: start has run
    buffer,    \* bytes read and not yet looked at
    pipe,      \* bytes in the pipe
    handlers,  \* signals being handled, the innermost last
    pending,   \* signals the kernel has not delivered
    raised     \* how many were raised

vars == <<at, quitting, cleaned, started, buffer, pipe, handlers, pending, raised>>

(* The values the variables take. *)
SignalTypeOK ==
    /\ at \in Places
    /\ quitting \in BOOLEAN /\ cleaned \in BOOLEAN /\ started \in BOOLEAN
    /\ buffer \in Seq(Codes) /\ Len(buffer) <= Chunk
    /\ pipe \in Seq(Codes) /\ Len(pipe) <= Capacity
    /\ handlers \in Seq(Signals)
    /\ pending \subseteq Signals
    /\ raised \in 0..MaxRaised

Init ==
    /\ at = "boot"
    /\ quitting = FALSE /\ cleaned = FALSE /\ started = FALSE
    /\ buffer = <<>> /\ pipe = <<>> /\ handlers = <<>>
    /\ pending = {} /\ raised = 0

----------------------------------------------------------------------------
(* Signals. *)

Over == at \in {"ended", "killed"}

Raise(s) ==
    /\ ~Over /\ raised < MaxRaised
    /\ raised' = raised + 1
    /\ pending' = pending \union {s}
    /\ UNCHANGED <<at, quitting, cleaned, started, buffer, pipe, handlers>>

(* A signal is held back while its own handler runs.  Before the handlers  *)
(* are installed each of the three ends the process.                       *)
Deliver(s) ==
    /\ ~Over /\ s \in pending
    /\ \A i \in 1..Len(handlers) : handlers[i] # s
    /\ pending' = pending \ {s}
    /\ IF at = "boot" THEN at' = "killed" /\ UNCHANGED handlers
       ELSE handlers' = Append(handlers, s) /\ UNCHANGED at
    /\ UNCHANGED <<quitting, cleaned, started, buffer, pipe, raised>>

Code(s) == IF s = "USR1" THEN "R" ELSE "Q"

Innermost == handlers[Len(handlers)]

Return == handlers' = SubSeq(handlers, 1, Len(handlers) - 1)

(* signalHandler.  A full pipe blocks it, and with it the whole process.   *)
SignalHandler ==
    /\ ~Over /\ handlers # <<>>
    /\ \/ /\ at = "closed"
          /\ Return /\ UNCHANGED <<at, pipe>>
       \/ /\ at = "readClosed"
          /\ \/ "killed" \in SigpipeResults /\ at' = "killed" /\ UNCHANGED handlers
             \/ "ignored" \in SigpipeResults /\ Return /\ UNCHANGED at
          /\ UNCHANGED pipe
       \/ /\ at \notin {"closed", "readClosed"} /\ Len(pipe) < Capacity
          /\ pipe' = Append(pipe, Code(Innermost))
          /\ Return /\ UNCHANGED at
    /\ UNCHANGED <<quitting, cleaned, started, buffer, pending, raised>>

----------------------------------------------------------------------------
(* main(), which runs while no handler does. *)

Steps(from, to) == ~Over /\ handlers = <<>> /\ at = from /\ at' = to

InstallSignalHandlers ==
    /\ Steps("boot", "installed")
    /\ UNCHANGED <<quitting, cleaned, started, buffer, pipe, handlers, pending, raised>>

(* daemon.start() and app.exec() *)
Start ==
    /\ Steps("installed", "loop")
    /\ started' = TRUE
    /\ UNCHANGED <<quitting, cleaned, buffer, pipe, handlers, pending, raised>>

(* any other slot, blocking D-Bus calls included *)
Work ==
    /\ Steps("loop", "busy") \/ Steps("busy", "loop")
    /\ UNCHANGED <<quitting, cleaned, started, buffer, pipe, handlers, pending, raised>>

(* a faulty variant: the read takes all there is *)
ActivatedTakesAll ==
    /\ Steps("loop", "serving")
    /\ ~quitting /\ pipe # <<>>
    /\ buffer' = pipe /\ pipe' = <<>>
    /\ UNCHANGED <<quitting, cleaned, started, handlers, pending, raised>>

(* The notifier is active as long as the pipe is not empty.  A loop that   *)
(* has been told to quit does not get to it again.                         *)
Activated ==
    /\ Steps("loop", "serving")
    /\ ~quitting /\ pipe # <<>>
    /\ LET n == IF Len(pipe) < Chunk THEN Len(pipe) ELSE Chunk
       IN  /\ buffer' = SubSeq(pipe, 1, n)
           /\ pipe' = SubSeq(pipe, n + 1, Len(pipe))
    /\ UNCHANGED <<quitting, cleaned, started, handlers, pending, raised>>

(* a faulty variant: only the first byte of a read is looked at *)
ServeFirstByte ==
    /\ Steps("serving", "serving") /\ buffer # <<>>
    /\ buffer' = <<>>
    /\ quitting' = (quitting \/ Head(buffer) = "Q")
    /\ UNCHANGED <<cleaned, started, pipe, handlers, pending, raised>>

(* a faulty variant: cleanup is called where quit should be *)
ServeByteCleansUp ==
    /\ Steps("serving", "serving") /\ buffer # <<>>
    /\ buffer' = Tail(buffer)
    /\ quitting' = (quitting \/ Head(buffer) = "Q")
    /\ cleaned' = (cleaned \/ Head(buffer) = "Q")
    /\ UNCHANGED <<started, pipe, handlers, pending, raised>>

(* refreshNow for R; quit for Q, which lets the rest of the buffer go on *)
ServeByte ==
    /\ Steps("serving", "serving") /\ buffer # <<>>
    /\ buffer' = Tail(buffer)
    /\ quitting' = (quitting \/ Head(buffer) = "Q")
    /\ UNCHANGED <<cleaned, started, pipe, handlers, pending, raised>>

ServeDone ==
    /\ Steps("serving", "loop") /\ buffer = <<>>
    /\ UNCHANGED <<quitting, cleaned, started, buffer, pipe, handlers, pending, raised>>

LoopEnds ==
    /\ Steps("loop", "leaving") /\ quitting
    /\ UNCHANGED <<quitting, cleaned, started, buffer, pipe, handlers, pending, raised>>

Cleanup ==
    /\ Steps("leaving", "cleaned")
    /\ cleaned' = TRUE
    /\ UNCHANGED <<quitting, started, buffer, pipe, handlers, pending, raised>>

(* a faulty variant: the pipe is closed before cleanup *)
CloseReadEndEarly ==
    /\ Steps("leaving", "readClosed") \/ Steps("cleaned", "readClosed")
    /\ pipe' = <<>>
    /\ UNCHANGED <<quitting, cleaned, started, buffer, handlers, pending, raised>>

CloseReadEnd ==
    /\ Steps("cleaned", "readClosed")
    /\ pipe' = <<>>
    /\ UNCHANGED <<quitting, cleaned, started, buffer, handlers, pending, raised>>

CloseWriteEnd ==
    /\ Steps("readClosed", "closed")
    /\ UNCHANGED <<quitting, cleaned, started, buffer, pipe, handlers, pending, raised>>

Ends ==
    /\ Steps("closed", "ended")
    /\ UNCHANGED <<quitting, cleaned, started, buffer, pipe, handlers, pending, raised>>

Advance ==
    \/ InstallSignalHandlers \/ Start \/ Work \/ Activated
    \/ ServeByte \/ ServeDone \/ LoopEnds
    \/ Cleanup \/ CloseReadEnd \/ CloseWriteEnd \/ Ends

Next ==
    \/ \E s \in Signals : Raise(s) \/ Deliver(s)
    \/ SignalHandler
    \/ Advance

Spec == Init /\ [][Next]_vars

(* The kernel delivers, a handler that can write does, main() runs on.  A  *)
(* loop busy with other slots gets to the pipe and to its own end.         *)
Fairness ==
    /\ \A s \in Signals : WF_vars(Deliver(s))
    /\ WF_vars(SignalHandler) /\ WF_vars(Advance)
    /\ SF_vars(Activated) /\ SF_vars(LoopEnds)

FairSpec == Spec /\ Fairness

----------------------------------------------------------------------------
(* The handler waits for room that only the thread it has interrupted      *)
(* could make.                                                             *)
Stuck == handlers # <<>> /\ Len(pipe) = Capacity /\ at \notin {"readClosed", "closed"}

(* No signal, whenever it comes, ends a daemon that has written its state  *)
(* file before cleanup has written it for the last time: the pipe is up    *)
(* before start() and until after cleanup (installSignalHandlers,          *)
(* aboutToQuit).                                                           *)
EndsClean == Over /\ started => cleaned

(* After cleanup no SIGUSR1 is served any more, though quit lets the rest  *)
(* of a read be served: refreshNow would dial again and leave a file that  *)
(* says so.                                                                *)
CleanupLast ==
    [][cleaned => ~(buffer # <<>> /\ Head(buffer) = "R" /\ buffer' = Tail(buffer))]_vars

(* A SIGINT or SIGTERM ends the daemon, wherever it hits: before the loop  *)
(* runs, behind other signals, while a slot blocks.  The exception is a    *)
(* pipe filled up in the meantime.                                         *)
QuitHonoured == pending \cap {"INT", "TERM"} # {} ~> Over \/ Stuck
============================================================================
