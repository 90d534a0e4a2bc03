-------------------------- MODULE SignalPipeProofs --------------------------
(***************************************************************************)
(* Theorems about SignalPipe, for every capacity of the pipe, every size   *)
(* of a read and every number of signals.                                  *)
(***************************************************************************)
EXTENDS SignalPipe, SequenceTheorems, TLAPS

(* SignalTypeOK in parts: the places and flags, the bytes, the handlers *)
FlagsOK == at \in Places /\ quitting \in BOOLEAN /\ cleaned \in BOOLEAN /\ started \in BOOLEAN

BufferOK == buffer \in Seq(Codes) /\ Len(buffer) <= Chunk

PipeOK == pipe \in Seq(Codes) /\ Len(pipe) <= Capacity

HandlersOK == handlers \in Seq(Signals)

RaisedOK == pending \subseteq Signals /\ raised \in 0..MaxRaised

LEMMA TypeParts ==
    SignalTypeOK <=> FlagsOK /\ BufferOK /\ PipeOK /\ HandlersOK /\ RaisedOK
  BY DEF SignalTypeOK, FlagsOK, BufferOK, PipeOK, HandlersOK, RaisedOK

LEMMA TypePartsNext ==
    SignalTypeOK' <=> FlagsOK' /\ BufferOK' /\ PipeOK' /\ HandlersOK' /\ RaisedOK'
  BY TypeParts, PTL

(* Every step of main() leaves signals alone, and what it does to the      *)
(* bytes is one of three things.                                           *)
LEMMA AdvanceMoves ==
    ASSUME Advance
    PROVE  /\ UNCHANGED <<handlers, pending, raised>>
           /\ \/ UNCHANGED <<buffer, pipe>>
              \/ Activated
              \/ ServeByte
              \/ pipe' = <<>> /\ UNCHANGED buffer
  BY DEF Advance, InstallSignalHandlers, Start, Work, Activated, ServeByte, ServeDone,
         LoopEnds, Cleanup, CloseReadEnd, CloseWriteEnd, Ends

LEMMA FlagsKept ==
    ASSUME FlagsOK, [Next]_vars
    PROVE  FlagsOK'
  <1> USE DEF FlagsOK, Places
  <1>1. CASE \E s \in Signals : Raise(s) \/ Deliver(s)
    BY <1>1 DEF Raise, Deliver
  <1>2. CASE SignalHandler
    BY <1>2 DEF SignalHandler
  <1>3. CASE Advance
    <2>1. CASE InstallSignalHandlers \/ Work \/ Activated \/ ServeDone
      BY <2>1 DEF InstallSignalHandlers, Work, Activated, ServeDone, Steps
    <2>2. CASE LoopEnds \/ CloseReadEnd \/ CloseWriteEnd \/ Ends
      BY <2>2 DEF LoopEnds, CloseReadEnd, CloseWriteEnd, Ends, Steps
    <2>3. CASE Start \/ Cleanup
      BY <2>3 DEF Start, Cleanup, Steps
    <2>4. CASE ServeByte
      BY <2>4 DEF ServeByte, Steps
    <2> QED
      BY <1>3, <2>1, <2>2, <2>3, <2>4 DEF Advance
  <1>4. CASE UNCHANGED vars
    BY <1>4 DEF vars
  <1> QED
    BY <1>1, <1>2, <1>3, <1>4 DEF Next

LEMMA HandlersKept ==
    ASSUME HandlersOK, [Next]_vars
    PROVE  HandlersOK'
  <1> USE DEF HandlersOK
  <1>1. ASSUME NEW s \in Signals, Raise(s) \/ Deliver(s)
        PROVE  HandlersOK'
    BY <1>1, AppendProperties DEF Raise, Deliver
  <1>2. CASE SignalHandler
    <2>1. CASE UNCHANGED handlers
      BY <2>1
    <2>2. CASE Return
      <3>1. \A i \in 1..(Len(handlers) - 1) : handlers[i] \in Signals
        OBVIOUS
      <3>2. SubSeq(handlers, 1, Len(handlers) - 1) \in Seq(Signals)
        BY <3>1, SubSeqProperties
      <3> QED
        BY <2>2, <3>2 DEF Return
    <2> QED
      BY <1>2, <2>1, <2>2 DEF SignalHandler
  <1>3. CASE Advance
    BY <1>3, AdvanceMoves
  <1>4. CASE UNCHANGED vars
    BY <1>4 DEF vars
  <1> QED
    BY <1>1, <1>2, <1>3, <1>4 DEF Next

LEMMA RaisedKept ==
    ASSUME RaisedOK, [Next]_vars
    PROVE  RaisedOK'
  <1> USE SignalAssumption DEF RaisedOK
  <1>1. CASE \E s \in Signals : Raise(s) \/ Deliver(s)
    BY <1>1 DEF Raise, Deliver
  <1>2. CASE SignalHandler
    BY <1>2 DEF SignalHandler
  <1>3. CASE Advance
    BY <1>3, AdvanceMoves
  <1>4. CASE UNCHANGED vars
    BY <1>4 DEF vars
  <1> QED
    BY <1>1, <1>2, <1>3, <1>4 DEF Next

(* the two halves of a read *)
LEMMA ReadSplits ==
    ASSUME PipeOK, Activated
    PROVE  BufferOK' /\ PipeOK'
  <1> USE SignalAssumption
  <1> DEFINE n == IF Len(pipe) < Chunk THEN Len(pipe) ELSE Chunk
  <1>1. n \in 0..Len(pipe) /\ n <= Chunk /\ Len(pipe) \in Nat
    BY DEF PipeOK
  <1>2. \A i \in 1..Len(pipe) : pipe[i] \in Codes
    BY DEF PipeOK
  <1>3. buffer' = SubSeq(pipe, 1, n) /\ pipe' = SubSeq(pipe, n + 1, Len(pipe))
    BY DEF Activated
  <1> HIDE DEF n
  <1>4. /\ SubSeq(pipe, 1, n) \in Seq(Codes)
        /\ Len(SubSeq(pipe, 1, n)) = IF 1 <= n THEN n - 1 + 1 ELSE 0
    BY <1>1, <1>2, SubSeqProperties
  <1>5. /\ SubSeq(pipe, n + 1, Len(pipe)) \in Seq(Codes)
        /\ Len(SubSeq(pipe, n + 1, Len(pipe))) =
               IF n + 1 <= Len(pipe) THEN Len(pipe) - (n + 1) + 1 ELSE 0
    BY <1>1, <1>2, SubSeqProperties
  <1>6. Len(SubSeq(pipe, 1, n)) <= Chunk
    BY <1>1, <1>4
  <1>7. Len(SubSeq(pipe, n + 1, Len(pipe))) <= Capacity
    BY <1>1, <1>5 DEF PipeOK
  <1> QED
    BY <1>3, <1>4, <1>5, <1>6, <1>7 DEF BufferOK, PipeOK

LEMMA BytesKept ==
    ASSUME BufferOK, PipeOK, HandlersOK, [Next]_vars
    PROVE  BufferOK' /\ PipeOK'
  <1> USE SignalAssumption DEF BufferOK, PipeOK
  <1>1. CASE \E s \in Signals : Raise(s) \/ Deliver(s)
    BY <1>1 DEF Raise, Deliver
  <1>2. CASE SignalHandler
    <2>1. buffer' = buffer
      BY <1>2 DEF SignalHandler
    <2>2. CASE UNCHANGED pipe
      BY <2>1, <2>2
    <2>3. CASE Len(pipe) < Capacity /\ pipe' = Append(pipe, Code(Innermost))
      <3>1. Code(Innermost) \in Codes
        BY DEF Code, Codes
      <3>2. Append(pipe, Code(Innermost)) \in Seq(Codes)
            /\ Len(Append(pipe, Code(Innermost))) = Len(pipe) + 1
        BY <3>1, AppendProperties
      <3> QED
        BY <2>1, <2>3, <3>2
    <2> QED
      BY <1>2, <2>2, <2>3 DEF SignalHandler
  <1>3. CASE Advance
    <2>1. CASE UNCHANGED <<buffer, pipe>>
      BY <2>1
    <2>2. CASE Activated
      BY <2>2, ReadSplits
    <2>3. CASE ServeByte
      <3>1. buffer # <<>> /\ buffer' = Tail(buffer) /\ pipe' = pipe
        BY <2>3 DEF ServeByte
      <3>2. Tail(buffer) \in Seq(Codes) /\ Len(Tail(buffer)) = Len(buffer) - 1
        BY <3>1, HeadTailProperties
      <3> QED
        BY <3>1, <3>2
    <2>4. CASE pipe' = <<>> /\ UNCHANGED buffer
      BY <2>4
    <2> QED
      BY <1>3, <2>1, <2>2, <2>3, <2>4, AdvanceMoves
  <1>4. CASE UNCHANGED vars
    BY <1>4 DEF vars
  <1> QED
    BY <1>1, <1>2, <1>3, <1>4 DEF Next

(* The pipe never holds more than it can, a read never more than its       *)
(* array, however signals nest (signalHandler and main's notifier slot).   *)
THEOREM SignalTypeCorrect == Spec => []SignalTypeOK
  <1>1. Init => SignalTypeOK
    <2>1. Init => FlagsOK
      BY DEF Init, FlagsOK, Places
    <2>2. Init => BufferOK /\ PipeOK /\ HandlersOK /\ RaisedOK
      BY SignalAssumption DEF Init, BufferOK, PipeOK, HandlersOK, RaisedOK
    <2> QED
      BY <2>1, <2>2, TypeParts
  <1>2. SignalTypeOK /\ [Next]_vars => SignalTypeOK'
    BY TypeParts, TypePartsNext, FlagsKept, HandlersKept, RaisedKept, BytesKept
  <1> QED
    BY <1>1, <1>2, PTL DEF Spec

----------------------------------------------------------------------------
(* Where main() is when: started only once the pipe is up, cleaned up only *)
(* on the way out, killed only before the one or after the other, and      *)
(* bytes are in hand only in the slot that serves them.                    *)
OnTheWay ==
    /\ at \in {"boot", "installed"} => ~started
    /\ cleaned => at \in {"cleaned", "readClosed", "closed", "ended", "killed"}
    /\ at \in {"cleaned", "readClosed", "closed", "ended"} => cleaned
    /\ at = "killed" => cleaned \/ ~started
    /\ at # "serving" => buffer = <<>>

LEMMA OnTheWayKept ==
    ASSUME OnTheWay, [Next]_vars
    PROVE  OnTheWay'
  <1> USE DEF OnTheWay
  <1>1. CASE \E s \in Signals : Raise(s) \/ Deliver(s)
    BY <1>1 DEF Raise, Deliver
  <1>2. CASE SignalHandler
    BY <1>2 DEF SignalHandler
  <1>3. CASE Advance
    <2>1. CASE InstallSignalHandlers \/ Start
      BY <2>1 DEF InstallSignalHandlers, Start, Steps
    <2>2. CASE Work \/ LoopEnds
      BY <2>2 DEF Work, LoopEnds, Steps
    <2>3. CASE Activated
      BY <2>3 DEF Activated, Steps
    <2>4. CASE ServeByte
      BY <2>4 DEF ServeByte, Steps
    <2>5. CASE ServeDone
      BY <2>5 DEF ServeDone, Steps
    <2>6. CASE Cleanup
      BY <2>6 DEF Cleanup, Steps
    <2>7. CASE CloseReadEnd \/ CloseWriteEnd \/ Ends
      BY <2>7 DEF CloseReadEnd, CloseWriteEnd, Ends, Steps
    <2> QED
      BY <1>3, <2>1, <2>2, <2>3, <2>4, <2>5, <2>6, <2>7 DEF Advance
  <1>4. CASE UNCHANGED vars
    BY <1>4 DEF vars
  <1> QED
    BY <1>1, <1>2, <1>3, <1>4 DEF Next

LEMMA OnTheWayAlways == Spec => []OnTheWay
  <1>1. Init => OnTheWay
    BY DEF Init, OnTheWay
  <1> QED
    BY <1>1, OnTheWayKept, PTL DEF Spec

(* No signal ends a daemon that has written its state file before cleanup  *)
(* has written it for the last time (installSignalHandlers comes before    *)
(* start, the pipe is closed after cleanup).                               *)
THEOREM NoSignalSkipsCleanup == Spec => []EndsClean
  <1>1. OnTheWay => EndsClean
    BY DEF OnTheWay, EndsClean, Over
  <1> QED
    BY <1>1, OnTheWayAlways, PTL

(* No SIGUSR1 is served once cleanup has run (quit only marks the loop,    *)
(* the slot is left before aboutToQuit).                                   *)
THEOREM NothingServedAfterCleanup == Spec => CleanupLast
  <1> DEFINE Last ==
        cleaned => ~(buffer # <<>> /\ Head(buffer) = "R" /\ buffer' = Tail(buffer))
  <1>1. OnTheWay => Last
    BY DEF OnTheWay
  <1>2. OnTheWay /\ [Next]_vars => [Last]_vars
    BY <1>1
  <1> QED
    BY <1>2, OnTheWayAlways, PTL DEF Spec, CleanupLast
=============================================================================
