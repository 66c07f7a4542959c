---------------------------- MODULE SharedReader ----------------------------
(***************************************************************************)
(* ThreadSafeFileReader over IfstreamReader (src/core/file_io.cpp): one    *)
(* std::ifstream, so one file position and one failbit, shared by the      *)
(* CurseReader and every BatchView it has handed out, and by any threads   *)
(* that use them. A read is two calls on the stream, seekg and read, and   *)
(* GetSize is seekg and tellg: only the mutex held over both keeps the     *)
(* position of one call from being used by another.                        *)
(*                                                                         *)
(* A failed read sets failbit, nothing ever clears it, and seekg does      *)
(* nothing on a stream whose failbit is set: the stream stays unusable.    *)
(***************************************************************************)
EXTENDS FileCalls

CONSTANTS Threads,      \* threads calling ReadBytes and GetSize
          Free          \* m_mx when nobody holds it

ASSUME FreeAssumption == Free \notin Threads

VARIABLES pos,      \* the get position of m_file
          failbit,  \* !m_file
          mx,       \* owner of m_mx
          pc,       \* where each thread is: "idle", "enter", "seek", "get", "exit"
          request,  \* the arguments of the call it is in
          result    \* what the call returns or throws

vars == <<pos, failbit, mx, pc, request, result>>

Answers ==
    {NoAnswer, Thrown} \cup [kind : {"bytes"}, beg : Nat, len : Nat]
                       \cup [kind : {"size"}, size : Nat]

TypeOK ==
    /\ pos \in Nat
    /\ failbit \in BOOLEAN
    /\ mx \in Threads \cup {Free}
    /\ pc \in [Threads -> {"idle", "enter", "seek", "get", "exit"}]
    /\ request \in [Threads -> Requests \cup {NoCall}]
    /\ result \in [Threads -> Answers]

Init ==
    /\ pos = 0
    /\ failbit = FALSE
    /\ mx = Free
    /\ pc = [t \in Threads |-> "idle"]
    /\ request = [t \in Threads |-> NoCall]
    /\ result = [t \in Threads |-> NoAnswer]

-----------------------------------------------------------------------------
Goto(t, l) == pc' = [pc EXCEPT ![t] = l]

Answer(t, a) == result' = [result EXCEPT ![t] = a]

Call(t) ==
    /\ pc[t] = "idle"
    /\ \E r \in Requests : request' = [request EXCEPT ![t] = r]
    /\ Goto(t, "enter")
    /\ UNCHANGED <<pos, failbit, mx, result>>

\* Defect: no lock is taken.
Acquire_NoLock(t) ==
    /\ pc[t] = "enter"
    /\ mx' = t
    /\ Goto(t, "seek")
    /\ UNCHANGED <<pos, failbit, request, result>>

\* std::unique_lock lock(m_mx)
Acquire(t) ==
    /\ pc[t] = "enter"
    /\ mx = Free
    /\ mx' = t
    /\ Goto(t, "seek")
    /\ UNCHANGED <<pos, failbit, request, result>>

\* The offset seekg goes to: the one asked for, or the end for GetSize.
Target(r) == IF r.op = "size" THEN FileSize ELSE r.beg

\* Defect: clear() before the seek.
Seek_Clears(t) ==
    /\ pc[t] = "seek"
    /\ failbit' = FALSE
    /\ pos' = Target(request[t])
    /\ Goto(t, "get")
    /\ UNCHANGED <<mx, request, result>>

\* m_file.seekg(..): throws on a failed stream. An offset past the end is fine.
Seek(t) ==
    /\ pc[t] = "seek"
    /\ IF failbit
       THEN /\ Answer(t, Thrown)
            /\ Goto(t, "exit")
            /\ UNCHANGED pos
       ELSE /\ pos' = Target(request[t])
            /\ Goto(t, "get")
            /\ UNCHANGED result
    /\ UNCHANGED <<failbit, mx, request>>

\* Defect: readsome() in place of read(): a short read is not an error.
Read_Short(t) ==
    /\ pc[t] = "get"
    /\ request[t].op = "read"
    /\ pos' = IF pos + request[t].len <= FileSize THEN pos + request[t].len ELSE pos
    /\ Answer(t, Bytes(pos, pos' - pos))
    /\ Goto(t, "exit")
    /\ UNCHANGED <<failbit, mx, request>>

\* m_file.read(buf, len): what the stream's position holds now; fewer bytes
\* than asked for set failbit and the call throws.
Read(t) ==
    LET len == request[t].len IN
    /\ pc[t] = "get"
    /\ request[t].op = "read"
    /\ IF failbit \/ ~Available(pos, len)
       THEN /\ failbit' = TRUE
            /\ pos' = IF failbit \/ pos > FileSize THEN pos ELSE FileSize
            /\ Answer(t, Thrown)
       ELSE /\ pos' = pos + len
            /\ Answer(t, Bytes(pos, len))
            /\ UNCHANGED failbit
    /\ Goto(t, "exit")
    /\ UNCHANGED <<mx, request>>

\* m_file.tellg(): -1 on a failed stream, for which GetSize throws.
Tell(t) ==
    /\ pc[t] = "get"
    /\ request[t].op = "size"
    /\ Answer(t, IF failbit THEN Thrown ELSE SizeIs(pos))
    /\ Goto(t, "exit")
    /\ UNCHANGED <<pos, failbit, mx, request>>

\* The lock goes out of scope, by the return or by the exception.
Return(t) ==
    /\ pc[t] = "exit"
    /\ mx' = Free
    /\ Goto(t, "idle")
    /\ request' = [request EXCEPT ![t] = NoCall]
    /\ result' = [result EXCEPT ![t] = NoAnswer]
    /\ UNCHANGED <<pos, failbit>>

Step(t) == Acquire(t) \/ Seek(t) \/ Read(t) \/ Tell(t) \/ Return(t)

Next == \E t \in Threads : Call(t) \/ Step(t)

Spec == Init /\ [][Next]_vars

-----------------------------------------------------------------------------
(* Properties                                                              *)

\* A read that does not throw delivers the bytes at the offset its own caller
\* asked for, and GetSize the size of the file, whatever other threads do
\* between the seek and the read (test_file_io.cpp:121 names the stream without
\* the mutex as one that fails this).
OwnBytes ==
    \A t \in Threads : pc[t] = "exit" /\ result[t] # Thrown =>
        result[t] = Effect(request[t])

\* One out-of-range read poisons the reader for every thread: from then on no
\* call of anybody succeeds, not even one for bytes that are there.
FailureIsFinal ==
    [][failbit => /\ failbit'
                  /\ \A t \in Threads : result'[t] # result[t] =>
                        result'[t] \in {NoAnswer, Thrown}]_vars

\* The two steps of a call look atomic to everybody: it takes effect where the
\* stream answers (a seek on a failed stream, a read or a tellg).
File == INSTANCE AtomicFile WITH
            call   <- request,
            answer <- result,
            failed <- failbit

ImplementsAtomicFile == File!AFSpec
=============================================================================
