----------------------------- MODULE AtomicFile -----------------------------
(***************************************************************************)
(* What a FileReader (src/core/file_io.hpp:12-20) promises threads that    *)
(* share it: each ReadBytes(beg, buf) and each GetSize() takes effect at   *)
(* one instant between its call and its return, delivers the bytes of the  *)
(* file at the offset it asked for or throws, and throws only for a range  *)
(* outside the file or after an earlier failure. SharedReader is the       *)
(* implementation of this promise.                                         *)
(***************************************************************************)
EXTENDS FileCalls

CONSTANT Threads       \* the threads that share the reader

VARIABLES call,         \* the call each thread is in, NoCall outside one
          answer,       \* its result, NoAnswer until it has taken effect
          failed        \* the stream has failed: every later call throws

afvars == <<call, answer, failed>>

AFInit ==
    /\ call = [t \in Threads |-> NoCall]
    /\ answer = [t \in Threads |-> NoAnswer]
    /\ failed = FALSE

Invoke(t) ==
    /\ call[t] = NoCall
    /\ \E r \in Requests : call' = [call EXCEPT ![t] = r]
    /\ UNCHANGED <<answer, failed>>

TakeEffect(t) ==
    /\ call[t] # NoCall
    /\ answer[t] = NoAnswer
    /\ LET result == IF failed THEN Thrown ELSE Effect(call[t])
       IN  /\ answer' = [answer EXCEPT ![t] = result]
           /\ failed' = (result = Thrown)
    /\ UNCHANGED call

Respond(t) ==
    /\ answer[t] # NoAnswer
    /\ call' = [call EXCEPT ![t] = NoCall]
    /\ answer' = [answer EXCEPT ![t] = NoAnswer]
    /\ UNCHANGED failed

AFNext == \E t \in Threads : Invoke(t) \/ TakeEffect(t) \/ Respond(t)

AFSpec == AFInit /\ [][AFNext]_afvars
=============================================================================
