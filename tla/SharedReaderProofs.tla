------------------------- MODULE SharedReaderProofs -------------------------
(***************************************************************************)
(* Proofs about SharedReader, for any number of threads, any file and any  *)
(* set of requests: the stream is used by one thread at a time, the        *)
(* position a read finds is the one its own seek left, and the calls are   *)
(* atomic to everybody (AtomicFile).                                       *)
(***************************************************************************)
EXTENDS SharedReader, TLAPS

\* A request has one of the two operations and its arguments.
LEMMA RequestShape ==
    ASSUME NEW r \in Requests
    PROVE  /\ r # NoCall
           /\ r.op \in {"read", "size"}
           /\ r.op = "read" => r.beg \in Nat /\ r.len \in Nat
  BY RequestsAssumption DEF ReadRequest, SizeRequest, NoCall

\* The three kinds of results are told apart.
LEMMA AnswerShape ==
    /\ Thrown # NoAnswer
    /\ \A n \in Nat : SizeIs(n) # NoAnswer /\ SizeIs(n) # Thrown /\ SizeIs(n) \in Answers
    /\ \A b, l \in Nat : Bytes(b, l) # NoAnswer /\ Bytes(b, l) # Thrown /\ Bytes(b, l) \in Answers
    /\ Thrown \in Answers /\ NoAnswer \in Answers
  <1>1. Thrown # NoAnswer
    BY DEF Thrown, NoAnswer
  <1>2. \A n \in Nat : SizeIs(n) # NoAnswer /\ SizeIs(n) # Thrown /\ SizeIs(n) \in Answers
    BY DEF Thrown, NoAnswer, SizeIs, Answers
  <1>3. \A b, l \in Nat : Bytes(b, l) # NoAnswer /\ Bytes(b, l) # Thrown /\ Bytes(b, l) \in Answers
    BY DEF Thrown, NoAnswer, Bytes, Answers
  <1>4. Thrown \in Answers /\ NoAnswer \in Answers
    BY DEF Answers
  <1> QED BY <1>1, <1>2, <1>3, <1>4

-----------------------------------------------------------------------------
(* The inductive invariant.                                                *)

\* The thread inside the critical section is the one that holds the mutex.
Exclusive == \A t \in Threads : pc[t] \in {"seek", "get", "exit"} <=> mx = t

\* The fields of a call are set where they should be.
CallState ==
    \A t \in Threads :
        /\ request[t] \in Requests <=> pc[t] # "idle"
        /\ request[t] = NoCall <=> pc[t] = "idle"
        /\ result[t] # NoAnswer <=> pc[t] = "exit"

\* Between its seek and its read a thread finds the position it went to.
OwnPosition ==
    \A t \in Threads : pc[t] = "get" => ~failbit /\ pos = Target(request[t])

Inv == TypeOK /\ Exclusive /\ CallState /\ OwnPosition /\ OwnBytes

LEMMA InitInv == Init => Inv
  <1> SUFFICES ASSUME Init PROVE Inv
    OBVIOUS
  <1>1. TypeOK
    BY AnswerShape DEF Init, TypeOK
  <1>2. CallState
    BY RequestShape DEF Init, CallState
  <1>3. Exclusive /\ OwnPosition /\ OwnBytes
    BY FreeAssumption DEF Init, Exclusive, OwnPosition, OwnBytes
  <1> QED BY <1>1, <1>2, <1>3 DEF Inv

LEMMA NextInv == Inv /\ [Next]_vars => Inv'
  <1> SUFFICES ASSUME Inv, [Next]_vars PROVE Inv'
    OBVIOUS
  <1> USE DEF Inv
  <1>1. ASSUME NEW t \in Threads, Call(t) PROVE Inv'
    <2>1. TypeOK'
      BY <1>1 DEF Call, Goto, TypeOK
    <2>2. Exclusive' /\ OwnPosition'
      BY <1>1 DEF Call, Goto, TypeOK, Exclusive, OwnPosition
    <2>3. CallState'
      BY <1>1, RequestShape DEF Call, Goto, TypeOK, CallState
    <2>4. OwnBytes'
      BY <1>1 DEF Call, Goto, TypeOK, OwnBytes
    <2> QED BY <2>1, <2>2, <2>3, <2>4
  <1>2. ASSUME NEW t \in Threads, Acquire(t) PROVE Inv'
    <2>1. TypeOK'
      BY <1>2 DEF Acquire, Goto, TypeOK
    <2>2. Exclusive' /\ OwnPosition' /\ CallState' /\ OwnBytes'
      BY <1>2, FreeAssumption DEF Acquire, Goto, TypeOK, Exclusive, OwnPosition, CallState, OwnBytes
    <2> QED BY <2>1, <2>2
  <1>3. ASSUME NEW t \in Threads, Seek(t) PROVE Inv'
    <2>0. request[t] \in Requests /\ mx = t
      BY <1>3 DEF Seek, CallState, Exclusive
    <2>t. Target(request[t]) \in Nat
      BY <2>0, SizeAssumption, RequestShape DEF Target
    <2>1. TypeOK'
      BY <1>3, <2>t, AnswerShape DEF Seek, Goto, Answer, TypeOK
    <2>2. Exclusive' /\ OwnPosition'
      BY <1>3, <2>0 DEF Seek, Goto, Answer, TypeOK, Exclusive, OwnPosition
    <2>3. CallState' /\ OwnBytes'
      BY <1>3, AnswerShape DEF Seek, Goto, Answer, TypeOK, CallState, OwnBytes
    <2> QED BY <2>1, <2>2, <2>3
  <1>4. ASSUME NEW t \in Threads, Read(t) PROVE Inv'
    <2>0. /\ request[t] \in Requests /\ request[t].beg \in Nat /\ request[t].len \in Nat
          /\ mx = t /\ ~failbit /\ pos = request[t].beg
      BY <1>4, RequestShape DEF Read, CallState, Exclusive, OwnPosition, Target
    <2>b. Bytes(pos, request[t].len) \in Answers
      BY <2>0, AnswerShape
    <2>p. pos' \in Nat /\ failbit' \in BOOLEAN
      <3>1. pos + request[t].len \in Nat
        BY <2>0
      <3>2. CASE Available(pos, request[t].len)
        <4>1. pos' = pos + request[t].len /\ failbit' = failbit
          BY <1>4, <2>0, <3>2 DEF Read
        <4> QED BY <4>1, <3>1 DEF TypeOK
      <3>3. CASE ~Available(pos, request[t].len)
        BY <1>4, <2>0, <3>3, SizeAssumption DEF Read
      <3> QED BY <3>2, <3>3
    <2>r. result' \in [Threads -> Answers]
      BY <1>4, <2>b, AnswerShape DEF Read, Answer, TypeOK
    <2>1. TypeOK'
      BY <1>4, <2>p, <2>r DEF Read, Goto, TypeOK
    <2>2. Exclusive' /\ OwnPosition'
      BY <1>4, <2>0 DEF Read, Goto, Answer, TypeOK, Exclusive, OwnPosition
    <2>3. CallState'
      BY <1>4, <2>0, AnswerShape DEF Read, Goto, Answer, TypeOK, CallState
    <2>4. OwnBytes'
      BY <1>4, <2>0 DEF Read, Goto, Answer, TypeOK, OwnBytes, Effect
    <2> QED BY <2>1, <2>2, <2>3, <2>4
  <1>5. ASSUME NEW t \in Threads, Tell(t) PROVE Inv'
    <2>0. request[t] \in Requests /\ mx = t /\ ~failbit /\ pos = FileSize
      BY <1>5 DEF Tell, CallState, Exclusive, OwnPosition, Target
    <2>1. TypeOK'
      BY <1>5, <2>0, SizeAssumption, AnswerShape DEF Tell, Goto, Answer, TypeOK
    <2>2. Exclusive' /\ OwnPosition'
      BY <1>5, <2>0 DEF Tell, Goto, Answer, TypeOK, Exclusive, OwnPosition
    <2>3. CallState'
      BY <1>5, <2>0, SizeAssumption, AnswerShape DEF Tell, Goto, Answer, TypeOK, CallState
    <2>4. OwnBytes'
      BY <1>5, <2>0 DEF Tell, Goto, Answer, TypeOK, OwnBytes, Effect
    <2> QED BY <2>1, <2>2, <2>3, <2>4
  <1>6. ASSUME NEW t \in Threads, Return(t) PROVE Inv'
    <2>0. mx = t
      BY <1>6 DEF Return, Exclusive
    <2>1. TypeOK'
      BY <1>6, AnswerShape DEF Return, Goto, TypeOK
    <2>2. Exclusive' /\ OwnPosition'
      BY <1>6, <2>0, FreeAssumption DEF Return, Goto, TypeOK, Exclusive, OwnPosition
    <2>3. CallState' /\ OwnBytes'
      BY <1>6, RequestShape DEF Return, Goto, TypeOK, CallState, OwnBytes
    <2> QED BY <2>1, <2>2, <2>3
  <1>7. CASE UNCHANGED vars
    BY <1>7 DEF vars, TypeOK, Exclusive, CallState, OwnPosition, OwnBytes
  <1> QED BY <1>1, <1>2, <1>3, <1>4, <1>5, <1>6, <1>7 DEF Next, Step

LEMMA Invariance == Spec => []Inv
  BY InitInv, NextInv, PTL DEF Spec

\* The variables stay within their types, the results among them.
THEOREM TypeCorrect == Spec => []TypeOK
  <1>1. Inv => TypeOK
    BY DEF Inv
  <1> QED BY <1>1, Invariance, PTL

\* Every call that does not throw returns the bytes, or the size, it asked for.
THEOREM ReadsAreOwn == Spec => []OwnBytes
  <1>1. Inv => OwnBytes
    BY DEF Inv
  <1> QED BY <1>1, Invariance, PTL

\* After one failure nobody's call succeeds any more.
THEOREM FailureStays == Spec => FailureIsFinal
  <1> DEFINE Stuck == failbit => /\ failbit'
                                 /\ \A t \in Threads : result'[t] # result[t] =>
                                       result'[t] \in {NoAnswer, Thrown}
  <1>1. ASSUME Inv, [Next]_vars PROVE [Stuck]_vars
    <2> SUFFICES ASSUME failbit, Next PROVE Stuck
      BY <1>1
    <2>1. PICK t \in Threads : Call(t) \/ Step(t)
      BY DEF Next
    <2>2. CASE Call(t) \/ Acquire(t)
      BY <2>2 DEF Call, Acquire
    <2>3. CASE Seek(t)
      BY <2>3, <1>1 DEF Seek, Answer, Inv, TypeOK
    <2>4. CASE Read(t) \/ Tell(t)
      BY <2>4, <1>1 DEF Read, Tell, Inv, OwnPosition
    <2>5. CASE Return(t)
      BY <2>5, <1>1 DEF Return, Inv, TypeOK
    <2> QED BY <2>1, <2>2, <2>3, <2>4, <2>5 DEF Step
  <1> QED BY <1>1, Invariance, PTL DEF Spec, FailureIsFinal

-----------------------------------------------------------------------------
(* The refinement. Nothing happens in AtomicFile when a thread takes the   *)
(* mutex or seeks; a call takes effect where the stream answers it.        *)

LEMMA SameCalls ==
    /\ File!NoCall = NoCall /\ File!NoAnswer = NoAnswer /\ File!Thrown = Thrown
    /\ \A r : File!Effect(r) = Effect(r)
  BY DEF File!NoCall, NoCall, File!NoAnswer, NoAnswer, File!Thrown, Thrown,
         File!Effect, Effect, File!SizeIs, SizeIs, File!Bytes, Bytes,
         File!Available, Available

LEMMA StepMaps == Inv /\ [Next]_vars => [File!AFNext]_(File!afvars)
  <1> SUFFICES ASSUME Inv, Next PROVE File!AFNext \/ UNCHANGED File!afvars
    BY DEF vars, File!afvars
  <1> USE DEF Inv
  <1>0. PICK t \in Threads : Call(t) \/ Step(t)
    BY DEF Next
  <1>1. CASE Call(t)
    <2>1. request[t] = File!NoCall
      BY <1>1, SameCalls DEF Call, CallState
    <2>2. File!Invoke(t)
      BY <1>1, <2>1 DEF Call, File!Invoke
    <2> QED BY <2>2 DEF File!AFNext
  <1>2. CASE Acquire(t)
    BY <1>2 DEF Acquire, File!afvars
  <1>3. CASE Seek(t)
    <2>0. request[t] # File!NoCall /\ result[t] = File!NoAnswer
      BY <1>3, SameCalls DEF Seek, CallState
    <2>1. CASE failbit
      <3>1. result' = [result EXCEPT ![t] = Thrown] /\ failbit' = TRUE /\ request' = request
        BY <1>3, <2>1 DEF Seek, Answer, TypeOK
      <3>2. File!TakeEffect(t)
        BY <2>0, <2>1, <3>1, SameCalls DEF File!TakeEffect
      <3> QED BY <3>2 DEF File!AFNext
    <2>2. CASE ~failbit
      BY <1>3, <2>2 DEF Seek, File!afvars
    <2> QED BY <2>1, <2>2
  <1>4. CASE Read(t)
    <2>0. /\ request[t] # File!NoCall /\ result[t] = File!NoAnswer
          /\ request[t] \in Requests
      BY <1>4, SameCalls DEF Read, CallState
    <2>1. ~failbit /\ pos = request[t].beg /\ request[t].op = "read"
      BY <1>4 DEF Read, OwnPosition, Target
    <2>2. /\ result' = [result EXCEPT ![t] = Effect(request[t])]
          /\ request' = request
      BY <1>4, <2>1 DEF Read, Answer, Effect
    <2>3. failbit' = (Effect(request[t]) = Thrown)
      <3>1. CASE Available(pos, request[t].len)
        <4>1. Effect(request[t]) = Bytes(request[t].beg, request[t].len)
          BY <2>1, <3>1 DEF Effect
        <4>2. Effect(request[t]) # Thrown
          BY <2>0, <2>1, <4>1, RequestShape, AnswerShape
        <4>3. failbit' = failbit /\ failbit \in BOOLEAN
          BY <1>4, <2>1, <3>1 DEF Read, TypeOK
        <4> QED BY <4>2, <4>3, <2>1
      <3>2. CASE ~Available(pos, request[t].len)
        <4>1. Effect(request[t]) = Thrown
          BY <2>1, <3>2 DEF Effect
        <4>2. failbit' = TRUE
          BY <1>4, <2>1, <3>2 DEF Read
        <4> QED BY <4>1, <4>2
      <3> QED BY <3>1, <3>2
    <2>4. File!TakeEffect(t)
      BY <2>0, <2>1, <2>2, <2>3, SameCalls DEF File!TakeEffect
    <2> QED BY <2>4 DEF File!AFNext
  <1>5. CASE Tell(t)
    <2>0. /\ request[t] # File!NoCall /\ result[t] = File!NoAnswer
      BY <1>5, SameCalls DEF Tell, CallState
    <2>1. ~failbit /\ pos = FileSize /\ request[t].op = "size"
      BY <1>5 DEF Tell, OwnPosition, Target
    <2>2. /\ result' = [result EXCEPT ![t] = Effect(request[t])]
          /\ request' = request /\ failbit' = failbit
      BY <1>5, <2>1 DEF Tell, Answer, Effect
    <2>3. Effect(request[t]) # Thrown
      BY <2>1, AnswerShape, SizeAssumption DEF Effect
    <2>4. failbit' = (Effect(request[t]) = Thrown)
      BY <2>1, <2>2, <2>3 DEF TypeOK
    <2>5. File!TakeEffect(t)
      BY <2>0, <2>1, <2>2, <2>4, SameCalls DEF File!TakeEffect
    <2> QED BY <2>5 DEF File!AFNext
  <1>6. CASE Return(t)
    <2>1. result[t] # File!NoAnswer
      BY <1>6, SameCalls DEF Return, CallState
    <2>2. File!Respond(t)
      BY <1>6, <2>1, SameCalls DEF Return, File!Respond
    <2> QED BY <2>2 DEF File!AFNext
  <1> QED BY <1>0, <1>1, <1>2, <1>3, <1>4, <1>5, <1>6 DEF Step

\* The locked reader implements the atomic one: no interleaving of the threads
\* can be told from calls that take effect one at a time.
THEOREM Refinement == Spec => ImplementsAtomicFile
  <1>1. Init => File!AFInit
    BY SameCalls DEF Init, File!AFInit
  <1> QED BY <1>1, StepMaps, Invariance, PTL DEF Spec, ImplementsAtomicFile, File!AFSpec
=============================================================================
