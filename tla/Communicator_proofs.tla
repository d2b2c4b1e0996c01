------------------------ MODULE Communicator_proofs ------------------------
(***************************************************************************)
(* Proofs, for every set of streams and element types, every kernel and    *)
(* every number of calls and faults, of the safety properties of           *)
(* Communicator.                                                           *)
(***************************************************************************)
EXTENDS CommunicatorItems_proofs

-----------------------------------------------------------------------------
(* Order, waiting and release of the calls in flight.                        *)

\* Every step keeps a kernel in its queue at most once.
LEMMA NextOnce ==
    ASSUME TypeInv, Tracked, Items, Once, [Next]_vars
    PROVE  Once'
<1>1. CASE \E s \in Streams, d \in DTypes, f \in {"none", "wait", "launch", "record"} :
                Call(s, d, f)
  <2> PICK s \in Streams, d \in DTypes, f \in {"none", "wait", "launch", "record"} : Call(s, d, f)
    BY <1>1, Zenon
  <2> DEFINE L == Len(queue[s])
             w == Work(f)
  <2>1. NextCall \in Nat
    BY Zenon DEF Tracked
  <2>2. \A u \in Streams : u # s => queue'[u] = queue[u]
    BY <2>1, AppendItems, Zenon
  <2>3. L \in Nat
    BY <2>1, AppendItems, Zenon
  <2>4. Len(w) \in Nat
    BY <2>1, AppendItems, Zenon
  <2>5. Len(queue'[s]) = L + Len(w)
    BY <2>1, AppendItems, ZenonT(40)
  <2>6. \A p \in 1 .. L : queue'[s][p] = queue[s][p]
    BY <2>1, AppendItems, Zenon
  <2>7. \A p \in 1 .. Len(w) : queue'[s][L + p] = w[p]
    BY <2>1, AppendItems, Zenon
  <2>8. WorkOk(w, f)
    BY <2>1, AppendItems, Zenon
  <2>9. ASSUME NEW p \in 1 .. L + Len(w), NEW r \in 1 .. L + Len(w),
               queue'[s][p].op = "kernel", queue'[s][r] = queue'[s][p]
        PROVE  p = r
    <3>1. \A a \in 1 .. L + Len(w) : a > L =>
            a - L \in 1 .. Len(w) /\ L + (a - L) = a
      BY <2>3, <2>4
    <3>2. \A a \in 1 .. L + Len(w) : a > L => queue'[s][a] = w[a - L]
      BY <2>7, <3>1, Zenon
    <3>3. \A a \in 1 .. L + Len(w) : ~(a > L) => a \in 1 .. L /\ queue'[s][a] = queue[s][a]
      BY <2>3, <2>4, <2>6
    <3>4. \A a \in 1 .. L + Len(w) : a > L /\ queue'[s][a].op = "kernel" =>
                queue'[s][a] = KernelItem(NextCall)
      BY <2>8, <3>1, <3>2, SMTT(30) DEF WorkOk
    <3>5. \A a \in 1 .. L + Len(w) : ~(a > L) /\ queue'[s][a].op = "kernel" =>
                queue'[s][a].n # NextCall
      BY <3>3, FreshCall, Zenon
    <3>6. KernelItem(NextCall).n = NextCall
      BY Zenon DEF KernelItem
    <3>7. CASE p > L /\ r > L
      <4>1. w[p - L].op = "kernel" /\ w[r - L].op = "kernel"
        BY <2>9, <3>2, <3>7, Zenon
      <4>2. p - L = r - L
        BY <2>8, <3>1, <3>7, <4>1, SMTT(30) DEF WorkOk
      <4> QED
        BY <2>3, <4>2
    <3>8. CASE ~(p > L) /\ ~(r > L)
      BY <2>9, <3>3, <3>8, Zenon DEF Once
    <3>9. CASE p > L /\ ~(r > L)
      BY <2>9, <3>4, <3>5, <3>6, <3>9
    <3>10. CASE ~(p > L) /\ r > L
      BY <2>9, <3>4, <3>5, <3>6, <3>10
    <3> QED
      BY <3>7, <3>8, <3>9, <3>10, Zenon
  <2> HIDE DEF L, w
  <2>10. ASSUME NEW u \in Streams, NEW p \in 1 .. Len(queue'[u]), NEW r \in 1 .. Len(queue'[u]),
                queue'[u][p].op = "kernel", queue'[u][r] = queue'[u][p]
         PROVE  p = r
    <3>1. CASE u = s
      BY <2>5, <2>9, <2>10, <3>1, Zenon
    <3>2. CASE u # s
      BY <2>2, <2>10, <3>2, Zenon DEF Once
    <3> QED
      BY <3>1, <3>2, Zenon
  <2> QED
    BY <2>10, Zenon DEF Once
<1>2. ASSUME NEW s \in Streams, queue[s] # <<>>, queue' = [queue EXCEPT ![s] = Tail(@)]
      PROVE  Once'
  <2>1. /\ \A u \in Streams : u # s => queue'[u] = queue[u]
        /\ Len(queue[s]) \in Nat /\ Len(queue'[s]) = Len(queue[s]) - 1
        /\ \A p \in 1 .. Len(queue'[s]) :
            p + 1 \in 1 .. Len(queue[s]) /\ queue'[s][p] = queue[s][p + 1]
    BY <1>2, PopItems, Zenon
  <2>2. ASSUME NEW u \in Streams, NEW p \in 1 .. Len(queue'[u]), NEW r \in 1 .. Len(queue'[u]),
               queue'[u][p].op = "kernel", queue'[u][r] = queue'[u][p]
        PROVE  p = r
    <3>1. CASE u = s
      <4>0. /\ p + 1 \in 1 .. Len(queue[s]) /\ queue'[s][p] = queue[s][p + 1]
            /\ r + 1 \in 1 .. Len(queue[s]) /\ queue'[s][r] = queue[s][r + 1]
        BY <2>1, <3>1, Zenon
      <4>1. p + 1 = r + 1
        BY <2>2, <3>1, <4>0, Zenon DEF Once
      <4>2. p \in Int /\ r \in Int
        BY <2>1, <3>1
      <4> QED
        BY <4>1, <4>2
    <3>2. CASE u # s
      BY <2>1, <2>2, <3>2, Zenon DEF Once
    <3> QED
      BY <3>1, <3>2, Zenon
  <2> QED
    BY <2>2, Zenon DEF Once
<1>3. CASE \E s \in Streams : WaitEvent(s)
  BY <1>2, <1>3, Zenon DEF WaitEvent
<1>4. CASE \E s \in Streams : RecordEvent(s)
  BY <1>2, <1>4, Zenon DEF RecordEvent
<1>5. CASE \E s \in Streams : StartKernel(s)
  BY <1>5 DEF StartKernel, Once
<1>6. CASE \E i \in Calls, o \in {"ok", "bad"} : Finish(i, o)
  BY <1>2, <1>6, Zenon DEF Finish, EndOfSlices
<1>7. CASE UNCHANGED cuda /\ UNCHANGED tracking
  BY <1>7, Zenon DEF cuda, Once
<1> QED
  BY <1>1, <1>3, <1>4, <1>5, <1>6, <1>7, StepCases

\* Every step keeps an unfinished kernel in its queue.
LEMMA NextHeld ==
    ASSUME TypeInv, Tracked, Items, Held, [Next]_vars
    PROVE  Held'
<1>0. \A u \in Streams : queue[u] \in Seq(Item) /\ Len(queue[u]) \in Nat
  BY LenProperties, Zenon DEF TypeInv
<1>1. CASE \E s \in Streams, d \in DTypes, f \in {"none", "wait", "launch", "record"} :
                Call(s, d, f)
  <2> PICK s \in Streams, d \in DTypes, f \in {"none", "wait", "launch", "record"} : Call(s, d, f)
    BY <1>1
  <2> DEFINE L == Len(queue[s])
             w == Work(f)
  <2>0. NextCall \in Calls
    BY DEF Call
  <2>1. NextCall \in Nat
    BY DEF Tracked
  <2>2. \A u \in Streams : u # s => queue'[u] = queue[u]
    BY <2>1, AppendItems
  <2>3. L \in Nat
    BY <2>1, AppendItems
  <2>4. Len(w) \in Nat
    BY <2>1, AppendItems
  <2>5. Len(queue'[s]) = L + Len(w)
    BY <2>1, AppendItems, ZenonT(40)
  <2>6. \A p \in 1 .. L : queue'[s][p] = queue[s][p]
    BY <2>1, AppendItems
  <2>7. \A p \in 1 .. Len(w) : queue'[s][L + p] = w[p]
    BY <2>1, AppendItems
  <2>8. WorkOk(w, f)
    BY <2>1, AppendItems
  <2> HIDE DEF L, w
  <2>9. /\ f \in {"none", "record"} => /\ kernel' = [kernel EXCEPT ![NextCall] = "queued"]
                                       /\ stream_of' = [stream_of EXCEPT ![NextCall] = s]
        /\ f \notin {"none", "record"} => kernel' = kernel /\ stream_of' = stream_of
    BY Zenon DEF Call, Launch
  <2>10. kernel[NextCall] = "none"
    BY <2>0, CommunicatorAssumption DEF Tracked, Calls
  <2>11. ASSUME NEW i \in Calls, kernel'[i] \in {"queued", "running"}
         PROVE  /\ stream_of'[i] \in Streams
                /\ \E p \in 1 .. Len(queue'[stream_of'[i]]) : queue'[stream_of'[i]][p] = KernelItem(i)
    <3>1. CASE i = NextCall
      <4>1. f \in {"none", "record"}
        BY <2>9, <2>10, <2>11, <3>1
      <4>2. stream_of'[i] = s
        BY <2>0, <2>9, <3>1, <4>1 DEF TypeInv
      <4>3. PICK p \in 1 .. Len(w) : w[p] = KernelItem(NextCall)
        BY <2>8, <4>1, Zenon DEF WorkOk
      <4>4. L + p \in 1 .. Len(queue'[s]) /\ queue'[s][L + p] = KernelItem(i)
        BY <2>3, <2>4, <2>5, <2>7, <3>1, <4>3, SMTT(30)
      <4> QED
        BY <4>2, <4>4, Zenon
    <3>2. CASE i # NextCall
      <4>1. kernel'[i] = kernel[i] /\ stream_of'[i] = stream_of[i]
        BY <2>9, <3>2, Zenon DEF TypeInv
      <4>2. stream_of[i] \in Streams
        BY <2>11, <4>1, Zenon DEF Held, InFlight
      <4>3. PICK p \in 1 .. Len(queue[stream_of[i]]) : queue[stream_of[i]][p] = KernelItem(i)
        BY <2>11, <4>1, Zenon DEF Held, InFlight
      <4>4. CASE stream_of[i] # s
        BY <2>2, <4>1, <4>2, <4>3, <4>4
      <4>5. CASE stream_of[i] = s
        <5>1. p \in 1 .. L /\ queue[s][p] = KernelItem(i)
          BY <4>3, <4>5, Zenon DEF L
        <5>2. p \in 1 .. Len(queue'[s]) /\ queue'[s][p] = KernelItem(i)
          BY <2>3, <2>4, <2>5, <2>6, <5>1, SMTT(30)
        <5> QED
          BY <4>1, <4>5, <5>2, Zenon
      <4> QED
        BY <4>4, <4>5, Zenon
    <3> QED
      BY <3>1, <3>2, Zenon
  <2> QED
    BY <2>11, Zenon DEF Held, InFlight, KernelItem
<1>2. ASSUME NEW s \in Streams, queue[s] # <<>>, queue' = [queue EXCEPT ![s] = Tail(@)],
             stream_of' = stream_of,
             \A i \in Calls : kernel'[i] \in {"queued", "running"} =>
                kernel[i] \in {"queued", "running"} /\ Head(queue[s]) # KernelItem(i)
      PROVE  Held'
  <2>1. /\ \A u \in Streams : u # s => queue'[u] = queue[u]
        /\ Len(queue[s]) \in Nat /\ Len(queue'[s]) = Len(queue[s]) - 1
        /\ Head(queue[s]) = queue[s][1]
        /\ \A p \in 1 .. Len(queue'[s]) :
            p + 1 \in 1 .. Len(queue[s]) /\ queue'[s][p] = queue[s][p + 1]
    BY <1>2, PopItems, Zenon
  <2>2. ASSUME NEW i \in Calls, kernel'[i] \in {"queued", "running"}
        PROVE  /\ stream_of'[i] \in Streams
               /\ \E p \in 1 .. Len(queue'[stream_of'[i]]) : queue'[stream_of'[i]][p] = KernelItem(i)
    <3>1. stream_of'[i] = stream_of[i] /\ stream_of[i] \in Streams
      BY <1>2, <2>2, Zenon DEF Held, InFlight
    <3>2. PICK p \in 1 .. Len(queue[stream_of[i]]) : queue[stream_of[i]][p] = KernelItem(i)
      BY <1>2, <2>2, Zenon DEF Held, InFlight
    <3>3. CASE stream_of[i] # s
      BY <2>1, <3>1, <3>2, <3>3, Zenon
    <3>4. CASE stream_of[i] = s
      <4>1. p # 1 /\ p \in 1 .. Len(queue[s]) /\ queue[s][p] = KernelItem(i)
        BY <1>2, <2>1, <2>2, <3>2, <3>4
      <4>2. p - 1 \in 1 .. Len(queue'[s]) /\ (p - 1) + 1 = p
        BY <2>1, <4>1
      <4>3. queue'[s][p - 1] = KernelItem(i)
        BY <2>1, <4>1, <4>2, Zenon
      <4> QED
        BY <3>1, <3>4, <4>2, <4>3, Zenon
    <3> QED
      BY <3>3, <3>4, Zenon
  <2> QED
    BY <2>2, Zenon DEF Held, InFlight, KernelItem
<1>3. CASE \E s \in Streams : WaitEvent(s)
  <2> PICK s \in Streams : WaitEvent(s)
    BY <1>3, Zenon
  <2>1. /\ queue[s] # <<>> /\ Head(queue[s]).op = "wait"
        /\ queue' = [queue EXCEPT ![s] = Tail(@)] /\ stream_of' = stream_of /\ kernel' = kernel
    BY Zenon DEF WaitEvent
  <2>2. \A i \in Calls : Head(queue[s]) # KernelItem(i)
    BY <2>1 DEF KernelItem
  <2> QED
    BY <1>2, <2>1, <2>2, Zenon
<1>4. CASE \E s \in Streams : RecordEvent(s)
  <2> PICK s \in Streams : RecordEvent(s)
    BY <1>4
  <2>1. /\ queue[s] # <<>> /\ Head(queue[s]).op = "record"
        /\ queue' = [queue EXCEPT ![s] = Tail(@)] /\ stream_of' = stream_of /\ kernel' = kernel
    BY Zenon DEF RecordEvent
  <2>2. \A i \in Calls : Head(queue[s]) # KernelItem(i)
    BY <2>1 DEF KernelItem
  <2> QED
    BY <1>2, <2>1, <2>2, Zenon
<1>5. CASE \E s \in Streams : StartKernel(s)
  <2>1. /\ queue' = queue /\ stream_of' = stream_of
        /\ \A i \in Calls : kernel'[i] \in {"queued", "running"} => kernel[i] \in {"queued", "running"}
    BY <1>5, Zenon DEF StartKernel, TypeInv
  <2> QED
    BY <2>1, Zenon DEF Held, InFlight, KernelItem
<1>6. CASE \E i \in Calls, o \in {"ok", "bad"} : Finish(i, o)
  <2> PICK i \in Calls, o \in {"ok", "bad"} : Finish(i, o)
    BY <1>6, Zenon
  <2>1. kernel' = [kernel EXCEPT ![i] = o] /\ stream_of' = stream_of
    BY Zenon DEF Finish, EndOfSlices
  <2>2. PICK s \in Streams : /\ queue[s] # <<>> /\ Head(queue[s]) = KernelItem(i)
                             /\ queue' = [queue EXCEPT ![s] = Tail(@)]
    BY Zenon DEF Finish, EndOfSlices, KernelItem
  <2>3. \A j \in Calls : kernel'[j] \in {"queued", "running"} =>
            kernel[j] \in {"queued", "running"} /\ j # i
    BY <2>1, Zenon DEF TypeInv
  <2>4. \A j \in Calls : j # i => KernelItem(i) # KernelItem(j)
    BY Zenon DEF KernelItem
  <2> QED
    BY <1>2, <2>1, <2>2, <2>3, <2>4, Zenon
<1>7. CASE UNCHANGED cuda /\ UNCHANGED tracking
  BY <1>7 DEF cuda, Held, InFlight, KernelItem
<1> QED
  BY <1>1, <1>3, <1>4, <1>5, <1>6, <1>7, StepCases

\* Every step starts a kernel only behind the records of all earlier calls.
LEMMA NextOrder ==
    ASSUME TypeInv, Tracked, Items, Order, [Next]_vars
    PROVE  Order'
<1>0. MaxCalls \in Nat /\ records \in Nat
  BY CommunicatorAssumption, Zenon DEF TypeInv
<1>1. CASE \E s \in Streams, d \in DTypes, f \in {"none", "wait", "launch", "record"} :
                Call(s, d, f)
  <2>1. /\ records' \in Nat /\ records <= records' /\ happened' = happened
        /\ NextCall \in Calls
        /\ kernel' = kernel \/ kernel' = [kernel EXCEPT ![NextCall] = "queued"]
    BY <1>0, <1>1 DEF Call, Launch
  <2>2. \A i \in Calls : kernel'[i] \in {"running", "ok", "bad"} => kernel[i] \in {"running", "ok", "bad"}
    BY <2>1, Zenon DEF TypeInv
  <2>3. kernel[NextCall] = "none"
    BY <1>0, <2>1 DEF Tracked, Calls
  <2>4. \A i \in happened' : i \in Calls /\ kernel'[i] \in {"ok", "bad"}
    BY <2>1, <2>3, Zenon DEF Order, TypeInv
  <2>5. happened' \subseteq 1 .. records'
    BY <1>0, <2>1 DEF Order
  <2> QED
    BY <2>1, <2>2, <2>4, <2>5, Zenon DEF Order
<1>2. CASE \E s \in Streams : WaitEvent(s)
  BY <1>2, Zenon DEF WaitEvent, Order
<1>3. CASE \E s \in Streams : RecordEvent(s)
  <2> PICK s \in Streams : RecordEvent(s)
    BY <1>3
  <2> DEFINE n == Head(queue[s]).n
  <2>1. /\ queue[s] # <<>> /\ Head(queue[s]).op = "record" /\ happened' = happened \cup {n}
        /\ records' = records /\ kernel' = kernel
    BY Zenon DEF RecordEvent
  <2>2. queue[s] \in Seq(Item)
    BY Zenon DEF TypeInv
  <2>3. 1 \in 1 .. Len(queue[s]) /\ Head(queue[s]) = queue[s][1]
    BY <2>1, <2>2, Pop
  <2>4. n \in 1 .. records /\ kernel[n] \in {"ok", "bad"}
    BY <2>1, <2>3 DEF Items, ItemOk
  <2>5. n \in Calls
    BY <2>4, RecordCalls, Zenon
  <2> HIDE DEF n
  <2> QED
    BY <2>1, <2>4, <2>5, Zenon DEF Order
<1>4. CASE \E s \in Streams : StartKernel(s)
  <2> PICK s \in Streams : StartKernel(s)
    BY <1>4
  <2> DEFINE i == Head(queue[s]).n
  <2>1. i \in Calls /\ kernel[i] = "queued" /\ \A j \in 1 .. i - 1 : j \in happened
    BY StartIsAlone
  <2>2. kernel' = [kernel EXCEPT ![i] = "running"] /\ records' = records /\ happened' = happened
    BY Zenon DEF StartKernel
  <2> HIDE DEF i
  <2>3. \A j \in Calls : kernel'[j] = IF j = i THEN "running" ELSE kernel[j]
    BY <2>1, <2>2, Zenon DEF TypeInv
  <2> QED
    BY <2>1, <2>2, <2>3, Zenon DEF Order
<1>5. CASE \E i \in Calls, o \in {"ok", "bad"} : Finish(i, o)
  <2> PICK i \in Calls, o \in {"ok", "bad"} : Finish(i, o)
    BY <1>5
  <2>1. /\ kernel[i] = "running" /\ kernel' = [kernel EXCEPT ![i] = o]
        /\ records' = records /\ happened' = happened
    BY Zenon DEF Finish, EndOfSlices, Running
  <2>2. \A j \in Calls : kernel'[j] = IF j = i THEN o ELSE kernel[j]
    BY <2>1, Zenon DEF TypeInv
  <2> QED
    BY <2>1, <2>2 DEF Order
<1>6. CASE UNCHANGED cuda /\ UNCHANGED tracking
  BY <1>6, Zenon DEF cuda, Order
<1> QED
  BY <1>1, <1>2, <1>3, <1>4, <1>5, <1>6, StepCases, SMTT(30)

\* Where the caller is: it moves on in release_lifetime_tracking only when what
\* it waits for has happened, and a call leaves it idle.
LEMMA NextUser ==
    ASSUME TypeInv, [Next]_vars
    PROVE  /\ user' \in Places
           /\ \/ user' = user \/ user' \in {"idle", "check", "release_stream"}
              \/ user = "release_stream" /\ user' = "release_event"
                 /\ (fallback_in_flight => queue[fallback_stream] = <<>>)
              \/ user = "release_event" /\ user' = "drain" /\ (completion_recorded => LatestHappened)
              \/ user \in {"drain", "shutdown", "join"} /\ user' \in {"shutdown", "join", "gone"}
           /\ user' # user => UNCHANGED <<cuda, tracking>>
           /\ user # "idle" => UNCHANGED <<records, tracking>>
<1> DEFINE Goal ==
        /\ user' \in Places
        /\ \/ user' = user \/ user' \in {"idle", "check", "release_stream"}
           \/ user = "release_stream" /\ user' = "release_event"
              /\ (fallback_in_flight => queue[fallback_stream] = <<>>)
           \/ user = "release_event" /\ user' = "drain" /\ (completion_recorded => LatestHappened)
           \/ user \in {"drain", "shutdown", "join"} /\ user' \in {"shutdown", "join", "gone"}
        /\ user' # user => UNCHANGED <<cuda, tracking>>
        /\ user # "idle" => UNCHANGED <<records, tracking>>
<1> SUFFICES Goal
  BY Zenon
<1>0. user \in Places
  BY Zenon DEF TypeInv
<1>1. CASE \E s \in Streams, d \in DTypes, f \in {"none", "wait", "launch", "record"} :
                Call(s, d, f)
  <2>1. user = "idle" /\ user' = user
    BY <1>1, Zenon DEF Call, caller
  <2> QED
    BY <1>0, <2>1, Zenon
<1>2. CASE \E s \in Streams : Synchronize(s)
  BY <1>2, Zenon DEF Synchronize, cuda, tracking, Places
<1>3. CASE CheckAsyncError
  BY <1>3, Zenon DEF CheckAsyncError, cuda, tracking, Places
<1>4. CASE Destroy
  BY <1>4, Zenon DEF Destroy, Go, cuda, tracking, Places
<1>5. CASE Release
  BY <1>5, Zenon DEF Release, Go, cuda, tracking, Places
<1>6. CASE Drain
  BY <1>6, Zenon DEF Drain, Go, cuda, tracking, Places
<1>7. CASE ShutdownAndJoin
  BY <1>7, Zenon DEF ShutdownAndJoin, Go, cuda, tracking, Places
<1>8. ASSUME UNCHANGED caller, UNCHANGED <<records, tracking>>
      PROVE  Goal
  BY <1>0, <1>8, Zenon DEF caller
<1>9. CASE \E s \in Streams : StreamStep(s)
  BY <1>8, <1>9, Zenon DEF StreamStep, WaitEvent, RecordEvent, StartKernel
<1>10. CASE \E t \in Threads : BlockStep(t)
  BY <1>8, <1>10, Zenon DEF BlockStep, KernelPoll, cuda
<1>11. CASE EndWait
  BY <1>8, <1>11, Zenon DEF EndWait
<1>12. CASE EdgeStep
  BY <1>8, <1>12, Zenon DEF EdgeStep, PostSlice, Transmit, PollCompletion, ReceiveSlice, cuda
<1>13. CASE \E t \in {"engine", "send", "recv"} : ProgressStep(t)
  BY <1>8, <1>13, Zenon DEF ProgressStep, RecordFailure, ExitLoop, cuda
<1>14. CASE UNCHANGED vars
  BY <1>8, <1>14, Zenon DEF vars, cuda
<1> HIDE DEF Goal
<1> QED
  BY <1>1, <1>2, <1>3, <1>4, <1>5, <1>6, <1>7, <1>9, <1>10, <1>11, <1>12, <1>13, <1>14, Zenon
     DEF Next, EdgeStep, CallerStep, DestructorStep

\* Every step keeps what release_lifetime_tracking has waited for.
LEMMA NextReleased ==
    ASSUME TypeInv, Tracked, Items, Order, Released, [Next]_vars
    PROVE  Released'
<1> DEFINE After == {"release_event", "drain", "shutdown", "join", "gone"}
           Freed == {"drain", "shutdown", "join", "gone"}
<1>1. CASE user' # user
  <2>1. UNCHANGED <<cuda, tracking>>
    BY <1>1, NextUser, Zenon
  <2>2. /\ fallback_in_flight' = fallback_in_flight /\ fallback_stream' = fallback_stream
        /\ completion_recorded' = completion_recorded /\ queue' = queue
        /\ records' = records /\ happened' = happened
    BY <2>1, Zenon DEF cuda, tracking
  <2>3. user' \in After /\ fallback_in_flight => queue[fallback_stream] = <<>>
    BY <1>1, NextUser, Zenon DEF Released
  <2>4. user' \in Freed /\ completion_recorded => LatestHappened
    BY <1>1, NextUser, Zenon DEF Released
  <2> QED
    BY <2>2, <2>3, <2>4, Zenon DEF Released, LatestHappened
<1>2. CASE user' = user
  <2>1. CASE user = "idle"
    BY <1>2, <2>1, Zenon DEF Released
  <2>2. CASE user # "idle"
    <3>1. UNCHANGED <<records, tracking>>
      BY <2>2, NextUser, Zenon
    <3>2. /\ fallback_in_flight' = fallback_in_flight /\ fallback_stream' = fallback_stream
          /\ completion_recorded' = completion_recorded /\ records' = records
      BY <3>1, Zenon DEF tracking
    <3>3. happened \subseteq happened'
          /\ \A u \in Streams : queue[u] = <<>> => queue'[u] = <<>>
      <4>1. CASE \E s \in Streams, d \in DTypes, f \in {"none", "wait", "launch", "record"} :
                    Call(s, d, f)
        BY <2>2, <4>1, Zenon DEF Call
      <4>2. ASSUME NEW s \in Streams, queue[s] # <<>>, queue' = [queue EXCEPT ![s] = Tail(@)]
            PROVE  \A u \in Streams : queue[u] = <<>> => queue'[u] = <<>>
        BY <4>2, Zenon DEF TypeInv
      <4>3. CASE \E s \in Streams : WaitEvent(s)
        BY <4>2, <4>3, Zenon DEF WaitEvent
      <4>4. CASE \E s \in Streams : RecordEvent(s)
        BY <4>2, <4>4, Zenon DEF RecordEvent
      <4>5. CASE \E s \in Streams : StartKernel(s)
        BY <4>5, Zenon DEF StartKernel
      <4>6. CASE \E i \in Calls, o \in {"ok", "bad"} : Finish(i, o)
        BY <4>2, <4>6, Zenon DEF Finish, EndOfSlices
      <4>7. CASE UNCHANGED cuda /\ UNCHANGED tracking
        BY <4>7, Zenon DEF cuda
      <4> QED
        BY <4>1, <4>3, <4>4, <4>5, <4>6, <4>7, StepCases, SMTT(30)
    <3>4. fallback_in_flight => fallback_stream \in Streams
      BY Zenon DEF Tracked
    <3> QED
      BY <1>2, <3>2, <3>3, <3>4, Zenon DEF Released, LatestHappened
  <2> QED
    BY <2>1, <2>2, Zenon
<1> QED
  BY <1>1, <1>2, Zenon
-----------------------------------------------------------------------------
(* The wait of the running kernel, the abort flag and the outgoing slot.    *)

\* Only the start of a kernel, its block and the progress threads touch the
\* wait and the slots; nothing clears the abort flag.
LEMMA BlockCases ==
    ASSUME TypeInv, [Next]_vars
    PROVE  /\ abort => abort'
           /\ \/ \E s \in Streams : StartKernel(s)
              \/ \E t \in Threads : KernelPoll(t)
              \/ EndWait \/ EdgeStep
              \/ UNCHANGED <<waiting, block, edge>> /\ Running' \subseteq Running
<1> DEFINE Goal ==
           /\ abort => abort'
           /\ \/ \E s \in Streams : StartKernel(s)
              \/ \E t \in Threads : KernelPoll(t)
              \/ EndWait \/ EdgeStep
              \/ UNCHANGED <<waiting, block, edge>> /\ Running' \subseteq Running
<1> SUFFICES Goal
  BY Zenon
<1>1. CASE \E s \in Streams, d \in DTypes, f \in {"none", "wait", "launch", "record"} :
                Call(s, d, f)
  <2>1. UNCHANGED <<waiting, block, edge>> /\ abort' = abort
    BY <1>1, Zenon DEF Call
  <2>2. kernel' = kernel \/ kernel' = [kernel EXCEPT ![NextCall] = "queued"]
    BY <1>1, Zenon DEF Call, Launch
  <2>3. Running' \subseteq Running
    BY <2>2, Zenon DEF Running, TypeInv
  <2> QED
    BY <2>1, <2>3, Zenon
<1>2. ASSUME UNCHANGED <<waiting, block, edge>>, abort => abort', kernel' = kernel
      PROVE  Goal
  BY <1>2, Zenon DEF Running
<1>3. CASE \E s \in Streams : Synchronize(s)
  <2>1. UNCHANGED <<waiting, block, edge>> /\ (abort => abort') /\ kernel' = kernel
    BY <1>3 DEF Synchronize, cuda
  <2> QED
    BY <1>2, <2>1, Zenon
<1>4. CASE CheckAsyncError
  BY <1>2, <1>4, Zenon DEF CheckAsyncError, cuda
<1>5. CASE Destroy
  BY <1>2, <1>5, Zenon DEF Destroy, cuda
<1>6. CASE DestructorStep
  BY <1>2, <1>6, Zenon DEF DestructorStep, Release, Drain, ShutdownAndJoin, cuda
<1>7. CASE \E s \in Streams : StreamStep(s)
  <2>1. CASE \E s \in Streams : StartKernel(s)
    <3>1. abort' = abort
      BY <2>1, Zenon DEF StartKernel
    <3> QED
      BY <2>1, <3>1, Zenon
  <2>2. CASE \E s \in Streams : WaitEvent(s) \/ RecordEvent(s)
    <3>1. UNCHANGED <<waiting, block, edge>> /\ (abort => abort') /\ kernel' = kernel
      BY <2>2 DEF WaitEvent, RecordEvent
    <3> QED
      BY <1>2, <3>1
  <2> QED
    BY <1>7, <2>1, <2>2, Zenon DEF StreamStep
<1>8. CASE \E t \in Threads : BlockStep(t)
  <2>1. abort' = abort
    BY <1>8, Zenon DEF BlockStep, KernelPoll, Poll, Enter, Spin, Test, Store
  <2> QED
    BY <1>8, <2>1, Zenon DEF BlockStep
<1>9. CASE EndWait \/ EdgeStep
  <2>1. abort' = abort
    BY <1>9, Zenon DEF EndWait, EdgeStep, PostSlice, Transmit, PollCompletion, ReceiveSlice
  <2> QED
    BY <1>9, <2>1, Zenon
<1>10. CASE \E t \in {"engine", "send", "recv"} : ProgressStep(t)
  <2>1. UNCHANGED <<waiting, block, edge>> /\ (abort => abort') /\ kernel' = kernel
    BY <1>10 DEF ProgressStep, RecordFailure, ExitLoop, cuda
  <2> QED
    BY <1>2, <2>1
<1>11. CASE UNCHANGED vars
  BY <1>2, <1>11, Zenon DEF vars, cuda
<1> QED
  BY <1>1, <1>3, <1>4, <1>5, <1>6, <1>7, <1>8, <1>9, <1>10, <1>11, Zenon DEF Next, EdgeStep, CallerStep

\* A thread's step of the wait, on the thread's place and wait_status.
LEMMA PollCases ==
    ASSUME TypeInv, NEW t \in Threads, NEW ready, Poll(t, ready)
    PROVE  /\ wpc' \in [Threads -> {"enter", "spin", "test", "store", "done"}]
           /\ \A u \in Threads : u # t => wpc'[u] = wpc[u]
           /\ \/ wpc[t] = "enter" /\ wpc'[t] = "spin" /\ wait_status' = (IF abort THEN 0 ELSE wait_status)
              \/ /\ wpc[t] = "spin" /\ wpc'[t] = "test" /\ (ready \/ wait_status = 0 \/ abort)
                 /\ wait_status' \in {0, wait_status} /\ (wait_status' # wait_status => abort)
              \/ /\ wpc[t] = "test" /\ wait_status' = wait_status
                 /\ wpc'[t] = IF wait_status # 0 THEN "store" ELSE "done"
              \/ wpc[t] = "store" /\ wpc'[t] = "done" /\ wait_status' = 1
<1>1. CASE Enter(t)
  BY <1>1, Zenon DEF Enter, At, GoTo, TypeInv
<1>2. CASE Spin(t, ready)
  BY <1>2, Zenon DEF Spin, At, GoTo, TypeInv
<1>3. CASE Test(t)
  BY <1>3, Zenon DEF Test, At, GoTo, TypeInv
<1>4. CASE Store(t)
  BY <1>4, Zenon DEF Store, At, GoTo, TypeInv
<1> QED
  BY <1>1, <1>2, <1>3, <1>4, Zenon DEF Poll

\* The end of a wait that handles a slice without data or a slot is the first
\* one of the kernel, and the abort flag is set.
LEMMA EndWaitFacts ==
    ASSUME TypeInv, Waits, EndWait
    PROVE  /\ slice \in 1 .. Len(Program) /\ Program[slice] \in (SUBSET Threads) \ {{}}
           /\ wait_status # 0 => unwarranted = 0
           /\ ~abort => \A t \in Program[slice] : Ready(t)
<1>1. Running # {} /\ \A t \in Threads : At(t, "done")
  BY Zenon DEF EndWait, WaitOver
<1>2. slice \in 1 .. Len(Program)
  BY <1>1, Zenon DEF Waits
<1>3. Program[slice] \in (SUBSET Threads) \ {{}}
  BY <1>2, CommunicatorAssumption, ElementOfSeq, Zenon
<1>4. PICK t \in Program[slice] : t \in Threads
  BY <1>3, Zenon
<1>5. unwarranted > 0 => wait_status = 0
  BY <1>1, <1>4, Zenon DEF Waits, At
<1>6. unwarranted = 0 \/ unwarranted > 0
  BY DEF TypeInv
<1>7. ~abort => \A u \in Program[slice] : Ready(u)
  BY <1>1, <1>3, Zenon DEF Waits, At
<1> QED
  BY <1>2, <1>3, <1>5, <1>6, <1>7, Zenon

\* The rest of the type invariant: where the block is.
LEMMA NextBlockType ==
    ASSUME TypeInv, Items, Order, Waits, [Next]_vars
    PROVE  /\ wait_status' \in {0, 1} /\ slice' \in Nat /\ unwarranted' \in Nat
           /\ wpc' \in [Threads -> {"enter", "spin", "test", "store", "done"}]
<1>0. ASSUME NEW w, EnterWait(w)
      PROVE  /\ wait_status' = 1
             /\ wpc' \in [Threads -> {"enter", "spin", "test", "store", "done"}]
  BY <1>0, Zenon DEF EnterWait
<1>1. CASE \E s \in Streams : StartKernel(s)
  <2>1. slice' = 1 /\ unwarranted' = 0 /\ EnterWait(Program[1])
    BY <1>1, StartIsAlone, Zenon DEF StartKernel
  <2> QED
    BY <1>0, <2>1, Zenon
<1>2. CASE \E t \in Threads : KernelPoll(t)
  <2>1. slice' = slice /\ unwarranted' = unwarranted
    BY <1>2, Zenon DEF KernelPoll, block
  <2>2. PICK t \in Threads : Poll(t, Ready(t))
    BY <1>2, Zenon DEF KernelPoll
  <2>3. wpc' \in [Threads -> {"enter", "spin", "test", "store", "done"}]
    BY <2>2, PollCases, Zenon
  <2>4. wait_status' \in {0, 1}
    BY <2>2, PollCases, Zenon DEF TypeInv
  <2> QED
    BY <2>1, <2>3, <2>4, Zenon DEF TypeInv
<1>3. CASE EndWait
  <2>1. unwarranted' = unwarranted \/ unwarranted' = unwarranted + 1
    BY <1>3, Zenon DEF EndWait
  <2>2. \/ slice' = slice /\ wait_status' = wait_status /\ wpc' = wpc
        \/ slice' = slice + 1 /\ EnterWait(Program[slice + 1])
    <3>0. ASSUME NEW i, NEW o, EndOfSlices(i, o)
          PROVE  slice' = slice /\ wait_status' = wait_status /\ wpc' = wpc
      BY <3>0, Zenon DEF EndOfSlices, waiting
    <3>1. CASE wait_status = 0
      <4>1. \E i \in Running : EndOfSlices(i, "bad")
        BY <1>3, <3>1, Zenon DEF EndWait
      <4> QED
        BY <3>0, <4>1, Zenon
    <3>2. CASE wait_status # 0 /\ slice < Len(Program)
      BY <1>3, <3>2, Zenon DEF EndWait
    <3>3. CASE wait_status # 0 /\ ~(slice < Len(Program))
      <4>1. \E i \in Running, o \in {"ok", "bad"} : EndOfSlices(i, o)
        BY <1>3, <3>3, Zenon DEF EndWait
      <4> QED
        BY <3>0, <4>1, Zenon
    <3> QED
      BY <3>1, <3>2, <3>3, Zenon
  <2>3. unwarranted' \in Nat
    BY <2>1 DEF TypeInv
  <2>4. CASE slice' = slice /\ wait_status' = wait_status /\ wpc' = wpc
    BY <2>3, <2>4, Zenon DEF TypeInv
  <2>5. CASE slice' = slice + 1 /\ EnterWait(Program[slice + 1])
    BY <1>0, <2>3, <2>5, SMTT(30) DEF TypeInv
  <2> QED
    BY <2>2, <2>4, <2>5, Zenon
<1>4. CASE EdgeStep
  <2>1. wait_status' = wait_status /\ wpc' = wpc /\ slice' = slice /\ unwarranted' = unwarranted
    BY <1>4, Zenon DEF EdgeStep, PostSlice, Transmit, PollCompletion, ReceiveSlice, waiting, block
  <2> QED
    BY <2>1, Zenon DEF TypeInv
<1>5. CASE UNCHANGED <<waiting, block, edge>> /\ Running' \subseteq Running
  BY <1>5, Zenon DEF waiting, block, TypeInv
<1> QED
  BY <1>1, <1>2, <1>3, <1>4, <1>5, BlockCases

\* Every step keeps what the threads of a waiting kernel have seen.
LEMMA NextWaits ==
    ASSUME TypeInv, Items, Order, Waits, [Next]_vars
    PROVE  Waits'
<1>0. abort => abort'
  BY BlockCases, Zenon
<1>1. CASE \E s \in Streams : StartKernel(s)
  <2>1. slice' = 1 /\ unwarranted' = 0 /\ EnterWait(Program[1])
    BY <1>1, StartIsAlone, Zenon DEF StartKernel
  <2>2. slot' = slot /\ nic' = nic
    BY <1>1, Zenon DEF StartKernel, edge
  <2>3. wait_status' = 1 /\ wpc' = [t \in Threads |-> IF t \in Program[1] THEN "enter" ELSE "done"]
    BY <2>1, Zenon DEF EnterWait
  <2>4. 1 \in 1 .. Len(Program) /\ Program[1] \in (SUBSET Threads) \ {{}}
    <3>1. Len(Program) \in Nat \ {0}
      BY CommunicatorAssumption, EmptySeq, Zenon
    <3>2. 1 \in 1 .. Len(Program)
      BY <3>1
    <3> QED
      BY <3>2, CommunicatorAssumption, ElementOfSeq, Zenon
  <2>5. \A t \in Program[1] : wpc'[t] = "enter"
    BY <2>3, <2>4, Zenon
  <2>6. \A t \in Threads \ Program[1] : wpc'[t] = "done"
    BY <2>3, Zenon
  <2>7. (slot' # "slice" => abort') /\ OverwrittenOnlyAfterFailure'
    BY <1>0, <2>2, Zenon DEF Waits, OverwrittenOnlyAfterFailure
  <2> QED
    BY <2>1, <2>3, <2>4, <2>5, <2>6, <2>7, SMTT(30) DEF Waits, At
<1>3. CASE EndWait
  <2>1. /\ slice \in 1 .. Len(Program) /\ Program[slice] \in (SUBSET Threads) \ {{}}
        /\ wait_status # 0 => unwarranted = 0
        /\ ~abort => \A t \in Program[slice] : Ready(t)
    BY <1>3, EndWaitFacts, Zenon
  <2>2. PICK i \in Running :
         LET waiters == Program[slice]
             warranted == \A t \in waiters : Ready(t)
         IN  IF wait_status = 0
             THEN /\ EndOfSlices(i, "bad")
                  /\ UNCHANGED <<arrived, unwarranted, edge>>
             ELSE /\ unwarranted' = IF warranted THEN unwarranted ELSE unwarranted + 1
                  /\ IF 1 \in waiters
                     THEN Publish(IF unwarranted' = 0 THEN "slice" ELSE "garbage")
                     ELSE UNCHANGED edge
                  /\ IF slice < Len(Program)
                     THEN slice' = slice + 1 /\ EnterWait(Program[slice + 1])
                          /\ UNCHANGED <<queue, kernel>>
                     ELSE EndOfSlices(i, IF unwarranted' = 0 THEN "ok" ELSE "bad")
    BY <1>3, Zenon DEF EndWait
  <2>3. abort' = abort
    BY <1>3, Zenon DEF EndWait
  <2>4. ASSUME NEW o \in {"ok", "bad"}, EndOfSlices(i, o)
        PROVE  Running' = {} /\ wait_status' = wait_status
    <3>1. Running = {i}
      BY OneRuns, Zenon
    <3>2. kernel' = [kernel EXCEPT ![i] = o] /\ wait_status' = wait_status
      BY <2>4, Zenon DEF EndOfSlices, waiting
    <3>3. \A j \in Calls : kernel'[j] # "running"
      BY <3>1, <3>2, Zenon DEF Running, TypeInv
    <3> QED
      BY <3>2, <3>3, Zenon DEF Running
  <2>5. CASE wait_status = 0
    <3>1. Running' = {} /\ wait_status' = wait_status /\ unwarranted' = unwarranted
          /\ slot' = slot /\ nic' = nic
      BY <2>2, <2>4, <2>5, Zenon DEF edge
    <3> QED
      BY <2>3, <3>1, Zenon DEF Waits, OverwrittenOnlyAfterFailure
  <2>6. CASE wait_status # 0
    <3>1. unwarranted = 0 /\ unwarranted' = IF \A t \in Program[slice] : Ready(t) THEN 0 ELSE 1
      BY <2>1, <2>2, <2>6
    <3>2. unwarranted' \in {0, 1} /\ (unwarranted' # 0 => abort)
      BY <2>1, <3>1, Zenon
    <3>3. (slot' # "slice" => abort) /\ (nic' = "overwritten" => abort)
      <4>1. CASE 1 \in Program[slice]
        <5>1. Publish(IF unwarranted' = 0 THEN "slice" ELSE "garbage")
          BY <2>2, <2>6, <4>1, Zenon
        <5>2. nic = "posted" => ~Ready(1)
          BY DEF Ready, Drained
        <5>3. nic = "posted" => abort
          BY <2>1, <4>1, <5>2, Zenon
        <5>4. /\ slot' = IF unwarranted' = 0 THEN "slice" ELSE "garbage"
              /\ nic' = IF nic = "posted" THEN "overwritten" ELSE nic
          BY <5>1, Zenon DEF Publish
        <5> QED
          BY <3>2, <5>3, <5>4, Zenon DEF Waits, OverwrittenOnlyAfterFailure
      <4>2. CASE 1 \notin Program[slice]
        BY <2>2, <2>6, <4>2, Zenon DEF edge, Waits, OverwrittenOnlyAfterFailure
      <4> QED
        BY <4>1, <4>2, Zenon
    <3>4. CASE slice < Len(Program)
      <4>1. slice' = slice + 1 /\ EnterWait(Program[slice + 1])
        BY <2>2, <2>6, <3>4, Zenon
      <4>2. slice + 1 \in 1 .. Len(Program)
        BY <2>1, <3>4, CommunicatorAssumption, LenProperties
      <4>3. Program[slice + 1] \in (SUBSET Threads) \ {{}}
        BY <4>2, CommunicatorAssumption, ElementOfSeq, Zenon
      <4>4. /\ wait_status' = 1
            /\ wpc' = [t \in Threads |-> IF t \in Program[slice + 1] THEN "enter" ELSE "done"]
        BY <4>1, Zenon DEF EnterWait
      <4>5. \A t \in Program[slice + 1] : wpc'[t] = "enter"
        BY <4>3, <4>4, Zenon
      <4>6. \A t \in Threads \ Program[slice + 1] : wpc'[t] = "done"
        BY <4>4, Zenon
      <4> QED
        BY <2>3, <3>2, <3>3, <4>1, <4>2, <4>4, <4>5, <4>6, SMTT(30)
           DEF Waits, At, OverwrittenOnlyAfterFailure
    <3>5. CASE ~(slice < Len(Program))
      <4>1. Running' = {} /\ wait_status' = wait_status
        BY <2>2, <2>4, <2>6, <3>5, SMTT(30)
      <4> QED
        BY <2>3, <2>6, <3>2, <3>3, <4>1 DEF Waits, OverwrittenOnlyAfterFailure
    <3> QED
      BY <3>4, <3>5, Zenon
  <2> QED
    BY <2>5, <2>6, Zenon
<1>2. CASE \E t \in Threads : KernelPoll(t)
  <2> PICK t \in Threads : KernelPoll(t)
    BY <1>2, Zenon
  <2>1. /\ slice' = slice /\ unwarranted' = unwarranted /\ arrived' = arrived
        /\ unsent' = unsent /\ nic' = nic /\ slot' = slot
        /\ kernel' = kernel /\ Running # {} /\ Poll(t, Ready(t))
    BY Zenon DEF KernelPoll, block, edge, cuda
  <2>2. Running' = Running /\ abort' = abort /\ \A u \in Threads : Ready(u)' <=> Ready(u)
    <3>1. abort' = abort
      BY <2>1, Zenon DEF Poll, Enter, Spin, Test, Store
    <3> QED
      BY <2>1, <3>1, Zenon DEF Running, Ready, Drained
  <2>3. /\ slice \in 1 .. Len(Program) /\ \A u \in Threads \ Program[slice] : wpc[u] = "done"
        /\ \A u \in Program[slice] :
            /\ ~abort /\ wpc[u] \in {"test", "store", "done"} => Ready(u)
            /\ unwarranted > 0 => wpc[u] # "store" /\ (wpc[u] # "enter" => wait_status = 0)
    BY <2>1, Zenon DEF Waits, At
  <2>4. Program[slice] \subseteq Threads
    BY <2>3, CommunicatorAssumption, ElementOfSeq
  <2>5. /\ \A u \in Threads : u # t => wpc'[u] = wpc[u]
        /\ \/ wpc[t] = "enter" /\ wpc'[t] = "spin" /\ wait_status' = (IF abort THEN 0 ELSE wait_status)
           \/ /\ wpc[t] = "spin" /\ wpc'[t] = "test" /\ (Ready(t) \/ wait_status = 0 \/ abort)
              /\ wait_status' \in {0, wait_status} /\ (wait_status' # wait_status => abort)
           \/ /\ wpc[t] = "test" /\ wait_status' = wait_status
              /\ wpc'[t] = IF wait_status # 0 THEN "store" ELSE "done"
           \/ wpc[t] = "store" /\ wpc'[t] = "done" /\ wait_status' = 1
    BY <2>1, PollCases, Zenon
  <2>6. wait_status' = 0 => abort
    BY <2>5 DEF Waits
  <2>7. t \in Program[slice]
    BY <2>3, <2>5, Zenon
  <2>8. \A u \in Threads \ Program[slice] : wpc'[u] = "done"
    BY <2>3, <2>5, <2>7, Zenon
  <2>9. \A u \in Program[slice] : ~abort /\ wpc'[u] \in {"test", "store", "done"} => Ready(u)
    <3>1. wait_status = 0 => abort
      BY Zenon DEF Waits
    <3> QED
      BY <2>3, <2>4, <2>5, <2>7, <3>1, SMTT(30)
  <2>10. unwarranted > 0 => abort
    BY Zenon DEF Waits
  <2>11. ASSUME NEW u \in Program[slice], unwarranted > 0
         PROVE  wpc'[u] # "store" /\ (wpc'[u] # "enter" => wait_status' = 0)
    BY <2>3, <2>4, <2>5, <2>7, <2>10, <2>11, SMTT(30)
  <2>12. \A u \in Program[slice] : Ready(u)' <=> Ready(u)
    BY <2>2, <2>4, Zenon
  <2>13. unwarranted <= 1 /\ (slot' # "slice" => abort) /\ OverwrittenOnlyAfterFailure'
    BY <2>1, <2>2, Zenon DEF Waits, OverwrittenOnlyAfterFailure
  <2> QED
    BY <2>1, <2>2, <2>3, <2>6, <2>8, <2>9, <2>10, <2>11, <2>12, <2>13, SMTT(30) DEF Waits, At
<1>4. CASE EdgeStep
  <2>1. /\ slice' = slice /\ unwarranted' = unwarranted /\ wait_status' = wait_status /\ wpc' = wpc
        /\ kernel' = kernel /\ abort' = abort
    BY <1>4, Zenon DEF EdgeStep, PostSlice, Transmit, PollCompletion, ReceiveSlice,
          waiting, block, cuda
  <2>2. Running' = Running
    BY <2>1, Zenon DEF Running
  <2>3. Drained => Drained'
    <3>1. CASE PostSlice \/ Transmit \/ PollCompletion
      <4>1. ~Drained
        BY <3>1 DEF PostSlice, Transmit, PollCompletion, Drained
      <4> QED
        BY <4>1, Zenon
    <3>2. CASE ReceiveSlice
      BY <3>2, Zenon DEF ReceiveSlice, edge, Drained
    <3> QED
      BY <1>4, <3>1, <3>2, Zenon DEF EdgeStep
  <2>4. arrived' = arrived \/ arrived' = TRUE
    BY <1>4, Zenon DEF EdgeStep, PostSlice, Transmit, PollCompletion, ReceiveSlice, block
  <2>5. \A u \in Threads : Ready(u) => Ready(u)'
    <3> SUFFICES ASSUME NEW u \in Threads, Ready(u) PROVE Ready(u)'
      BY Zenon
    <3>1. CASE u = 0
      <4>1. arrived
        BY <3>1, Zenon DEF Ready
      <4>2. arrived'
        BY <2>4, <4>1, Zenon
      <4> QED
        BY <3>1, <4>2, Zenon DEF Ready
    <3>2. CASE u # 0
      BY <2>3, <3>2, Zenon DEF Ready
    <3> QED
      BY <3>1, <3>2, Zenon
  <2>6. slice \in 1 .. Len(Program) => Program[slice] \subseteq Threads
    BY CommunicatorAssumption, ElementOfSeq
  <2>7. (slot' # "slice" => abort') /\ OverwrittenOnlyAfterFailure'
    <3>1. slot' = slot /\ nic' \in {nic, "posted", "completed", "idle"}
      BY <1>4, Zenon DEF EdgeStep, PostSlice, Transmit, PollCompletion, ReceiveSlice, edge
    <3> QED
      BY <2>1, <3>1, Zenon DEF Waits, OverwrittenOnlyAfterFailure
  <2> QED
    BY <2>1, <2>2, <2>5, <2>6, <2>7, SMTT(30) DEF Waits, At
<1>5. CASE UNCHANGED <<waiting, block, edge>> /\ Running' \subseteq Running
  <2>1. /\ slice' = slice /\ unwarranted' = unwarranted /\ wait_status' = wait_status /\ wpc' = wpc
        /\ arrived' = arrived /\ unsent' = unsent /\ nic' = nic /\ slot' = slot
    BY <1>5, Zenon DEF waiting, block, edge
  <2>2. \A u \in Threads : Ready(u)' <=> Ready(u)
    BY <2>1 DEF Ready, Drained
  <2>3. slice \in 1 .. Len(Program) => Program[slice] \subseteq Threads
    BY CommunicatorAssumption, ElementOfSeq
  <2>4. Running' # {} => Running # {}
    BY <1>5, Zenon
  <2> QED
    BY <1>0, <2>1, <2>2, <2>3, <2>4 DEF Waits, At, OverwrittenOnlyAfterFailure
<1> QED
  BY <1>1, <1>2, <1>3, <1>4, <1>5, BlockCases, SMTT(30)

\* Only record_failure, a thread that leaves its loop and the destructor touch
\* the error state and the progress threads.
LEMMA ProgressCases ==
    ASSUME [Next]_vars
    PROVE  /\ shared_progress' = shared_progress
           /\ \/ \E t \in ProgressThreads : RecordFailure(t) \/ ExitLoop(t)
              \/ Destroy /\ tpc' = tpc
              \/ tpc' = tpc /\ abort' = abort /\ has_error' = has_error
<1> DEFINE Goal ==
        /\ shared_progress' = shared_progress
        /\ \/ \E t \in ProgressThreads : RecordFailure(t) \/ ExitLoop(t)
           \/ Destroy /\ tpc' = tpc
           \/ tpc' = tpc /\ abort' = abort /\ has_error' = has_error
<1> SUFFICES Goal
  BY Zenon
<1>1. CASE \E s \in Streams, d \in DTypes, f \in {"none", "wait", "launch", "record"} :
                Call(s, d, f)
  BY <1>1, Zenon DEF Call, progress
<1>2. CASE \E s \in Streams : Synchronize(s)
  BY <1>2, Zenon DEF Synchronize, progress
<1>3. CASE CheckAsyncError
  BY <1>3, Zenon DEF CheckAsyncError, progress
<1>4. CASE Destroy
  <2>1. shared_progress' = shared_progress /\ tpc' = tpc
    BY <1>4, Zenon DEF Destroy, progress
  <2> QED
    BY <1>4, <2>1, Zenon
<1>5. CASE DestructorStep
  BY <1>5, Zenon DEF DestructorStep, Release, Drain, ShutdownAndJoin, progress
<1>6. CASE \E s \in Streams : StreamStep(s)
  BY <1>6, Zenon DEF StreamStep, WaitEvent, RecordEvent, StartKernel, progress
<1>7. CASE \E t \in Threads : BlockStep(t)
  <2>1. abort' = abort
    BY <1>7, Zenon DEF BlockStep, KernelPoll, Poll, Enter, Spin, Test, Store
  <2> QED
    BY <1>7, <2>1, Zenon DEF BlockStep, KernelPoll, progress
<1>8. CASE EndWait
  BY <1>8, Zenon DEF EndWait, progress
<1>9. CASE EdgeStep
  BY <1>9, Zenon DEF EdgeStep, PostSlice, Transmit, PollCompletion, ReceiveSlice, progress
<1>10. CASE \E t \in {"engine", "send", "recv"} : ProgressStep(t)
  <2>1. PICK t : RecordFailure(t) \/ ExitLoop(t)
    BY <1>10, Zenon DEF ProgressStep
  <2>2. t \in ProgressThreads /\ shared_progress' = shared_progress
    BY <2>1, Zenon DEF RecordFailure, ExitLoop
  <2> QED
    BY <2>1, <2>2, Zenon
<1>11. CASE UNCHANGED vars
  BY <1>11, Zenon DEF vars, progress
<1> QED
  BY <1>1, <1>2, <1>3, <1>4, <1>5, <1>6, <1>7, <1>8, <1>9, <1>10, <1>11, Zenon DEF Next, EdgeStep, CallerStep

\* Every step keeps: who sets the abort flag goes on to set has_error_.
LEMMA NextRecording ==
    ASSUME Recording, [Next]_vars
    PROVE  Recording'
<1> DEFINE Phases == {"run", "recording", "exit"}
<1>1. shared_progress' = shared_progress
  BY ProgressCases, Zenon
<1>2. ProgressThreads' = ProgressThreads
  BY <1>1, Zenon DEF ProgressThreads
<1>3. tpc \in [ProgressThreads -> Phases]
      /\ (abort => has_error \/ \E t \in ProgressThreads : tpc[t] = "recording")
  BY Zenon DEF Recording
<1>4. CASE \E t \in ProgressThreads : RecordFailure(t)
  <2> PICK t \in ProgressThreads : RecordFailure(t)
    BY <1>4, Zenon
  <2>1. CASE tpc' = [tpc EXCEPT ![t] = "recording"] /\ abort' = TRUE
    <3>1. tpc' \in [ProgressThreads -> Phases] /\ tpc'[t] = "recording"
      BY <1>3, <2>1, Zenon
    <3> QED
      BY <1>2, <3>1, Zenon DEF Recording
  <2>2. CASE tpc' = [tpc EXCEPT ![t] = "run"] /\ has_error' = TRUE
    <3>1. tpc' \in [ProgressThreads -> Phases]
      BY <1>3, <2>2, Zenon
    <3> QED
      BY <1>2, <2>2, <3>1, Zenon DEF Recording
  <2> QED
    BY <2>1, <2>2, Zenon DEF RecordFailure
<1>5. CASE \E t \in ProgressThreads : ExitLoop(t)
  <2> PICK t \in ProgressThreads : ExitLoop(t)
    BY <1>5
  <2>1. tpc[t] = "run" /\ tpc' = [tpc EXCEPT ![t] = "exit"] /\ abort' = abort /\ has_error' = has_error
    BY Zenon DEF ExitLoop
  <2>2. tpc' \in [ProgressThreads -> Phases]
    BY <1>3, <2>1, Zenon
  <2>3. \A u \in ProgressThreads : tpc[u] = "recording" => tpc'[u] = "recording"
    BY <1>3, <2>1, Zenon
  <2> QED
    BY <1>2, <1>3, <2>1, <2>2, <2>3 DEF Recording
<1>6. CASE Destroy /\ tpc' = tpc
  <2>1. abort' = (abort \/ has_error) /\ has_error' = has_error
    BY <1>6, Zenon DEF Destroy
  <2> QED
    BY <1>2, <1>3, <1>6, <2>1, Zenon DEF Recording
<1>7. CASE tpc' = tpc /\ abort' = abort /\ has_error' = has_error
  BY <1>2, <1>3, <1>7, Zenon DEF Recording
<1> QED
  BY <1>4, <1>5, <1>6, <1>7, ProgressCases

\* Every step keeps: the shared engine has posted no garbage.
LEMMA NextGarbage ==
    ASSUME TypeInv, Waits, Recording, GarbageStaysHome, [Next]_vars
    PROVE  GarbageStaysHome'
<1>1. shared_progress' = shared_progress
  BY ProgressCases, Zenon
<1>2. CASE PostSlice
  <2> SUFFICES ASSUME shared_progress PROVE slot' = "slice"
    BY <1>1, Zenon DEF GarbageStaysHome
  <2>1. ProgressThreads = {"engine"}
    BY Zenon DEF ProgressThreads
  <2>2. tpc["engine"] = "run" /\ ~has_error
    BY <1>2, <2>1, Zenon DEF PostSlice, MaySend, MayProgress
  <2>3. ~abort
    BY <2>1, <2>2, Zenon DEF Recording
  <2>4. slot = "slice" /\ slot' = slot
    BY <1>2, <2>3, Zenon DEF PostSlice, Waits
  <2> QED
    BY <2>4, Zenon
<1>3. ASSUME nic' # "posted" \/ (nic' = nic /\ slot' = slot) PROVE GarbageStaysHome'
  BY <1>1, <1>3, Zenon DEF GarbageStaysHome
<1>4. CASE Transmit \/ PollCompletion
  BY <1>3, <1>4, Zenon DEF Transmit, PollCompletion
<1>5. CASE ReceiveSlice
  BY <1>3, <1>5, Zenon DEF ReceiveSlice, edge
<1>6. CASE EndWait
  <2>1. UNCHANGED edge \/ \E c : Publish(c)
    BY <1>6, Zenon DEF EndWait
  <2>2. ASSUME NEW c, Publish(c) PROVE nic' # "posted"
    BY <2>2, Zenon DEF Publish
  <2> QED
    BY <1>3, <2>1, <2>2, Zenon DEF edge
<1>7. CASE (\E s \in Streams : StartKernel(s)) \/ (\E t \in Threads : KernelPoll(t))
  BY <1>3, <1>7, Zenon DEF StartKernel, KernelPoll, edge
<1>8. CASE UNCHANGED <<waiting, block, edge>>
  BY <1>3, <1>8, Zenon DEF edge
<1> QED
  BY <1>2, <1>4, <1>5, <1>6, <1>7, <1>8, BlockCases, Zenon DEF EdgeStep
-----------------------------------------------------------------------------
(* The theorems.                                                            *)

\* The invariant holds in every state of every behaviour.
THEOREM Invariance == Spec => []IInv
<1>1. Init => IInv
  BY InitInv, Zenon
<1>2. IInv /\ [Next]_vars => IInv'
  <2> SUFFICES ASSUME IInv, [Next]_vars PROVE IInv'
    BY Zenon
  <2>1. /\ TypeInv /\ Tracked /\ Items /\ Once /\ Held /\ Order /\ Released
        /\ Waits /\ Recording /\ GarbageStaysHome
    BY Zenon DEF IInv
  <2>2. TypeInv'
    <3>1. user' \in Places
      BY <2>1, NextUser, Zenon
    <3> QED
      BY <2>1, <3>1, NextCudaType, NextBlockType, Zenon DEF TypeInv, Places
  <2>3. Tracked' /\ Items' /\ Once' /\ Held' /\ Order' /\ Released'
    BY <2>1, NextTracked, NextItems, NextOnce, NextHeld, NextOrder, NextReleased, Zenon
  <2>4. Waits' /\ Recording' /\ GarbageStaysHome'
    BY <2>1, NextWaits, NextRecording, NextGarbage, Zenon
  <2> QED
    BY <2>2, <2>3, <2>4, Zenon DEF IInv
<1> QED
  BY <1>1, <1>2, PTL DEF Spec

\* The calls up to a record that happened are finished.
LEMMA DoneUpToLatest ==
    ASSUME IInv, records = 0 \/ LatestHappened, NEW i \in Calls, i <= records
    PROVE  kernel[i] \notin {"queued", "running"}
<1>1. i \in Nat /\ i >= 1 /\ records \in Nat
  BY CommunicatorAssumption DEF IInv, TypeInv, Calls
<1>2. records \in happened
  BY <1>1 DEF LatestHappened
<1>3. records \in Calls /\ kernel[records] \in {"ok", "bad"}
  BY <1>2, Zenon DEF IInv, Order
<1>4. i = records \/ i \in 1 .. records - 1
  BY <1>1
<1>5. i \in happened
  BY <1>2, <1>3, <1>4, Zenon DEF IInv, Order
<1> QED
  BY <1>5, Zenon DEF IInv, Order

\* Kernels run one at a time and in the order of the calls, on whatever
\* streams the caller gives.
THEOREM KernelsInCallOrder == Spec => []InCallOrder
<1>1. IInv => InCallOrder
  <2> SUFFICES ASSUME IInv, NEW i \in Calls, NEW j \in Calls, i < j,
                      kernel[i] \in {"queued", "running"}
               PROVE  kernel[j] \in {"none", "queued"}
    BY Zenon DEF InCallOrder
  <2>1. i \in 1 .. j - 1
    BY CommunicatorAssumption DEF Calls
  <2>2. kernel[j] \in {"running", "ok", "bad"} => i \in happened
    BY <2>1, Zenon DEF IInv, Order
  <2>3. i \notin happened
    BY Zenon DEF IInv, Order
  <2>4. kernel[j] \in {"none", "queued", "running", "ok", "bad"}
    BY Zenon DEF IInv, TypeInv
  <2> QED
    BY <2>2, <2>3, <2>4, Zenon
<1> QED
  BY <1>1, Invariance, PTL

\* Whichever CUDA call of a launch failed before, the destructor frees nothing
\* while a kernel is queued or running.
THEOREM FreedWhenIdle == Spec => []NothingInFlightWhenFreed
<1>1. IInv => NothingInFlightWhenFreed
  <2> SUFFICES ASSUME IInv, user \in {"drain", "shutdown", "join", "gone"}, NEW i \in Calls,
                      kernel[i] \in {"queued", "running"}
               PROVE  FALSE
    BY Zenon DEF NothingInFlightWhenFreed
  <2>1. i \in Nat /\ i >= 1 /\ records \in Nat
    BY CommunicatorAssumption DEF IInv, TypeInv, Calls
  <2>2. i < NextCall
    BY Zenon DEF IInv, Tracked
  <2>3. ~(i <= records)
    <3>1. completion_recorded => LatestHappened
      BY Zenon DEF IInv, Released
    <3>2. completion_recorded = (records > 0)
      BY Zenon DEF IInv, Tracked
    <3>3. records > 0 => LatestHappened
      BY <3>1, <3>2, Zenon
    <3>4. records = 0 \/ LatestHappened
      BY <2>1, <3>3
    <3> QED
      BY <3>4, DoneUpToLatest, Zenon
  <2>4. /\ has_untracked_launch /\ NextCall = records + 2
        /\ stream_of[records + 1] = fallback_stream
    BY <2>1, <2>2, <2>3 DEF IInv, Tracked
  <2>5. i = records + 1
    BY <2>1, <2>2, <2>3, <2>4
  <2>6. fallback_in_flight
    BY <2>4, Zenon DEF IInv, Tracked
  <2>7. queue[stream_of[i]] = <<>>
    BY <2>4, <2>5, <2>6, Zenon DEF IInv, Released
  <2>8. PICK p \in 1 .. Len(queue[stream_of[i]]) : TRUE
    BY Zenon DEF IInv, Held, InFlight
  <2>9. Len(queue[stream_of[i]]) = 0
    BY <2>7
  <2> QED
    BY <2>8, <2>9
<1> QED
  BY <1>1, Invariance, PTL

\* The race of the two polling threads on wait_status lets at most one slice of
\* a kernel through without data or a free slot.
THEOREM RaceLetsOneThrough == Spec => []OneUnwarrantedSlice
<1>1. IInv => OneUnwarrantedSlice
  BY Zenon DEF IInv, Waits, OneUnwarrantedSlice
<1> QED
  BY <1>1, Invariance, PTL

\* With the shared engine no slice that was handled without data is posted.
THEOREM GarbageIsNotPosted == Spec => []GarbageStaysHome
<1>1. IInv => GarbageStaysHome
  BY Zenon DEF IInv
<1> QED
  BY <1>1, Invariance, PTL

\* Without a failure no block writes into a slot whose send is posted and not
\* yet carried out.
THEOREM NicSlotsKept == Spec => []OverwrittenOnlyAfterFailure
<1>1. IInv => OverwrittenOnlyAfterFailure
  BY Zenon DEF IInv, Waits
<1> QED
  BY <1>1, Invariance, PTL

\* FIFO storage is only replaced while no kernel can access it.
THEOREM StorageReplacedWhenIdle == Spec => ReplacedOnlyWhenIdle
<1>1. IInv /\ [Next]_vars =>
        [slot_elems' # slot_elems =>
            \A i \in Calls : kernel[i] \notin {"queued", "running"}]_vars
  <2> SUFFICES ASSUME IInv, [Next]_vars, slot_elems' # slot_elems, NEW i \in Calls,
                      kernel[i] \in {"queued", "running"}
               PROVE  FALSE
    BY Zenon
  <2>1. PICK s \in Streams, d \in DTypes, f \in {"none", "wait", "launch", "record"} : Call(s, d, f)
    <3>1. \/ \E s \in Streams, d \in DTypes, f \in {"none", "wait", "launch", "record"} :
                    Call(s, d, f)
          \/ slot_elems' = slot_elems
      BY StepCases, Zenon DEF WaitEvent, RecordEvent, StartKernel, Finish, tracking
    <3> QED
      BY <3>1, Zenon
  <2>2. slot_elems' = [slot_elems EXCEPT ![d] = 1] /\ Admits(d)
    BY <2>1, Zenon DEF Call, Launch
  <2>3. slot_elems[d] = 0
    BY <2>2, Zenon DEF IInv, TypeInv
  <2>4. ~has_untracked_launch /\ ~(has_launch /\ ~LatestHappened)
    BY <2>2, <2>3, Zenon DEF Admits, Busy
  <2>5. NextCall = records + 1 /\ i < NextCall /\ records \in Nat
    BY <2>4, Zenon DEF IInv, Tracked, TypeInv
  <2>6. i <= records
    BY <2>5, CommunicatorAssumption DEF Calls
  <2>7. has_launch = (records > 0)
    BY Zenon DEF IInv, Tracked
  <2>8. records > 0 => LatestHappened
    BY <2>4, <2>7, Zenon
  <2>9. records = 0 \/ LatestHappened
    BY <2>5, <2>8
  <2> QED
    BY <2>6, <2>9, DoneUpToLatest, Zenon
<1> QED
  BY <1>1, Invariance, PTL DEF Spec, ReplacedOnlyWhenIdle
=============================================================================
