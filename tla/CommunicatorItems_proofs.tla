----------------------- MODULE CommunicatorItems_proofs -----------------------
(***************************************************************************)
(* The inductive invariant of Communicator and the first half of its       *)
(* proof: what is queued on the streams, by call (Items), with the types   *)
(* and the tracking of the latest call that it rests on.  The other        *)
(* conjuncts and the theorems are in Communicator_proofs.                  *)
(***************************************************************************)
EXTENDS Communicator, TLAPS, FiniteSetTheorems, SequenceTheorems

(* The inductive invariant.                                                 *)

Item == [op : {"wait", "kernel", "record"}, n : Nat]
Places == {"idle", "check", "release_stream", "release_event", "drain", "shutdown",
           "join", "gone"}

\* Every variable the proof uses holds a value of its kind.
TypeInv ==
    /\ user \in Places /\ slot_elems \in [DTypes -> {0, 1}]
    /\ has_launch \in BOOLEAN /\ has_untracked_launch \in BOOLEAN
    /\ fallback_in_flight \in BOOLEAN /\ completion_recorded \in BOOLEAN
    /\ queue \in [Streams -> Seq(Item)] /\ records \in Nat
    /\ kernel \in [Calls -> {"none", "queued", "running", "ok", "bad"}]
    /\ stream_of \in [Calls -> Streams \cup {AnyStream}]
    /\ wait_status \in {0, 1} /\ wpc \in [Threads -> {"enter", "spin", "test", "store", "done"}]
    /\ slice \in Nat /\ unwarranted \in Nat

\* The calls that have a kernel are the first ones; all of them have a record
\* of the completion event, except one whose call failed after the launch, and
\* that one is on the fallback stream.
Tracked ==
    /\ NextCall \in Nat /\ \A i \in Calls : kernel[i] # "none" <=> i < NextCall
    /\ has_launch = (records > 0) /\ completion_recorded = (records > 0)
    /\ fallback_in_flight = has_untracked_launch
    /\ has_untracked_launch => fallback_stream \in Streams
    /\ NextCall = records + 1
       \/ /\ has_untracked_launch /\ NextCall = records + 2
          /\ stream_of[records + 1] = fallback_stream

\* A kernel waits in its stream behind a wait for the record of the kernel
\* before it, until that record has happened; a record follows its kernel.
WaitItem(n) == [op |-> "wait", n |-> n]
KernelItem(n) == [op |-> "kernel", n |-> n]
RecordItem(n) == [op |-> "record", n |-> n]

ItemOk(s, p) ==
    LET x == queue[s][p]
    IN  /\ x.op = "wait" => x.n \in 1 .. records
        /\ x.op = "kernel" =>
              /\ x.n \in Calls /\ kernel[x.n] \in {"queued", "running"} /\ stream_of[x.n] = s
              /\ kernel[x.n] = "running" => p = 1
              /\ IF p = 1 THEN x.n = 1 \/ x.n - 1 \in happened
                          ELSE queue[s][p - 1] = WaitItem(x.n - 1)
        /\ x.op = "record" =>
              /\ x.n \in 1 .. records
              /\ IF p = 1 THEN kernel[x.n] \in {"ok", "bad"}
                          ELSE queue[s][p - 1] = KernelItem(x.n)
Items == \A s \in Streams : \A p \in 1 .. Len(queue[s]) : ItemOk(s, p)

\* A kernel is in a stream once.
Once == \A s \in Streams : \A p, q \in 1 .. Len(queue[s]) :
            queue[s][p].op = "kernel" /\ queue[s][q] = queue[s][p] => p = q

\* A kernel that is not finished is in its stream.
InFlight(i) == kernel[i] \in {"queued", "running"}
Held == \A i \in Calls : InFlight(i) =>
            /\ stream_of[i] \in Streams
            /\ \E p \in 1 .. Len(queue[stream_of[i]]) : queue[stream_of[i]][p] = KernelItem(i)

\* A kernel starts only after the records of all earlier ones have happened,
\* and those are finished.
Order ==
    /\ happened \subseteq 1 .. records
    /\ \A i \in happened : i \in Calls /\ kernel[i] \in {"ok", "bad"}
    /\ \A i \in Calls : kernel[i] \in {"running", "ok", "bad"} =>
            \A j \in 1 .. i - 1 : j \in happened

\* What release_lifetime_tracking has waited for stays so.
Released ==
    /\ user \in {"release_event", "drain", "shutdown", "join", "gone"} /\ fallback_in_flight
            => queue[fallback_stream] = <<>>
    /\ user \in {"drain", "shutdown", "join", "gone"} /\ completion_recorded
            => LatestHappened

\* The wait of the running kernel.  Without an abort a thread leaves the loop
\* only for data or a slot; after an unwarranted slice the flag is set, so
\* every thread of the next wait stores 0 before it can read the status.
Waits ==
    /\ wait_status = 0 => abort
    /\ unwarranted <= 1 /\ (unwarranted > 0 => abort)
    /\ (slot # "slice" => abort) /\ OverwrittenOnlyAfterFailure
    /\ Running # {} =>
        /\ slice \in 1 .. Len(Program)
        /\ \A t \in Threads \ Program[slice] : At(t, "done")
        /\ \A t \in Program[slice] :
            /\ ~abort /\ wpc[t] \in {"test", "store", "done"} => Ready(t)
            /\ unwarranted > 0 => ~At(t, "store") /\ (~At(t, "enter") => wait_status = 0)

\* The abort flag is set by a thread that goes on to set has_error_.
Recording ==
    /\ tpc \in [ProgressThreads -> {"run", "recording", "exit"}]
    /\ abort => has_error \/ \E t \in ProgressThreads : tpc[t] = "recording"

IInv == /\ TypeInv /\ Tracked /\ Items /\ Once /\ Held /\ Order /\ Released
        /\ Waits /\ Recording /\ GarbageStaysHome
-----------------------------------------------------------------------------
(* Sequences and counting.                                                  *)

\* If the first c calls are the ones with a kernel, there are c of them.
LEMMA CountCalls ==
    ASSUME NEW k, NEW c \in 0 .. MaxCalls, \A i \in Calls : k[i] # "none" <=> i <= c
    PROVE  Cardinality({i \in Calls : k[i] # "none"}) = c
<1>1. MaxCalls \in Nat
  BY CommunicatorAssumption, Zenon
<1>2. {i \in Calls : k[i] # "none"} = 1 .. c
  BY <1>1 DEF Calls
<1>3. Cardinality(1 .. c) = c
  BY <1>1, FS_Interval
<1> QED
  BY <1>2, <1>3, Zenon

\* Taking the first item off a stream moves the others one place forward.
LEMMA Pop ==
    ASSUME NEW q \in Seq(Item), q # <<>>
    PROVE  /\ Tail(q) \in Seq(Item) /\ Len(q) \in Nat /\ Len(q) >= 1
           /\ Len(Tail(q)) = Len(q) - 1 /\ Head(q) = q[1]
           /\ \A p \in 1 .. Len(Tail(q)) : p + 1 \in 1 .. Len(q) /\ Tail(q)[p] = q[p + 1]
<1>1. Len(q) \in Nat /\ Len(q) >= 1
  BY EmptySeq, LenProperties
<1> QED
  BY <1>1, HeadTailProperties

\* The items of a stream are items.
LEMMA ItemType ==
    ASSUME NEW q \in Seq(Item), NEW p \in 1 .. Len(q)
    PROVE  q[p] \in Item /\ q[p].op \in {"wait", "kernel", "record"} /\ q[p].n \in Nat
<1>1. q[p] \in Item
  BY ElementOfSeq, Zenon
<1> QED
  BY <1>1, Zenon DEF Item

\* Concatenations of up to three items.
LEMMA Join ==
    ASSUME NEW a \in Item, NEW b \in Item, NEW c \in Item
    PROVE  /\ <<>> \o <<a>> = <<a>> /\ <<a>> \o <<b>> = <<a, b>>
           /\ <<a, b>> \o <<c>> = <<a, b, c>>
<1>1. <<>> \o <<a>> = <<a>>
  BY ConcatEmptySeq
<1>2. <<a>> \o <<b>> = <<a, b>>
  <2>1. <<a>> \in Seq(Item) /\ <<b>> \in Seq(Item) /\ <<a, b>> \in Seq(Item)
    OBVIOUS
  <2>2. Len(<<a>>) = 1 /\ Len(<<b>>) = 1 /\ Len(<<a, b>>) = 2
    BY Zenon
  <2>3. /\ <<a>> \o <<b>> \in Seq(Item) /\ Len(<<a>> \o <<b>>) = 2
        /\ \A i \in 1 .. 2 : (<<a>> \o <<b>>)[i] = IF i <= 1 THEN <<a>>[i] ELSE <<b>>[i - 1]
    BY <2>1, <2>2, ConcatProperties
  <2>4. \A i \in 1 .. 2 : (<<a>> \o <<b>>)[i] = <<a, b>>[i]
    BY <2>3
  <2> QED
    BY <2>1, <2>2, <2>3, <2>4, SeqEqual, Zenon
<1>3. <<a, b>> \o <<c>> = <<a, b, c>>
  <2>1. <<a, b>> \in Seq(Item) /\ <<c>> \in Seq(Item) /\ <<a, b, c>> \in Seq(Item)
    OBVIOUS
  <2>2. Len(<<a, b>>) = 2 /\ Len(<<c>>) = 1 /\ Len(<<a, b, c>>) = 3
    BY Zenon
  <2>3. /\ <<a, b>> \o <<c>> \in Seq(Item) /\ Len(<<a, b>> \o <<c>>) = 3
        /\ \A i \in 1 .. 3 : (<<a, b>> \o <<c>>)[i] = IF i <= 2 THEN <<a, b>>[i] ELSE <<c>>[i - 2]
    BY <2>1, <2>2, ConcatProperties
  <2>4. \A i \in 1 .. 3 : (<<a, b>> \o <<c>>)[i] = <<a, b, c>>[i]
    BY <2>3
  <2> QED
    BY <2>1, <2>2, <2>3, <2>4, SeqEqual, Zenon
<1> QED
  BY <1>1, <1>2, <1>3, Zenon

\* The work of a call: at most a wait for the latest record, the kernel of the
\* call, and the record after it, in this order.
WorkOk(w, failing) ==
    /\ w \in Seq(Item)
    /\ \A p \in 1 .. Len(w) :
        /\ w[p].op = "wait" => has_launch /\ w[p] = WaitItem(records)
        /\ w[p].op = "kernel" =>
              /\ failing \in {"none", "record"} /\ w[p] = KernelItem(NextCall)
              /\ IF p = 1 THEN ~has_launch ELSE has_launch /\ w[p - 1] = WaitItem(records)
              /\ \A q \in 1 .. Len(w) : w[q].op = "kernel" => q = p
        /\ w[p].op = "record" =>
              /\ failing = "none" /\ w[p] = RecordItem(records + 1)
              /\ p > 1 /\ w[p - 1] = KernelItem(NextCall)
    /\ failing \in {"none", "record"} => \E p \in 1 .. Len(w) : w[p] = KernelItem(NextCall)

\* Every call, whichever of its CUDA calls fails, queues such work.
LEMMA WorkShape ==
    ASSUME records \in Nat, NextCall \in Nat, has_launch \in BOOLEAN,
           NEW failing \in {"none", "wait", "launch", "record"}
    PROVE  WorkOk(Work(failing), failing)
<1> DEFINE W == WaitItem(records)
           K == KernelItem(NextCall)
           R == RecordItem(records + 1)
<1>1. W \in Item /\ K \in Item /\ R \in Item
  BY DEF WaitItem, KernelItem, RecordItem, Item
<1>2. W.op = "wait" /\ K.op = "kernel" /\ R.op = "record"
  BY Zenon DEF WaitItem, KernelItem, RecordItem
<1>3. Wait = (IF has_launch THEN <<W>> ELSE <<>>) /\ Kernel = <<K>> /\ Record = <<R>>
  BY Zenon DEF Wait, Kernel, Record, WaitItem, KernelItem, RecordItem
<1> HIDE DEF W, K, R
<1> DEFINE w == Work(failing)
<1>4. CASE w = <<>> /\ failing \in {"wait", "launch"}
  BY <1>4 DEF WorkOk
<1>5. CASE w = <<W>> /\ has_launch /\ failing = "launch"
  BY <1>1, <1>2, <1>5 DEF WorkOk, W
<1>6. CASE w = <<K>> /\ ~has_launch /\ failing = "record"
  BY <1>1, <1>2, <1>6 DEF WorkOk, K
<1>7. CASE w = <<W, K>> /\ has_launch /\ failing = "record"
  BY <1>1, <1>2, <1>7 DEF WorkOk, W, K
<1>8. CASE w = <<K, R>> /\ ~has_launch /\ failing = "none"
  BY <1>1, <1>2, <1>8 DEF WorkOk, K, R
<1>9. CASE w = <<W, K, R>> /\ has_launch /\ failing = "none"
  BY <1>1, <1>2, <1>9 DEF WorkOk, W, K, R
<1>10. /\ <<>> \o <<K>> = <<K>> /\ <<W>> \o <<K>> = <<W, K>>
       /\ <<K>> \o <<R>> = <<K, R>> /\ <<W, K>> \o <<R>> = <<W, K, R>>
  BY <1>1, Join, Zenon
<1>11. failing = "wait" => w = <<>>
  BY Zenon DEF Work
<1>12. failing = "launch" => w = Wait
  BY Zenon DEF Work
<1>13. failing = "record" => w = Wait \o Kernel
  BY Zenon DEF Work
<1>14. failing = "none" => w = (Wait \o Kernel) \o Record
  BY Zenon DEF Work
<1>15. has_launch => Wait = <<W>>
  BY <1>3, Zenon
<1>16. ~has_launch => Wait = <<>>
  BY <1>3, Zenon
<1> HIDE DEF w
<1>17. CASE has_launch
  BY <1>3, <1>4, <1>5, <1>7, <1>9, <1>10, <1>11, <1>12, <1>13, <1>14, <1>15, <1>17, Zenon
<1>18. CASE ~has_launch
  BY <1>3, <1>4, <1>6, <1>8, <1>10, <1>11, <1>12, <1>13, <1>14, <1>16, <1>18, Zenon
<1> QED
  BY <1>17, <1>18, Zenon DEF w
-----------------------------------------------------------------------------
(* The steps, by what they do to the streams and the tracking of launches.  *)

\* A progress thread or the NIC serves an edge.
EdgeStep == PostSlice \/ Transmit \/ PollCompletion \/ ReceiveSlice

\* The running kernel i is over.
Finish(i, outcome) ==
    /\ i \in Running /\ outcome \in {"ok", "bad"} /\ EndOfSlices(i, outcome)
    /\ UNCHANGED <<records, happened, stream_of>> /\ UNCHANGED <<caller, tracking>>

\* Every step is a call, a step of a stream, the end of a kernel, or leaves
\* the streams, the kernels and the tracking of launches alone.
LEMMA StepCases ==
    ASSUME [Next]_vars
    PROVE  \/ \E s \in Streams, d \in DTypes, f \in {"none", "wait", "launch", "record"} :
                    Call(s, d, f)
           \/ \E s \in Streams : WaitEvent(s)
           \/ \E s \in Streams : RecordEvent(s)
           \/ \E s \in Streams : StartKernel(s)
           \/ \E i \in Calls, o \in {"ok", "bad"} : Finish(i, o)
           \/ UNCHANGED cuda /\ UNCHANGED tracking
<1>1. CASE CallerStep
  <2>1. CASE \E s \in Streams : Synchronize(s)
    BY <2>1, Zenon DEF Synchronize
  <2>2. CASE CheckAsyncError
    BY <2>2, Zenon DEF CheckAsyncError
  <2>3. CASE Destroy
    BY <2>3, Zenon DEF Destroy
  <2> QED
    BY <1>1, <2>1, <2>2, <2>3, Zenon DEF CallerStep
<1>2. CASE DestructorStep
  BY <1>2, Zenon DEF DestructorStep, Release, Drain, ShutdownAndJoin
<1>3. CASE \E s \in Streams : StreamStep(s)
  BY <1>3, Zenon DEF StreamStep
<1>4. CASE \E t \in Threads : BlockStep(t)
  BY <1>4, Zenon DEF BlockStep, KernelPoll
<1>5. CASE EndWait
  <2>1. PICK i \in Running :
            \/ UNCHANGED <<queue, kernel>>
            \/ \E o \in {"ok", "bad"} : EndOfSlices(i, o)
    BY <1>5, Zenon DEF EndWait
  <2>2. UNCHANGED <<records, happened, stream_of>> /\ UNCHANGED <<caller, tracking>>
    BY <1>5, Zenon DEF EndWait
  <2>3. i \in Calls
    BY Zenon DEF Running
  <2> QED
    BY <2>1, <2>2, <2>3, Zenon DEF Finish, cuda
<1>6. CASE EdgeStep
  BY <1>6, Zenon DEF EdgeStep, PostSlice, Transmit, PollCompletion, ReceiveSlice
<1>7. CASE \E t \in {"engine", "send", "recv"} : ProgressStep(t)
  BY <1>7, Zenon DEF ProgressStep, RecordFailure, ExitLoop
<1>8. CASE UNCHANGED vars
  BY <1>8, Zenon DEF vars
<1> QED
  BY <1>1, <1>2, <1>3, <1>4, <1>5, <1>6, <1>7, <1>8, Zenon DEF Next, EdgeStep

\* There are at most MaxCalls calls.
LEMMA CallBound ==
    ASSUME NEW k
    PROVE  Cardinality({i \in Calls : k[i] # "none"}) \in 0 .. MaxCalls
<1> DEFINE C == {i \in Calls : k[i] # "none"}
<1>1. MaxCalls \in Nat
  BY CommunicatorAssumption, Zenon
<1>2. IsFiniteSet(Calls) /\ Cardinality(Calls) = MaxCalls
  BY <1>1, FS_Interval DEF Calls
<1>3. C \subseteq Calls
  BY Zenon
<1>4. IsFiniteSet(C) /\ Cardinality(C) <= Cardinality(Calls)
  BY <1>2, <1>3, FS_Subset, Zenon
<1>5. Cardinality(C) \in Nat
  BY <1>4, FS_CardinalityType, Zenon
<1> QED
  BY <1>1, <1>2, <1>4, <1>5

\* A stream after its first item is taken off, and the other streams.
LEMMA PopItems ==
    ASSUME TypeInv, NEW s \in Streams, queue[s] # <<>>,
           queue' = [queue EXCEPT ![s] = Tail(@)]
    PROVE  /\ queue' \in [Streams -> Seq(Item)]
           /\ \A u \in Streams : u # s => queue'[u] = queue[u]
           /\ Len(queue[s]) \in Nat /\ 1 \in 1 .. Len(queue[s]) /\ Head(queue[s]) = queue[s][1]
           /\ Len(queue'[s]) = Len(queue[s]) - 1
           /\ \A p \in 1 .. Len(queue'[s]) :
                p + 1 \in 1 .. Len(queue[s]) /\ queue'[s][p] = queue[s][p + 1]
<1>1. queue \in [Streams -> Seq(Item)]
  BY Zenon DEF TypeInv
<1>2. queue[s] \in Seq(Item)
  BY <1>1, Zenon
<1>3. queue'[s] = Tail(queue[s])
  BY <1>1, Zenon
<1> QED
  BY <1>1, <1>2, <1>3, Pop

\* A stream after a call, and the other streams.
LEMMA AppendItems ==
    ASSUME TypeInv, NextCall \in Nat, NEW s \in Streams, NEW d \in DTypes,
           NEW f \in {"none", "wait", "launch", "record"}, Call(s, d, f)
    PROVE  /\ WorkOk(Work(f), f) /\ queue' \in [Streams -> Seq(Item)]
           /\ \A u \in Streams : u # s => queue'[u] = queue[u]
           /\ Len(queue[s]) \in Nat /\ Len(Work(f)) \in Nat
           /\ Len(queue'[s]) = Len(queue[s]) + Len(Work(f))
           /\ \A p \in 1 .. Len(queue[s]) : queue'[s][p] = queue[s][p]
           /\ \A p \in 1 .. Len(Work(f)) : queue'[s][Len(queue[s]) + p] = Work(f)[p]
<1> DEFINE w == Work(f)
<1>1. queue \in [Streams -> Seq(Item)]
  BY Zenon DEF TypeInv
<1>2. queue[s] \in Seq(Item)
  BY <1>1, Zenon
<1>3. WorkOk(w, f)
  BY WorkShape, Zenon DEF TypeInv
<1>4. w \in Seq(Item)
  BY <1>3, Zenon DEF WorkOk
<1> HIDE DEF w
<1>5. queue' = [queue EXCEPT ![s] = @ \o w]
  BY Zenon DEF Call, Launch, w
<1>6. queue'[s] = queue[s] \o w /\ \A u \in Streams : u # s => queue'[u] = queue[u]
  BY <1>1, <1>5, Zenon
<1>7. Len(queue[s]) \in Nat /\ Len(w) \in Nat
  BY <1>2, <1>4, LenProperties, Zenon
<1>8. /\ queue[s] \o w \in Seq(Item) /\ Len(queue[s] \o w) = Len(queue[s]) + Len(w)
      /\ \A i \in 1 .. Len(queue[s]) + Len(w) :
            (queue[s] \o w)[i] = IF i <= Len(queue[s]) THEN queue[s][i] ELSE w[i - Len(queue[s])]
  BY <1>2, <1>4, ConcatProperties, Zenon
<1>9. queue' \in [Streams -> Seq(Item)]
  BY <1>1, <1>5, <1>8, Zenon
<1>10. \A p \in 1 .. Len(queue[s]) : queue'[s][p] = queue[s][p]
  BY <1>6, <1>7, <1>8
<1>11. \A p \in 1 .. Len(w) : queue'[s][Len(queue[s]) + p] = w[p]
  <2> SUFFICES ASSUME NEW p \in 1 .. Len(w)
               PROVE  queue'[s][Len(queue[s]) + p] = w[p]
    BY Zenon
  <2>1. /\ Len(queue[s]) + p \in 1 .. Len(queue[s]) + Len(w) /\ ~(Len(queue[s]) + p <= Len(queue[s]))
        /\ Len(queue[s]) + p - Len(queue[s]) = p
    BY <1>7
  <2> QED
    BY <1>6, <1>8, <2>1
<1> QED
  BY <1>3, <1>6, <1>7, <1>8, <1>9, <1>10, <1>11, SMTT(30) DEF w

\* A kernel that is first in its stream and starts is alone: the kernels
\* before it are finished, and the later ones wait for its record.
LEMMA StartIsAlone ==
    ASSUME TypeInv, Items, Order, NEW s \in Streams, StartKernel(s),
           NEW i, i = Head(queue[s]).n
    PROVE  /\ i \in Calls /\ kernel[i] = "queued" /\ Running = {}
           /\ queue[s][1] = KernelItem(i) /\ 1 \in 1 .. Len(queue[s]) /\ stream_of[i] = s
           /\ \A j \in 1 .. i - 1 : j \in happened
<1>1. queue[s] \in Seq(Item) /\ queue[s] # <<>>
  BY Zenon DEF TypeInv, StartKernel
<1>2. 1 \in 1 .. Len(queue[s]) /\ Head(queue[s]) = queue[s][1]
  BY <1>1, Pop
<1>3. queue[s][1] \in Item /\ queue[s][1].op = "kernel" /\ queue[s][1].n = i
  BY <1>1, <1>2, ItemType, Zenon DEF StartKernel
<1>4. queue[s][1] = KernelItem(i)
  BY <1>3, Zenon DEF Item, KernelItem
<1>5. i \in Calls /\ stream_of[i] = s /\ (i = 1 \/ i - 1 \in happened)
  BY <1>2, <1>3 DEF Items, ItemOk
<1>6. kernel[i] = "queued"
  BY Zenon DEF StartKernel
<1>7. i \in Nat /\ MaxCalls \in Nat
  BY <1>5, CommunicatorAssumption DEF Calls
<1>8. \A j \in 1 .. i - 1 : j \in happened
  <2>1. CASE i = 1
    BY <2>1
  <2>2. CASE i - 1 \in happened
    <3>1. i - 1 \in Calls /\ kernel[i - 1] \in {"ok", "bad"}
      BY <2>2, Zenon DEF Order
    <3>2. \A j \in 1 .. (i - 1) - 1 : j \in happened
      BY <3>1, Zenon DEF Order
    <3> QED
      BY <1>7, <2>2, <3>2
  <2> QED
    BY <1>5, <2>1, <2>2, Zenon
<1>9. ASSUME NEW k \in Calls, kernel[k] = "running" PROVE FALSE
  <2>1. k \in Nat /\ k # i
    BY <1>6, <1>9 DEF Calls
  <2>2. CASE k < i
    <3>1. k \in happened
      BY <1>7, <1>8, <1>9, <2>1, <2>2 DEF Calls
    <3> QED
      BY <1>9, <3>1, Zenon DEF Order
  <2>3. CASE i < k
    <3>1. i \in 1 .. k - 1
      BY <1>5, <1>7, <2>1, <2>3 DEF Calls
    <3>2. i \in happened
      BY <1>9, <3>1, Zenon DEF Order
    <3> QED
      BY <1>6, <3>2, Zenon DEF Order
  <2> QED
    BY <1>7, <2>1, <2>2, <2>3
<1> QED
  BY <1>2, <1>4, <1>5, <1>6, <1>8, <1>9 DEF Running

\* At most one kernel runs.
LEMMA OneRuns ==
    ASSUME Order, NEW i \in Running
    PROVE  Running = {i}
<1>1. MaxCalls \in Nat
  BY CommunicatorAssumption, Zenon
<1>2. \A a, b \in Running : ~(a < b)
  <2> SUFFICES ASSUME NEW a \in Running, NEW b \in Running, a < b
               PROVE  FALSE
    BY Zenon
  <2>1. a \in 1 .. b - 1 /\ a \in Calls /\ b \in Calls
    BY <1>1 DEF Running, Calls
  <2>2. a \in happened
    BY <2>1, Zenon DEF Order, Running
  <2> QED
    BY <2>1, <2>2, Zenon DEF Order, Running
<1>3. \A a \in Running : a \in Nat
  BY <1>1 DEF Running, Calls
<1> QED
  BY <1>2, <1>3
-----------------------------------------------------------------------------
(* What every step preserves.                                               *)

\* The invariant holds before the first call.
LEMMA InitInv == Init => IInv
<1> SUFFICES ASSUME Init PROVE IInv
  BY Zenon
<1>1. TypeInv
  BY EmptySeq, Zenon DEF Init, TypeInv, Places, Item
<1>2. MaxCalls \in Nat /\ 0 \in 0 .. MaxCalls
  BY CommunicatorAssumption
<1>3. \A i \in Calls : kernel[i] = "none" /\ i > 0
  BY <1>2 DEF Init, Calls
<1>4. NextCall = 1
  <2>1. \A i \in Calls : kernel[i] # "none" <=> i <= 0
    BY <1>2, <1>3 DEF Calls
  <2>2. Cardinality({i \in Calls : kernel[i] # "none"}) = 0
    BY <1>2, <2>1, CountCalls, Zenon
  <2> QED
    BY <2>2 DEF NextCall
<1>5. Tracked
  <2>1. records = 0 /\ has_launch = FALSE /\ completion_recorded = FALSE
        /\ fallback_in_flight = FALSE /\ has_untracked_launch = FALSE
    BY Zenon DEF Init
  <2>2. \A i \in Calls : kernel[i] # "none" <=> i < NextCall
    BY <1>2, <1>3, <1>4 DEF Calls
  <2>3. (records > 0) = FALSE
    BY <2>1
  <2>4. NextCall \in Nat /\ NextCall = records + 1
    BY <1>4, <2>1
  <2> QED
    BY <2>1, <2>2, <2>3, <2>4, Zenon DEF Tracked
<1>6. \A s \in Streams : queue[s] = <<>> /\ Len(queue[s]) = 0
  BY Zenon DEF Init
<1>7. Items /\ Once
  BY <1>6 DEF Items, Once
<1>8. Held /\ Order
  BY <1>3, Zenon DEF Held, InFlight, Order, Init
<1>9. Released
  BY Zenon DEF Released, Init
<1>10. Running = {}
  BY <1>3, Zenon DEF Running
<1>11. Waits
  BY <1>10 DEF Waits, OverwrittenOnlyAfterFailure, Init
<1>12. Recording
  BY Zenon DEF Recording, Init
<1>13. GarbageStaysHome
  BY Zenon DEF GarbageStaysHome, Init
<1> QED
  BY <1>1, <1>5, <1>7, <1>8, <1>9, <1>11, <1>12, <1>13, SMTT(30) DEF IInv

\* The streams, the kernels and the tracking members keep their types.
LEMMA NextCudaType ==
    ASSUME TypeInv, Tracked, [Next]_vars
    PROVE  /\ slot_elems' \in [DTypes -> {0, 1}]
           /\ has_launch' \in BOOLEAN /\ has_untracked_launch' \in BOOLEAN
           /\ fallback_in_flight' \in BOOLEAN /\ completion_recorded' \in BOOLEAN
           /\ queue' \in [Streams -> Seq(Item)] /\ records' \in Nat
           /\ kernel' \in [Calls -> {"none", "queued", "running", "ok", "bad"}]
           /\ stream_of' \in [Calls -> Streams \cup {AnyStream}]
<1>1. CASE \E s \in Streams, d \in DTypes, f \in {"none", "wait", "launch", "record"} :
                Call(s, d, f)
  <2> PICK s \in Streams, d \in DTypes, f \in {"none", "wait", "launch", "record"} : Call(s, d, f)
    BY <1>1, Zenon
  <2>1. queue' \in [Streams -> Seq(Item)]
    BY AppendItems, Zenon DEF Tracked
  <2>2. slot_elems' \in [DTypes -> {0, 1}] /\ records' \in Nat
    BY DEF TypeInv, Call, Launch
  <2>3. /\ has_launch' \in BOOLEAN /\ has_untracked_launch' \in BOOLEAN
        /\ fallback_in_flight' \in BOOLEAN /\ completion_recorded' \in BOOLEAN
    BY Zenon DEF TypeInv, Call, Launch, Track
  <2>4. /\ kernel' \in [Calls -> {"none", "queued", "running", "ok", "bad"}]
        /\ stream_of' \in [Calls -> Streams \cup {AnyStream}]
    BY Zenon DEF TypeInv, Call, Launch
  <2> QED
    BY <2>1, <2>2, <2>3, <2>4, Zenon
<1>2. CASE \E s \in Streams : WaitEvent(s)
  <2> PICK s \in Streams : WaitEvent(s)
    BY <1>2, Zenon
  <2>1. queue' \in [Streams -> Seq(Item)]
    BY PopItems, Zenon DEF WaitEvent
  <2> QED
    BY <2>1, Zenon DEF WaitEvent, TypeInv, tracking
<1>3. CASE \E s \in Streams : RecordEvent(s)
  <2> PICK s \in Streams : RecordEvent(s)
    BY <1>3
  <2>1. queue' \in [Streams -> Seq(Item)]
    BY PopItems, Zenon DEF RecordEvent
  <2> QED
    BY <2>1, Zenon DEF RecordEvent, TypeInv, tracking
<1>4. CASE \E s \in Streams : StartKernel(s)
  BY <1>4, Zenon DEF StartKernel, TypeInv, tracking
<1>5. CASE \E i \in Calls, o \in {"ok", "bad"} : Finish(i, o)
  <2> PICK i \in Calls, o \in {"ok", "bad"} : Finish(i, o)
    BY <1>5, Zenon
  <2>1. queue' \in [Streams -> Seq(Item)]
    BY PopItems, Zenon DEF Finish, EndOfSlices
  <2> QED
    BY <2>1, Zenon DEF Finish, EndOfSlices, TypeInv, tracking
<1>6. CASE UNCHANGED cuda /\ UNCHANGED tracking
  BY <1>6, Zenon DEF cuda, tracking, TypeInv
<1> QED
  BY <1>1, <1>2, <1>3, <1>4, <1>5, <1>6, StepCases, Zenon

\* The calls with a kernel stay the first ones, and only the latest can lack a
\* record: a call after that is refused.
LEMMA NextTracked ==
    ASSUME TypeInv, Tracked, [Next]_vars
    PROVE  Tracked'
<1>0. MaxCalls \in Nat /\ NextCall \in Nat
  BY CommunicatorAssumption, Zenon DEF Tracked
<1>1. CASE \E s \in Streams, d \in DTypes, f \in {"none", "wait", "launch", "record"} :
                Call(s, d, f)
  <2> PICK s \in Streams, d \in DTypes, f \in {"none", "wait", "launch", "record"} : Call(s, d, f)
    BY <1>1
  <2>1. NextCall \in Calls /\ ~has_untracked_launch
    BY Zenon DEF Call, Admits
  <2>2. NextCall = records + 1 /\ records \in Nat
    BY <2>1, Zenon DEF Tracked, TypeInv
  <2>3. /\ fallback_stream' = s /\ fallback_in_flight' = (f # "none")
        /\ completion_recorded' = (completion_recorded \/ f = "none")
        /\ has_launch' = (has_launch \/ f = "none")
        /\ has_untracked_launch' = (f # "none")
    BY Zenon DEF Call, Launch, Track
  <2>4. records' = IF f = "none" THEN records + 1 ELSE records
    BY Zenon DEF Call, Launch
  <2>5. has_launch' = (records' > 0) /\ completion_recorded' = (records' > 0)
    <3>1. has_launch = (records > 0) /\ completion_recorded = (records > 0)
      BY Zenon DEF Tracked
    <3>2. CASE f = "none"
      <4>1. (records' > 0) = TRUE
        BY <2>2, <2>4, <3>2
      <4> QED
        BY <2>3, <3>2, <4>1, Zenon
    <3>3. CASE f # "none"
      <4>1. records' = records
        BY <2>4, <3>3, Zenon
      <4>2. has_launch \in BOOLEAN /\ completion_recorded \in BOOLEAN
        BY Zenon DEF TypeInv
      <4>3. has_launch' = has_launch /\ completion_recorded' = completion_recorded
        BY <2>3, <3>3, <4>2, Zenon
      <4> QED
        BY <3>1, <4>1, <4>3, Zenon
    <3> QED
      BY <3>2, <3>3, Zenon
  <2>6. fallback_in_flight' = has_untracked_launch' /\ fallback_stream' \in Streams
    BY <2>3, Zenon
  <2>7. CASE f \in {"none", "record"}
    <3>1. /\ kernel' = [kernel EXCEPT ![NextCall] = "queued"]
          /\ stream_of' = [stream_of EXCEPT ![NextCall] = s]
      BY <2>7, Zenon DEF Call, Launch
    <3>2. \A i \in Calls : kernel[i] # "none" <=> i < NextCall
      BY Zenon DEF Tracked
    <3>3. \A i \in Calls : kernel'[i] # "none" <=> i <= NextCall
      BY <1>0, <2>1, <3>1, <3>2 DEF Calls, TypeInv
    <3>4. NextCall \in 0 .. MaxCalls
      BY <1>0, <2>1 DEF Calls
    <3>5. Cardinality({i \in Calls : kernel'[i] # "none"}) = NextCall
      BY <3>3, <3>4, CountCalls, Zenon
    <3>6. NextCall' = NextCall + 1
      BY <3>5, Zenon DEF NextCall
    <3>7. NextCall' \in Nat /\ \A i \in Calls : kernel'[i] # "none" <=> i < NextCall'
      BY <1>0, <3>3, <3>6 DEF Calls
    <3>8. stream_of'[NextCall] = s
      BY <2>1, <3>1, Zenon DEF TypeInv
    <3>9. CASE f = "none"
      <4>1. NextCall' = records' + 1
        BY <2>2, <2>4, <3>6, <3>9, Zenon
      <4> QED
        BY <2>5, <2>6, <3>7, <4>1, Zenon DEF Tracked
    <3>10. CASE f = "record"
      <4>1. NextCall' = records' + 2 /\ stream_of'[records' + 1] = fallback_stream'
        BY <2>2, <2>3, <2>4, <3>6, <3>8, <3>10
      <4>2. has_untracked_launch'
        BY <2>3, <3>10, Zenon
      <4> QED
        BY <2>5, <2>6, <3>7, <4>1, <4>2, Zenon DEF Tracked
    <3> QED
      BY <2>7, <3>9, <3>10, Zenon
  <2>8. CASE f \in {"wait", "launch"}
    <3>1. kernel' = kernel /\ records' = records
      BY <2>4, <2>8, Zenon DEF Call, Launch
    <3>2. NextCall' = NextCall
      BY <3>1, Zenon DEF NextCall
    <3>3. NextCall' \in Nat /\ \A i \in Calls : kernel'[i] # "none" <=> i < NextCall'
      BY <3>1, <3>2, Zenon DEF Tracked
    <3>4. NextCall' = records' + 1
      BY <2>2, <3>1, <3>2, Zenon
    <3> QED
      BY <2>5, <2>6, <3>3, <3>4, Zenon DEF Tracked
  <2> QED
    BY <2>7, <2>8, Zenon
<1>2. ASSUME \A i \in Calls : kernel'[i] # "none" <=> kernel[i] # "none",
             UNCHANGED <<records, stream_of>>, UNCHANGED tracking
      PROVE  Tracked'
  <2>1. {i \in Calls : kernel'[i] # "none"} = {i \in Calls : kernel[i] # "none"}
    BY <1>2, Zenon
  <2>2. NextCall' = NextCall
    BY <2>1, Zenon DEF NextCall
  <2> QED
    BY <1>2, <2>2, Zenon DEF Tracked, tracking
<1>3. CASE \E s \in Streams : WaitEvent(s)
  BY <1>2, <1>3, Zenon DEF WaitEvent
<1>4. CASE \E s \in Streams : RecordEvent(s)
  BY <1>2, <1>4, Zenon DEF RecordEvent
<1>5. CASE \E s \in Streams : StartKernel(s)
  BY <1>2, <1>5 DEF StartKernel, TypeInv
<1>6. CASE \E i \in Calls, o \in {"ok", "bad"} : Finish(i, o)
  BY <1>2, <1>6, Zenon DEF Finish, EndOfSlices, Running, TypeInv
<1>7. CASE UNCHANGED cuda /\ UNCHANGED tracking
  BY <1>2, <1>7, Zenon DEF cuda
<1> QED
  BY <1>1, <1>3, <1>4, <1>5, <1>6, <1>7, StepCases

\* An item that keeps its place in its stream stays in order, if its kernel is
\* still in flight or, for a record, still over.
LEMMA SameItem ==
    ASSUME TypeInv, Items, NEW s \in Streams, NEW p \in 1 .. Len(queue[s]),
           queue'[s][p] = queue[s][p], p > 1 => queue'[s][p - 1] = queue[s][p - 1],
           records' \in Nat, records <= records', happened \subseteq happened',
           queue[s][p].op = "kernel" =>
                LET i == queue[s][p].n
                IN  /\ kernel'[i] \in {"queued", "running"} /\ stream_of'[i] = stream_of[i]
                    /\ kernel'[i] = "running" => p = 1,
           queue[s][p].op = "record" /\ p = 1 => kernel'[queue[s][p].n] \in {"ok", "bad"}
    PROVE  ItemOk(s, p)'
<1> DEFINE x == queue[s][p]
<1>1. ItemOk(s, p)
  BY Zenon DEF Items
<1>2. p \in Nat /\ p >= 1 /\ records \in Nat /\ x.n \in Nat
  <2>1. queue[s] \in Seq(Item) /\ records \in Nat
    BY Zenon DEF TypeInv
  <2>2. Len(queue[s]) \in Nat
    BY <2>1, LenProperties, Zenon
  <2> QED
    BY <2>1, <2>2, ItemType
<1>3. x.op = "wait" => x.n \in 1 .. records'
  BY <1>1, <1>2, SMTT(30) DEF ItemOk
<1>4. x.op = "kernel" =>
        /\ x.n \in Calls /\ kernel'[x.n] \in {"queued", "running"} /\ stream_of'[x.n] = s
        /\ kernel'[x.n] = "running" => p = 1
        /\ IF p = 1 THEN x.n = 1 \/ x.n - 1 \in happened'
                    ELSE queue'[s][p - 1] = WaitItem(x.n - 1)
  BY <1>1, <1>2 DEF ItemOk
<1>5. x.op = "record" =>
        /\ x.n \in 1 .. records'
        /\ IF p = 1 THEN kernel'[x.n] \in {"ok", "bad"}
                    ELSE queue'[s][p - 1] = KernelItem(x.n)
  BY <1>1, <1>2 DEF ItemOk
<1>6. queue'[s][p] = x
  BY Zenon
<1> HIDE DEF x
<1> QED
  BY <1>3, <1>4, <1>5, <1>6, Zenon DEF ItemOk, WaitItem, KernelItem

\* Before the first record there is nothing in any stream, unless a launch is
\* untracked.
LEMMA EmptyAtFirst ==
    ASSUME TypeInv, Tracked, Items, records = 0, NextCall = 1, NEW s \in Streams
    PROVE  Len(queue[s]) = 0
<1>1. queue[s] \in Seq(Item) /\ Len(queue[s]) \in Nat
  BY LenProperties, Zenon DEF TypeInv
<1>2. ASSUME NEW p \in 1 .. Len(queue[s]) PROVE FALSE
  <2>1. ItemOk(s, p) /\ queue[s][p].op \in {"wait", "kernel", "record"}
    BY <1>1, <1>2, ItemType, Zenon DEF Items
  <2>2. CASE queue[s][p].op \in {"wait", "record"}
    BY <2>1, <2>2 DEF ItemOk
  <2>3. CASE queue[s][p].op = "kernel"
    <3>1. queue[s][p].n \in Calls /\ kernel[queue[s][p].n] # "none"
      BY <2>1, <2>3, Zenon DEF ItemOk
    <3>2. queue[s][p].n < 1
      BY <3>1, Zenon DEF Tracked
    <3> QED
      BY <3>1, <3>2, CommunicatorAssumption DEF Calls
  <2> QED
    BY <2>1, <2>2, <2>3, Zenon
<1>3. Len(queue[s]) >= 1 => 1 \in 1 .. Len(queue[s])
  BY <1>1
<1> QED
  BY <1>1, <1>2, <1>3

\* The kernel of the next call is not in any stream yet.
LEMMA FreshCall ==
    ASSUME TypeInv, Tracked, Items, NEW s \in Streams, NEW p \in 1 .. Len(queue[s]),
           queue[s][p].op = "kernel"
    PROVE  queue[s][p].n \in Calls /\ queue[s][p].n # NextCall
<1>1. queue[s][p].n \in Calls /\ kernel[queue[s][p].n] # "none"
  BY Zenon DEF Items, ItemOk
<1>2. queue[s][p].n < NextCall
  BY <1>1, Zenon DEF Tracked
<1> QED
  BY <1>1, <1>2, CommunicatorAssumption DEF Calls, Tracked

\* A call appends work that is in order behind what is there.
LEMMA CallItems ==
    ASSUME TypeInv, Tracked, Items, NEW s \in Streams, NEW d \in DTypes,
           NEW f \in {"none", "wait", "launch", "record"}, Call(s, d, f)
    PROVE  Items'
<1> DEFINE L == Len(queue[s])
           w == Work(f)
<1>1. NextCall \in Calls /\ ~has_untracked_launch /\ NextCall \in Nat
  BY Zenon DEF Call, Admits, Tracked
<1>2. NextCall = records + 1 /\ records \in Nat /\ MaxCalls \in Nat
  BY <1>1, CommunicatorAssumption, Zenon DEF Tracked, TypeInv
<1>3. /\ WorkOk(w, f) /\ queue' \in [Streams -> Seq(Item)]
      /\ \A u \in Streams : u # s => queue'[u] = queue[u]
      /\ L \in Nat /\ Len(w) \in Nat /\ Len(queue'[s]) = L + Len(w)
      /\ \A p \in 1 .. L : queue'[s][p] = queue[s][p]
      /\ \A p \in 1 .. Len(w) : queue'[s][L + p] = w[p]
  <2>1. WorkOk(w, f) /\ queue' \in [Streams -> Seq(Item)]
    BY <1>1, AppendItems, Zenon
  <2>2. \A u \in Streams : u # s => queue'[u] = queue[u]
    BY <1>1, AppendItems, Zenon
  <2>3. L \in Nat
    BY <1>1, AppendItems, Zenon
  <2>4. Len(w) \in Nat
    BY <1>1, AppendItems, Zenon
  <2>5. Len(queue'[s]) = L + Len(w)
    BY <1>1, AppendItems, SMTT(30)
  <2>6. \A p \in 1 .. L : queue'[s][p] = queue[s][p]
    BY <1>1, AppendItems, Zenon
  <2>7. \A p \in 1 .. Len(w) : queue'[s][L + p] = w[p]
    BY <1>1, AppendItems, Zenon
  <2> QED
    BY <2>1, <2>2, <2>3, <2>4, <2>5, <2>6, <2>7, Zenon
<1>4. /\ records' = IF f = "none" THEN records + 1 ELSE records
      /\ happened' = happened
      /\ f \in {"none", "record"} => /\ kernel' = [kernel EXCEPT ![NextCall] = "queued"]
                                     /\ stream_of' = [stream_of EXCEPT ![NextCall] = s]
      /\ f \notin {"none", "record"} => kernel' = kernel /\ stream_of' = stream_of
  BY Zenon DEF Call, Launch
<1>5. \A i \in Calls : i # NextCall => kernel'[i] = kernel[i] /\ stream_of'[i] = stream_of[i]
  BY <1>4, Zenon DEF TypeInv
<1>6. records' \in Nat /\ records <= records' /\ happened \subseteq happened'
  BY <1>2, <1>4
<1>7. ASSUME NEW u \in Streams, NEW p \in 1 .. Len(queue[u]),
             queue'[u][p] = queue[u][p], p > 1 => queue'[u][p - 1] = queue[u][p - 1]
      PROVE  ItemOk(u, p)'
  <2>1. ItemOk(u, p)
    BY Zenon DEF Items
  <2>2. queue[u][p].op = "kernel" =>
            LET i == queue[u][p].n
            IN  /\ kernel'[i] \in {"queued", "running"} /\ stream_of'[i] = stream_of[i]
                /\ kernel'[i] = "running" => p = 1
    BY <1>5, <2>1, FreshCall, Zenon DEF ItemOk
  <2>3. queue[u][p].op = "record" /\ p = 1 => kernel'[queue[u][p].n] \in {"ok", "bad"}
    <3> SUFFICES ASSUME queue[u][p].op = "record", p = 1
                 PROVE  kernel'[queue[u][p].n] \in {"ok", "bad"}
      BY Zenon
    <3>1. queue[u][p].n \in 1 .. records /\ kernel[queue[u][p].n] \in {"ok", "bad"}
      BY <2>1, Zenon DEF ItemOk
    <3>2. queue[u][p].n \in Calls /\ queue[u][p].n # NextCall
      BY <1>1, <1>2, <3>1 DEF Calls
    <3> QED
      BY <1>5, <3>1, <3>2, Zenon
  <2> QED
    BY <1>6, <1>7, <2>2, <2>3, SameItem, Zenon
<1>8. ASSUME NEW p, NEW r \in 1 .. Len(w), p = L + r
      PROVE  ItemOk(s, p)'
  <2> DEFINE x == w[r]
  <2>1. queue'[s][L + r] = x /\ L + r \in Nat /\ r \in Nat /\ r >= 1 /\ L \in Nat
    BY <1>3
  <2>2. r > 1 => queue'[s][L + r - 1] = w[r - 1]
    <3> SUFFICES ASSUME r > 1 PROVE queue'[s][L + r - 1] = w[r - 1]
      BY Zenon
    <3>1. r - 1 \in 1 .. Len(w) /\ L + (r - 1) = L + r - 1
      BY <1>3, <2>1
    <3> QED
      BY <1>3, <3>1, Zenon
  <2>3. has_launch = (records > 0)
    BY Zenon DEF Tracked
  <2>4. x.op = "wait" => x.n \in 1 .. records'
    <3> SUFFICES ASSUME x.op = "wait" PROVE x.n \in 1 .. records'
      BY Zenon
    <3>1. has_launch /\ x = WaitItem(records)
      BY <1>3, Zenon DEF WorkOk
    <3>2. x.n = records
      BY <3>1 DEF WaitItem
    <3>3. records > 0
      BY <2>3, <3>1, Zenon
    <3> QED
      BY <1>2, <1>6, <3>2, <3>3
  <2>5. ASSUME x.op = "kernel"
        PROVE  /\ x.n \in Calls /\ kernel'[x.n] \in {"queued", "running"} /\ stream_of'[x.n] = s
               /\ kernel'[x.n] = "running" => p = 1
               /\ IF p = 1 THEN x.n = 1 \/ x.n - 1 \in happened'
                           ELSE queue'[s][p - 1] = WaitItem(x.n - 1)
    <3>1. /\ f \in {"none", "record"} /\ x = KernelItem(NextCall)
          /\ IF r = 1 THEN ~has_launch ELSE has_launch /\ w[r - 1] = WaitItem(records)
      BY <1>3, <2>5, Zenon DEF WorkOk
    <3>2. x.n = NextCall
      BY <3>1 DEF KernelItem
    <3>3. kernel'[NextCall] = "queued" /\ stream_of'[NextCall] = s
      BY <1>1, <1>4, <3>1, Zenon DEF TypeInv
    <3>4. x.n \in Calls /\ kernel'[x.n] = "queued" /\ stream_of'[x.n] = s
      BY <1>1, <3>2, <3>3, Zenon
    <3>5. CASE r = 1
      <4>0. ~(records > 0)
        BY <2>3, <3>1, <3>5, Zenon
      <4>1. records = 0 /\ NextCall = 1
        BY <1>2, <4>0
      <4>2. L = 0
        BY <4>1, EmptyAtFirst, Zenon
      <4>3. x.n = 1 /\ p = 1
        BY <1>8, <3>2, <3>5, <4>1, <4>2
      <4> QED
        BY <3>4, <4>3, Zenon
    <3>6. CASE r # 1
      <4>1. w[r - 1] = WaitItem(records) /\ records = x.n - 1
        BY <1>2, <2>1, <3>1, <3>2, <3>6
      <4>2. p # 1 /\ queue'[s][p - 1] = w[r - 1]
        <5> HIDE DEF L, w, x
        <5>1. r > 1 /\ p # 1 /\ p - 1 = L + r - 1
          BY <1>8, <2>1, <3>6
        <5> QED
          BY <2>2, <5>1, Zenon
      <4>3. queue'[s][p - 1] = WaitItem(x.n - 1)
        BY <4>1, <4>2, Zenon
      <4> QED
        BY <3>4, <4>2, <4>3, Zenon
    <3> QED
      BY <3>5, <3>6, Zenon
  <2>6. ASSUME x.op = "record"
        PROVE  /\ x.n \in 1 .. records'
               /\ IF p = 1 THEN kernel'[x.n] \in {"ok", "bad"}
                           ELSE queue'[s][p - 1] = KernelItem(x.n)
    <3>1. f = "none" /\ x = RecordItem(records + 1) /\ r > 1 /\ w[r - 1] = KernelItem(NextCall)
      BY <1>3, <2>6, Zenon DEF WorkOk
    <3>2. x.n = records + 1 /\ records' = records + 1
      BY <1>4, <3>1 DEF RecordItem
    <3>3. NextCall = x.n /\ x.n \in 1 .. records'
      BY <1>2, <1>4, <3>1, <3>2
    <3>4. p # 1 /\ queue'[s][p - 1] = w[r - 1]
      <4>1. r > 1
        BY <3>1, Zenon
      <4> HIDE DEF L, w, x
      <4>2. p # 1 /\ p - 1 = L + r - 1
        BY <1>8, <2>1, <4>1
      <4> QED
        BY <2>2, <4>1, <4>2, Zenon
    <3>5. queue'[s][p - 1] = KernelItem(x.n)
      BY <3>1, <3>3, <3>4, Zenon
    <3> QED
      BY <3>3, <3>4, <3>5, Zenon
  <2>7. queue'[s][p] = x
    BY <1>8, <2>1, Zenon
  <2> HIDE DEF x
  <2> QED
    BY <2>4, <2>5, <2>6, <2>7 DEF ItemOk, WaitItem, KernelItem
<1>9. ASSUME NEW u \in Streams, NEW p \in 1 .. Len(queue'[u]) PROVE ItemOk(u, p)'
  <2>1. CASE u # s
    <3>1. queue'[u] = queue[u]
      BY <1>3, <2>1, Zenon
    <3> QED
      BY <1>7, <3>1, Zenon
  <2>2. CASE u = s /\ p <= L
    <3>1. p \in 1 .. L /\ (p > 1 => p - 1 \in 1 .. L)
      BY <1>3, <2>2
    <3>2. queue'[u][p] = queue[u][p] /\ (p > 1 => queue'[u][p - 1] = queue[u][p - 1])
      BY <1>3, <2>2, <3>1, Zenon
    <3> QED
      BY <1>7, <2>2, <3>1, <3>2, Zenon
  <2>3. CASE u = s /\ ~(p <= L)
    <3>1. p - L \in 1 .. Len(w) /\ L + (p - L) = p
      BY <1>3, <2>3
    <3>2. ItemOk(s, p)'
      BY <1>8, <3>1, Zenon
    <3> QED
      BY <2>3, <3>2, Zenon
  <2> QED
    BY <2>1, <2>2, <2>3, Zenon
<1> QED
  BY <1>9, Zenon DEF Items

\* Taking the first item off a stream keeps the others in order, if the item
\* behind it may be first and the kernels of the other items do not change.
LEMMA PopOk ==
    ASSUME TypeInv, Items, NEW s \in Streams, queue[s] # <<>>,
           queue' = [queue EXCEPT ![s] = Tail(@)],
           records' = records, stream_of' = stream_of, happened \subseteq happened',
           \A u \in Streams : \A p \in 1 .. Len(queue[u]) :
                queue[u][p].op = "kernel" /\ ~(u = s /\ p = 1) =>
                    kernel'[queue[u][p].n] = kernel[queue[u][p].n],
           \A u \in Streams : \A p \in 1 .. Len(queue[u]) :
                queue[u][p].op = "record" /\ p = 1 => kernel'[queue[u][p].n] \in {"ok", "bad"},
           2 \in 1 .. Len(queue[s]) =>
                /\ queue[s][2].op = "kernel" => queue[s][2].n - 1 \in happened'
                /\ queue[s][2].op = "record" => kernel'[queue[s][2].n] \in {"ok", "bad"}
    PROVE  Items'
<1>1. /\ queue' \in [Streams -> Seq(Item)] /\ \A u \in Streams : u # s => queue'[u] = queue[u]
      /\ Len(queue[s]) \in Nat /\ Len(queue'[s]) = Len(queue[s]) - 1
      /\ \A p \in 1 .. Len(queue'[s]) :
            p + 1 \in 1 .. Len(queue[s]) /\ queue'[s][p] = queue[s][p + 1]
  BY PopItems, Zenon
<1>2. ASSUME NEW u \in Streams, NEW p \in 1 .. Len(queue'[u]) PROVE ItemOk(u, p)'
  <2>1. CASE u # s
    <3>1. queue'[u] = queue[u] /\ p \in 1 .. Len(queue[u]) /\ records' \in Nat /\ records <= records'
      BY <1>1, <2>1 DEF TypeInv
    <3>2. ItemOk(u, p)
      BY <3>1, Zenon DEF Items
    <3>3. queue[u][p].op = "kernel" =>
            LET i == queue[u][p].n
            IN  /\ kernel'[i] \in {"queued", "running"} /\ stream_of'[i] = stream_of[i]
                /\ kernel'[i] = "running" => p = 1
      BY <2>1, <3>1, <3>2, Zenon DEF ItemOk
    <3>4. queue[u][p].op = "record" /\ p = 1 => kernel'[queue[u][p].n] \in {"ok", "bad"}
      BY <3>1, Zenon
    <3> QED
      BY <3>1, <3>3, <3>4, SameItem, ZenonT(40)
  <2>2. CASE u = s
    <3> DEFINE x == queue[s][p + 1]
    <3>1. /\ p \in 1 .. Len(queue'[s]) /\ p + 1 \in 1 .. Len(queue[s]) /\ queue'[s][p] = x
          /\ p \in Nat /\ p >= 1 /\ p + 1 # 1
      BY <1>1, <2>2
    <3>2. ItemOk(s, p + 1)
      BY <3>1, Zenon DEF Items
    <3>3. (p + 1) - 1 = p /\ (p # 1 => queue'[s][p - 1] = queue[s][p])
      <4>1. (p + 1) - 1 = p
        BY <3>1
      <4>2. p # 1 => p - 1 \in 1 .. Len(queue'[s]) /\ (p - 1) + 1 = p
        BY <1>1, <3>1
      <4> QED
        BY <1>1, <4>1, <4>2, Zenon
    <3>4. x.op = "wait" => x.n \in 1 .. records'
      BY <3>2, Zenon DEF ItemOk
    <3>5. ASSUME x.op = "kernel"
          PROVE  /\ x.n \in Calls /\ kernel'[x.n] \in {"queued", "running"} /\ stream_of'[x.n] = s
                 /\ kernel'[x.n] = "running" => p = 1
                 /\ IF p = 1 THEN x.n = 1 \/ x.n - 1 \in happened'
                             ELSE queue'[s][p - 1] = WaitItem(x.n - 1)
      <4>1. /\ x.n \in Calls /\ kernel[x.n] = "queued" /\ stream_of[x.n] = s
            /\ queue[s][p] = WaitItem(x.n - 1)
        BY <3>1, <3>2, <3>3, <3>5, Zenon DEF ItemOk
      <4>2. kernel'[x.n] = kernel[x.n]
        BY <3>1, <3>5, Zenon
      <4>3. p = 1 => x.n - 1 \in happened'
        BY <3>1, <3>5
      <4> QED
        BY <3>3, <4>1, <4>2, <4>3, Zenon
    <3>6. ASSUME x.op = "record"
          PROVE  /\ x.n \in 1 .. records'
                 /\ IF p = 1 THEN kernel'[x.n] \in {"ok", "bad"}
                             ELSE queue'[s][p - 1] = KernelItem(x.n)
      <4>1. x.n \in 1 .. records /\ queue[s][p] = KernelItem(x.n)
        BY <3>1, <3>2, <3>3, <3>6, Zenon DEF ItemOk
      <4>2. p = 1 => kernel'[x.n] \in {"ok", "bad"}
        BY <3>1, <3>6
      <4> QED
        BY <3>3, <4>1, <4>2, Zenon
    <3>7. queue'[s][p] = x
      BY <3>1, Zenon
    <3> HIDE DEF x
    <3>8. ItemOk(s, p)'
      BY <3>4, <3>5, <3>6, <3>7, Zenon DEF ItemOk, WaitItem, KernelItem
    <3> QED
      BY <2>2, <3>8, Zenon
  <2> QED
    BY <2>1, <2>2, Zenon
<1> QED
  BY <1>2, Zenon DEF Items

\* What the second item of a stream says about the first.
LEMMA Second ==
    ASSUME TypeInv, Items, NEW s \in Streams, 2 \in 1 .. Len(queue[s])
    PROVE  /\ queue[s][2].op = "kernel" =>
                queue[s][1].op = "wait" /\ queue[s][2].n - 1 = queue[s][1].n
           /\ queue[s][2].op = "record" =>
                queue[s][1].op = "kernel" /\ queue[s][2].n = queue[s][1].n
<1>1. ItemOk(s, 2)
  BY Zenon DEF Items
<1>2. queue[s][2].op = "kernel" => queue[s][1] = WaitItem(queue[s][2].n - 1)
  BY <1>1 DEF ItemOk
<1>3. queue[s][2].op = "record" => queue[s][1] = KernelItem(queue[s][2].n)
  BY <1>1 DEF ItemOk
<1> QED
  BY <1>2, <1>3 DEF WaitItem, KernelItem

\* Every record is of a call.
LEMMA RecordCalls ==
    ASSUME TypeInv, Tracked
    PROVE  1 .. records \subseteq Calls
<1>1. NextCall - 1 \in 0 .. MaxCalls /\ MaxCalls \in Nat
  BY CallBound, CommunicatorAssumption DEF NextCall
<1> QED
  BY <1>1 DEF TypeInv, Tracked, Calls

\* Two kernels with the same number are one item.
LEMMA OneItem ==
    ASSUME TypeInv, Items, Once, NEW s \in Streams, NEW p \in 1 .. Len(queue[s]),
           NEW u \in Streams, NEW r \in 1 .. Len(queue[u]),
           queue[s][p].op = "kernel", queue[u][r].op = "kernel", queue[s][p].n = queue[u][r].n
    PROVE  s = u /\ p = r
<1>1. queue[s] \in Seq(Item) /\ queue[u] \in Seq(Item)
  BY Zenon DEF TypeInv
<1>2. queue[s][p] \in Item /\ queue[u][r] \in Item
  BY <1>1, ItemType, Zenon
<1>3. queue[s][p] = queue[u][r]
  BY <1>2 DEF Item
<1>4. s = u
  BY DEF Items, ItemOk
<1> QED
  BY <1>3, <1>4, Zenon DEF Once

\* Every step keeps what is known of each queued item.
LEMMA NextItems ==
    ASSUME TypeInv, Tracked, Items, Once, Order, [Next]_vars
    PROVE  Items'
<1>0. records \in Nat /\ \A u \in Streams : queue[u] \in Seq(Item)
  BY Zenon DEF TypeInv
<1>1. CASE \E s \in Streams, d \in DTypes, f \in {"none", "wait", "launch", "record"} :
                Call(s, d, f)
  BY <1>1, CallItems, Zenon
<1>2. CASE \E s \in Streams : WaitEvent(s)
  <2> PICK s \in Streams : WaitEvent(s)
    BY <1>2, Zenon
  <2>1. /\ queue[s] # <<>> /\ Head(queue[s]).op = "wait" /\ Head(queue[s]).n \in happened
        /\ queue' = [queue EXCEPT ![s] = Tail(@)]
        /\ records' = records /\ stream_of' = stream_of /\ happened' = happened /\ kernel' = kernel
    BY Zenon DEF WaitEvent
  <2>2. Head(queue[s]) = queue[s][1]
    BY <1>0, <2>1, Pop, Zenon
  <2>3. 2 \in 1 .. Len(queue[s]) =>
            /\ queue[s][2].op = "kernel" => queue[s][2].n - 1 \in happened'
            /\ queue[s][2].op = "record" => kernel'[queue[s][2].n] \in {"ok", "bad"}
    BY <2>1, <2>2, Second, Zenon
  <2>4. \A u \in Streams : \A p \in 1 .. Len(queue[u]) :
            queue[u][p].op = "record" /\ p = 1 => kernel'[queue[u][p].n] \in {"ok", "bad"}
    BY <2>1 DEF Items, ItemOk
  <2> QED
    BY <2>1, <2>3, <2>4, PopOk, Zenon
<1>3. CASE \E s \in Streams : RecordEvent(s)
  <2> PICK s \in Streams : RecordEvent(s)
    BY <1>3
  <2>1. /\ queue[s] # <<>> /\ Head(queue[s]).op = "record" /\ happened \subseteq happened'
        /\ queue' = [queue EXCEPT ![s] = Tail(@)]
        /\ records' = records /\ stream_of' = stream_of /\ kernel' = kernel
    BY Zenon DEF RecordEvent
  <2>2. Head(queue[s]) = queue[s][1]
    BY <1>0, <2>1, Pop, Zenon
  <2>3. 2 \in 1 .. Len(queue[s]) =>
            /\ queue[s][2].op = "kernel" => queue[s][2].n - 1 \in happened'
            /\ queue[s][2].op = "record" => kernel'[queue[s][2].n] \in {"ok", "bad"}
    BY <2>1, <2>2, Second, Zenon
  <2>4. \A u \in Streams : \A p \in 1 .. Len(queue[u]) :
            queue[u][p].op = "record" /\ p = 1 => kernel'[queue[u][p].n] \in {"ok", "bad"}
    BY <2>1 DEF Items, ItemOk
  <2> QED
    BY <2>1, <2>3, <2>4, PopOk, Zenon
<1>4. CASE \E s \in Streams : StartKernel(s)
  <2> PICK s \in Streams : StartKernel(s)
    BY <1>4
  <2> DEFINE i == Head(queue[s]).n
  <2>1. i \in Calls /\ kernel[i] = "queued" /\ queue[s][1] = KernelItem(i) /\ 1 \in 1 .. Len(queue[s])
    BY StartIsAlone
  <2>2. /\ kernel' = [kernel EXCEPT ![i] = "running"] /\ queue' = queue /\ records' = records
        /\ happened' = happened /\ stream_of' = stream_of
    BY Zenon DEF StartKernel
  <2> HIDE DEF i
  <2>3. ASSUME NEW u \in Streams, NEW p \in 1 .. Len(queue[u]) PROVE ItemOk(u, p)'
    <3>1. ItemOk(u, p)
      BY Zenon DEF Items
    <3>2. queue[s][1].op = "kernel" /\ queue[s][1].n = i
      BY <2>1 DEF KernelItem
    <3>3. \A j \in Calls : kernel'[j] = IF j = i THEN "running" ELSE kernel[j]
      BY <2>1, <2>2, Zenon DEF TypeInv
    <3>4. queue[u][p].op = "kernel" =>
            LET j == queue[u][p].n
            IN  /\ kernel'[j] \in {"queued", "running"} /\ stream_of'[j] = stream_of[j]
                /\ kernel'[j] = "running" => p = 1
      <4> SUFFICES ASSUME queue[u][p].op = "kernel"
                   PROVE  LET j == queue[u][p].n
                          IN  /\ kernel'[j] \in {"queued", "running"} /\ stream_of'[j] = stream_of[j]
                              /\ kernel'[j] = "running" => p = 1
        BY Zenon
      <4>1. queue[u][p].n = i => p = 1
        BY <2>1, <3>2, OneItem, Zenon
      <4>2. /\ queue[u][p].n \in Calls /\ kernel[queue[u][p].n] \in {"queued", "running"}
            /\ kernel[queue[u][p].n] = "running" => p = 1
        BY <3>1, Zenon DEF ItemOk
      <4> QED
        BY <2>2, <3>3, <4>1, <4>2, Zenon
    <3>5. queue[u][p].op = "record" /\ p = 1 => kernel'[queue[u][p].n] \in {"ok", "bad"}
      BY <2>1, <3>1, <3>3, RecordCalls, Zenon DEF ItemOk
    <3> QED
      BY <1>0, <2>2, <3>4, <3>5, SameItem, SMTT(30)
  <2> QED
    BY <2>2, <2>3, Zenon DEF Items
<1>5. CASE \E i \in Calls, o \in {"ok", "bad"} : Finish(i, o)
  <2> PICK i \in Calls, o \in {"ok", "bad"} : Finish(i, o)
    BY <1>5, Zenon
  <2>1. /\ kernel[i] = "running" /\ kernel' = [kernel EXCEPT ![i] = o]
        /\ records' = records /\ stream_of' = stream_of /\ happened' = happened
    BY Zenon DEF Finish, EndOfSlices, Running
  <2>2. PICK s \in Streams : /\ queue[s] # <<>> /\ Head(queue[s]) = KernelItem(i)
                             /\ queue' = [queue EXCEPT ![s] = Tail(@)]
    BY Zenon DEF Finish, EndOfSlices, KernelItem
  <2>3. 1 \in 1 .. Len(queue[s]) /\ queue[s][1].op = "kernel" /\ queue[s][1].n = i
        /\ queue[s][1] = KernelItem(i)
    BY <1>0, <2>2, Pop DEF KernelItem
  <2>4. \A j \in Calls : kernel'[j] = IF j = i THEN o ELSE kernel[j]
    BY <2>1, Zenon DEF TypeInv
  <2>5. \A u \in Streams : \A p \in 1 .. Len(queue[u]) :
            queue[u][p].op = "kernel" /\ ~(u = s /\ p = 1) =>
                kernel'[queue[u][p].n] = kernel[queue[u][p].n]
    <3> SUFFICES ASSUME NEW u \in Streams, NEW p \in 1 .. Len(queue[u]),
                        queue[u][p].op = "kernel", ~(u = s /\ p = 1)
                 PROVE  kernel'[queue[u][p].n] = kernel[queue[u][p].n]
      BY Zenon
    <3>1. queue[u][p].n # i
      BY <2>3, OneItem, Zenon
    <3>2. queue[u][p].n \in Calls
      BY Zenon DEF Items, ItemOk
    <3> QED
      BY <2>4, <3>1, <3>2, Zenon
  <2>6. \A u \in Streams : \A p \in 1 .. Len(queue[u]) :
            queue[u][p].op = "record" /\ p = 1 => kernel'[queue[u][p].n] \in {"ok", "bad"}
    BY <2>1, <2>4, RecordCalls DEF Items, ItemOk
  <2>7. 2 \in 1 .. Len(queue[s]) =>
            /\ queue[s][2].op = "kernel" => queue[s][2].n - 1 \in happened'
            /\ queue[s][2].op = "record" => kernel'[queue[s][2].n] \in {"ok", "bad"}
    <3> SUFFICES ASSUME 2 \in 1 .. Len(queue[s])
                 PROVE  /\ queue[s][2].op = "kernel" => queue[s][2].n - 1 \in happened'
                        /\ queue[s][2].op = "record" => kernel'[queue[s][2].n] \in {"ok", "bad"}
      BY Zenon
    <3>1. queue[s][2].op # "kernel"
      BY <2>3, Second, Zenon
    <3>2. queue[s][2].op = "record" => queue[s][2].n = i
      BY <2>3, Second, Zenon
    <3> QED
      BY <2>4, <3>1, <3>2, Zenon
  <2> QED
    BY <2>1, <2>2, <2>5, <2>6, <2>7, PopOk, Zenon
<1>6. CASE UNCHANGED cuda /\ UNCHANGED tracking
  <2>1. /\ queue' = queue /\ records' = records /\ happened' = happened
        /\ kernel' = kernel /\ stream_of' = stream_of
    BY <1>6, Zenon DEF cuda
  <2>2. ASSUME NEW u \in Streams, NEW p \in 1 .. Len(queue[u]) PROVE ItemOk(u, p)'
    <3>1. ItemOk(u, p)
      BY Zenon DEF Items
    <3> QED
      BY <2>1, <3>1, Zenon DEF ItemOk
  <2> QED
    BY <2>1, <2>2, Zenon DEF Items
<1> QED
  BY <1>1, <1>2, <1>3, <1>4, <1>5, <1>6, StepCases, Zenon
=============================================================================
