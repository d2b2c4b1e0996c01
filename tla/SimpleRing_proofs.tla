------------------------- MODULE SimpleRing_proofs -------------------------
(***************************************************************************)
(* Proofs, for every ring, geometry, FIFO depth and sequence of launches,  *)
(* that no rank writes a slot its successor has yet to read, provided that *)
(* a launch starts on a drained edge; the first launch does.               *)
(***************************************************************************)
EXTENDS SimpleRing, TLAPS

(* The inductive invariant.                                                 *)

FifoType ==
    /\ DOMAIN fifo = Ranks
    /\ \A e \in Ranks : /\ DOMAIN fifo[e] = 0 .. fifo_slots - 1
                        /\ \A s \in 0 .. fifo_slots - 1 : "step" \in DOMAIN fifo[e][s]

TypeInv ==
    /\ FifoType
    /\ launch \in [Ranks -> Nat] /\ running \in [Ranks -> BOOLEAN]
    /\ send_step \in [Ranks -> Nat] /\ recv_step \in [Ranks -> Nat]
    /\ send_head_cache \in [Ranks -> Nat] /\ recv_tail_cache \in [Ranks -> Nat]
    /\ send_base_steps \in [Ranks -> Nat] /\ recv_base_steps \in [Ranks -> Nat]
    /\ head \in [Ranks -> Nat] /\ tail \in [Ranks -> Nat]

\* Between launches the registers are the persistent steps.
Saved(r) == ~running[r] => send_base_steps[r] = send_step[r] /\ recv_base_steps[r] = recv_step[r]

\* The counters of an edge, in the order in which a slice passes them; the
\* cached values are old ones.
Ordered(e) ==
    /\ send_head_cache[e] <= head[e] /\ head[e] <= recv_step[Succ(e)]
    /\ recv_tail_cache[Succ(e)] <= tail[e] /\ recv_step[Succ(e)] <= tail[e]
    /\ tail[e] <= send_step[e] /\ send_step[e] <= recv_step[Succ(e)] + fifo_slots

\* Every slice that has been written and not read is in its slot.
Kept(e) == \A k \in recv_step[Succ(e)] .. send_step[e] - 1 : fifo[e][Slot(k)].step = k

IInv == TypeInv /\ \A e \in Ranks : Saved(e) /\ Ordered(e) /\ Kept(e)

\* The successor has consumed what earlier launches have sent on r's edge.
Drained(r) == head[r] >= send_base_steps[r]
StartsDrained == \A r \in Ranks : StartKernel(r) => Drained(r)
-----------------------------------------------------------------------------
(* The ring and the slots.                                                  *)

\* The successor of the predecessor, and back.
LEMMA Ring ==
    ASSUME NEW r \in Ranks
    PROVE  /\ Succ(r) \in Ranks /\ Pred(r) \in Ranks
           /\ Succ(Pred(r)) = r /\ Pred(Succ(r)) = r
           /\ \A q \in Ranks : Succ(q) = r => q = Pred(r)
<1>1. kRanks \in Nat /\ kRanks >= 2
  BY GeometryAssumption, Zenon
<1>2. \A q \in Ranks : Succ(q) = IF q = kRanks - 1 THEN 0 ELSE q + 1
  BY <1>1 DEF Succ, Ranks
<1>3. \A q \in Ranks : Pred(q) = IF q = 0 THEN kRanks - 1 ELSE q - 1
  BY <1>1 DEF Pred, Ranks
<1> QED
  BY <1>1, <1>2, <1>3 DEF Ranks

\* Two slices less than a FIFO apart have different slots.
LEMMA SlotsDiffer ==
    ASSUME NEW i \in Nat, NEW j \in Nat, i < j, j < i + fifo_slots
    PROVE  Slot(i) # Slot(j)
<1>1. fifo_slots \in Nat \ {0}
  BY RingAssumption, Zenon
<1>2. /\ i = fifo_slots * (i \div fifo_slots) + (i % fifo_slots) /\ i \div fifo_slots \in Int
      /\ j = fifo_slots * (j \div fifo_slots) + (j % fifo_slots) /\ j \div fifo_slots \in Int
  BY <1>1
<1>3. PICK d \in Int : d = (j \div fifo_slots) - (i \div fifo_slots)
  BY <1>2
<1>4. SUFFICES ASSUME i % fifo_slots = j % fifo_slots PROVE FALSE
  BY Zenon DEF Slot
<1>5. j - i = fifo_slots * d
  BY <1>1, <1>2, <1>3, <1>4
<1>6. d >= 1 => fifo_slots * d >= fifo_slots
  BY <1>1
<1>7. d <= 0 => fifo_slots * d <= 0
  BY <1>1
<1> QED
  BY <1>1, <1>5, <1>6, <1>7

\* A slice has a slot.
LEMMA SlotIn == \A k \in Nat : Slot(k) \in 0 .. fifo_slots - 1
  BY RingAssumption DEF Slot
-----------------------------------------------------------------------------
(* The steps of a rank.                                                     *)

\* A slice operation: what Move does to the counters and to the FIFO of r.
Moves(r, recv, send) ==
    /\ recv => RecvReady(r)
    /\ send => SendCredit(r)
    /\ recv_tail_cache' = [recv_tail_cache EXCEPT ![r] = IF recv THEN RecvTail(r) ELSE @]
    /\ send_head_cache' = [send_head_cache EXCEPT ![r] = IF send THEN SendHead(r) ELSE @]
    /\ send_step' = [send_step EXCEPT ![r] = IF send THEN @ + 1 ELSE @]
    /\ recv_step' = [recv_step EXCEPT ![r] = IF recv THEN @ + 1 ELSE @]
    /\ IF send THEN \E l, a, n, o :
            fifo' = [fifo EXCEPT ![r][Slot(send_step[r])] =
                        [step |-> send_step[r], launch |-> l, at |-> a, n |-> n, of |-> o]]
       ELSE fifo' = fifo

\* Move is one for some operation of the program.
LEMMA MoveCases ==
    ASSUME NEW r \in Ranks, Move(r)
    PROVE  \E recv \in BOOLEAN, send \in BOOLEAN : Moves(r, recv, send)
<1> DEFINE o == Program(r)[ip[r]]
           recv == o.op \in Receives
           send == o.op \in Sends
           received == Content(fifo[Pred(r)][Slot(recv_step[r])])
           moved == CASE ~recv -> Input(r, o)
                      [] recv /\ o.op \in Reduces /\ ~Early(o) ->
                            Combine(received, Input(r, o))
                      [] OTHER -> received
<1>1. /\ recv => RecvReady(r)
      /\ send => SendCredit(r)
      /\ recv_tail_cache' = [recv_tail_cache EXCEPT ![r] = IF recv THEN RecvTail(r) ELSE @]
      /\ send_head_cache' = [send_head_cache EXCEPT ![r] = IF send THEN SendHead(r) ELSE @]
      /\ fifo' = IF send
                 THEN [fifo EXCEPT ![r][Slot(send_step[r])] =
                         [step |-> send_step[r], launch |-> moved.launch,
                          at |-> moved.at, n |-> moved.n, of |-> moved.of]]
                 ELSE fifo
      /\ send_step' = [send_step EXCEPT ![r] = IF send THEN @ + 1 ELSE @]
      /\ recv_step' = [recv_step EXCEPT ![r] = IF recv THEN @ + 1 ELSE @]
  BY Zenon DEF Move
<1>2. recv \in BOOLEAN /\ send \in BOOLEAN
  BY DEF Receives, Sends
<1> HIDE DEF moved, recv, send
<1>3. Moves(r, recv, send)
  BY <1>1, Zenon DEF Moves
<1> QED
  BY <1>2, <1>3, Zenon

\* The values that end the waits are old values of the counters.
LEMMA Old ==
    ASSUME TypeInv, NEW r \in Ranks, Ordered(r), Ordered(Pred(r))
    PROVE  /\ SendHead(r) \in Nat
           /\ SendHead(r) <= head[r] /\ RecvTail(r) \in Nat /\ RecvTail(r) <= tail[Pred(r)]
<1>1. Pred(r) \in Ranks /\ Succ(Pred(r)) = r
  BY Ring, Zenon
<1>2. SendHead(r) \in Nat /\ SendHead(r) <= head[r]
  BY DEF TypeInv, Ordered, SendHead
<1>3. recv_tail_cache[r] <= tail[Pred(r)]
  BY <1>1, Zenon DEF Ordered
<1>4. RecvTail(r) \in Nat /\ RecvTail(r) <= tail[Pred(r)]
  BY <1>1, <1>3 DEF TypeInv, RecvTail
<1> QED
  BY <1>2, <1>4, Zenon

\* The reduction in place changes no step number.
LEMMA ReduceKeeps ==
    ASSUME FifoType, NEW r \in Ranks, ReduceLocal(r)
    PROVE  /\ DOMAIN fifo' = Ranks
           /\ \A e \in Ranks : /\ DOMAIN fifo'[e] = DOMAIN fifo[e]
                               /\ \A s \in DOMAIN fifo[e] : /\ "step" \in DOMAIN fifo'[e][s]
                                                            /\ fifo'[e][s].step = fifo[e][s].step
<1>1. PICK slot, v : fifo' = [fifo EXCEPT ![r][slot].of = v] \/ fifo' = fifo
  BY Zenon DEF ReduceLocal
<1>2. CASE fifo' = fifo
  BY <1>2, Zenon DEF FifoType
<1>3. CASE fifo' = [fifo EXCEPT ![r][slot].of = v]
  <2>1. /\ DOMAIN fifo' = Ranks /\ \A e \in Ranks : DOMAIN fifo'[e] = DOMAIN fifo[e]
    BY <1>3, Zenon DEF FifoType
  <2>2. \A e \in Ranks : \A s \in DOMAIN fifo[e] :
            fifo'[e][s] = fifo[e][s] \/ fifo'[e][s] = [fifo[e][s] EXCEPT !.of = v]
    BY <1>3, Zenon DEF FifoType
  <2>3. ASSUME NEW f, "step" \in DOMAIN f, NEW g, g = [f EXCEPT !.of = v]
        PROVE  "step" \in DOMAIN g /\ g.step = f.step
    BY <2>3, Zenon
  <2> QED
    <3>1. ASSUME NEW e \in Ranks, NEW s \in DOMAIN fifo[e]
          PROVE  "step" \in DOMAIN fifo'[e][s] /\ fifo'[e][s].step = fifo[e][s].step
      <4>1. "step" \in DOMAIN fifo[e][s]
        BY Zenon DEF FifoType
      <4>2. CASE fifo'[e][s] = fifo[e][s]
        BY <4>1, <4>2, Zenon
      <4>3. CASE fifo'[e][s] = [fifo[e][s] EXCEPT !.of = v]
        BY <2>3, <4>1, <4>3
      <4> QED
        BY <2>2, <4>2, <4>3
    <3> QED
      BY <2>1, <3>1
<1> QED
  BY <1>1, <1>2, <1>3, SMTT(30)

\* The types, after any step.
LEMMA NextType ==
    ASSUME IInv, NEW r \in Ranks, RankStep(r)
    PROVE  TypeInv'
<1>0. TypeInv /\ Ordered(r) /\ Ordered(Pred(r)) /\ Pred(r) \in Ranks
  BY Ring, Zenon DEF IInv
<1>1. CASE StartKernel(r)
  <2>1. FifoType'
    BY <1>0, <1>1, Zenon DEF StartKernel, TypeInv, FifoType, edges
  <2>2. launch' \in [Ranks -> Nat] /\ running' \in [Ranks -> BOOLEAN]
    <3>1. launch' = [launch EXCEPT ![r] = @ + 1] /\ running' = [running EXCEPT ![r] = TRUE]
      BY <1>1, Zenon DEF StartKernel
    <3>2. launch \in [Ranks -> Nat] /\ running \in [Ranks -> BOOLEAN]
      BY <1>0, Zenon DEF TypeInv
    <3> QED
      BY <3>1, <3>2
  <2>3. /\ send_step' \in [Ranks -> Nat] /\ recv_step' \in [Ranks -> Nat]
        /\ send_head_cache' \in [Ranks -> Nat] /\ recv_tail_cache' \in [Ranks -> Nat]
    BY <1>0, <1>1, Zenon DEF StartKernel, TypeInv
  <2> QED
    BY <1>0, <1>1, <2>1, <2>2, <2>3, Zenon DEF StartKernel, TypeInv, base, edges
<1>2. CASE EndKernel(r)
  BY <1>0, <1>2, Zenon DEF EndKernel, TypeInv, FifoType, registers, edges
<1>3. CASE Move(r)
  <2>1. PICK recv \in BOOLEAN, send \in BOOLEAN : Moves(r, recv, send)
    BY <1>3, MoveCases, Zenon
  <2>2. /\ send_step' \in [Ranks -> Nat] /\ recv_step' \in [Ranks -> Nat]
        /\ send_head_cache' \in [Ranks -> Nat] /\ recv_tail_cache' \in [Ranks -> Nat]
    <3>1. SendHead(r) \in Nat /\ RecvTail(r) \in Nat
      BY <1>0, Old, Zenon
    <3>2. send_step' \in [Ranks -> Nat] /\ recv_step' \in [Ranks -> Nat]
      BY <1>0, <2>1 DEF Moves, TypeInv
    <3>3. send_head_cache' \in [Ranks -> Nat] /\ recv_tail_cache' \in [Ranks -> Nat]
      BY <1>0, <2>1, <3>1, Zenon DEF Moves, TypeInv
    <3> QED
      BY <3>2, <3>3, Zenon
  <2>3. FifoType'
    <3>1. CASE send
      <4>1. PICK l, a, n, o :
                fifo' = [fifo EXCEPT ![r][Slot(send_step[r])] =
                            [step |-> send_step[r], launch |-> l, at |-> a, n |-> n, of |-> o]]
        BY <2>1, <3>1, Zenon DEF Moves
      <4> QED
        BY <1>0, <4>1, Zenon DEF TypeInv, FifoType
    <3>2. CASE ~send
      BY <1>0, <2>1, <3>2 DEF Moves, TypeInv, FifoType
    <3> QED
      BY <3>1, <3>2, Zenon
  <2> QED
    BY <1>0, <1>3, <2>2, <2>3, Zenon DEF Move, TypeInv, base
<1>4. CASE PostRecvCredit(r)
  BY <1>0, <1>4, Zenon DEF PostRecvCredit, TypeInv, FifoType, registers, base
<1>5. CASE ReduceLocal(r)
  <2>2. FifoType'
    BY <1>0, <1>5, ReduceKeeps, ZenonT(40) DEF TypeInv, FifoType
  <2> QED
    BY <1>0, <1>5, <2>2 DEF ReduceLocal, TypeInv, registers, base
<1>6. CASE PostSendReady(r)
  BY <1>0, <1>6, Zenon DEF PostSendReady, TypeInv, FifoType, registers, base
<1> QED
  BY <1>1, <1>2, <1>3, <1>4, <1>5, <1>6, SMTT(30) DEF RankStep

\* A launch starts from the steps where the last one ended.
LEMMA StartFacts ==
    ASSUME TypeInv, NEW r \in Ranks, Saved(r), StartKernel(r)
    PROVE  /\ send_step' = send_step /\ recv_step' = recv_step /\ fifo' = fifo
           /\ head' = head /\ tail' = tail /\ UNCHANGED base
           /\ send_head_cache' = [send_head_cache EXCEPT ![r] = send_step[r]]
           /\ recv_tail_cache' = [recv_tail_cache EXCEPT ![r] = recv_step[r]]
<1>1. send_base_steps[r] = send_step[r] /\ recv_base_steps[r] = recv_step[r]
  BY Zenon DEF Saved, StartKernel
<1>2. send_step' = send_step /\ recv_step' = recv_step
  BY <1>1, Zenon DEF StartKernel, TypeInv
<1> QED
  BY <1>1, <1>2, Zenon DEF StartKernel, edges

\* The persistent steps, after any step.
LEMMA NextSaved ==
    ASSUME IInv, NEW r \in Ranks, RankStep(r), NEW q \in Ranks
    PROVE  Saved(q)'
<1>0. TypeInv /\ Saved(q) /\ Saved(r)
  BY Zenon DEF IInv
<1>1. CASE StartKernel(r)
  <2>1. running'[r] = TRUE /\ \A p \in Ranks \ {r} : running'[p] = running[p]
    BY <1>0, <1>1, Zenon DEF StartKernel, TypeInv
  <2> QED
    BY <1>0, <1>1, <2>1, StartFacts, SMTT(30) DEF Saved, base
<1>2. CASE EndKernel(r)
  BY <1>0, <1>2, Zenon DEF EndKernel, Saved, TypeInv, registers
<1>3. CASE Move(r)
  <2>1. running[r] /\ UNCHANGED <<running, base>>
    BY <1>3, Zenon DEF Move
  <2>2. q # r => send_step'[q] = send_step[q] /\ recv_step'[q] = recv_step[q]
    BY <1>0, <1>3, MoveCases DEF Moves, TypeInv
  <2> QED
    BY <1>0, <2>1, <2>2 DEF Saved, base
<1>4. CASE PostRecvCredit(r) \/ ReduceLocal(r) \/ PostSendReady(r)
  <2>1. UNCHANGED <<running, base, registers>>
    BY <1>4, Zenon DEF PostRecvCredit, ReduceLocal, PostSendReady
  <2> QED
    BY <1>0, <2>1, Zenon DEF Saved, base, registers
<1> QED
  BY <1>1, <1>2, <1>3, <1>4, SMTT(30) DEF RankStep

\* The edge whose sender or receiver does a slice operation.
LEMMA MoveOrdered ==
    ASSUME IInv, NEW r \in Ranks, NEW recv \in BOOLEAN, NEW send \in BOOLEAN,
           Moves(r, recv, send), UNCHANGED <<head, tail>>, NEW e \in Ranks
    PROVE  Ordered(e)' /\ Kept(e)'
<1> DEFINE q == Succ(e)
<1>0. TypeInv /\ Ordered(e) /\ Kept(e) /\ q \in Ranks
  BY Ring, Zenon DEF IInv
<1>1. /\ Ordered(r) /\ Ordered(Pred(r)) /\ Pred(r) \in Ranks /\ (q = r => e = Pred(r)) /\ Succ(Pred(r)) = r
  BY Ring, Zenon DEF IInv
<1>2. /\ SendHead(r) \in Nat /\ SendHead(r) <= head[r]
      /\ RecvTail(r) \in Nat /\ RecvTail(r) <= tail[Pred(r)]
  BY <1>0, <1>1, Old
<1>3. fifo_slots \in Nat \ {0}
  BY RingAssumption, Zenon
<1>4. /\ send_step[e] \in Nat /\ recv_step[q] \in Nat /\ head[e] \in Nat /\ tail[e] \in Nat
      /\ send_head_cache[e] \in Nat /\ recv_tail_cache[q] \in Nat
  BY <1>0, Zenon DEF TypeInv
<1>5. /\ send_step'[e] = send_step[e] /\ send_head_cache'[e] = send_head_cache[e] /\ fifo'[e] = fifo[e]
      \/ /\ e = r /\ send /\ send_step'[e] = send_step[e] + 1 /\ send_head_cache'[e] = SendHead(e)
         /\ SendHead(e) + fifo_slots >= send_step[e] + 1
  <2>1. CASE e = r /\ send
    BY <1>0, <2>1 DEF Moves, TypeInv, SendCredit
  <2>2. CASE ~(e = r /\ send)
    <3>1. send_step'[e] = send_step[e] /\ send_head_cache'[e] = send_head_cache[e]
      BY <1>0, <2>2 DEF Moves, TypeInv
    <3>2. fifo'[e] = fifo[e]
      BY <1>0, <2>2, Zenon DEF Moves, TypeInv, FifoType
    <3> QED
      BY <3>1, <3>2
  <2> QED
    BY <2>1, <2>2
<1>6. \/ recv_step'[q] = recv_step[q] /\ recv_tail_cache'[q] = recv_tail_cache[q]
      \/ /\ q = r /\ recv_step'[q] = recv_step[q] + 1 /\ recv_tail_cache'[q] = RecvTail(q)
         /\ RecvTail(q) >= recv_step[q] + 1
  <2>1. CASE q = r /\ recv
    BY <1>0, <2>1 DEF Moves, TypeInv, RecvReady
  <2>2. CASE ~(q = r /\ recv)
    BY <1>0, <2>2, SMTT(30) DEF Moves, TypeInv
  <2> QED
    BY <2>1, <2>2
<1>7. /\ recv_step'[q] \in Nat /\ recv_step'[q] >= recv_step[q]
      /\ recv_step'[q] <= tail[e] /\ recv_tail_cache'[q] <= tail[e]
  BY <1>0, <1>1, <1>2, <1>4, <1>6, SMTT(30) DEF Ordered
<1>8. /\ send_step'[e] \in Nat /\ send_step'[e] >= send_step[e] /\ send_head_cache'[e] <= head[e]
      /\ send_step'[e] <= recv_step[q] + fifo_slots
  BY <1>0, <1>1, <1>2, <1>3, <1>4, <1>5, SMTT(30) DEF Ordered
<1>9. Ordered(e)'
  <2>1. head[e] <= recv_step[q] /\ tail[e] <= send_step[e]
    BY <1>0, Zenon DEF Ordered
  <2>2. /\ send_head_cache'[e] <= head'[e] /\ head'[e] <= recv_step'[q]
        /\ recv_tail_cache'[q] <= tail'[e] /\ recv_step'[q] <= tail'[e]
        /\ tail'[e] <= send_step'[e] /\ send_step'[e] <= recv_step'[q] + fifo_slots
    BY <1>3, <1>4, <1>7, <1>8, <2>1, SMTT(30)
  <2> QED
    BY <2>2, Zenon DEF Ordered
<1>10. ASSUME NEW k \in recv_step'[q] .. send_step'[e] - 1
       PROVE  fifo'[e][Slot(k)].step = k
  <2>1. k \in Nat /\ k >= recv_step[q] /\ k < send_step'[e]
    BY <1>4, <1>7, <1>8
  <2>2. CASE fifo'[e] = fifo[e] /\ send_step'[e] = send_step[e]
    <3>1. k \in recv_step[q] .. send_step[e] - 1
      BY <1>4, <2>1, <2>2, SMTT(30)
    <3> QED
      BY <1>0, <2>2, <3>1, SMTT(30) DEF Kept
  <2>3. CASE e = r /\ send /\ send_step'[e] = send_step[e] + 1
    <3>1. PICK l, a, n, o :
            fifo' = [fifo EXCEPT ![r][Slot(send_step[r])] =
                        [step |-> send_step[r], launch |-> l, at |-> a, n |-> n, of |-> o]]
      BY <2>3, Zenon DEF Moves
    <3>2. Slot(k) \in DOMAIN fifo[e] /\ Slot(send_step[e]) \in DOMAIN fifo[e]
      BY <1>0, <1>4, <2>1, SlotIn, Zenon DEF TypeInv, FifoType
    <3>3. CASE k = send_step[e]
      BY <1>0, <2>3, <3>1, <3>2, <3>3, SMTT(30) DEF TypeInv, FifoType
    <3>4. CASE k # send_step[e]
      <4>1. k < send_step[e] /\ k \in recv_step[q] .. send_step[e] - 1 /\ send_step[e] < k + fifo_slots
        BY <1>3, <1>4, <1>8, <2>1, <2>3, <3>4, SMTT(30)
      <4>2. Slot(k) # Slot(send_step[e])
        BY <1>4, <2>1, <4>1, SlotsDiffer, SMTT(30)
      <4>3. fifo'[e][Slot(k)] = fifo[e][Slot(k)]
        BY <1>0, <2>3, <3>1, <3>2, <4>2, SMTT(30) DEF TypeInv, FifoType
      <4> QED
        BY <1>0, <4>1, <4>3, SMTT(30) DEF Kept
    <3> QED
      BY <3>3, <3>4
  <2> QED
    BY <1>5, <2>2, <2>3, SMTT(30)
<1> QED
  BY <1>9, <1>10 DEF Kept

\* The edges, after any step of a rank; a launch starts on a drained edge.
LEMMA NextEdge ==
    ASSUME IInv, NEW r \in Ranks, RankStep(r), StartKernel(r) => Drained(r), NEW e \in Ranks
    PROVE  Ordered(e)' /\ Kept(e)'
<1> DEFINE q == Succ(e)
<1>0. TypeInv /\ Saved(r) /\ Ordered(e) /\ Kept(e) /\ q \in Ranks
  BY Ring, Zenon DEF IInv
<1>1. CASE StartKernel(r)
  <2>1. /\ send_step' = send_step /\ recv_step' = recv_step /\ fifo' = fifo
        /\ head' = head /\ tail' = tail
        /\ send_head_cache' = [send_head_cache EXCEPT ![r] = send_step[r]]
        /\ recv_tail_cache' = [recv_tail_cache EXCEPT ![r] = recv_step[r]]
    BY <1>0, <1>1, StartFacts
  <2>2. send_step[r] <= head[r]
    BY <1>0, <1>1, Zenon DEF Drained, Saved, StartKernel, TypeInv
  <2>3. send_head_cache'[e] <= head[e]
    BY <1>0, <2>1, <2>2 DEF TypeInv, Ordered
  <2>4. recv_tail_cache'[q] <= tail[e]
    BY <1>0, <2>1, Zenon DEF TypeInv, Ordered
  <2>5. Ordered(e)'
    BY <1>0, <2>1, <2>3, <2>4, SMTT(30) DEF Ordered
  <2>6. Kept(e)'
    BY <1>0, <2>1, Zenon DEF Kept
  <2> QED
    BY <2>5, <2>6
<1>2. CASE EndKernel(r)
  BY <1>0, <1>2, Zenon DEF EndKernel, registers, edges, Ordered, Kept
<1>3. CASE Move(r)
  <2>1. PICK recv \in BOOLEAN, send \in BOOLEAN : Moves(r, recv, send)
    BY <1>3, MoveCases, Zenon
  <2> QED
    BY <1>3, <2>1, MoveOrdered, Zenon DEF Move
<1>4. CASE PostRecvCredit(r)
  <2>1. UNCHANGED <<registers, tail, fifo>> /\ head' = [head EXCEPT ![Pred(r)] = recv_step[r]]
    BY <1>4, Zenon DEF PostRecvCredit
  <2>2. e = Pred(r) => q = r
    BY Ring, Zenon
  <2>3. head'[e] = head[e] \/ head'[e] = recv_step[q]
    BY <1>0, <2>1, <2>2 DEF TypeInv
  <2>4. send_head_cache[e] <= head'[e] /\ head'[e] <= recv_step[q]
    BY <1>0, <2>3 DEF Ordered, TypeInv
  <2> QED
    BY <1>0, <2>1, <2>4 DEF registers, Ordered, Kept
<1>5. CASE ReduceLocal(r)
  <2>1. UNCHANGED <<registers, head, tail>>
    BY <1>5, Zenon DEF ReduceLocal
  <2>2. Ordered(e)'
    BY <1>0, <2>1, Zenon DEF registers, Ordered
  <2>3. ASSUME NEW k \in recv_step[q] .. send_step[e] - 1
        PROVE  fifo'[e][Slot(k)].step = k
    <3>1. k \in Nat
      BY <1>0 DEF TypeInv
    <3>2. Slot(k) \in DOMAIN fifo[e]
      BY <1>0, <3>1, SlotIn, Zenon DEF TypeInv, FifoType
    <3>3. fifo'[e][Slot(k)].step = fifo[e][Slot(k)].step
      BY <1>0, <1>5, <3>2, ReduceKeeps DEF TypeInv
    <3> QED
      BY <1>0, <3>3, Zenon DEF Kept
  <2> QED
    BY <2>1, <2>2, <2>3, SMTT(30) DEF registers, Kept
<1>6. CASE PostSendReady(r)
  <2>1. UNCHANGED <<registers, head, fifo>> /\ tail' = [tail EXCEPT ![r] = send_step[r]]
    BY <1>6, Zenon DEF PostSendReady
  <2>2. tail'[e] = tail[e] \/ tail'[e] = send_step[e]
    BY <1>0, <2>1, Zenon DEF TypeInv
  <2>3. tail[e] <= tail'[e] /\ tail'[e] <= send_step[e] /\ tail'[e] \in Nat
    BY <1>0, <2>2 DEF Ordered, TypeInv
  <2>4. recv_tail_cache[q] <= tail'[e] /\ recv_step[q] <= tail'[e]
    BY <1>0, <2>3 DEF Ordered, TypeInv
  <2> QED
    BY <1>0, <2>1, <2>3, <2>4, SMTT(30) DEF registers, Ordered, Kept
<1> QED
  BY <1>1, <1>2, <1>3, <1>4, <1>5, <1>6, SMTT(30) DEF RankStep
-----------------------------------------------------------------------------
(* The theorems.                                                            *)

\* The invariant holds before the first launch.
LEMMA InitInv == Init => IInv
<1> SUFFICES ASSUME Init PROVE IInv
  BY Zenon
<1>0. fifo_slots \in Nat \ {0} /\ \A e \in Ranks : Succ(e) \in Ranks
  BY RingAssumption, Ring, Zenon
<1>1. TypeInv
  <2>1. FifoType
    BY <1>0, Zenon DEF Init, FifoType, Nothing
  <2> QED
    BY <2>1, Zenon DEF Init, TypeInv
<1>2. ASSUME NEW e \in Ranks PROVE Saved(e) /\ Ordered(e) /\ Kept(e)
  BY <1>0 DEF Init, Saved, Ordered, Kept
<1> QED
  BY <1>1, <1>2, Zenon DEF IInv

\* Every step that starts no launch on an edge with unread slices keeps it.
LEMMA NextInv == IInv /\ [Next]_vars /\ [StartsDrained]_vars => IInv'
<1> SUFFICES ASSUME IInv, [Next]_vars, [StartsDrained]_vars PROVE IInv'
  BY Zenon
<1>1. CASE UNCHANGED vars
  BY <1>1, Zenon DEF vars, registers, base, edges, IInv, TypeInv, FifoType, Saved, Ordered, Kept
<1>2. ASSUME NEW r \in Ranks, RankStep(r), StartsDrained PROVE IInv'
  <2>1. TypeInv'
    BY <1>2, NextType
  <2>2. ASSUME NEW e \in Ranks PROVE Saved(e)' /\ Ordered(e)' /\ Kept(e)'
    BY <1>2, NextSaved, NextEdge DEF StartsDrained
  <2> QED
    BY <2>1, <2>2, Zenon DEF IInv
<1> QED
  BY <1>1, <1>2, Zenon DEF Next

\* A slice that has been published and not read is one that has been written.
LEMMA InvNotOverwritten == IInv => NoSlotOverwritten
<1> SUFFICES ASSUME IInv, NEW e \in Ranks, NEW k \in recv_step[Succ(e)] .. tail[e] - 1
             PROVE  fifo[e][Slot(k)].step = k
  BY Zenon DEF NoSlotOverwritten
<1>1. TypeInv /\ Ordered(e) /\ Kept(e) /\ Succ(e) \in Ranks
  BY Ring, Zenon DEF IInv
<1>2. k \in recv_step[Succ(e)] .. send_step[e] - 1
  BY <1>1 DEF TypeInv, Ordered
<1> QED
  BY <1>1, <1>2, Zenon DEF Kept

\* ring_simple_kernel.cuh: whatever collectives are called, with whatever
\* counts, no rank writes a slot that its successor has yet to read, as long as
\* every launch finds its outgoing edge drained.  The start of a launch, which
\* takes send_base_step for the successor's head, relies on exactly that.
THEOREM DrainedStartsAreSafe == Spec /\ [][StartsDrained]_vars => []NoSlotOverwritten
  BY InitInv, NextInv, InvNotOverwritten, PTL DEF Spec

\* What is known in the first launch.
FirstInv == /\ launch \in [Ranks -> Nat]
            /\ (\A r \in Ranks : launch[r] <= 1) =>
                    /\ IInv
                    /\ \A r \in Ranks : launch[r] = 0 => send_base_steps[r] = 0 /\ ~running[r]

\* ring_simple_kernel.cuh: on a new communicator the edges are drained, so in
\* the first launch no rank writes a slot that its successor has yet to read.
\* From the second launch on this fails (the run ring_repeat_three_ranks).
THEOREM FirstLaunchIsSafe ==
    Spec => []((\A r \in Ranks : launch[r] <= 1) => NoSlotOverwritten)
<1>1. Init => FirstInv
  BY InitInv DEF Init, FirstInv
<1>2. FirstInv /\ [Next]_vars => FirstInv'
  <2> SUFFICES ASSUME FirstInv, [Next]_vars PROVE FirstInv'
    BY Zenon
  <2>1. CASE UNCHANGED vars
    <3>1. IInv => IInv'
      BY <2>1, NextInv, Zenon
    <3> QED
      BY <2>1, <3>1, Zenon DEF FirstInv, vars, base
  <2>2. ASSUME NEW r \in Ranks, RankStep(r) PROVE FirstInv'
    <3>1. launch' = launch \/ (StartKernel(r) /\ launch' = [launch EXCEPT ![r] = @ + 1])
      BY <2>2, Zenon DEF RankStep, StartKernel, EndKernel, Move, PostRecvCredit, ReduceLocal, PostSendReady
    <3>2. /\ launch' \in [Ranks -> Nat] /\ \A q \in Ranks : launch[q] <= launch'[q]
      BY <3>1 DEF FirstInv
    <3> SUFFICES ASSUME \A q \in Ranks : launch'[q] <= 1
                 PROVE  /\ IInv'
                        /\ \A q \in Ranks : launch'[q] = 0 => send_base_steps'[q] = 0 /\ ~running'[q]
      BY <3>2, Zenon DEF FirstInv
    <3>3. /\ IInv /\ \A q \in Ranks : launch[q] = 0 => send_base_steps[q] = 0 /\ ~running[q]
      <4>1. \A q \in Ranks : launch[q] <= 1
        BY <3>2 DEF FirstInv
      <4> QED
        BY <4>1, Zenon DEF FirstInv
    <3>4. TypeInv
      BY <3>3, Zenon DEF IInv
    <3>5. ASSUME NEW p \in Ranks, StartKernel(p) PROVE Drained(p)
      <4>1. launch[p] = 0
        <5>1. launch'[p] = launch[p] + 1 /\ launch'[p] <= 1 /\ launch[p] \in Nat
          BY <3>4, <3>5 DEF StartKernel, TypeInv
        <5> QED
          BY <5>1
      <4> QED
        BY <3>3, <3>4, <4>1 DEF Drained, TypeInv
    <3>6. IInv'
      BY <2>2, <3>3, <3>5, NextInv, SMTT(30) DEF StartsDrained, Next
    <3>7. ASSUME NEW q \in Ranks, launch'[q] = 0
          PROVE  send_base_steps'[q] = 0 /\ ~running'[q]
      <4>1. launch[q] = 0
        BY <3>2, <3>4, <3>7 DEF TypeInv
      <4>2. send_base_steps[q] = 0 /\ ~running[q]
        BY <3>3, <4>1
      <4>3. CASE StartKernel(r)
        <5>1. q # r
          BY <3>4, <3>7, <4>3, SMTT(30) DEF StartKernel, TypeInv
        <5> QED
          BY <3>4, <4>2, <4>3, <5>1, SMTT(30) DEF StartKernel, TypeInv, base
      <4>4. CASE EndKernel(r)
        BY <3>4, <4>2, <4>4, Zenon DEF EndKernel, TypeInv
      <4>5. CASE Move(r) \/ PostRecvCredit(r) \/ ReduceLocal(r) \/ PostSendReady(r)
        BY <4>2, <4>5, Zenon DEF Move, PostRecvCredit, ReduceLocal, PostSendReady, base
      <4> QED
        BY <2>2, <4>3, <4>4, <4>5 DEF RankStep
    <3> QED
      BY <3>6, <3>7, SMTT(30)
  <2> QED
    BY <2>1, <2>2, Zenon DEF Next
<1>3. FirstInv => ((\A r \in Ranks : launch[r] <= 1) => NoSlotOverwritten)
  BY InvNotOverwritten, Zenon DEF FirstInv
<1> QED
  BY <1>1, <1>2, <1>3, PTL DEF Spec
=============================================================================
