--------------------------- MODULE SinkCacheProofs ---------------------------
(***************************************************************************)
(* Proofs about SinkCache for every value of the constants.                *)
(*                                                                         *)
(* TypeOK is not inductive by itself: the Tail of the live map, of the     *)
(* stored map and of every clone in flight must stay within the number of  *)
(* items sent so far (so that append never leaves Index), the keys still   *)
(* to replay must be keys of the map, and the worker holds a tuple exactly *)
(* while it is busy or completing.  TypeInv adds those facts.              *)
(***************************************************************************)
EXTENDS SinkCache, FiniteSetTheorems, SequenceTheorems, TLAPS

TypeInv ==
    /\ TypeOK
    /\ pending.Tail <= nextItem
    /\ stored.Tail <= nextItem
    /\ \A s \in saving : s.Tail <= nextItem
    /\ loadKeys \subseteq DOMAIN pending.Data
    /\ cpc # "load" => loadKeys = {}
    /\ (sinkPc \in {"busy", "complete"}) => Len(held) = 1

-----------------------------------------------------------------------------
(***************************************************************************)
(* QueueMirrorsPending is not inductive either.  A Complete deletes the    *)
(* first tuple of the pipe from the map, so the others must carry other    *)
(* indices; an accepted item goes to Tail, which must be above every key   *)
(* of the map; the tuple a replay sends must be above the pipe and below   *)
(* the keys still to replay; and a restart loads the stored map, which     *)
(* must be well formed too.  Mirror states the relation for any pipe, map  *)
(* and replay set, so that the lemmas below can be stated once.            *)
(***************************************************************************)
Mirror(P, q, L) ==
    /\ \A i \in 1..Len(P) :
          /\ P[i].index \in DOMAIN q.Data
          /\ q.Data[P[i].index] = P[i].data
    /\ \A i, j \in 1..Len(P) : i < j => P[i].index < P[j].index
    /\ \A i \in 1..Len(P), k \in L : P[i].index < k
    /\ DOMAIN q.Data = {P[i].index : i \in 1..Len(P)} \cup L

(* Every key of a LinkedQueue is below its Tail.                           *)
KeysBelowTail(q) == \A k \in DOMAIN q.Data : k < q.Tail

PipeMirrors == sinkPc # "exited" => Mirror(Pipe, pending, loadKeys)

(* The live map, the stored map and every clone in flight.                 *)
QueuesWellFormed ==
    /\ KeysBelowTail(pending)
    /\ KeysBelowTail(stored)
    /\ \A s \in saving : KeysBelowTail(s)

(* The loop holds a tuple only while sending it, the worker only while     *)
(* busy or completing.                                                     *)
IdleHoldsNothing ==
    /\ cpc # "send" => sending = <<>>
    /\ sinkPc \in {"idle", "exited"} => held = <<>>

MirrorInv == TypeInv /\ PipeMirrors /\ QueuesWellFormed /\ IdleHoldsNothing

-----------------------------------------------------------------------------
(* A map of QueueData is a function from a set of indices to items.        *)
LEMMA QueueDataDef ==
    ASSUME NEW f
    PROVE  f \in QueueData <=> (DOMAIN f \subseteq Index /\ f \in [DOMAIN f -> Item])
<1>1. ASSUME f \in QueueData PROVE DOMAIN f \subseteq Index /\ f \in [DOMAIN f -> Item]
  <2>1. PICK D \in SUBSET Index : f \in [D -> Item]
    BY <1>1 DEF QueueData
  <2>2. DOMAIN f = D
    BY <2>1
  <2>. QED BY <2>1, <2>2
<1>2. ASSUME DOMAIN f \subseteq Index, f \in [DOMAIN f -> Item] PROVE f \in QueueData
  BY <1>2 DEF QueueData
<1>. QED BY <1>1, <1>2

(* append keeps a LinkedQueue a LinkedQueue while Tail stays in Index.     *)
LEMMA AppendType ==
    ASSUME NEW q \in Queue, NEW x \in Item, q.Tail < MaxItems
    PROVE  /\ Append2Queue(q, x) \in Queue
           /\ Append2Queue(q, x).Tail = q.Tail + 1
           /\ DOMAIN Append2Queue(q, x).Data = DOMAIN q.Data \cup {q.Tail}
<1>1. DOMAIN q.Data \subseteq Index /\ q.Data \in [DOMAIN q.Data -> Item]
  BY QueueDataDef DEF Queue
<1>2. q.Tail \in Index /\ q.Tail + 1 \in Index
  BY MaxItemsAssumption DEF Queue, Index
<1>3. Append2Queue(q, x).Data \in QueueData
  BY <1>1, <1>2, QueueDataDef DEF Append2Queue
<1>. QED BY <1>2, <1>3 DEF Append2Queue, Queue

(* delete keeps a LinkedQueue a LinkedQueue and keeps its Tail.           *)
LEMMA DeleteType ==
    ASSUME NEW q \in Queue, NEW i
    PROVE  /\ DeleteFromQueue(q, i) \in Queue
           /\ DeleteFromQueue(q, i).Tail = q.Tail
           /\ DOMAIN DeleteFromQueue(q, i).Data = DOMAIN q.Data \ {i}
<1>1. DOMAIN q.Data \subseteq Index /\ q.Data \in [DOMAIN q.Data -> Item]
  BY QueueDataDef DEF Queue
<1>2. Restrict(q.Data, DOMAIN q.Data \ {i}) \in QueueData
  BY <1>1, QueueDataDef DEF Restrict
<1>. QED BY <1>2 DEF DeleteFromQueue, Queue, Restrict

(* reset keeps a LinkedQueue a LinkedQueue and never raises its Tail.     *)
LEMMA ResetType ==
    ASSUME NEW q \in Queue
    PROVE  /\ ResetQueue(q) \in Queue
           /\ ResetQueue(q).Tail <= q.Tail
           /\ ResetQueue(q).Data = q.Data
BY MaxItemsAssumption DEF ResetQueue, Queue, Index

(* A one-element tuple is a sequence of length one.                       *)
LEMMA SingletonSeq ==
    ASSUME NEW S, NEW x \in S
    PROVE  <<x>> \in Seq(S) /\ Len(<<x>>) = 1
<1>1. <<x>> = Append(<<>>, x)
  OBVIOUS
<1>. QED BY <1>1, EmptySeq, AppendProperties

-----------------------------------------------------------------------------
USE LimitAssumption, MaxItemsAssumption, MaxRestartsAssumption
    DEF Item, Index, CacheTuple

LEMMA InitTypeInv == Init => TypeInv
<1>1. EmptyQueue \in Queue
  <2> DEFINE e == [k \in {} |-> 1]
  <2>1. DOMAIN e = {} /\ e \in [DOMAIN e -> Item]
    OBVIOUS
  <2>2. e \in QueueData
    BY <2>1, QueueDataDef
  <2>. QED BY <2>2 DEF EmptyQueue, Queue
<1>2. <<>> \in Seq(CacheTuple) /\ Len(<<>>) = 0
  BY EmptySeq
<1>3. ASSUME Init PROVE TypeOK
  <2>1. pending \in Queue /\ stored \in Queue
    BY <1>1, <1>3 DEF Init
  <2>2. out \in Seq(CacheTuple) /\ Len(out) <= Limit
    BY <1>2, <1>3 DEF Init
  <2>3. sending \in Seq(CacheTuple) /\ Len(sending) <= 1 /\ held \in Seq(CacheTuple) /\ Len(held) <= 1
    BY <1>2, <1>3 DEF Init
  <2>4. changed \in BOOLEAN /\ saved \in Nat /\ done \in BOOLEAN /\ finalSaved \in BOOLEAN
    BY <1>3 DEF Init
  <2>5. cpc \in {"load", "loop", "send", "stopped"} /\ sinkPc \in {"idle", "busy", "complete", "exited"}
    BY <1>3 DEF Init
  <2>6. loadKeys \subseteq Index /\ saving \subseteq Queue /\ delivered \subseteq Item
    BY <1>3 DEF Init
  <2>7. nextItem \in 0..MaxItems /\ restarts \in 0..MaxRestarts
    BY <1>3 DEF Init
  <2>. QED BY <2>1, <2>2, <2>3, <2>4, <2>5, <2>6, <2>7 DEF TypeOK
<1>4. ASSUME Init PROVE pending.Tail <= nextItem /\ stored.Tail <= nextItem
  BY <1>4 DEF Init, EmptyQueue
<1>5. ASSUME Init PROVE /\ loadKeys \subseteq DOMAIN pending.Data
                        /\ cpc # "load" => loadKeys = {}
  BY <1>5 DEF Init
<1>6. ASSUME Init PROVE sinkPc \notin {"busy", "complete"} /\ saving = {}
  BY <1>6 DEF Init
<1>. QED BY <1>3, <1>4, <1>5, <1>6 DEF TypeInv

LEMMA NextTypeInv == TypeInv /\ [Next]_vars => TypeInv'
<1> SUFFICES ASSUME TypeInv, [Next]_vars PROVE TypeInv'
  OBVIOUS
<1>. USE DEF TypeInv, TypeOK
<1>1. CASE LoadReplay
  <2>1. PICK k \in loadKeys :
           /\ Len(out) < Limit
           /\ out' = Append(out, [index |-> k, data |-> pending.Data[k]])
           /\ loadKeys' = loadKeys \ {k}
    BY <1>1 DEF LoadReplay
  <2>2. k \in DOMAIN pending.Data /\ pending.Data \in [DOMAIN pending.Data -> Item]
    BY <2>1, QueueDataDef DEF Queue
  <2>3. [index |-> k, data |-> pending.Data[k]] \in CacheTuple
    BY <2>2
  <2>4. out' \in Seq(CacheTuple) /\ Len(out') = Len(out) + 1
    BY <2>1, <2>3, AppendProperties
  <2>5. UNCHANGED <<pending, changed, saved, cpc, sending, sinkPc, held, saving,
                    stored, done, nextItem, restarts, delivered, finalSaved>>
    BY <1>1 DEF LoadReplay
  <2>. QED BY <2>1, <2>4, <2>5
<1>2. CASE LoadFinish
  BY <1>2 DEF LoadFinish
<1>3. CASE CacheAccept
  <2>1. pending.Tail < MaxItems /\ nextItem' = nextItem + 1
    BY <1>3 DEF CacheAccept, Queue
  <2>2. nextItem + 1 \in Item
    BY <1>3 DEF CacheAccept
  <2>3. /\ Append2Queue(pending, nextItem + 1) \in Queue
        /\ Append2Queue(pending, nextItem + 1).Tail = pending.Tail + 1
        /\ DOMAIN Append2Queue(pending, nextItem + 1).Data
              = DOMAIN pending.Data \cup {pending.Tail}
    BY <2>1, <2>2, AppendType
  <2>4. [index |-> pending.Tail, data |-> nextItem + 1] \in CacheTuple
    BY <2>1, <2>2 DEF Queue
  <2>5. sending' \in Seq(CacheTuple) /\ Len(sending') = 1
    BY <1>3, <2>4 DEF CacheAccept
  <2>6. UNCHANGED <<out, changed, saved, loadKeys, sinkPc, held, saving, stored,
                    done, restarts, delivered, finalSaved>>
    BY <1>3 DEF CacheAccept
  <2>7. pending' = Append2Queue(pending, nextItem + 1) /\ cpc' = "send"
    BY <1>3 DEF CacheAccept
  <2>8. nextItem' \in 0..MaxItems
    BY <1>3 DEF CacheAccept
  <2>9. TypeOK'
    BY <2>3, <2>5, <2>6, <2>7, <2>8
  <2>10. pending'.Tail <= nextItem' /\ stored.Tail <= nextItem'
         /\ \A sv \in saving : sv.Tail <= nextItem'
    BY <2>1, <2>3, <2>7 DEF Queue
  <2>11. loadKeys = {}
    BY <1>3 DEF CacheAccept
  <2>. QED BY <2>6, <2>7, <2>9, <2>10, <2>11
<1>4. CASE CacheSendOut
  <2>1. out' = out \o sending /\ Len(out) < Limit
    BY <1>4 DEF CacheSendOut
  <2>2. out' \in Seq(CacheTuple) /\ Len(out') = Len(out) + Len(sending)
    BY <2>1, ConcatProperties
  <2>3. sending' = <<>> /\ cpc' = "loop" /\ changed' = TRUE
    BY <1>4 DEF CacheSendOut
  <2>4. UNCHANGED <<pending, saved, loadKeys, sinkPc, held, saving, stored, done,
                    nextItem, restarts, delivered, finalSaved>>
    BY <1>4 DEF CacheSendOut
  <2>5. loadKeys = {}
    BY <1>4 DEF CacheSendOut
  <2>. QED BY <2>1, <2>2, <2>3, <2>4, <2>5, EmptySeq
<1>5. CASE CacheComplete
  <2>1. /\ DeleteFromQueue(pending, held[1].index) \in Queue
        /\ DeleteFromQueue(pending, held[1].index).Tail = pending.Tail
        /\ DOMAIN DeleteFromQueue(pending, held[1].index).Data
              = DOMAIN pending.Data \ {held[1].index}
    BY DeleteType
  <2>2. pending' = DeleteFromQueue(pending, held[1].index)
        /\ changed' = TRUE /\ sinkPc' = "idle" /\ held' = <<>>
    BY <1>5 DEF CacheComplete
  <2>3. UNCHANGED <<out, saved, cpc, loadKeys, sending, saving, stored, done,
                    nextItem, restarts, delivered, finalSaved>>
    BY <1>5 DEF CacheComplete
  <2>4. loadKeys = {}
    BY <1>5 DEF CacheComplete
  <2>. QED BY <2>1, <2>2, <2>3, <2>4, EmptySeq
<1>6. CASE CacheTick
  <2> DEFINE q == ResetQueue(pending)
  <2>1. q \in Queue /\ q.Tail <= pending.Tail /\ q.Data = pending.Data
    BY ResetType
  <2>2. QueueLength(q) \in Nat
    <3>1. DOMAIN q.Data \subseteq Index
      BY <2>1, QueueDataDef DEF Queue
    <3>2. IsFiniteSet(Index)
      BY FS_Interval
    <3>3. IsFiniteSet(DOMAIN q.Data)
      BY <3>1, <3>2, FS_Subset
    <3>. QED BY <3>3, FS_CardinalityType DEF QueueLength
  <2>3. pending' = q /\ changed' = FALSE
    BY <1>6 DEF CacheTick
  <2>4. saved' \in Nat /\ saving' \subseteq Queue /\ \A sv \in saving' : sv.Tail <= nextItem
    <3>1. CASE ShouldSave(QueueLength(q))
      <4>1. saving' = saving \cup {q} /\ saved' = QueueLength(q)
        BY <1>6, <3>1 DEF CacheTick
      <4>. QED BY <4>1, <2>1, <2>2 DEF Queue
    <3>2. CASE ~ShouldSave(QueueLength(q))
      <4>1. saving' = saving /\ saved' = IF changed THEN 0 ELSE saved
        BY <1>6, <3>2 DEF CacheTick
      <4>. QED BY <4>1
    <3>. QED BY <3>1, <3>2
  <2>5. UNCHANGED <<out, cpc, loadKeys, sending, sinkPc, held, stored, done,
                    nextItem, restarts, delivered, finalSaved>>
    BY <1>6 DEF CacheTick
  <2>6. TypeOK'
    BY <2>1, <2>3, <2>4, <2>5
  <2>7. pending'.Tail <= nextItem' /\ loadKeys' \subseteq DOMAIN pending'.Data
    BY <2>1, <2>3, <2>5 DEF Queue
  <2>. QED BY <2>4, <2>5, <2>6, <2>7
<1>7. CASE CacheDone
  BY <1>7 DEF CacheDone
<1>8. CASE SaveLand
  BY <1>8 DEF SaveLand
<1>9. CASE SinkTake
  <2>1. out # <<>> /\ held' = <<Head(out)>> /\ out' = Tail(out) /\ sinkPc' = "busy"
    BY <1>9 DEF SinkTake
  <2>2. Head(out) \in CacheTuple /\ Tail(out) \in Seq(CacheTuple)
        /\ Len(Tail(out)) = Len(out) - 1
    BY <2>1, HeadTailProperties
  <2>3. UNCHANGED <<pending, changed, saved, cpc, loadKeys, sending, saving,
                    stored, done, nextItem, restarts, delivered, finalSaved>>
    BY <1>9 DEF SinkTake
  <2>4. <<Head(out)>> \in Seq(CacheTuple) /\ Len(<<Head(out)>>) = 1
    BY <2>2, SingletonSeq
  <2>. QED BY <2>1, <2>2, <2>3, <2>4
<1>10. CASE SinkDeliver
  <2>1. held[1] \in CacheTuple
    <3>1. Len(held) = 1
      BY <1>10 DEF SinkDeliver
    <3>2. held \in Seq(CacheTuple)
      OBVIOUS
    <3>3. 1 \in 1..Len(held)
      BY <3>1
    <3>. QED BY <3>2, <3>3, ElementOfSeq
  <2>. QED BY <1>10, <2>1 DEF SinkDeliver
<1>11. CASE SinkExit
  BY <1>11, EmptySeq DEF SinkExit
<1>12. CASE Cancel
  BY <1>12 DEF Cancel
<1>13. CASE Restart
  <2>1. stored.Data \in QueueData
    BY DEF Queue
  <2>2. DOMAIN stored.Data \subseteq Index
    BY <2>1, QueueDataDef
  <2>3. /\ pending' = stored /\ loadKeys' = DOMAIN stored.Data
        /\ out' = <<>> /\ cpc' = "load" /\ sinkPc' = "idle"
        /\ changed' = FALSE /\ saved' = 0 /\ done' = FALSE /\ finalSaved' = FALSE
        /\ restarts' = restarts + 1 /\ restarts < MaxRestarts
    BY <1>13 DEF Restart
  <2>4. UNCHANGED <<sending, held, saving, stored, nextItem, delivered>>
    BY <1>13 DEF Restart
  <2>5. <<>> \in Seq(CacheTuple) /\ Len(<<>>) = 0
    BY EmptySeq
  <2>6. restarts' \in 0..MaxRestarts
    BY <2>3
  <2>7. /\ pending' \in Queue /\ stored' \in Queue /\ saving' \subseteq Queue
        /\ loadKeys' \subseteq Index
    BY <2>2, <2>3, <2>4
  <2>8. /\ out' \in Seq(CacheTuple) /\ Len(out') <= Limit
        /\ sending' \in Seq(CacheTuple) /\ Len(sending') <= 1
        /\ held' \in Seq(CacheTuple) /\ Len(held') <= 1
    BY <2>3, <2>4, <2>5
  <2>9. /\ changed' \in BOOLEAN /\ saved' \in Nat /\ done' \in BOOLEAN
        /\ finalSaved' \in BOOLEAN /\ cpc' \in {"load", "loop", "send", "stopped"}
        /\ sinkPc' \in {"idle", "busy", "complete", "exited"}
        /\ nextItem' \in 0..MaxItems /\ delivered' \subseteq Item
    BY <2>3, <2>4
  <2>10. TypeOK'
    BY <2>6, <2>7, <2>8, <2>9
  <2>. QED BY <2>3, <2>4, <2>10 DEF Queue
<1>14. CASE UNCHANGED vars
  BY <1>14 DEF vars
<1>. QED BY <1>1, <1>2, <1>3, <1>4, <1>5, <1>6, <1>7, <1>8, <1>9, <1>10,
            <1>11, <1>12, <1>13, <1>14 DEF Next

(* Every reachable state is well typed; in particular Out never holds more *)
(* than its capacity and the Tail of every LinkedQueue stays an index.     *)
THEOREM TypeCorrect == Spec => []TypeOK
<1>1. Init => TypeInv
  BY InitTypeInv
<1>2. TypeInv /\ [Next]_vars => TypeInv'
  BY NextTypeInv
<1>3. TypeInv => TypeOK
  BY DEF TypeInv
<1>. QED BY <1>1, <1>2, <1>3, PTL DEF Spec

-----------------------------------------------------------------------------
(* Facts about the pipe's sequences.                                       *)

(* A sequence of length one is the one-element tuple of its element.       *)
(* An index of a sequence one longer is an old index or the new last one. *)
LEMMA IntervalSplit ==
    ASSUME NEW n \in Nat, NEW j \in 1..n + 1
    PROVE  j \in 1..n \/ j = n + 1
OBVIOUS

LEMMA LenOneSeq ==
    ASSUME NEW S, NEW s \in Seq(S), Len(s) = 1
    PROVE  s = <<s[1]>> /\ s[1] \in S
<1>1. s[1] \in S
  <2>1. s \in [1..Len(s) -> S]
    BY LenProperties
  <2>. QED BY <2>1
<1>2. <<s[1]>> \in Seq(S) /\ Len(<<s[1]>>) = 1
  BY <1>1, SingletonSeq, Zenon
<1>3. \A i \in 1..Len(s) : s[i] = <<s[1]>>[i]
  OBVIOUS
<1>. QED BY <1>1, <1>2, <1>3, SeqEqual

(* Putting an element in front of a sequence: its head is the element and *)
(* its tail the sequence.                                                  *)
LEMMA ConsProperties ==
    ASSUME NEW S, NEW h \in S, NEW s \in Seq(S)
    PROVE  /\ <<h>> \o s \in Seq(S)
           /\ <<h>> \o s # <<>>
           /\ (<<h>> \o s)[1] = h
           /\ Tail(<<h>> \o s) = s
<1>1. <<h>> \in Seq(S) /\ Len(<<h>>) = 1
  BY SingletonSeq
<1>2. /\ <<h>> \o s \in Seq(S)
      /\ Len(<<h>> \o s) = 1 + Len(s)
      /\ \A i \in 1 .. 1 + Len(s) : (<<h>> \o s)[i] = IF i <= 1 THEN h ELSE s[i - 1]
  BY <1>1, ConcatProperties
<1>3. Len(s) \in Nat
  BY LenProperties
<1>4. <<h>> \o s # <<>>
  BY <1>2, <1>3, EmptySeq
<1>5. /\ Tail(<<h>> \o s) \in Seq(S)
      /\ Len(Tail(<<h>> \o s)) = Len(s)
      /\ \A i \in 1 .. Len(s) : Tail(<<h>> \o s)[i] = s[i]
  BY <1>2, <1>3, <1>4, HeadTailProperties
<1>. QED BY <1>2, <1>3, <1>4, <1>5, SeqEqual

(* A non-empty sequence is its head in front of its tail.                  *)
LEMMA HeadConsTail ==
    ASSUME NEW S, NEW s \in Seq(S), s # <<>>
    PROVE  <<Head(s)>> \o Tail(s) = s
<1>1. Head(s) \in S /\ Tail(s) \in Seq(S) /\ Len(Tail(s)) = Len(s) - 1
      /\ \A i \in 1 .. Len(Tail(s)) : Tail(s)[i] = s[i+1]
  BY HeadTailProperties
<1>2. Len(s) \in Nat /\ Len(s) # 0
  BY LenProperties, EmptySeq
<1>3. <<Head(s)>> \in Seq(S) /\ Len(<<Head(s)>>) = 1
  BY <1>1, SingletonSeq
<1>4. /\ <<Head(s)>> \o Tail(s) \in Seq(S)
      /\ Len(<<Head(s)>> \o Tail(s)) = Len(s)
      /\ \A i \in 1 .. Len(s) : (<<Head(s)>> \o Tail(s))[i] = s[i]
  <2>1. /\ <<Head(s)>> \o Tail(s) \in Seq(S)
        /\ Len(<<Head(s)>> \o Tail(s)) = 1 + Len(Tail(s))
        /\ \A i \in 1 .. 1 + Len(Tail(s)) : (<<Head(s)>> \o Tail(s))[i] =
              IF i <= 1 THEN Head(s) ELSE Tail(s)[i - 1]
    BY <1>1, <1>3, ConcatProperties
  <2>. QED BY <1>1, <1>2, <2>1
<1>. QED BY <1>4, SeqEqual

-----------------------------------------------------------------------------
(* Facts about Mirror and KeysBelowTail under the LinkedQueue operations.  *)

(* Mirror only looks at the map of the queue.                              *)
LEMMA MirrorSameData ==
    ASSUME NEW P, NEW q, NEW r, NEW L, r.Data = q.Data, Mirror(P, q, L)
    PROVE  Mirror(P, r, L)
BY DEF Mirror

(* An empty pipe mirrors a map whose keys are all still to replay.         *)
LEMMA MirrorEmpty ==
    ASSUME NEW q
    PROVE  Mirror(<<>>, q, DOMAIN q.Data)
<1>1. Len(<<>>) = 0
  BY EmptySeq
<1>. QED BY <1>1 DEF Mirror

(* loadCache sends the smallest key still to replay: it joins the pipe.    *)
LEMMA MirrorReplay ==
    ASSUME NEW P \in Seq(CacheTuple), NEW q \in Queue, NEW L \in SUBSET Index,
           NEW k \in L, \A j \in L : k <= j, Mirror(P, q, L)
    PROVE  Mirror(Append(P, [index |-> k, data |-> q.Data[k]]), q, L \ {k})
<1> DEFINE t == [index |-> k, data |-> q.Data[k]]
           P2 == Append(P, t)
           n == Len(P)
<1>0. n \in Nat
  BY LenProperties
<1>1. n \in Nat /\ P \in [1..n -> CacheTuple]
  BY LenProperties
<1>2. k \in DOMAIN q.Data
  BY DEF Mirror
<1>3. t \in CacheTuple
  <2>1. q.Data \in [DOMAIN q.Data -> Item]
    BY QueueDataDef DEF Queue
  <2>. QED BY <1>2, <2>1
<1>4. Len(P2) = n + 1 /\ (\A i \in 1..n : P2[i] = P[i]) /\ P2[n + 1] = t
  BY <1>3, AppendProperties
<1>5. \A i \in 1..Len(P2) :
         /\ P2[i].index \in DOMAIN q.Data
         /\ q.Data[P2[i].index] = P2[i].data
  <2> SUFFICES ASSUME NEW i \in 1..n + 1
               PROVE  /\ P2[i].index \in DOMAIN q.Data
                      /\ q.Data[P2[i].index] = P2[i].data
    BY <1>4
  <2>1. CASE i \in 1..n
    BY <2>1, <1>4 DEF Mirror
  <2>2. CASE i = n + 1
    BY <2>2, <1>2, <1>4
  <2>. QED BY <1>1, <2>1, <2>2
<1>6. \A i, j \in 1..Len(P2) : i < j => P2[i].index < P2[j].index
  <2> SUFFICES ASSUME NEW i \in 1..n + 1, NEW j \in 1..n + 1, i < j
               PROVE  P2[i].index < P2[j].index
    BY <1>4
  <2>1. i \in 1..n
    BY <1>1
  <2>2. CASE j \in 1..n
    BY <2>1, <2>2, <1>4 DEF Mirror
  <2>3. CASE j = n + 1
    BY <2>1, <2>3, <1>4 DEF Mirror
  <2>4. j \in 1..n \/ j = n + 1
    BY <1>0, IntervalSplit
  <2>. QED BY <2>2, <2>3, <2>4, Zenon
<1>7. \A i \in 1..Len(P2), k2 \in L \ {k} : P2[i].index < k2
  <2> SUFFICES ASSUME NEW i \in 1..n + 1, NEW k2 \in L \ {k}
               PROVE  P2[i].index < k2
    BY <1>4
  <2>1. k < k2
    BY DEF Index
  <2>2. CASE i \in 1..n
    BY <2>2, <1>4 DEF Mirror
  <2>3. CASE i = n + 1
    BY <2>1, <2>3, <1>4
  <2>. QED BY <1>1, <2>2, <2>3
<1>8. DOMAIN q.Data = {P2[i].index : i \in 1..Len(P2)} \cup (L \ {k})
  <2>1. {P2[i].index : i \in 1..Len(P2)} = {P[i].index : i \in 1..n} \cup {k}
    BY <1>1, <1>4
  <2>. QED BY <2>1 DEF Mirror
<1>. QED BY <1>5, <1>6, <1>7, <1>8 DEF Mirror

(* An accepted item goes to Tail, above every key of the map: it joins the *)
(* pipe and the map together.                                              *)
LEMMA MirrorAccept ==
    ASSUME NEW P \in Seq(CacheTuple), NEW q \in Queue, NEW x \in Item,
           KeysBelowTail(q), Mirror(P, q, {})
    PROVE  Mirror(Append(P, [index |-> q.Tail, data |-> x]), Append2Queue(q, x), {})
<1> DEFINE t == [index |-> q.Tail, data |-> x]
           P2 == Append(P, t)
           q2 == Append2Queue(q, x)
           n == Len(P)
<1>0. n \in Nat
  BY LenProperties
<1>1. n \in Nat /\ P \in [1..n -> CacheTuple]
  BY LenProperties
<1>2. q.Tail \in Index /\ t \in CacheTuple
  BY DEF Queue
<1>3. Len(P2) = n + 1 /\ (\A i \in 1..n : P2[i] = P[i]) /\ P2[n + 1] = t
  BY <1>2, AppendProperties
<1>4. /\ DOMAIN q2.Data = DOMAIN q.Data \cup {q.Tail}
      /\ \A k \in DOMAIN q.Data : q2.Data[k] = q.Data[k]
      /\ q2.Data[q.Tail] = x
  <2>1. DOMAIN q.Data \subseteq Index
    BY QueueDataDef DEF Queue
  <2>2. \A k \in DOMAIN q.Data : k # q.Tail
    BY <1>2, <2>1 DEF KeysBelowTail
  <2>. QED BY <2>2 DEF Append2Queue
<1>5. \A i \in 1..n : P[i].index < q.Tail
  BY <1>1 DEF Mirror, KeysBelowTail
<1>6. \A i \in 1..Len(P2) :
         /\ P2[i].index \in DOMAIN q2.Data
         /\ q2.Data[P2[i].index] = P2[i].data
  <2> SUFFICES ASSUME NEW i \in 1..n + 1
               PROVE  /\ P2[i].index \in DOMAIN q2.Data
                      /\ q2.Data[P2[i].index] = P2[i].data
    BY <1>3
  <2>1. CASE i \in 1..n
    <3>1. P2[i] = P[i] /\ P[i].index \in DOMAIN q.Data /\ q.Data[P[i].index] = P[i].data
      BY <2>1, <1>3 DEF Mirror
    <3>. QED BY <3>1, <1>4
  <2>2. CASE i = n + 1
    BY <2>2, <1>3, <1>4
  <2>. QED BY <1>1, <2>1, <2>2
<1>7. \A i, j \in 1..Len(P2) : i < j => P2[i].index < P2[j].index
  <2> SUFFICES ASSUME NEW i \in 1..n + 1, NEW j \in 1..n + 1, i < j
               PROVE  P2[i].index < P2[j].index
    BY <1>3
  <2>1. i \in 1..n
    BY <1>1
  <2>2. CASE j \in 1..n
    BY <2>1, <2>2, <1>3 DEF Mirror
  <2>3. CASE j = n + 1
    BY <2>1, <2>3, <1>3, <1>5
  <2>4. j \in 1..n \/ j = n + 1
    BY <1>0, IntervalSplit
  <2>. QED BY <2>2, <2>3, <2>4, Zenon
<1>8. DOMAIN q2.Data = {P2[i].index : i \in 1..Len(P2)} \cup {}
  <2>1. {P2[i].index : i \in 1..Len(P2)} = {P[i].index : i \in 1..n} \cup {q.Tail}
    BY <1>1, <1>3
  <2>. QED BY <1>4, <2>1 DEF Mirror
<1>. QED BY <1>6, <1>7, <1>8 DEF Mirror

(* A Complete deletes the index of the tuple at the head of the pipe.     *)
LEMMA MirrorComplete ==
    ASSUME NEW P \in Seq(CacheTuple), P # <<>>, NEW q \in Queue, Mirror(P, q, {})
    PROVE  Mirror(Tail(P), DeleteFromQueue(q, P[1].index), {})
<1> DEFINE c == P[1].index
           T == Tail(P)
           q2 == DeleteFromQueue(q, c)
           n == Len(P)
<1>1. n \in Nat /\ n # 0 /\ P \in [1..n -> CacheTuple]
  BY LenProperties, EmptySeq
<1>1a. n \in Nat /\ n # 0
  BY <1>1
<1>2. Len(T) = n - 1 /\ \A i \in 1..n - 1 : T[i] = P[i + 1]
  BY HeadTailProperties
<1>3. /\ DOMAIN q2.Data = DOMAIN q.Data \ {c}
      /\ \A k \in DOMAIN q.Data \ {c} : q2.Data[k] = q.Data[k]
  BY DEF DeleteFromQueue, Restrict
<1>4. \A i \in 1..n - 1 : c < P[i + 1].index
  <2> SUFFICES ASSUME NEW i \in 1..n - 1 PROVE c < P[i + 1].index
    OBVIOUS
  <2>1. 1 \in 1..n /\ i + 1 \in 1..n /\ 1 < i + 1
    BY <1>1a
  <2>2. \A a, b \in 1..Len(P) : a < b => P[a].index < P[b].index
    BY DEF Mirror
  <2>. QED BY <2>1, <2>2
<1>5. \A i \in 1..Len(T) :
         /\ T[i].index \in DOMAIN q2.Data
         /\ q2.Data[T[i].index] = T[i].data
  <2> SUFFICES ASSUME NEW i \in 1..n - 1
               PROVE  /\ T[i].index \in DOMAIN q2.Data
                      /\ q2.Data[T[i].index] = T[i].data
    BY <1>2
  <2>1. i + 1 \in 1..n
    BY <1>1
  <2>2. P[i + 1].index \in DOMAIN q.Data /\ q.Data[P[i + 1].index] = P[i + 1].data
    BY <2>1 DEF Mirror
  <2>3. P[i + 1].index # c
    BY <1>1, <1>4, <2>1 DEF CacheTuple, Index
  <2>. QED BY <1>2, <1>3, <2>2, <2>3
<1>6. \A i, j \in 1..Len(T) : i < j => T[i].index < T[j].index
  BY <1>1, <1>2 DEF Mirror
<1>7. DOMAIN q2.Data = {T[i].index : i \in 1..Len(T)} \cup {}
  <2>1. \A i \in 1..n - 1 : P[i + 1].index # c
    BY <1>1, <1>4 DEF CacheTuple, Index
  <2>2. ASSUME NEW y \in DOMAIN q.Data \ {c} PROVE \E i \in 1..n - 1 : y = P[i + 1].index
    <3>1. PICK m \in 1..n : y = P[m].index
      BY DEF Mirror
    <3>2. m # 1
      BY <3>1
    <3>3. m - 1 \in 1..n - 1 /\ m - 1 + 1 = m
      BY <1>1, <3>2
    <3>. QED BY <3>1, <3>3
  <2>3. \A i \in 1..n - 1 : P[i + 1].index \in DOMAIN q.Data
    BY <1>1 DEF Mirror
  <2>. QED BY <1>2, <1>3, <2>1, <2>2, <2>3
<1>. QED BY <1>5, <1>6, <1>7 DEF Mirror

(* append, delete and reset keep every key below Tail.                    *)
LEMMA KeysBelowTailOps ==
    ASSUME NEW q \in Queue, KeysBelowTail(q), NEW x, NEW i
    PROVE  /\ KeysBelowTail(Append2Queue(q, x))
           /\ KeysBelowTail(DeleteFromQueue(q, i))
           /\ KeysBelowTail(ResetQueue(q))
<1>1. q.Tail \in Nat /\ DOMAIN q.Data \subseteq Index
  BY QueueDataDef DEF Queue
<1>2. KeysBelowTail(Append2Queue(q, x))
  BY <1>1 DEF KeysBelowTail, Append2Queue
<1>3. KeysBelowTail(DeleteFromQueue(q, i))
  BY DEF KeysBelowTail, DeleteFromQueue, Restrict
<1>4. KeysBelowTail(ResetQueue(q))
  <2>1. CASE QueueLength(q) = 0
    <3>1. IsFiniteSet(DOMAIN q.Data)
      <4>1. IsFiniteSet(Index)
        BY FS_Interval DEF Index
      <4>. QED BY <1>1, <4>1, FS_Subset
    <3>2. DOMAIN q.Data = {}
      BY <2>1, <3>1, FS_EmptySet DEF QueueLength
    <3>. QED BY <2>1, <3>2 DEF KeysBelowTail, ResetQueue
  <2>2. CASE QueueLength(q) # 0
    BY <2>2 DEF ResetQueue
  <2>. QED BY <2>1, <2>2
<1>. QED BY <1>2, <1>3, <1>4

(* Appending to the second of two concatenated sequences appends to the   *)
(* concatenation.                                                          *)
LEMMA AppendConcat ==
    ASSUME NEW S, NEW h \in Seq(S), NEW o \in Seq(S), NEW e \in S
    PROVE  h \o Append(o, e) = Append(h \o o, e)
<1>1. <<e>> \in Seq(S)
  BY SingletonSeq
<1>2. Append(o, e) = o \o <<e>>
  BY AppendIsConcat
<1>3. h \o o \in Seq(S)
  BY ConcatProperties
<1>4. Append(h \o o, e) = (h \o o) \o <<e>>
  BY <1>3, AppendIsConcat
<1>5. (h \o o) \o <<e>> = h \o (o \o <<e>>)
  BY <1>1, ConcatAssociative
<1>. QED BY <1>2, <1>4, <1>5

-----------------------------------------------------------------------------
(* The pipe is a sequence of CacheTuples in every well-typed state.        *)
LEMMA PipeType ==
    ASSUME TypeOK
    PROVE  Pipe \in Seq(CacheTuple)
<1>1. held \in Seq(CacheTuple) /\ out \in Seq(CacheTuple) /\ sending \in Seq(CacheTuple)
  BY DEF TypeOK
<1>2. held \o out \in Seq(CacheTuple)
  BY <1>1, ConcatProperties
<1>. QED BY <1>1, <1>2, ConcatProperties DEF Pipe

LEMMA InitMirrorInv == Init => MirrorInv
<1> SUFFICES ASSUME Init PROVE MirrorInv
  OBVIOUS
<1>1. TypeInv
  BY InitTypeInv
<1>2. Pipe = <<>>
  <2>1. <<>> \in Seq(CacheTuple)
    BY EmptySeq
  <2>2. <<>> \o <<>> = <<>>
    BY <2>1, ConcatEmptySeq
  <2>. QED BY <2>2 DEF Init, Pipe
<1>3. DOMAIN pending.Data = {} /\ loadKeys = {}
  BY DEF Init, EmptyQueue
<1>4. PipeMirrors
  BY <1>2, <1>3, MirrorEmpty DEF PipeMirrors
<1>5. QueuesWellFormed
  BY DEF Init, EmptyQueue, QueuesWellFormed, KeysBelowTail
<1>6. IdleHoldsNothing
  BY DEF Init, IdleHoldsNothing
<1>. QED BY <1>1, <1>4, <1>5, <1>6 DEF MirrorInv

LEMMA NextMirrorInv == MirrorInv /\ [Next]_vars => MirrorInv'
<1> SUFFICES ASSUME MirrorInv, [Next]_vars PROVE MirrorInv'
  OBVIOUS
<1>0. /\ TypeInv /\ TypeOK /\ PipeMirrors /\ QueuesWellFormed /\ IdleHoldsNothing
      /\ loadKeys \subseteq DOMAIN pending.Data /\ (cpc # "load" => loadKeys = {})
      /\ ((sinkPc \in {"busy", "complete"}) => Len(held) = 1)
  BY DEF MirrorInv, TypeInv
<1>1. TypeInv'
  BY <1>0, NextTypeInv
<1>2. /\ pending \in Queue /\ stored \in Queue /\ saving \subseteq Queue
      /\ held \in Seq(CacheTuple) /\ out \in Seq(CacheTuple) /\ sending \in Seq(CacheTuple)
      /\ loadKeys \subseteq Index
  BY <1>0 DEF TypeOK
<1>2a. held \in Seq(CacheTuple) /\ out \in Seq(CacheTuple) /\ sending \in Seq(CacheTuple)
  BY <1>0 DEF TypeOK
<1>3. /\ held \o out \in Seq(CacheTuple)
      /\ Pipe \in Seq(CacheTuple)
  BY <1>0, <1>2, PipeType, ConcatProperties
<1> SUFFICES PipeMirrors' /\ QueuesWellFormed' /\ IdleHoldsNothing'
  BY <1>1 DEF MirrorInv
<1>4. CASE LoadReplay
  <2> DEFINE t(k) == [index |-> k, data |-> pending.Data[k]]
  <2>1. PICK k \in loadKeys :
           /\ \A j \in loadKeys : k <= j
           /\ out' = Append(out, t(k))
           /\ loadKeys' = loadKeys \ {k}
    BY <1>4 DEF LoadReplay
  <2>2. UNCHANGED <<pending, cpc, sending, sinkPc, held, saving, stored>> /\ cpc = "load"
    BY <1>4 DEF LoadReplay
  <2>3. sending = <<>>
    BY <1>0, <2>2 DEF IdleHoldsNothing
  <2>4. t(k) \in CacheTuple
    <3>1. k \in DOMAIN pending.Data /\ pending.Data \in [DOMAIN pending.Data -> Item]
      BY <1>0, <1>2, <2>1, QueueDataDef DEF Queue
    <3>. QED BY <1>2, <2>1, <3>1
  <2>5. Pipe = held \o out
    BY <1>3, <2>3, ConcatEmptySeq DEF Pipe
  <2>6. Pipe' = Append(held \o out, t(k))
    <3>1. Append(out, t(k)) \in Seq(CacheTuple)
      BY <1>2, <2>4, AppendProperties
    <3>2. held \o Append(out, t(k)) \in Seq(CacheTuple)
      BY <1>2, <3>1, ConcatProperties
    <3>3. Pipe' = held \o Append(out, t(k))
      BY <2>1, <2>2, <2>3, <3>2, ConcatEmptySeq DEF Pipe
    <3>4. held \o Append(out, t(k)) = Append(held \o out, t(k))
      <4> HIDE DEF CacheTuple
      <4>. QED BY <1>2a, <2>4, AppendConcat
    <3>. QED BY <3>3, <3>4
  <2>7. PipeMirrors'
    <3> SUFFICES ASSUME sinkPc # "exited" PROVE Mirror(Pipe', pending, loadKeys \ {k})
      BY <2>1, <2>2 DEF PipeMirrors
    <3>1. Mirror(held \o out, pending, loadKeys)
      BY <1>0, <2>5 DEF PipeMirrors
    <3>. QED BY <1>2, <1>3, <2>1, <2>6, <3>1, MirrorReplay
  <2>. QED BY <1>0, <2>2, <2>7 DEF QueuesWellFormed, IdleHoldsNothing
<1>5. CASE LoadFinish
  <2>1. UNCHANGED <<pending, out, loadKeys, sending, sinkPc, held, saving, stored>>
        /\ cpc = "load"
    BY <1>5 DEF LoadFinish
  <2>2. PipeMirrors'
    BY <1>0, <2>1 DEF PipeMirrors, Pipe
  <2>3. sending = <<>>
    BY <1>0, <2>1 DEF IdleHoldsNothing
  <2>. QED BY <1>0, <2>1, <2>2, <2>3 DEF QueuesWellFormed, IdleHoldsNothing
<1>6. CASE CacheAccept
  <2> DEFINE t == [index |-> pending.Tail, data |-> nextItem + 1]
  <2>1. /\ pending' = Append2Queue(pending, nextItem + 1)
        /\ sending' = <<t>>
        /\ cpc = "loop" /\ cpc' = "send" /\ nextItem < MaxItems
    BY <1>6 DEF CacheAccept
  <2>2. UNCHANGED <<out, loadKeys, sinkPc, held, saving, stored>>
    BY <1>6 DEF CacheAccept
  <2>3. sending = <<>> /\ loadKeys = {}
    BY <1>0, <2>1 DEF IdleHoldsNothing
  <2>4. nextItem + 1 \in Item /\ t \in CacheTuple
    BY <1>0, <1>2, <2>1 DEF TypeOK, Queue
  <2>5. Pipe = held \o out /\ Pipe' = Append(held \o out, t)
    <3>1. Pipe = held \o out
      BY <1>3, <2>3, ConcatEmptySeq DEF Pipe
    <3>2. Pipe' = (held \o out) \o <<t>>
      BY <2>1, <2>2 DEF Pipe
    <3>. QED BY <1>3, <2>4, <3>1, <3>2, AppendIsConcat
  <2>6. PipeMirrors'
    <3> SUFFICES ASSUME sinkPc # "exited"
                 PROVE  Mirror(Append(held \o out, t), Append2Queue(pending, nextItem + 1), {})
      BY <2>1, <2>2, <2>3, <2>5 DEF PipeMirrors
    <3>1. Mirror(held \o out, pending, {})
      BY <1>0, <2>3, <2>5 DEF PipeMirrors
    <3>2. KeysBelowTail(pending)
      BY <1>0 DEF QueuesWellFormed
    <3>. QED BY <1>2, <1>3, <2>4, <3>1, <3>2, MirrorAccept
  <2>7. QueuesWellFormed'
    BY <1>0, <1>2, <2>1, <2>2, KeysBelowTailOps DEF QueuesWellFormed
  <2>8. IdleHoldsNothing'
    BY <1>0, <2>1, <2>2 DEF IdleHoldsNothing
  <2>. QED BY <2>6, <2>7, <2>8
<1>7. CASE CacheSendOut
  <2>1. out' = out \o sending /\ sending' = <<>> /\ cpc' = "loop"
    BY <1>7 DEF CacheSendOut
  <2>2. UNCHANGED <<pending, loadKeys, sinkPc, held, saving, stored>>
    BY <1>7 DEF CacheSendOut
  <2>3. Pipe' = Pipe
    <3>1. out \o sending \in Seq(CacheTuple)
      BY <1>2, ConcatProperties
    <3>2. held \o (out \o sending) \in Seq(CacheTuple)
      BY <1>2, <3>1, ConcatProperties
    <3>3. Pipe' = held \o (out \o sending)
      BY <2>1, <2>2, <3>2, ConcatEmptySeq DEF Pipe
    <3>4. (held \o out) \o sending = held \o (out \o sending)
      <4> HIDE DEF CacheTuple
      <4>. QED BY <1>2a, ConcatAssociative
    <3>. QED BY <3>3, <3>4 DEF Pipe
  <2>4. PipeMirrors'
    BY <1>0, <2>2, <2>3 DEF PipeMirrors
  <2>. QED BY <1>0, <2>1, <2>2, <2>4 DEF QueuesWellFormed, IdleHoldsNothing
<1>8. CASE CacheComplete
  <2>1. /\ pending' = DeleteFromQueue(pending, held[1].index)
        /\ sinkPc = "complete" /\ sinkPc' = "idle" /\ held' = <<>> /\ cpc = "loop"
    BY <1>8 DEF CacheComplete
  <2>2. UNCHANGED <<out, loadKeys, sending, saving, stored, cpc>>
    BY <1>8 DEF CacheComplete
  <2>3. loadKeys = {} /\ Len(held) = 1
    BY <1>0, <2>1
  <2>4. held = <<held[1]>> /\ held[1] \in CacheTuple
    BY <1>2, <2>3, LenOneSeq
  <2>5. out \o sending \in Seq(CacheTuple)
    BY <1>2, ConcatProperties
  <2>6. Pipe = <<held[1]>> \o (out \o sending)
    <3>1. <<held[1]>> \in Seq(CacheTuple)
      BY <2>4, SingletonSeq
    <3>2. (held \o out) \o sending = held \o (out \o sending)
      <4> HIDE DEF CacheTuple
      <4>. QED BY <1>2a, ConcatAssociative
    <3>. QED BY <2>4, <3>2 DEF Pipe
  <2>7. /\ Pipe # <<>> /\ Pipe[1] = held[1] /\ Tail(Pipe) = out \o sending
    <3>1. /\ <<held[1]>> \o (out \o sending) # <<>>
          /\ (<<held[1]>> \o (out \o sending))[1] = held[1]
          /\ Tail(<<held[1]>> \o (out \o sending)) = out \o sending
      <4> HIDE DEF CacheTuple
      <4>. QED BY <2>4, <2>5, ConsProperties
    <3>. QED BY <2>6, <3>1
  <2>8. Pipe' = out \o sending
    BY <2>1, <2>2, <2>5, ConcatEmptySeq DEF Pipe
  <2>9. PipeMirrors'
    <3>1. Mirror(Pipe, pending, {})
      BY <1>0, <2>1, <2>3 DEF PipeMirrors
    <3>2. Mirror(Tail(Pipe), DeleteFromQueue(pending, Pipe[1].index), {})
      BY <1>2, <1>3, <2>7, <3>1, MirrorComplete
    <3>. QED BY <2>1, <2>2, <2>3, <2>7, <2>8, <3>2 DEF PipeMirrors
  <2>10. QueuesWellFormed'
    BY <1>0, <1>2, <2>1, <2>2, KeysBelowTailOps DEF QueuesWellFormed
  <2>11. IdleHoldsNothing'
    BY <1>0, <2>1, <2>2 DEF IdleHoldsNothing
  <2>. QED BY <2>9, <2>10, <2>11
<1>9. CASE CacheTick
  <2> DEFINE q == ResetQueue(pending)
  <2>1. pending' = q /\ (saving' = saving \cup {q} \/ saving' = saving)
    BY <1>9 DEF CacheTick
  <2>2. UNCHANGED <<out, cpc, loadKeys, sending, sinkPc, held, stored>>
    BY <1>9 DEF CacheTick
  <2>3. q.Data = pending.Data
    BY <1>2, ResetType
  <2>4. PipeMirrors'
    <3> SUFFICES ASSUME sinkPc # "exited" PROVE Mirror(Pipe, q, loadKeys)
      BY <2>1, <2>2 DEF PipeMirrors, Pipe
    <3>. QED BY <1>0, <2>3, MirrorSameData DEF PipeMirrors
  <2>5. KeysBelowTail(q)
    BY <1>0, <1>2, KeysBelowTailOps DEF QueuesWellFormed
  <2>6. QueuesWellFormed'
    BY <1>0, <2>1, <2>2, <2>5 DEF QueuesWellFormed
  <2>. QED BY <1>0, <2>2, <2>4, <2>6 DEF IdleHoldsNothing
<1>10. CASE CacheDone
  <2>1. stored' = pending \/ stored' = stored
    BY <1>10 DEF CacheDone
  <2>2. UNCHANGED <<pending, out, loadKeys, sending, sinkPc, held, saving>>
        /\ cpc = "loop"
    BY <1>10 DEF CacheDone
  <2>3. PipeMirrors'
    BY <1>0, <2>2 DEF PipeMirrors, Pipe
  <2>4. QueuesWellFormed'
    BY <1>0, <2>1, <2>2 DEF QueuesWellFormed
  <2>5. sending = <<>>
    BY <1>0, <2>2 DEF IdleHoldsNothing
  <2>. QED BY <1>0, <2>2, <2>3, <2>4, <2>5 DEF IdleHoldsNothing
<1>11. CASE SaveLand
  <2>1. PICK sv \in saving : stored' = sv /\ saving' = saving \ {sv}
    BY <1>11 DEF SaveLand
  <2>2. UNCHANGED <<pending, out, cpc, loadKeys, sending, sinkPc, held>>
    BY <1>11 DEF SaveLand
  <2>3. PipeMirrors'
    BY <1>0, <2>2 DEF PipeMirrors, Pipe
  <2>4. QueuesWellFormed'
    BY <1>0, <2>1, <2>2 DEF QueuesWellFormed
  <2>. QED BY <1>0, <2>2, <2>3, <2>4 DEF IdleHoldsNothing
<1>12. CASE SinkTake
  <2>1. /\ sinkPc = "idle" /\ out # <<>>
        /\ held' = <<Head(out)>> /\ out' = Tail(out) /\ sinkPc' = "busy"
    BY <1>12 DEF SinkTake
  <2>2. UNCHANGED <<pending, cpc, loadKeys, sending, saving, stored>>
    BY <1>12 DEF SinkTake
  <2>3. held = <<>>
    BY <1>0, <2>1 DEF IdleHoldsNothing
  <2>4. Pipe = out \o sending
    BY <1>2, <2>3, ConcatEmptySeq DEF Pipe
  <2>5. Pipe' = out \o sending
    <3>1. <<Head(out)>> \o Tail(out) = out
      BY <1>2, <2>1, HeadConsTail
    <3>. QED BY <2>1, <2>2, <3>1 DEF Pipe
  <2>6. PipeMirrors'
    BY <1>0, <2>1, <2>2, <2>4, <2>5 DEF PipeMirrors
  <2>. QED BY <1>0, <2>1, <2>2, <2>6 DEF QueuesWellFormed, IdleHoldsNothing
<1>13. CASE SinkDeliver
  <2>1. UNCHANGED <<pending, out, cpc, loadKeys, sending, held, saving, stored>>
        /\ sinkPc = "busy" /\ sinkPc' = "complete"
    BY <1>13 DEF SinkDeliver
  <2>2. PipeMirrors'
    BY <1>0, <2>1 DEF PipeMirrors, Pipe
  <2>. QED BY <1>0, <2>1, <2>2 DEF QueuesWellFormed, IdleHoldsNothing
<1>14. CASE SinkExit
  <2>1. sinkPc' = "exited" /\ held' = <<>>
    BY <1>14 DEF SinkExit
  <2>2. UNCHANGED <<pending, cpc, sending, saving, stored>>
    BY <1>14 DEF SinkExit
  <2>. QED BY <1>0, <2>1, <2>2 DEF PipeMirrors, QueuesWellFormed, IdleHoldsNothing
<1>15. CASE Cancel
  <2>1. UNCHANGED <<pending, out, cpc, loadKeys, sending, sinkPc, held, saving, stored>>
    BY <1>15 DEF Cancel
  <2>. QED BY <1>0, <2>1 DEF PipeMirrors, Pipe, QueuesWellFormed, IdleHoldsNothing
<1>16. CASE Restart
  <2>1. /\ cpc = "stopped" /\ sinkPc = "exited"
        /\ pending' = stored /\ loadKeys' = DOMAIN stored.Data
        /\ out' = <<>> /\ cpc' = "load" /\ sinkPc' = "idle"
    BY <1>16 DEF Restart
  <2>2. UNCHANGED <<sending, held, saving, stored>>
    BY <1>16 DEF Restart
  <2>3. held = <<>> /\ sending = <<>>
    BY <1>0, <2>1 DEF IdleHoldsNothing
  <2>4. Pipe' = <<>>
    <3>1. <<>> \in Seq(CacheTuple)
      BY EmptySeq
    <3>2. (<<>> \o <<>>) \o <<>> = <<>>
      BY <3>1, ConcatEmptySeq
    <3>. QED BY <2>1, <2>2, <2>3, <3>2 DEF Pipe
  <2>5. PipeMirrors'
    BY <2>1, <2>4, MirrorEmpty DEF PipeMirrors
  <2>6. QueuesWellFormed'
    BY <1>0, <2>1, <2>2 DEF QueuesWellFormed
  <2>7. IdleHoldsNothing'
    BY <2>1, <2>2, <2>3 DEF IdleHoldsNothing
  <2>. QED BY <2>5, <2>6, <2>7
<1>17. CASE UNCHANGED vars
  BY <1>0, <1>17 DEF vars, PipeMirrors, Pipe, QueuesWellFormed, IdleHoldsNothing
<1>. QED BY <1>4, <1>5, <1>6, <1>7, <1>8, <1>9, <1>10, <1>11, <1>12, <1>13,
            <1>14, <1>15, <1>16, <1>17 DEF Next

(* The Complete channel deletes the item that was delivered, and the sink  *)
(* sees items in the order the cache accepted them: while the delivery     *)
(* worker runs, the tuples between the loop and the sink, with the keys    *)
(* loadCache has still to replay, are exactly the pending map, in strictly *)
(* increasing index order, across the Tail reset of the Tick branch and    *)
(* every restart.                                                          *)
THEOREM QueueMirrorsPendingCorrect == Spec => []QueueMirrorsPending
<1>1. Init => MirrorInv
  BY InitMirrorInv
<1>2. MirrorInv /\ [Next]_vars => MirrorInv'
  BY NextMirrorInv
<1>3. MirrorInv => QueueMirrorsPending
  BY DEF MirrorInv, PipeMirrors, Mirror, QueueMirrorsPending, PipeIndices
<1>. QED BY <1>1, <1>2, <1>3, PTL DEF Spec

-----------------------------------------------------------------------------
(* The step of PendingNeverOverwritten.                                     *)
NoOverwrite ==
    restarts' = restarts =>
       \A k \in DOMAIN pending.Data \cap DOMAIN pending'.Data :
          pending'.Data[k] = pending.Data[k]

LEMMA MirrorInvariant == Spec => []MirrorInv
BY InitMirrorInv, NextMirrorInv, PTL DEF Spec

LEMMA NextNoOverwrite == MirrorInv /\ [Next]_vars => [NoOverwrite]_vars
<1> SUFFICES ASSUME MirrorInv, [Next]_vars PROVE NoOverwrite
  BY DEF NoOverwrite
<1>1. pending \in Queue /\ KeysBelowTail(pending) /\ restarts \in Nat
  BY DEF MirrorInv, TypeInv, TypeOK, QueuesWellFormed
<1>2. DOMAIN pending.Data \subseteq Index /\ pending.Tail \in Index
  BY <1>1, QueueDataDef DEF Queue
<1>3. CASE CacheAccept
  <2>1. pending' = Append2Queue(pending, nextItem + 1)
    BY <1>3 DEF CacheAccept
  <2>2. \A k \in DOMAIN pending.Data : k # pending.Tail
    BY <1>1, <1>2 DEF KeysBelowTail
  <2>. QED BY <2>1, <2>2 DEF NoOverwrite, Append2Queue
<1>4. CASE CacheComplete
  <2>1. pending' = DeleteFromQueue(pending, held[1].index)
    BY <1>4 DEF CacheComplete
  <2>. QED BY <2>1 DEF NoOverwrite, DeleteFromQueue, Restrict
<1>5. CASE CacheTick
  <2>1. pending' = ResetQueue(pending)
    BY <1>5 DEF CacheTick
  <2>2. pending'.Data = pending.Data
    BY <1>1, <2>1, ResetType
  <2>. QED BY <2>2 DEF NoOverwrite
<1>6. CASE Restart
  <2>1. restarts' = restarts + 1
    BY <1>6 DEF Restart
  <2>. QED BY <1>1, <2>1 DEF NoOverwrite
<1>8. CASE LoadReplay \/ LoadFinish \/ CacheSendOut \/ CacheDone \/ SaveLand
           \/ SinkTake \/ SinkDeliver \/ SinkExit \/ Cancel
  <2>1. UNCHANGED pending
    BY <1>8 DEF LoadReplay, LoadFinish, CacheSendOut, CacheDone, SaveLand,
                SinkTake, SinkDeliver, SinkExit, Cancel
  <2>. QED BY <2>1 DEF NoOverwrite
<1>9. CASE UNCHANGED vars
  BY <1>9 DEF vars, NoOverwrite
<1>. QED BY <1>3, <1>4, <1>5, <1>6, <1>8, <1>9 DEF Next

(* Within one run of the rule no step changes the item at an index that    *)
(* stays pending, whatever the limit, threshold, number of items and       *)
(* restarts: the emptiness check before reset() and the Tail discipline of *)
(* LinkedQueue.append keep every accepted item at a fresh index.          *)
THEOREM PendingNeverOverwrittenCorrect == Spec => PendingNeverOverwritten
<1>1. MirrorInv /\ [Next]_vars => [NoOverwrite]_vars
  BY NextNoOverwrite
<1>. QED BY <1>1, MirrorInvariant, PTL DEF Spec, PendingNeverOverwritten, NoOverwrite

=============================================================================
