----------------------------- MODULE SinkCache -----------------------------
(***************************************************************************)
(* The durable cache in front of a sink (xstream/nodes/sink_cache.go).     *)
(*                                                                         *)
(* Actors and how they meet:                                               *)
(*  - the Cache goroutine (Cache.run): a select loop over the input        *)
(*    channel, the Complete channel, the save ticker and ctx.Done(); before *)
(*    the loop it replays the persisted map (loadCache);                    *)
(*  - the sink delivery worker: reads CacheTuples from Out, calls the sink  *)
(*    and then sends the index on the unbuffered Complete channel.  That   *)
(*    worker is not under src/ and is modelled from the spec (4.6);        *)
(*  - one goroutine per asynchronous saveCache(clone) started by a tick;    *)
(*  - the environment: the upstream node feeding the input channel, the    *)
(*    rule cancelling the context, and the rule being started again.       *)
(*                                                                         *)
(* Data is abstracted: an item is a natural number (a fresh one per input), *)
(* a LinkedQueue is a record [Data |-> index -> item, Tail |-> index], the  *)
(* key-value store holding the cache's key is the single value `stored`,   *)
(* and one saveCache (Open, Replace, Close) is one atomic step.            *)
(***************************************************************************)
EXTENDS Naturals, Sequences, FiniteSets, Functions

CONSTANTS
    Limit,        \* capacity of the Out channel (NewCache's limit)
    Threshold,    \* THRESHOLD: backlog size above which a changing map is saved
    MaxItems,     \* number of items the upstream node sends, over all runs
    MaxRestarts   \* number of times the rule is cancelled and started again

ASSUME LimitAssumption == Limit \in Nat \ {0}
ASSUME ThresholdAssumption == Threshold \in Nat
ASSUME MaxItemsAssumption == MaxItems \in Nat
ASSUME MaxRestartsAssumption == MaxRestarts \in Nat

VARIABLES
    pending,    \* c.pending: the LinkedQueue of not yet completed items
    out,        \* c.Out: the buffered channel of CacheTuples
    changed,    \* c.changed
    saved,      \* c.saved: the backlog size recorded at the last save decision
    cpc,        \* where the Cache goroutine is: "load", "loop", "send", "stopped"
    loadKeys,   \* loadCache: keys of the loaded map not yet replayed into Out
    sending,    \* the CacheTuple the "case item := <-c.in" branch is sending
    sinkPc,     \* delivery worker: "idle", "busy", "complete", "exited"
    held,       \* the CacheTuple the delivery worker holds (length 0 or 1)
    saving,     \* clones handed to saveCache goroutines not yet written
    stored,     \* the value of the cache's key in the key-value store
    done,       \* ctx.Done() is closed for the running incarnation
    nextItem,   \* number of items the upstream node has sent so far
    restarts,   \* number of restarts so far
    delivered,  \* history: items the sink has collected successfully
    finalSaved  \* history: the Done branch ran its final saveCache

vars == <<pending, out, changed, saved, cpc, loadKeys, sending, sinkPc, held,
          saving, stored, done, nextItem, restarts, delivered, finalSaved>>

-----------------------------------------------------------------------------
Item == 1..MaxItems
Index == 0..MaxItems
CacheTuple == [index : Index, data : Item]

(* The LinkedQueues that can occur: a sparse map from indices to items.    *)
QueueData == UNION {[D -> Item] : D \in SUBSET Index}
Queue == [Data : QueueData, Tail : Index]

EmptyQueue == [Data |-> [k \in {} |-> 1], Tail |-> 0]

(* LinkedQueue.append: store at Tail, then advance Tail.                   *)
Append2Queue(q, item) ==
    [Data |-> [k \in DOMAIN q.Data \cup {q.Tail} |->
                  IF k = q.Tail THEN item ELSE q.Data[k]],
     Tail |-> q.Tail + 1]

(* LinkedQueue.delete: remove one index from the map.                      *)
DeleteFromQueue(q, index) ==
    [q EXCEPT !.Data = Restrict(q.Data, DOMAIN q.Data \ {index})]

(* LinkedQueue.length                                                      *)
QueueLength(q) == Cardinality(DOMAIN q.Data)

(* Mutant of ResetQueue: the emptiness check before reset() is dropped.   *)
ResetQueueUnguarded(q) == [q EXCEPT !.Tail = 0]

(* The Tick branch's reset: Tail goes back to 0 when the map is empty.     *)
ResetQueue(q) == IF QueueLength(q) = 0 THEN [q EXCEPT !.Tail = 0] ELSE q

(* The save decision of the Tick branch, on the backlog size l.            *)
ShouldSave(l) == (changed /\ l > Threshold) \/ (~changed /\ saved # l)

Running == cpc \in {"load", "loop", "send"}

-----------------------------------------------------------------------------
(* NewCache + loadCache, first start with an empty store.                  *)
Init ==
    /\ pending = EmptyQueue
    /\ out = <<>>
    /\ changed = FALSE
    /\ saved = 0
    /\ cpc = "load"
    /\ loadKeys = {}
    /\ sending = <<>>
    /\ sinkPc = "idle"
    /\ held = <<>>
    /\ saving = {}
    /\ stored = EmptyQueue
    /\ done = FALSE
    /\ nextItem = 0
    /\ restarts = 0
    /\ delivered = {}
    /\ finalSaved = FALSE

(* loadCache: send the loaded entries into Out in ascending index order;   *)
(* each send blocks while Out is full.                                     *)
LoadReplay ==
    /\ cpc = "load"
    /\ \E k \in loadKeys :
          /\ \A j \in loadKeys : k <= j
          /\ Len(out) < Limit
          /\ out' = Append(out, [index |-> k, data |-> pending.Data[k]])
          /\ loadKeys' = loadKeys \ {k}
    /\ UNCHANGED <<pending, changed, saved, cpc, sending, sinkPc, held, saving,
                   stored, done, nextItem, restarts, delivered, finalSaved>>

(* loadCache returns; run creates the ticker and enters the select loop.   *)
LoadFinish ==
    /\ cpc = "load"
    /\ loadKeys = {}
    /\ cpc' = "loop"
    /\ UNCHANGED <<pending, out, changed, saved, loadKeys, sending, sinkPc,
                   held, saving, stored, done, nextItem, restarts, delivered,
                   finalSaved>>

(* case item := <-c.in: index := Tail; pending.append(item); then the      *)
(* send on Out, which is the next step and may block.                      *)
CacheAccept ==
    /\ cpc = "loop"
    /\ nextItem < MaxItems
    /\ nextItem' = nextItem + 1
    /\ pending' = Append2Queue(pending, nextItem + 1)
    /\ sending' = <<[index |-> pending.Tail, data |-> nextItem + 1]>>
    /\ cpc' = "send"
    /\ UNCHANGED <<out, changed, saved, loadKeys, sinkPc, held, saving, stored,
                   done, restarts, delivered, finalSaved>>

(* Mutant of CacheSendOut: the send ignores the capacity of Out.           *)
CacheSendOutUnbounded ==
    /\ cpc = "send"
    /\ out' = out \o sending
    /\ sending' = <<>>
    /\ changed' = TRUE
    /\ cpc' = "loop"
    /\ UNCHANGED <<pending, saved, loadKeys, sinkPc, held, saving, stored, done,
                   nextItem, restarts, delivered, finalSaved>>

(* c.Out <- &CacheTuple{...} completes; then c.changed = true.             *)
CacheSendOut ==
    /\ cpc = "send"
    /\ Len(out) < Limit
    /\ out' = out \o sending
    /\ sending' = <<>>
    /\ changed' = TRUE
    /\ cpc' = "loop"
    /\ UNCHANGED <<pending, saved, loadKeys, sinkPc, held, saving, stored, done,
                   nextItem, restarts, delivered, finalSaved>>

(* case index := <-c.Complete: the unbuffered send of the delivery worker  *)
(* meets the receive of the loop; pending.delete(index); changed = true.   *)
CacheComplete ==
    /\ cpc = "loop"
    /\ sinkPc = "complete"
    /\ pending' = DeleteFromQueue(pending, held[1].index)
    /\ changed' = TRUE
    /\ sinkPc' = "idle"
    /\ held' = <<>>
    /\ UNCHANGED <<out, saved, cpc, loadKeys, sending, saving, stored, done,
                   nextItem, restarts, delivered, finalSaved>>

(* case <-ticker.C: reset an empty map, decide whether to save a clone     *)
(* asynchronously, update saved, clear changed.                            *)
CacheTick ==
    /\ cpc = "loop"
    /\ LET q == ResetQueue(pending)
           l == QueueLength(q)
       IN /\ pending' = q
          /\ IF ShouldSave(l)
                THEN /\ saving' = saving \cup {q}
                     /\ saved' = l
                ELSE /\ saved' = IF changed THEN 0 ELSE saved
                     /\ UNCHANGED saving
    /\ changed' = FALSE
    /\ UNCHANGED <<out, cpc, loadKeys, sending, sinkPc, held, stored, done,
                   nextItem, restarts, delivered, finalSaved>>

(* case <-ctx.Done(): a synchronous saveCache(c.pending) if changed, then  *)
(* return.                                                                 *)
CacheDone ==
    /\ cpc = "loop"
    /\ done
    /\ IF changed THEN stored' = pending ELSE UNCHANGED stored
    /\ finalSaved' = changed
    /\ cpc' = "stopped"
    /\ UNCHANGED <<pending, out, changed, saved, loadKeys, sending, sinkPc,
                   held, saving, done, nextItem, restarts, delivered>>

(* A saveCache goroutine writes its clone (Open, Replace, Close).          *)
SaveLand ==
    \E s \in saving :
       /\ stored' = s
       /\ saving' = saving \ {s}
       /\ UNCHANGED <<pending, out, changed, saved, cpc, loadKeys, sending,
                      sinkPc, held, done, nextItem, restarts, delivered,
                      finalSaved>>

-----------------------------------------------------------------------------
(* The delivery worker (spec 4.6): take the next CacheTuple from Out.      *)
SinkTake ==
    /\ sinkPc = "idle"
    /\ ~done
    /\ out # <<>>
    /\ held' = <<Head(out)>>
    /\ out' = Tail(out)
    /\ sinkPc' = "busy"
    /\ UNCHANGED <<pending, changed, saved, cpc, loadKeys, sending, saving,
                   stored, done, nextItem, restarts, delivered, finalSaved>>

(* The sink's Collect succeeds (after whatever retries it needs).          *)
SinkDeliver ==
    /\ sinkPc = "busy"
    /\ delivered' = delivered \cup {held[1].data}
    /\ sinkPc' = "complete"
    /\ UNCHANGED <<pending, out, changed, saved, cpc, loadKeys, sending, held,
                   saving, stored, done, nextItem, restarts, finalSaved>>

(* The worker observes the cancellation and exits.                         *)
SinkExit ==
    /\ done
    /\ sinkPc # "exited"
    /\ sinkPc' = "exited"
    /\ held' = <<>>
    /\ UNCHANGED <<pending, out, changed, saved, cpc, loadKeys, sending, saving,
                   stored, done, nextItem, restarts, delivered, finalSaved>>

-----------------------------------------------------------------------------
(* The rule is stopped: its context is cancelled.                          *)
Cancel ==
    /\ ~done
    /\ restarts < MaxRestarts
    /\ done' = TRUE
    /\ UNCHANGED <<pending, out, changed, saved, cpc, loadKeys, sending, sinkPc,
                   held, saving, stored, nextItem, restarts, delivered,
                   finalSaved>>

(* The rule is started again: NewCache with a fresh Out channel, and       *)
(* loadCache reads the stored map (saveCache goroutines of the previous    *)
(* run may still be writing).                                              *)
Restart ==
    /\ cpc = "stopped"
    /\ sinkPc = "exited"
    /\ restarts < MaxRestarts
    /\ restarts' = restarts + 1
    /\ pending' = stored
    /\ loadKeys' = DOMAIN stored.Data
    /\ out' = <<>>
    /\ changed' = FALSE
    /\ saved' = 0
    /\ cpc' = "load"
    /\ sinkPc' = "idle"
    /\ done' = FALSE
    /\ finalSaved' = FALSE
    /\ UNCHANGED <<sending, held, saving, stored, nextItem, delivered>>

Next ==
    \/ LoadReplay \/ LoadFinish
    \/ CacheAccept \/ CacheSendOut \/ CacheComplete \/ CacheTick \/ CacheDone
    \/ SaveLand
    \/ SinkTake \/ SinkDeliver \/ SinkExit
    \/ Cancel \/ Restart

(* Go's select chooses uniformly among ready cases, so a case that is      *)
(* ready again and again is eventually taken (strong fairness); a step     *)
(* that stays enabled is eventually taken (weak fairness).  The upstream   *)
(* node, the cancellation and the restart are not required to happen.      *)
Fairness ==
    /\ WF_vars(LoadReplay) /\ WF_vars(LoadFinish) /\ WF_vars(CacheSendOut)
    /\ SF_vars(CacheComplete) /\ SF_vars(CacheTick) /\ SF_vars(CacheDone)
    /\ WF_vars(SaveLand)
    /\ WF_vars(SinkTake) /\ WF_vars(SinkDeliver) /\ WF_vars(SinkExit)

Spec == Init /\ [][Next]_vars
FairSpec == Spec /\ Fairness

-----------------------------------------------------------------------------
(* Every variable stays in its domain; Out never holds more than its       *)
(* capacity.                                                               *)
TypeOK ==
    /\ pending \in Queue
    /\ out \in Seq(CacheTuple) /\ Len(out) <= Limit
    /\ changed \in BOOLEAN
    /\ saved \in Nat
    /\ cpc \in {"load", "loop", "send", "stopped"}
    /\ loadKeys \subseteq Index
    /\ sending \in Seq(CacheTuple) /\ Len(sending) <= 1
    /\ sinkPc \in {"idle", "busy", "complete", "exited"}
    /\ held \in Seq(CacheTuple) /\ Len(held) <= 1
    /\ saving \subseteq Queue
    /\ stored \in Queue
    /\ done \in BOOLEAN
    /\ nextItem \in 0..MaxItems
    /\ restarts \in 0..MaxRestarts
    /\ delivered \subseteq Item
    /\ finalSaved \in BOOLEAN

-----------------------------------------------------------------------------
(* The tuples on their way to the sink, oldest first: the one the worker   *)
(* holds, those in Out, the one the loop is sending.                       *)
Pipe == held \o out \o sending

PipeIndices == {Pipe[i].index : i \in 1..Len(Pipe)}

(* While the delivery worker runs, the tuples in flight and the keys still *)
(* to replay are exactly the pending map: each tuple carries the item the  *)
(* map holds at its index, indices strictly increase along the way to the  *)
(* sink, and replayed keys come after everything already sent.  This is    *)
(* what makes a Complete delete the item that was delivered, and the sink  *)
(* see items in the order they were accepted, across the Tail reset of     *)
(* the Tick branch and the replay of loadCache.                            *)
QueueMirrorsPending ==
    sinkPc # "exited" =>
       /\ \A i \in 1..Len(Pipe) :
             /\ Pipe[i].index \in DOMAIN pending.Data
             /\ pending.Data[Pipe[i].index] = Pipe[i].data
       /\ \A i, j \in 1..Len(Pipe) : i < j => Pipe[i].index < Pipe[j].index
       /\ \A i \in 1..Len(Pipe), k \in loadKeys : Pipe[i].index < k
       /\ DOMAIN pending.Data = PipeIndices \cup loadKeys

(* Within one run of the rule, no step changes the item stored at an      *)
(* index that stays pending: an accepted item goes to a fresh index and a *)
(* Complete or the Tick branch's reset only removes or keeps entries.      *)
(* This is what the emptiness check before reset() protects: resetting    *)
(* Tail under a non-empty map would make the next append overwrite an      *)
(* undelivered item.  A restart loads the stored map and is a new run.     *)
PendingNeverOverwritten ==
    [][restarts' = restarts =>
         \A k \in DOMAIN pending.Data \cap DOMAIN pending'.Data :
            pending'.Data[k] = pending.Data[k]]_vars

(* At-least-once delivery while the rule runs: every item the upstream     *)
(* node handed to the cache is eventually collected by the sink.           *)
AcceptedEventuallyDelivered ==
    \A x \in Item : (nextItem >= x) ~> (x \in delivered)

(* The Cache goroutine is quiescent: it waits in its select loop and no   *)
(* tuple is on its way to the sink or back as a Complete.                  *)
Quiescent == cpc = "loop" /\ Pipe = <<>>

(* A quiescent backlog is eventually durable (spec 4.6: a map that has     *)
(* stopped changing and has not been saved at its current size is saved,   *)
(* "to guarantee eventual durability of a quiescent backlog"; the comment  *)
(* at sink_cache.go:123-124 says the same): a cache that stays quiescent   *)
(* eventually has its pending map in the store.                            *)
BacklogEventuallyPersisted ==
    Quiescent ~> (stored.Data = pending.Data \/ ~Quiescent)

(* Stopping the rule keeps the backlog: once the Cache goroutine has       *)
(* returned, either its Done branch saved the pending map or the store     *)
(* already holds it (spec 4.6: unsaved changes are saved on shutdown).     *)
StopPersistsBacklog ==
    cpc = "stopped" => (finalSaved \/ stored.Data = pending.Data)

(* The final synchronous save of the Done branch is what the next start    *)
(* loads: no save of an older clone overwrites it.                         *)
FinalSaveDurable ==
    (cpc = "stopped" /\ finalSaved) => stored = pending

=============================================================================
