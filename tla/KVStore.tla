------------------------------ MODULE KVStore ------------------------------
(***************************************************************************)
(* The SimpleKVStore of common/util.go as the sink cache uses it.          *)
(*                                                                         *)
(* GetSimpleKVStore hands every caller under one path the same store: one  *)
(* in-memory go-cache `c` in front of one file.  Open loads the file into  *)
(* c, Close saves c to the file and flushes c, Set and Delete change c and *)
(* save it.  saveCache runs Open, Replace(key, value), Close and loadCache *)
(* runs Open, Get(key), Close, each in its own goroutine, and nothing      *)
(* orders the goroutines of one store.  Each method is one step (go-cache  *)
(* locks its map inside every call); a session is a goroutine between its *)
(* Open and its Close.                                                     *)
(***************************************************************************)
EXTENDS Naturals, FiniteSets

CONSTANTS
    Keys,       \* the cache keys written to the store
    Sessions,   \* goroutines that may use the store at the same time
    MaxWrites   \* number of Replace calls over the whole behaviour

VARIABLES
    file,       \* the stores.data file: a map from keys to values
    fileExists, \* os.Stat(m.path) finds the file
    mem,        \* the go-cache c shared by every session of the path
    pc,         \* per session: "idle", "open", "written", "got"
    key,        \* per session: the key it reads or writes
    writes,     \* number of Replace calls so far (also the last value)
    saved       \* history: keys whose saveCache returned

vars == <<file, fileExists, mem, pc, key, writes, saved>>

-----------------------------------------------------------------------------
Value == 1..MaxWrites

Maps == UNION {[D -> Value] : D \in SUBSET Keys}

NoMap == [k \in {} |-> 1]

(* go-cache LoadFile: items of the file are added to c, except keys c      *)
(* already holds.                                                          *)
LoadInto(m, f) == [k \in DOMAIN m \cup DOMAIN f |-> IF k \in DOMAIN m THEN m[k] ELSE f[k]]

Init ==
    /\ file = NoMap
    /\ fileExists = FALSE
    /\ mem = NoMap
    /\ pc = [s \in Sessions |-> "idle"]
    /\ key \in [Sessions -> Keys]
    /\ writes = 0
    /\ saved = {}

(* SimpleKVStore.Open, called by saveCache or by loadCache for key k: when *)
(* the file exists it is loaded into c.                                    *)
Open(s, k) ==
    /\ pc[s] = "idle"
    /\ mem' = IF fileExists THEN LoadInto(mem, file) ELSE mem
    /\ pc' = [pc EXCEPT ![s] = "open"]
    /\ key' = [key EXCEPT ![s] = k]
    /\ UNCHANGED <<file, fileExists, writes, saved>>

(* saveCache: Replace(c.key, p) sets the key in c and saves c to the file. *)
Replace(s) ==
    /\ pc[s] = "open"
    /\ writes < MaxWrites
    /\ writes' = writes + 1
    /\ mem' = [k \in DOMAIN mem \cup {key[s]} |->
                  IF k = key[s] THEN writes + 1 ELSE mem[k]]
    /\ file' = mem'
    /\ fileExists' = TRUE
    /\ pc' = [pc EXCEPT ![s] = "written"]
    /\ UNCHANGED <<key, saved>>

(* loadCache: Get(c.key) reads c; the result is not what is checked here. *)
Get(s) ==
    /\ pc[s] = "open"
    /\ pc' = [pc EXCEPT ![s] = "got"]
    /\ UNCHANGED <<file, fileExists, mem, key, writes, saved>>

(* SimpleKVStore.Close (deferred in both): save c to the file, then Flush  *)
(* c, the in-memory map every other session of the path is using.         *)
Close(s) ==
    /\ pc[s] \in {"written", "got"}
    /\ file' = mem
    /\ fileExists' = TRUE
    /\ mem' = NoMap
    /\ pc' = [pc EXCEPT ![s] = "idle"]
    /\ saved' = IF pc[s] = "written" THEN saved \cup {key[s]} ELSE saved
    /\ UNCHANGED <<key, writes>>

Next ==
    \E s \in Sessions :
       \/ \E k \in Keys : Open(s, k)
       \/ Replace(s)
       \/ Get(s)
       \/ Close(s)

Spec == Init /\ [][Next]_vars

-----------------------------------------------------------------------------
(* A key whose saveCache has returned stays in the file: no other session  *)
(* of the store drops it (spec 7: Replace is an atomic overwrite of one    *)
(* key's value).                                                           *)
SavedKeysKept ==
    \A k \in saved : k \in DOMAIN file

=============================================================================
