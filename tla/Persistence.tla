---------------------------- MODULE Persistence ----------------------------
(***************************************************************************)
(* The key-value storage of a plugin in a tenant (internal/core/           *)
(* persistence): an object store, the row that counts the bytes stored     *)
(* and a cache in Redis with an expiry of five minutes.  Save, Load,       *)
(* Delete and Exist run in the goroutines of concurrent requests, take no  *)
(* lock, and may fail between any two of their steps.                      *)
(*                                                                         *)
(* A request names an object by a key.  The cache is asked for the key as  *)
(* it is; the store keeps the object under its cleaned path, so that x and *)
(* ./x are one object with two entries in the cache.  checkPathTraversal   *)
(* accepts both: it cleans a copy.                                         *)
(*                                                                         *)
(* A value is a number that is also its size in bytes; 0 stands for no     *)
(* object.  Hex encoding in the cache loses nothing and is left out.       *)
(***************************************************************************)
EXTENDS Integers, Sequences, FiniteSets

CONSTANTS
  StoreProcs,   \* goroutines that serve requests of one plugin in one tenant
  StoreNames,   \* keys of requests that checkPathTraversal accepts
  StoreKeys,    \* paths of objects
  CleanPath,    \* CleanPath[n]: the path of key n
  MaxBytes,     \* size of the largest value
  Quota,        \* the lesser of the plugin's and the daemon's maximal size
  MaxStoreOps   \* bound: operations of a behaviour

\* What is assumed of the constants.
StoreAssumption ==
  /\ MaxBytes \in Nat /\ Quota \in Nat /\ MaxStoreOps \in Nat
  /\ IsFiniteSet(StoreProcs) /\ IsFiniteSet(StoreKeys)
  /\ CleanPath \in [StoreNames -> StoreKeys]

VARIABLES
  stored,    \* objects in the store, by path
  counted,   \* rows of TenantStorage of this tenant and plugin: their sizes
  cached,    \* objects in the cache, by key
  ops,       \* ops[q]: the operation a goroutine runs, with its locals
  drifted,   \* history: something happened that may spoil the count
  suspect,   \* history: keys whose entry in the cache may be out of date
  storeOps   \* operations started

storeVars == <<stored, counted, cached, ops, drifted, suspect, storeOps>>

Idle == [op |-> "none", pc |-> "idle", name |-> "none", key |-> "none", val |-> 0, old |-> 0]
Writes == {"Save", "Delete"}

\* The keys that clean to path k, and the other keys of the object of n.
NamesOf(k) == {n \in StoreNames : CleanPath[n] = k}
Aliases(n) == NamesOf(CleanPath[n]) \ {n}

StoreInit ==
  /\ stored = [k \in StoreKeys |-> 0] /\ cached = [n \in StoreNames |-> 0]
  /\ counted = <<>>
  /\ ops = [q \in StoreProcs |-> Idle]
  /\ drifted = FALSE /\ suspect = {} /\ storeOps = 0

At(q, l) == ops[q].pc = l
GoOn(q, l) == ops' = [ops EXCEPT ![q].pc = l]
Return(q) == ops' = [ops EXCEPT ![q] = Idle]
OnKey(q, k, kinds) == {r \in StoreProcs \ {q} : ops[r].key = k /\ ops[r].op \in kinds}

\* A request enters Save, Load, Delete or Exist with key n.  Writes of one object that
\* overlap may spoil the count, a Load that overlaps a write may cache an old object, and
\* a write through n leaves the entries of the object's other keys as they are.
Call(q, op, n, v) ==
  LET k == CleanPath[n]
      overlaps == \/ op \in Writes /\ OnKey(q, k, {"Load"} \cup Writes) # {}
                  \/ op = "Load" /\ OnKey(q, k, Writes) # {}
  IN
  /\ At(q, "idle") /\ storeOps < MaxStoreOps
  /\ ops' = [ops EXCEPT ![q] =
               [op |-> op, pc |-> op, name |-> n, key |-> k, val |-> v, old |-> 0]]
  /\ storeOps' = storeOps + 1
  /\ drifted' = (drifted \/ (op \in Writes /\ OnKey(q, k, Writes) # {}))
  /\ suspect' = suspect \cup (IF overlaps THEN NamesOf(k) ELSE {})
                        \cup (IF op \in Writes THEN Aliases(n) ELSE {})
  /\ UNCHANGED <<stored, counted, cached>>

------------------------------------------------------------------------------
(* Save *)

\* Exists and StateSize: when either fails the old size is taken for 0.
SaveOldSize(q) ==
  /\ At(q, "Save")
  /\ \/ /\ ops' = [ops EXCEPT ![q].pc = "put", ![q].old = stored[ops[q].key]]
        /\ UNCHANGED drifted
     \/ /\ ops' = [ops EXCEPT ![q].pc = "put"]
        /\ drifted' = (drifted \/ stored[ops[q].key] # 0)
  /\ UNCHANGED <<stored, counted, cached, suspect, storeOps>>

\* storage.Save; on failure nothing is stored.
SavePut(q) ==
  /\ At(q, "put")
  /\ \/ stored' = [stored EXCEPT ![ops[q].key] = ops[q].val] /\ GoOn(q, "quota")
     \/ UNCHANGED stored /\ Return(q)
  /\ UNCHANGED <<counted, cached, drifted, suspect, storeOps>>

\* What an error after storage.Save leaves behind: the object is stored, the count and
\* the cached object are those of the old one.
Abandon(q) ==
  /\ Return(q) /\ drifted' = TRUE /\ suspect' = suspect \cup {ops[q].name}

Diff(q) == ops[q].val - ops[q].old

\* db.GetOne and the comparison with the quota: any of the rows may be the one found,
\* and the read itself may fail.
SaveQuota(q) ==
  /\ At(q, "quota")
  /\ \/ /\ counted = <<>> /\ Diff(q) <= Quota
        /\ GoOn(q, "create") /\ UNCHANGED <<drifted, suspect>>
     \/ /\ \E i \in DOMAIN counted : Diff(q) + counted[i] <= Quota
        /\ GoOn(q, "inc") /\ UNCHANGED <<drifted, suspect>>
     \/ /\ IF counted = <<>> THEN Diff(q) > Quota
           ELSE \E i \in DOMAIN counted : Diff(q) + counted[i] > Quota
        /\ Abandon(q)
     \/ Abandon(q)
  /\ UNCHANGED <<stored, counted, cached, storeOps>>

\* Mutant: the whole size is added, also when an object is replaced.
SaveCount_Gross(q) ==
  /\ \/ At(q, "create") /\ counted' = Append(counted, ops[q].val)
     \/ At(q, "inc") /\ counted' = [i \in DOMAIN counted |-> counted[i] + ops[q].val]
  /\ GoOn(q, "uncache")
  /\ UNCHANGED <<stored, cached, drifted, suspect, storeOps>>

\* db.Create of the first row, or db.Inc of every row of the tenant and plugin.  No
\* index forbids the row of two first Saves.
SaveCount(q) ==
  /\ \/ /\ At(q, "create")
        /\ counted' = Append(counted, Diff(q))
        /\ drifted' = (drifted \/ counted # <<>>)
        /\ GoOn(q, "uncache") /\ UNCHANGED suspect
     \/ /\ At(q, "inc")
        /\ counted' = [i \in DOMAIN counted |-> counted[i] + Diff(q)]
        /\ GoOn(q, "uncache") /\ UNCHANGED <<drifted, suspect>>
     \/ At(q, "create") /\ Abandon(q) /\ UNCHANGED counted
     \/ At(q, "inc") /\ Abandon(q) /\ UNCHANGED counted
  /\ UNCHANGED <<stored, cached, storeOps>>

\* cache.Del; its failure is returned and the old object stays cached.
SaveUncache(q) ==
  /\ At(q, "uncache")
  /\ \/ cached' = [cached EXCEPT ![ops[q].name] = 0] /\ UNCHANGED suspect
     \/ suspect' = suspect \cup {ops[q].name} /\ UNCHANGED cached
  /\ Return(q)
  /\ UNCHANGED <<stored, counted, drifted, storeOps>>

------------------------------------------------------------------------------
(* Load, Delete, Exist *)

\* The cache is asked first; an error of it ends the request.
LoadCached(q) ==
  /\ At(q, "Load")
  /\ \/ cached[ops[q].name] = 0 /\ GoOn(q, "fetch")
     \/ Return(q)
  /\ UNCHANGED <<stored, counted, cached, drifted, suspect, storeOps>>

\* storage.Load, which fails without an object.
LoadFetch(q) ==
  /\ At(q, "fetch")
  /\ \/ /\ stored[ops[q].key] # 0
        /\ ops' = [ops EXCEPT ![q].pc = "fill", ![q].val = stored[ops[q].key]]
     \/ Return(q)
  /\ UNCHANGED <<stored, counted, cached, drifted, suspect, storeOps>>

\* cache.Store; its error is ignored.
LoadFill(q) ==
  /\ At(q, "fill")
  /\ \/ cached' = [cached EXCEPT ![ops[q].name] = ops[q].val]
     \/ UNCHANGED cached
  /\ Return(q)
  /\ UNCHANGED <<stored, counted, drifted, suspect, storeOps>>

\* cache.Del; on error nothing is deleted.
DeleteCached(q) ==
  /\ At(q, "Delete")
  /\ \/ cached' = [cached EXCEPT ![ops[q].name] = 0] /\ GoOn(q, "size")
     \/ UNCHANGED cached /\ Return(q)
  /\ UNCHANGED <<stored, counted, drifted, suspect, storeOps>>

\* storage.StateSize, which fails without an object.
DeleteSize(q) ==
  /\ At(q, "size")
  /\ \/ /\ stored[ops[q].key] # 0
        /\ ops' = [ops EXCEPT ![q].pc = "remove", ![q].old = stored[ops[q].key]]
     \/ Return(q)
  /\ UNCHANGED <<stored, counted, cached, drifted, suspect, storeOps>>

DeleteObject(q) ==
  /\ At(q, "remove")
  /\ \/ stored' = [stored EXCEPT ![ops[q].key] = 0] /\ GoOn(q, "dec")
     \/ UNCHANGED stored /\ Return(q)
  /\ UNCHANGED <<counted, cached, drifted, suspect, storeOps>>

\* db.Dec of every row; on error the object is gone and still counted.
DeleteCount(q) ==
  /\ At(q, "dec")
  /\ \/ /\ counted' = [i \in DOMAIN counted |-> counted[i] - ops[q].old]
        /\ UNCHANGED drifted
     \/ drifted' = TRUE /\ UNCHANGED counted
  /\ Return(q)
  /\ UNCHANGED <<stored, cached, suspect, storeOps>>

\* Exist reads the cache and, when it has nothing, the store; it changes neither.
ExistReads(q) ==
  /\ \/ At(q, "Exist") /\ cached[ops[q].name] = 0 /\ GoOn(q, "stat")
     \/ At(q, "Exist") /\ Return(q)
     \/ At(q, "stat") /\ Return(q)
  /\ UNCHANGED <<stored, counted, cached, drifted, suspect, storeOps>>

\* Redis drops an entry after five minutes, and with it, unless requests of the object
\* are under way, what may have been out of date.
CacheExpires(n) ==
  /\ cached[n] # 0 /\ cached' = [cached EXCEPT ![n] = 0]
  /\ suspect' = IF \E q \in StoreProcs : ops[q].key = CleanPath[n] THEN suspect
                ELSE suspect \ {n}
  /\ UNCHANGED <<stored, counted, ops, drifted, storeOps>>

StoreStep(q) ==
  \/ SaveOldSize(q) \/ SavePut(q) \/ SaveQuota(q) \/ SaveCount(q) \/ SaveUncache(q)
  \/ LoadCached(q) \/ LoadFetch(q) \/ LoadFill(q)
  \/ DeleteCached(q) \/ DeleteSize(q) \/ DeleteObject(q) \/ DeleteCount(q)
  \/ ExistReads(q)

StoreNext ==
  \/ \E q \in StoreProcs, n \in StoreNames :
       \/ \E v \in 1..MaxBytes : Call(q, "Save", n, v)
       \/ \E op \in {"Load", "Delete", "Exist"} : Call(q, op, n, 0)
  \/ \E q \in StoreProcs : StoreStep(q)
  \/ \E n \in StoreNames : CacheExpires(n)

StoreSpec == StoreInit /\ [][StoreNext]_storeVars

------------------------------------------------------------------------------
(* Properties *)

StorePCs == {"idle", "Save", "put", "quota", "create", "inc", "uncache", "Load",
             "fetch", "fill", "Delete", "size", "remove", "dec", "Exist", "stat"}

OpShape == [op : {"none", "Save", "Load", "Delete", "Exist"}, pc : StorePCs,
            name : StoreNames \cup {"none"}, key : StoreKeys \cup {"none"},
            val : 0..MaxBytes, old : 0..MaxBytes]

\* Types; sizes in the rows may be negative when the count has drifted.
StoreTypeOK ==
  /\ stored \in [StoreKeys -> 0..MaxBytes] /\ cached \in [StoreNames -> 0..MaxBytes]
  /\ counted \in Seq(Int)
  /\ ops \in [StoreProcs -> OpShape]
  /\ drifted \in BOOLEAN /\ suspect \subseteq StoreNames /\ storeOps \in 0..MaxStoreOps

\* Sums of sizes are counted byte by byte: the bytes of all x \in S of sizes f.
BytesOf(S, f) == {c \in S \X (1..MaxBytes) : c[2] <= f[c[1]]}

\* What a request has stored, or replaced or removed, and not yet counted.
Uncounted(q) == IF ops[q].pc \in {"quota", "create", "inc"} THEN ops[q].val ELSE 0
Overcounted(q) == IF ops[q].pc \in {"quota", "create", "inc", "dec"} THEN ops[q].old ELSE 0

Row_ == IF counted = <<>> THEN 0 ELSE counted[1]

\* While requests write different objects, none is refused or fails halfway and only one
\* Save creates the row, the row counts exactly the bytes in the store, up to what the
\* requests under way have stored or removed and not yet counted (persistence.go).
CountedExact ==
  ~drifted =>
    Row_ = Cardinality(BytesOf(StoreKeys, stored))
             - Cardinality(BytesOf(StoreProcs, [q \in StoreProcs |-> Uncounted(q)]))
             + Cardinality(BytesOf(StoreProcs, [q \in StoreProcs |-> Overcounted(q)]))

\* Requests check the quota before they add to the count, without a lock: the count can
\* pass the quota, but by no more than what the other requests may have added since.
QuotaOvershoot ==
  ~drifted /\ counted # <<>> =>
    counted[1] <= Quota + (Cardinality(StoreProcs) - 1) * MaxBytes

\* A cached object is the stored one whenever no write of it is under way, unless, since
\* its entry last expired, a Load overlapped a write of the object, a Save ended in an
\* error after it had stored, or the object was written under another key of its path.
CacheCoherent ==
  \A n \in StoreNames \ suspect :
    (\A q \in StoreProcs : ~(ops[q].key = CleanPath[n] /\ ops[q].op \in Writes))
      => cached[n] \in {0, stored[CleanPath[n]]}

------------------------------------------------------------------------------
(* The inductive invariant *)

\* What a request knows at each point of its operation.
OpKnows(q) ==
  /\ ops[q].op = CASE ops[q].pc \in {"Save", "put", "quota", "create", "inc", "uncache"} -> "Save"
                   [] ops[q].pc \in {"Load", "fetch", "fill"} -> "Load"
                   [] ops[q].pc \in {"Delete", "size", "remove", "dec"} -> "Delete"
                   [] ops[q].pc \in {"Exist", "stat"} -> "Exist"
                   [] ops[q].pc = "idle" -> "none"
  /\ ops[q].pc # "idle" => ops[q].name \in StoreNames /\ ops[q].key = CleanPath[ops[q].name]
  /\ ops[q].pc = "inc" => counted # <<>>
  /\ ops[q].pc = "remove" => ops[q].old # 0

\* The old size a Save or Delete has read is the one in the store.
OldKnown(q) ==
  /\ ops[q].pc = "Save" => ops[q].old = 0
  /\ ops[q].pc \in {"put", "remove"} => ops[q].old = stored[ops[q].key]

\* Without a drift writes of a key exclude each other and there is one row.
CountKnown ==
  ~drifted =>
    /\ \A q, r \in StoreProcs :
         q # r /\ ops[q].op \in Writes /\ ops[r].op \in Writes => ops[q].key # ops[r].key
    /\ \A q \in StoreProcs : OldKnown(q)
    /\ Len(counted) <= 1

\* Before there is a row, only Saves under way have stored something: no Delete has found
\* an object to subtract.
RowKnown ==
  ~drifted /\ counted = <<>> =>
    /\ \A q \in StoreProcs : ops[q].pc # "dec"
    /\ \A k \in StoreKeys : stored[k] # 0 =>
         \E q \in StoreProcs : ops[q].key = k /\ ops[q].pc \in {"quota", "create"}

\* A write has made the other keys of its object suspect.  Where it has got to, the entry
\* of its own key; a Load that will cache what it has read has read the stored object,
\* since writes of the object exclude it.
CacheKnows(q) ==
  /\ ops[q].op \in Writes => Aliases(ops[q].name) \subseteq suspect
  /\ ops[q].name \in StoreNames \ suspect =>
       /\ ops[q].pc = "fill" => ops[q].val = stored[ops[q].key]
       /\ ops[q].pc \in {"Save", "put", "Delete"} => cached[ops[q].name] \in {0, stored[ops[q].key]}
       /\ ops[q].pc \in {"size", "remove", "dec"} => cached[ops[q].name] = 0
       /\ ops[q].op \in Writes => OnKey(q, ops[q].key, {"Load"} \cup Writes) = {}

\* What a Save that has passed the quota will add.
Adds(q) ==
  IF ops[q].pc \in {"create", "inc"} /\ ops[q].val > ops[q].old THEN ops[q].val - ops[q].old ELSE 0

\* Every Save adds at most one value to a count that was within the quota when it looked.
QuotaKnown ==
  ~drifted =>
    /\ counted # <<>> => StoreProcs # {}
    /\ StoreProcs # {} =>
         Row_ + Cardinality(BytesOf(StoreProcs, [q \in StoreProcs |-> Adds(q)]))
           <= Quota + (Cardinality(StoreProcs) - 1) * MaxBytes

StoreIInv ==
  /\ StoreTypeOK /\ (\A q \in StoreProcs : OpKnows(q) /\ CacheKnows(q))
  /\ CountKnown /\ RowKnown /\ CountedExact /\ QuotaKnown /\ CacheCoherent
=============================================================================
