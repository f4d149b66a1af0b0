------------------------------ MODULE NodeStatus ------------------------------
(***************************************************************************)
(* The hash map cluster-nodes-status-hash-map in Redis: node.go and        *)
(* vote.go of internal/cluster.  Every node refreshes its own entry, votes *)
(* on the addresses of the others and, as master, removes the entries of   *)
(* nodes that no longer ping.  Each of these reads an entry, changes it    *)
(* and writes it back under the Redis lock of that entry (cache.Lock,      *)
(* cache.Unlock).                                                          *)
(*                                                                         *)
(* A node runs its jobs in one loop, beside a boot routine that updates    *)
(* and votes once.  Redis commands are atomic and are actions here.        *)
(***************************************************************************)
EXTENDS Integers

CONSTANTS
  Nodes,
  Boots,        \* nodes whose boot routine is still to run
  Timeout,      \* nodeDisconnectedTimeout
  MaxNow,       \* bound on the clock
  Faults,       \* what may go wrong, of AllFaults
  None

\* cache.Lock times out or is refused; a command in the section fails; cache.Unlock
\* fails; a process dies.
AllFaults == {"lock", "section", "unlock", "crash"}

ASSUME NodeStatusAssumption ==
  /\ None \notin Nodes
  /\ Boots \subseteq Nodes
  /\ Timeout \in Nat \ {0} /\ MaxNow \in Nat
  /\ Faults \subseteq AllFaults

VARIABLES
  now,
  status,   \* the hash map: ping time and votes of a node, or None
  lock,     \* who set the lock key of a node, or None
  view,     \* c.nodes: the nodes a node believes available
  pc, job, todo, target, copy   \* of each thread

vars == <<now, status, lock, view, pc, job, todo, target, copy>>
local == <<job, todo, target, copy>>

Loops   == {<<n, "loop">> : n \in Nodes}
Threads == Loops \cup {<<n, "boot">> : n \in Boots}

\* An entry: the time of the last ping and the nodes that have voted.  A vote
\* counts in SortIps whether the health check succeeded or not.
Status == [ping : Nat, votes : SUBSET Nodes]

\* None is none of these.
ASSUME NoneAssumption == None \notin Threads \cup Status

Jobs == {"none", "update", "vote", "gc", "leave"}
PCs  == {"idle", "next", "lock", "read", "write", "nodes", "store", "delete", "unlock", "end"}

Goto(t, l) == pc' = [pc EXCEPT ![t] = l]

------------------------------------------------------------------------------
Init ==
  /\ now = 0
  /\ status = [n \in Nodes |-> None]
  /\ lock = [n \in Nodes |-> None]
  /\ view = [n \in Nodes |-> {}]
  /\ pc = [t \in Threads |-> "idle"]
  /\ job = [t \in Threads |-> "none"]
  /\ todo = [t \in Threads |-> {}]
  /\ target = [t \in Threads |-> t[1]]
  /\ copy = [t \in Threads |-> None]

\* isNodeAvailable
Available(s) == s # None /\ now - s.ping < Timeout

Present == {m \in Nodes : status[m] # None}

\* A thread starts a job on a set of entries.
Start(t, j, S, l) ==
  /\ job' = [job EXCEPT ![t] = j]
  /\ todo' = [todo EXCEPT ![t] = S]
  /\ Goto(t, l)
  /\ UNCHANGED <<now, status, lock, view, copy>>

\* updateNodeStatus: by the ticker, or first thing in the boot routine.
BeginUpdate(t) ==
  /\ pc[t] = "idle"
  /\ target' = [target EXCEPT ![t] = t[1]]
  /\ Start(t, "update", {}, "lock")

\* voteAddresses: GetMap, then one entry after the other, not its own.
BeginVote(t) ==
  /\ pc[t] = "idle" /\ t \in Loops
  /\ UNCHANGED target
  /\ Start(t, "vote", Present \ {t[1]}, "next")

\* autoGCNodes of the master: the entries found disconnected in one GetMap.
BeginGC(t) ==
  /\ pc[t] = "idle" /\ t \in Loops
  /\ UNCHANGED target
  /\ Start(t, "gc", {m \in Present : ~Available(status[m])}, "next")

\* clusterLifetime returns: removeSelfNode is gcNode of the own entry.
BeginLeave(t) ==
  /\ pc[t] = "idle" /\ t \in Loops
  /\ UNCHANGED target
  /\ Start(t, "leave", {t[1]}, "next")

\* The next entry of a vote or a collection, or the end of the job.  gcNode has
\* dropped the node from its own view before it asks for the lock.
NextEntry(t) ==
  /\ pc[t] = "next"
  /\ \/ \E m \in todo[t] :
          /\ target' = [target EXCEPT ![t] = m]
          /\ todo' = [todo EXCEPT ![t] = @ \ {m}]
          /\ view' = IF job[t] = "vote" THEN view ELSE [view EXCEPT ![t[1]] = @ \ {m}]
          /\ Goto(t, "lock")
          /\ UNCHANGED job
     \/ /\ todo[t] = {}
        /\ job' = [job EXCEPT ![t] = "none"]
        /\ Goto(t, IF job[t] = "leave" \/ t \notin Loops THEN "end" ELSE "idle")
        /\ UNCHANGED <<todo, target, view>>
  /\ UNCHANGED <<now, status, lock, copy>>

\* Where a job goes on when it is through with an entry; the boot routine votes
\* after its update.
Continue(t) ==
  /\ copy' = [copy EXCEPT ![t] = None]
  /\ target' = [target EXCEPT ![t] = t[1]]
  /\ IF job[t] # "update"
       THEN Goto(t, "next") /\ UNCHANGED <<job, todo>>
       ELSE IF t \in Loops
         THEN Goto(t, "idle") /\ job' = [job EXCEPT ![t] = "none"] /\ UNCHANGED todo
         ELSE /\ Goto(t, "next")
              /\ job' = [job EXCEPT ![t] = "vote"]
              /\ todo' = [todo EXCEPT ![t] = Present \ {t[1]}]

\* Mutant: the lock key is set whether it is there or not.
Lock_Set(t) ==
  /\ pc[t] = "lock"
  /\ lock' = [lock EXCEPT ![target[t]] = t]
  /\ Goto(t, IF job[t] \in {"gc", "leave"} THEN "delete" ELSE "read")
  /\ UNCHANGED <<now, status, view, local>>

\* LockNodeStatus succeeds: SETNX of the lock key.
Lock(t) ==
  /\ pc[t] = "lock"
  /\ lock[target[t]] = None
  /\ lock' = [lock EXCEPT ![target[t]] = t]
  /\ Goto(t, IF job[t] \in {"gc", "leave"} THEN "delete" ELSE "read")
  /\ UNCHANGED <<now, status, view, local>>

\* LockNodeStatus fails.  The vote unlocks all the same: it deletes the key that
\* another thread has set.
LockFails(t) ==
  /\ "lock" \in Faults
  /\ pc[t] = "lock"
  /\ lock' = IF job[t] = "vote" THEN [lock EXCEPT ![target[t]] = None] ELSE lock
  /\ Continue(t)
  /\ UNCHANGED <<now, status, view>>

\* Mutant: an update of a missing entry is given up as well.
Read_Missing(t) ==
  /\ pc[t] = "read"
  /\ copy' = [copy EXCEPT ![t] = status[target[t]]]
  /\ Goto(t, IF status[target[t]] = None THEN "unlock" ELSE "write")
  /\ UNCHANGED <<now, status, lock, view, job, todo, target>>

\* GetMapField under the lock: an update starts a missing entry, a vote skips it.
Read(t) ==
  /\ pc[t] = "read"
  /\ LET s == status[target[t]] IN
     /\ copy' = [copy EXCEPT ![t] = IF s = None /\ job[t] = "update"
                                      THEN [ping |-> 0, votes |-> {}] ELSE s]
     /\ Goto(t, IF s = None /\ job[t] = "vote" THEN "unlock" ELSE "write")
  /\ UNCHANGED <<now, status, lock, view, job, todo, target>>

\* SetMapOneField: the copy with a new ping time, or with this node's vote.
Write(t) ==
  /\ pc[t] = "write"
  /\ status' = [status EXCEPT ![target[t]] =
                   IF job[t] = "update" THEN [copy[t] EXCEPT !.ping = now]
                                        ELSE [copy[t] EXCEPT !.votes = @ \cup {t[1]}]]
  /\ Goto(t, IF job[t] = "update" THEN "nodes" ELSE "unlock")
  /\ UNCHANGED <<now, lock, view, local>>

\* GetNodes, and c.nodes.Clear: for a moment the node knows no node at all.
FetchNodes(t) ==
  /\ pc[t] = "nodes"
  /\ todo' = [todo EXCEPT ![t] = {m \in Present : Available(status[m])}]
  /\ view' = [view EXCEPT ![t[1]] = {}]
  /\ Goto(t, "store")
  /\ UNCHANGED <<now, status, lock, job, target, copy>>

StoreNodes(t) ==
  /\ pc[t] = "store"
  /\ view' = [view EXCEPT ![t[1]] = @ \cup todo[t]]
  /\ todo' = [todo EXCEPT ![t] = {}]
  /\ Goto(t, "unlock")
  /\ UNCHANGED <<now, status, lock, job, target, copy>>

\* DelMapField in gcNode; nobody looks again whether the node has come back.
Delete(t) ==
  /\ pc[t] = "delete"
  /\ status' = [status EXCEPT ![target[t]] = None]
  /\ Goto(t, "unlock")
  /\ UNCHANGED <<now, lock, view, local>>

\* A command fails in the section: every job leaves it through its unlock.
SectionFails(t) ==
  /\ "section" \in Faults
  /\ pc[t] \in {"read", "write", "nodes", "delete"}
  /\ Goto(t, "unlock")
  /\ UNCHANGED <<now, status, lock, view, local>>

\* UnlockNodeStatus: DEL of the key, whoever set it.
Unlock(t) ==
  /\ pc[t] = "unlock"
  /\ lock' = [lock EXCEPT ![target[t]] = None]
  /\ Continue(t)
  /\ UNCHANGED <<now, status, view>>

\* The DEL fails: the key stays until it expires.
UnlockFails(t) ==
  /\ "unlock" \in Faults
  /\ pc[t] = "unlock"
  /\ Continue(t)
  /\ UNCHANGED <<now, status, lock, view>>

\* The process of a node dies: its entry stays, and so does a lock it holds.
Crash(n) ==
  /\ "crash" \in Faults
  /\ pc[<<n, "loop">>] # "end"
  /\ pc' = [t \in Threads |-> IF t[1] = n THEN "end" ELSE pc[t]]
  /\ UNCHANGED <<now, status, lock, view, local>>

InSection(t) == pc[t] \in {"read", "write", "nodes", "store", "delete", "unlock"}

\* Mutant: the key may expire in the section.
Expire_Early(m) ==
  /\ lock[m] # None
  /\ lock' = [lock EXCEPT ![m] = None]
  /\ UNCHANGED <<now, status, view, pc, local>>

\* The lock key expires after 5 seconds.  A section is a few Redis commands and is
\* taken to be over by then: only a key that was left behind expires.
Expire(m) ==
  /\ lock[m] # None
  /\ ~(InSection(lock[m]) /\ target[lock[m]] = m)
  /\ lock' = [lock EXCEPT ![m] = None]
  /\ UNCHANGED <<now, status, view, pc, local>>

Tick ==
  /\ now < MaxNow
  /\ now' = now + 1
  /\ UNCHANGED <<status, lock, view, pc, local>>

JobStep(t) ==
  \/ NextEntry(t) \/ Lock(t) \/ LockFails(t) \/ Read(t) \/ Write(t)
  \/ FetchNodes(t) \/ StoreNodes(t) \/ Delete(t) \/ Unlock(t)

Next ==
  \/ \E t \in Threads :
       \/ BeginUpdate(t) \/ BeginVote(t) \/ BeginGC(t) \/ BeginLeave(t)
       \/ JobStep(t) \/ SectionFails(t) \/ UnlockFails(t)
  \/ \E n \in Nodes : Crash(n) \/ Expire(n)
  \/ Tick

\* Jobs proceed, and a key left behind expires.  A loop that is idle comes to its
\* update ticker again (select picks among ready cases at random), and of the
\* attempts of its updates to lock the entry not all fail.
Fairness ==
  /\ \A t \in Threads :
       /\ WF_vars(JobStep(t)) /\ SF_vars(BeginUpdate(t))
       /\ SF_vars(job[t] = "update" /\ Lock(t))
  /\ \A n \in Nodes : WF_vars(Expire(n))

Spec == Init /\ [][Next]_vars /\ Fairness

------------------------------------------------------------------------------
TypeOK ==
  /\ now \in Nat
  /\ status \in [Nodes -> Status \cup {None}]
  /\ lock \in [Nodes -> Threads \cup {None}]
  /\ view \in [Nodes -> SUBSET Nodes]
  /\ pc \in [Threads -> PCs]
  /\ job \in [Threads -> Jobs]
  /\ todo \in [Threads -> SUBSET Nodes]
  /\ target \in [Threads -> Nodes]
  /\ copy \in [Threads -> Status \cup {None}]

\* The lock of an entry admits one thread at a time.
SectionExclusive ==
  \A s, t \in Threads :
    InSection(s) /\ InSection(t) /\ target[s] = target[t] => s = t

\* An entry is written back only over the version that was read: neither a ping
\* nor another node's vote is lost.
NoLostUpdate ==
  \A t \in Threads : pc[t] = "write" =>
    \/ copy[t] = status[target[t]]
    \/ job[t] = "update" /\ status[target[t]] = None /\ copy[t].votes = {}

\* A node that stays comes back into the map and into its own view, even if a
\* master removed its entry on a stale reading.
NodeReturns ==
  \A n \in Nodes :
    status[n] = None ~> (status[n] # None \/ job[<<n, "loop">>] = "leave" \/ pc[<<n, "loop">>] = "end")
==============================================================================
