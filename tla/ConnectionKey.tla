--------------------------- MODULE ConnectionKey ---------------------------
(***************************************************************************)
(* The keys with which a developer connects a plugin to the debugging      *)
(* server (internal/service/debugging_service/connection_key.go): a random *)
(* key of a tenant, kept as two Redis entries, tenant -> key (id2key) and  *)
(* key -> tenant (key2id), each with its own time to live, that            *)
(* GetConnectionKey creates in one transaction and renews in two commands, *)
(* GetConnectionInfo reads and ClearConnectionKey removes in three.        *)
(***************************************************************************)
EXTENDS Naturals, FiniteSets

CONSTANTS
    KeyCallers,     \* requests of one tenant
    MaxKeys,        \* bound: keys ever drawn
    KeyTTL,         \* CONNECTION_KEY_EXPIRE_TIME, in steps of the clock
    MaxTicks,       \* bound: steps of the clock
    MaxLost         \* bound: commands that fail

\* What is assumed of the constants; CONNECTION_KEY_EXPIRE_TIME is 15 minutes.
KeyAssumption == MaxKeys \in Nat /\ KeyTTL \in Nat \ {0} /\ MaxTicks \in Nat /\ MaxLost \in Nat

VARIABLES
    id2key,     \* [key, ttl], or NoEntry
    key2id,     \* time to live of the entry of each key, 0 without one
    call,       \* [at, key, dirty] of each request: its next command, its key,
                \* and whether what it watches was changed
    drawn,      \* keys drawn so far
    ticks, lostCmds,
    parted      \* history: a renewal or a removal reached only one of the two entries

keyVars == <<id2key, key2id, call, drawn, ticks, lostCmds, parted>>

NoEntry == [key |-> 0, ttl |-> 0]
Keys_ == 1..MaxKeys
NoKeyCall == [at |-> "idle", key |-> 0, dirty |-> FALSE]

KeyInit ==
    /\ id2key = NoEntry /\ key2id = [k \in Keys_ |-> 0]
    /\ call = [c \in KeyCallers |-> NoKeyCall]
    /\ drawn = 0 /\ ticks = 0 /\ lostCmds = 0 /\ parted = FALSE

Clocks == <<ticks, lostCmds>>

\* Caller c goes from one command to the next; a command that changes id2key (touches)
\* marks the transactions that watch it.
Goes2(c, from, to, touches) ==
    /\ call[c].at = from
    /\ call' = [d \in KeyCallers |->
                   IF d = c THEN [call[c] EXCEPT !.at = to]
                   ELSE [call[d] EXCEPT !.dirty = @ \/ (touches /\ call[d].at = "exec")]]

\* A command that fails; the errors of Expire are logged, those of Del dropped.
CmdFails == lostCmds < MaxLost /\ lostCmds' = lostCmds + 1 /\ UNCHANGED ticks

---------------------------------------------------------------------------
(* GetConnectionKey                                                        *)

\* cache.Get of id2key: renew what is found, create if there is none, or fail.
GetKey(c) ==
    /\ call[c].at = "idle"
    /\ \/ /\ call' = [call EXCEPT ![c] = IF id2key # NoEntry
                                         THEN [NoKeyCall EXCEPT !.at = "expire_id", !.key = id2key.key]
                                         ELSE [NoKeyCall EXCEPT !.at = "watch"]]
          /\ UNCHANGED Clocks
       \/ CmdFails /\ call' = [call EXCEPT ![c].at = "error"]
    /\ UNCHANGED <<id2key, key2id, drawn, parted>>

\* cache.Transaction: WATCH on id2key, which is not read again under it.
WatchKey(c) ==
    /\ call[c].at = "watch" /\ drawn < MaxKeys
    /\ drawn' = drawn + 1
    /\ call' = [call EXCEPT ![c] = [at |-> "exec", key |-> drawn + 1, dirty |-> FALSE]]
    /\ UNCHANGED <<id2key, key2id, Clocks, parted>>

\* EXEC of the two SETNX, refused if id2key was changed since the WATCH.  The answers of
\* the SETNX are not looked at: the drawn key is returned even if id2key holds another.
ExecKey(c) ==
    /\ \/ /\ ~call[c].dirty
          /\ Goes2(c, "exec", "done", id2key = NoEntry)
          /\ id2key' = IF id2key = NoEntry THEN [key |-> call[c].key, ttl |-> KeyTTL] ELSE id2key
          /\ key2id' = [key2id EXCEPT ![call[c].key] = KeyTTL]
          /\ UNCHANGED Clocks
       \/ /\ Goes2(c, "exec", "error", FALSE)
          /\ IF call[c].dirty THEN UNCHANGED Clocks ELSE CmdFails
          /\ UNCHANGED <<id2key, key2id>>
    /\ UNCHANGED <<drawn, parted>>

\* The two Expire of the other branch.  The tenant's entry is renewed whatever key it holds
\* by now; an entry that is gone is not renewed.
ExpireId(c) ==
    /\ \/ /\ Goes2(c, "expire_id", "expire_key", id2key # NoEntry)
          /\ id2key' = IF id2key = NoEntry THEN id2key ELSE [id2key EXCEPT !.ttl = KeyTTL]
          /\ parted' = (parted \/ id2key.key \notin {0, call[c].key})
          /\ UNCHANGED Clocks
       \/ CmdFails /\ Goes2(c, "expire_id", "expire_key", FALSE) /\ UNCHANGED <<id2key, parted>>
    /\ UNCHANGED <<key2id, drawn>>

ExpireKey(c) ==
    /\ Goes2(c, "expire_key", "done", FALSE)
    /\ \/ /\ key2id' = [key2id EXCEPT ![call[c].key] = IF @ = 0 THEN 0 ELSE KeyTTL]
          /\ parted' = (parted \/ key2id[call[c].key] = 0)
          /\ UNCHANGED Clocks
       \/ CmdFails /\ parted' = TRUE /\ UNCHANGED key2id
    /\ UNCHANGED <<id2key, drawn>>

---------------------------------------------------------------------------
(* ClearConnectionKey, called when the installation is deleted             *)

\* cache.Get of id2key; without a key, or on an error, nothing is removed.
ClearRead(c) ==
    /\ call[c].at = "idle" /\ id2key # NoEntry
    /\ call' = [call EXCEPT ![c] = [NoKeyCall EXCEPT !.at = "del_key", !.key = id2key.key]]
    /\ UNCHANGED <<id2key, key2id, drawn, Clocks, parted>>

ClearKey(c) ==
    /\ Goes2(c, "del_key", "del_id", FALSE)
    /\ \/ key2id' = [key2id EXCEPT ![call[c].key] = 0] /\ UNCHANGED <<Clocks, parted>>
       \/ CmdFails /\ parted' = TRUE /\ UNCHANGED key2id
    /\ UNCHANGED <<id2key, drawn>>

\* Mutant: the tenant's entry is kept.
ClearId_Kept(c) ==
    /\ Goes2(c, "del_id", "cleared", FALSE)
    /\ UNCHANGED <<id2key, key2id, drawn, Clocks, parted>>

\* The tenant's entry goes, whatever key it holds by now.
ClearId(c) ==
    /\ \/ Goes2(c, "del_id", "cleared", id2key # NoEntry) /\ id2key' = NoEntry /\ UNCHANGED <<Clocks, parted>>
       \/ Goes2(c, "del_id", "cleared", FALSE) /\ CmdFails /\ parted' = TRUE /\ UNCHANGED id2key
    /\ UNCHANGED <<key2id, drawn>>

CallAgain(c) ==
    /\ call[c].at \in {"done", "error", "cleared"}
    /\ call' = [call EXCEPT ![c] = NoKeyCall]
    /\ UNCHANGED <<id2key, key2id, drawn, Clocks, parted>>

\* Redis: time passes for all entries at once; an entry of 1 goes.
TickKeys ==
    /\ ticks < MaxTicks /\ ticks' = ticks + 1
    /\ id2key' = IF id2key.ttl <= 1 THEN NoEntry ELSE [id2key EXCEPT !.ttl = @ - 1]
    /\ key2id' = [k \in Keys_ |-> IF key2id[k] = 0 THEN 0 ELSE key2id[k] - 1]
    /\ UNCHANGED <<call, drawn, lostCmds, parted>>

KeyStep(c) ==
    \/ GetKey(c) \/ WatchKey(c) \/ ExecKey(c) \/ ExpireId(c) \/ ExpireKey(c)
    \/ ClearRead(c) \/ ClearKey(c) \/ ClearId(c) \/ CallAgain(c)

KeyNext == TickKeys \/ \E c \in KeyCallers : KeyStep(c)

KeySpec == KeyInit /\ [][KeyNext]_keyVars

---------------------------------------------------------------------------
(* Properties *)

\* Types; the times to live stay within CONNECTION_KEY_EXPIRE_TIME, and a request holds only
\* keys that were drawn.
KeyTypeOK ==
    /\ id2key \in [key : 0..MaxKeys, ttl : 0..KeyTTL] /\ key2id \in [Keys_ -> 0..KeyTTL]
    /\ drawn \in 0..MaxKeys /\ ticks \in 0..MaxTicks /\ lostCmds \in 0..MaxLost /\ parted \in BOOLEAN
    /\ \A c \in KeyCallers : call[c].key \in 0..drawn

Clearing == \E c \in KeyCallers : call[c].at \in {"del_key", "del_id"}
Renewing(k) == \E c \in KeyCallers : call[c].at = "expire_key" /\ call[c].key = k

\* GetConnectionKey and GetConnectionInfo: the key that a tenant is given resolves to the
\* tenant as long as the tenant's entry holds it; the two entries part only by a command
\* that failed, by a removal under way, or while one of them is being renewed.
HeldKeyResolves ==
    id2key # NoEntry /\ ~parted /\ ~Clearing /\ ~Renewing(id2key.key) => key2id[id2key.key] >= id2key.ttl

\* ClearConnectionKey: once both Del succeeded, the key that was read resolves no more and
\* is not the tenant's key either, however renewals and creations interleave with them (a
\* renewal never brings an entry back).
ClearedIsGone ==
    \A c \in KeyCallers : call[c].at = "cleared" /\ ~parted => key2id[call[c].key] = 0 /\ id2key.key # call[c].key

---------------------------------------------------------------------------
(* The inductive invariant                                                 *)

KeyCallShape ==
    [at : {"idle", "expire_id", "expire_key", "watch", "exec", "del_key", "del_id", "done",
           "error", "cleared"},
     key : 0..MaxKeys, dirty : BOOLEAN]

\* An entry of the tenant is that of a key that was drawn, and has time to live.
EntryIsDrawn == id2key = NoEntry \/ (id2key.key \in 1..drawn /\ id2key.ttl \in 1..KeyTTL)

\* What a request holds: a key that was drawn; while it is about to be written nobody else
\* holds it; and once it was deleted it stays so.
KeyIsHeld(c) ==
    /\ call[c].at \in {"expire_id", "expire_key", "exec", "del_key", "del_id", "cleared"}
         => call[c].key # 0
    /\ call[c].at = "exec" =>
         id2key.key # call[c].key /\ \A d \in KeyCallers \ {c} : call[d].key # call[c].key
    /\ call[c].at \in {"del_id", "cleared"} /\ ~parted => key2id[call[c].key] = 0
    /\ call[c].at = "cleared" /\ ~parted => id2key.key # call[c].key

KeyIInv ==
    /\ KeyTypeOK /\ call \in [KeyCallers -> KeyCallShape] /\ EntryIsDrawn
    /\ \A c \in KeyCallers : KeyIsHeld(c)
    /\ HeldKeyResolves
============================================================================
