----------------------------- MODULE ColumnStore -----------------------------
(***************************************************************************)
(* The databases of a ColumnStore (db.go): DB opens one or returns the one  *)
(* that is open, DropDB closes one and removes its files, Close closes all. *)
(* The store's mutex is released while a log is replayed.                   *)
(*                                                                         *)
(* A database is named after the call of DB that created it.  Whatever runs *)
(* with the mutex held from beginning to end is one step; only Close keeps  *)
(* the mutex over several steps.                                            *)
(***************************************************************************)
CONSTANTS Names,        \* valid names of databases
          Opens,        \* calls of DB, by users and by recoverDBsFromStorage
          Drops,        \* calls of DropDB
          SerialDrops,  \* TRUE: no call of DropDB overlaps another
          None, Failed, Panic

ASSUME StoreAssumption ==
    /\ SerialDrops \in BOOLEAN
    /\ {None, Failed, Panic} \intersect Opens = {}
    /\ None # Failed /\ None # Panic /\ Failed # Panic

VARIABLES
    enableWAL,   \* WithWAL
    registry,    \* there is a registry, so that metrics are registered
    sinks,       \* databases persist on Close, and drop their storage then
    dbs,         \* the database of each name
    replays,     \* dbReplaysInProgress: the database of each name being replayed
    registered,  \* names with metrics in the registry
    closing,     \* ColumnStore.Close: "open", "closing" (the mutex is held), "closed"
    toClose,     \* databases that Close has still to close
    opc, name, channel, result,  \* the calls of DB; channel is waitForReplay
    state,       \* the databases: "none", "opening", "live", "closed", "failed"
    dpc, target, \* the calls of DropDB, and the database each has got
    wiped        \* open databases whose files another one's Close has removed

config    == <<enableWAL, registry, sinks>>
openVars  == <<opc, name, channel, result>>
closeVars == <<closing, toClose>>
dropVars  == <<dpc, target>>
vars == <<config, dbs, replays, registered, closeVars, openVars, state, dropVars, wiped>>

Init ==
    /\ enableWAL \in BOOLEAN /\ registry \in BOOLEAN /\ sinks \in BOOLEAN
    /\ dbs = [n \in Names |-> None]
    /\ replays = [n \in Names |-> None]
    /\ registered = {}
    /\ closing = "open" /\ toClose = {}
    /\ opc = [c \in Opens |-> "idle"]
    /\ name \in [Opens -> Names]
    /\ channel = [c \in Opens |-> None]
    /\ result = [c \in Opens |-> None]
    /\ state = [c \in Opens |-> "none"]
    /\ dpc = [d \in Drops |-> "idle"]
    /\ target = [d \in Drops |-> None]
    /\ wiped = {}

Unlocked == closing # "closing"

-----------------------------------------------------------------------------
(***************************************************************************)
(* DB.  Applying the options to a database may fail.                        *)
(***************************************************************************)
Return(c, r) == opc' = [opc EXCEPT ![c] = "done"] /\ result' = [result EXCEPT ![c] = r]

Found(c) ==
    /\ dbs[name[c]] # None
    /\ \E r \in {dbs[name[c]], Failed} : Return(c, r)
    /\ UNCHANGED <<config, dbs, replays, registered, closeVars, name, channel, state, dropVars,
                   wiped>>

\* the first look, under the read lock
DB(c) ==
    /\ opc[c] = "idle" /\ Unlocked
    /\ \/ Found(c)
       \/ /\ dbs[name[c]] = None
          /\ opc' = [opc EXCEPT ![c] = "lock"]
          /\ UNCHANGED <<config, dbs, replays, registered, closeVars, name, channel, result,
                         state, dropVars, wiped>>

\* the second look, with the mutex held
FoundLocked(c) == opc[c] = "lock" /\ Unlocked /\ Found(c)

AwaitReplay(c) ==
    /\ opc[c] = "lock" /\ Unlocked
    /\ dbs[name[c]] = None /\ replays[name[c]] # None
    /\ channel' = [channel EXCEPT ![c] = replays[name[c]]]
    /\ opc' = [opc EXCEPT ![c] = "wait"]
    /\ UNCHANGED <<config, dbs, replays, registered, closeVars, name, result, state, dropVars,
                   wiped>>

\* the channel of a replay is closed when the replay is over
Woken(c) ==
    /\ opc[c] = "wait" /\ replays[name[c]] # channel[c]
    /\ opc' = [opc EXCEPT ![c] = "lock"]
    /\ UNCHANGED <<config, dbs, replays, registered, closeVars, name, channel, result,
                   state, dropVars, wiped>>

\* registering a name's metrics again panics
Registers(n) == ~(registry /\ n \in registered)

\* no replay: the database is ready, or its metrics panic
CreateUnlogged(c) ==
    /\ ~enableWAL
    /\ IF Registers(name[c])
       THEN /\ dbs' = [dbs EXCEPT ![name[c]] = c]
            /\ state' = [state EXCEPT ![c] = "live"]
            /\ registered' = registered \union {name[c]}
            /\ Return(c, c)
       ELSE Return(c, Panic) /\ UNCHANGED <<dbs, state, registered>>
    /\ UNCHANGED replays

StartReplay(c) ==
    /\ enableWAL
    /\ replays' = [replays EXCEPT ![name[c]] = c]
    /\ state' = [state EXCEPT ![c] = "opening"]
    /\ opc' = [opc EXCEPT ![c] = "replay"]
    /\ UNCHANGED <<dbs, registered, result>>

\* an option or the prefixes of a source fail
SetupFails(c) == Return(c, Failed) /\ UNCHANGED <<dbs, replays, registered, state>>

\* mutant: forgets the other callers, who may be replaying the same log
CreateAnyway(c) ==
    /\ opc[c] = "lock" /\ Unlocked
    /\ dbs[name[c]] = None
    /\ CreateUnlogged(c) \/ StartReplay(c) \/ SetupFails(c)
    /\ UNCHANGED <<config, closeVars, name, channel, dropVars, wiped>>

Create(c) ==
    /\ opc[c] = "lock" /\ Unlocked
    /\ dbs[name[c]] = None /\ replays[name[c]] = None
    /\ CreateUnlogged(c) \/ StartReplay(c) \/ SetupFails(c)
    /\ UNCHANGED <<config, closeVars, name, channel, dropVars, wiped>>

(***************************************************************************)
(* openWAL, without the mutex: wal.Open registers metrics and may fail      *)
(* before or after that; then the log is replayed and its run loop started. *)
(***************************************************************************)
Replayed(c, r) == opc' = [opc EXCEPT ![c] = "end"] /\ result' = [result EXCEPT ![c] = r]

OpenLog(c) ==
    /\ opc[c] = "replay"
    /\ \/ ~Registers(name[c]) /\ Replayed(c, Panic) /\ UNCHANGED registered
       \/ /\ Registers(name[c]) /\ Replayed(c, Failed)
          /\ registered' \in {registered, registered \union {name[c]}}
       \/ /\ Registers(name[c])
          /\ registered' = registered \union {name[c]}
          /\ opc' = [opc EXCEPT ![c] = "recover"]
          /\ UNCHANGED result
    /\ UNCHANGED <<config, dbs, replays, closeVars, name, channel, state, dropVars, wiped>>

recover(c) ==
    /\ opc[c] = "recover"
    /\ \/ Replayed(c, c) /\ state' = [state EXCEPT ![c] = "live"]
       \/ Replayed(c, Failed) /\ UNCHANGED state
    /\ UNCHANGED <<config, dbs, replays, registered, closeVars, name, channel, dropVars, wiped>>

\* mutant: an error leaves the entry of dbReplaysInProgress and its channel
EndReplayIfOpened(c) ==
    /\ opc[c] = "end" /\ Unlocked
    /\ opc' = [opc EXCEPT ![c] = "done"]
    /\ IF result[c] = c
       THEN /\ dbs' = [dbs EXCEPT ![name[c]] = c]
            /\ replays' = [replays EXCEPT ![name[c]] = None]
            /\ UNCHANGED state
       ELSE state' = [state EXCEPT ![c] = "failed"] /\ UNCHANGED <<dbs, replays>>
    /\ UNCHANGED <<config, registered, closeVars, name, channel, result, dropVars, wiped>>

\* the mutex is taken again and kept until DB returns
EndReplay(c) ==
    /\ opc[c] = "end" /\ Unlocked
    /\ opc' = [opc EXCEPT ![c] = "done"]
    /\ replays' = [replays EXCEPT ![name[c]] = None]
    /\ IF result[c] = c
       THEN dbs' = [dbs EXCEPT ![name[c]] = c] /\ UNCHANGED state
       ELSE state' = [state EXCEPT ![c] = "failed"] /\ UNCHANGED dbs
    /\ UNCHANGED <<config, registered, closeVars, name, channel, result, dropVars, wiped>>
-----------------------------------------------------------------------------
(***************************************************************************)
(* What DB.Close and dropStorage do here.  A second Close of the same       *)
(* database does no harm.  Removing the files hits whoever has them open.   *)
(***************************************************************************)
Users(n) == {c \in Opens : name[c] = n /\ state[c] \in {"opening", "live"}}

CloseDB(c) == state' = [state EXCEPT ![c] = "closed"]

dropStorage(c) == wiped' = wiped \union (Users(name[c]) \ {c})

(***************************************************************************)
(* DropDB.  It returns an error for a name without a database.              *)
(***************************************************************************)
DropGoes(d, at) == dpc' = [dpc EXCEPT ![d] = at]

DropDB(d) ==
    /\ dpc[d] = "idle" /\ Unlocked
    /\ SerialDrops => \A e \in Drops : dpc[e] \in {"idle", "done"}
    /\ \E n \in Names : IF dbs[n] = None
                        THEN DropGoes(d, "done") /\ UNCHANGED target
                        ELSE DropGoes(d, "close") /\ target' = [target EXCEPT ![d] = dbs[n]]
    /\ UNCHANGED <<config, dbs, replays, registered, closeVars, openVars, state, wiped>>

\* Close with WithClearStorage; after an error the database stays in the store
DropCloses(d) ==
    /\ dpc[d] = "close"
    /\ \/ DropGoes(d, "clear") /\ CloseDB(target[d])
       \/ DropGoes(d, "done") /\ (CloseDB(target[d]) \/ UNCHANGED state)
    /\ UNCHANGED <<config, dbs, replays, registered, closeVars, openVars, target, wiped>>

DropClears(d) ==
    /\ dpc[d] = "clear"
    /\ dropStorage(target[d])
    /\ DropGoes(d, "delete") \/ DropGoes(d, "done")
    /\ UNCHANGED <<config, dbs, replays, registered, closeVars, openVars, state, target>>

DropRemoves(d) ==
    /\ dpc[d] = "delete" /\ Unlocked
    /\ dbs' = [dbs EXCEPT ![name[target[d]]] = None]
    /\ DropGoes(d, "done")
    /\ UNCHANGED <<config, replays, registered, closeVars, openVars, state, target, wiped>>
-----------------------------------------------------------------------------
(***************************************************************************)
(* Close.  It goes on when closing one of the databases fails, and leaves   *)
(* them all in the store.                                                   *)
(***************************************************************************)
Close ==
    /\ closing = "open"
    /\ closing' = "closing"
    /\ toClose' = {dbs[n] : n \in Names} \ {None}
    /\ UNCHANGED <<config, dbs, replays, registered, openVars, state, dropVars, wiped>>

CloseNext(c) ==
    /\ c \in toClose
    /\ toClose' = toClose \ {c}
    /\ \/ CloseDB(c) /\ (IF sinks THEN dropStorage(c) ELSE UNCHANGED wiped)
       \/ UNCHANGED <<state, wiped>>
    /\ UNCHANGED <<config, dbs, replays, registered, closing, openVars, dropVars>>

Closed ==
    /\ closing = "closing" /\ toClose = {}
    /\ closing' = "closed"
    /\ UNCHANGED <<config, dbs, replays, registered, toClose, openVars, state, dropVars, wiped>>
-----------------------------------------------------------------------------
Open(c) ==
    DB(c) \/ FoundLocked(c) \/ AwaitReplay(c) \/ Woken(c) \/ Create(c) \/ OpenLog(c)
    \/ recover(c) \/ EndReplay(c)

Drop(d) == DropDB(d) \/ DropCloses(d) \/ DropClears(d) \/ DropRemoves(d)

CloseStep == Close \/ Closed \/ \E c \in Opens : CloseNext(c)

Next == (\E c \in Opens : Open(c)) \/ (\E d \in Drops : Drop(d)) \/ CloseStep

Spec == Init /\ [][Next]_vars

(***************************************************************************)
(* Replays and closing end; nobody has to call anything.                    *)
(***************************************************************************)
Fairness ==
    /\ \A c \in Opens : WF_vars(opc[c] # "idle" /\ Open(c))
    /\ WF_vars(closing = "closing" /\ CloseStep)

FairSpec == Spec /\ Fairness
-----------------------------------------------------------------------------
\* A name has one open database at a time, which the store knows, so that Close
\* and later callers find it, and nobody removes its files while it is open: two
\* callers of DB never replay the same log (dbReplaysInProgress), and DropDB is
\* over before the name is opened anew.
OneOwner ==
    /\ \A c \in Opens : state[c] \in {"opening", "live"} =>
           (dbs[name[c]] = c \/ replays[name[c]] = c) /\ c \notin wiped
    /\ \A n \in Names : dbs[n] = None \/ replays[n] = None

\* Every call of DB returns: a caller that waits for somebody else's replay is
\* woken, whether the replay succeeds, fails or panics, and looks again.
OpenReturns == \A c \in Opens : opc[c] # "idle" ~> opc[c] = "done"
=============================================================================
