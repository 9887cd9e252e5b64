-------------------------- MODULE ColumnStoreProofs --------------------------
(***************************************************************************)
(* OneOwner holds for every number of names and of calls, as long as calls  *)
(* of DropDB do not overlap.                                                *)
(***************************************************************************)
EXTENDS ColumnStore, TLAPS

Replaying == {"replay", "recover", "end"}

TypeInv ==
    /\ dbs \in [Names -> Opens \union {None}]
    /\ replays \in [Names -> Opens \union {None}]
    /\ toClose \in SUBSET Opens
    /\ opc \in [Opens -> {"idle", "lock", "wait", "done"} \union Replaying]
    /\ name \in [Opens -> Names]
    /\ result \in [Opens -> Opens \union {None, Failed, Panic}]
    /\ state \in [Opens -> {"none", "opening", "live", "closed", "failed"}]
    /\ dpc \in [Drops -> {"idle", "close", "clear", "delete", "done"}]
    /\ target \in [Drops -> Opens \union {None}]

(***************************************************************************)
(* StateInv: how far a database is follows from the call that creates it.   *)
(***************************************************************************)
StateInv == \A c \in Opens :
    /\ opc[c] \in {"idle", "lock", "wait"} => state[c] = "none"
    /\ opc[c] \in {"replay", "recover"} => state[c] = "opening"
    /\ opc[c] = "end" => state[c] = IF result[c] = c THEN "live" ELSE "opening"

(***************************************************************************)
(* ReplayInv: the entry of dbReplaysInProgress is the only replay of its    *)
(* name, and the name has no database meanwhile.                            *)
(***************************************************************************)
ReplayInv ==
    /\ \A c \in Opens : opc[c] \in Replaying => replays[name[c]] = c
    /\ \A n \in Names : replays[n] # None =>
           dbs[n] = None /\ name[replays[n]] = n /\ opc[replays[n]] \in Replaying

(***************************************************************************)
(* OwnInv: an open database is in the store or being replayed, and what is  *)
(* in the store is open or closed.  Nobody's files are removed.             *)
(***************************************************************************)
OwnInv ==
    /\ \A c \in Opens : state[c] \in {"opening", "live"} =>
           dbs[name[c]] = c \/ replays[name[c]] = c
    /\ \A n \in Names : dbs[n] # None =>
           name[dbs[n]] = n /\ opc[dbs[n]] = "done" /\ state[dbs[n]] \in {"live", "closed"}
    /\ wiped = {}

(***************************************************************************)
(* DropInv: the database that DropDB closes stays in the store until DropDB *)
(* takes it out, since no other call of DropDB runs.                        *)
(***************************************************************************)
Dropping(d) == dpc[d] \in {"close", "clear", "delete"}

DropInv == \A d \in Drops : Dropping(d) =>
    /\ \A e \in Drops : Dropping(e) => e = d
    /\ target[d] \in Opens
    /\ dbs[name[target[d]]] = target[d]
    /\ dpc[d] # "close" => state[target[d]] = "closed"

\* CloseInv: what Close has still to close is in the store.
CloseInv ==
    /\ Unlocked => toClose = {}
    /\ \A c \in toClose : dbs[name[c]] = c

IInv == TypeInv /\ StateInv /\ ReplayInv /\ OwnInv /\ DropInv /\ CloseInv

\* A database in the store is the only user of its files (dropStorage).
LEMMA OnlyUser ==
  ASSUME IInv, NEW c \in Opens, dbs[name[c]] = c
  PROVE  Users(name[c]) \ {c} = {}
BY StoreAssumption DEF IInv, TypeInv, ReplayInv, OwnInv, Users, StoreAssumption

\* The steps of DB preserve the invariant.
LEMMA OpenStep ==
  ASSUME IInv, NEW c \in Opens, Open(c)
  PROVE  IInv'
<1> USE StoreAssumption DEF IInv, StoreAssumption, closeVars, dropVars
<1>1. CASE DB(c) \/ FoundLocked(c) \/ AwaitReplay(c) \/ Woken(c)
  <2>1. /\ \E at \in {"lock", "wait", "done"} : opc' = [opc EXCEPT ![c] = at]
        /\ opc[c] \in {"idle", "lock", "wait"}
        /\ result' = result \/ \E r \in Opens \union {Failed} : result' = [result EXCEPT ![c] = r]
        /\ UNCHANGED <<dbs, replays, closing, toClose, name, state, dpc, target, wiped>>
    BY <1>1 DEF DB, FoundLocked, AwaitReplay, Woken, Found, Return, TypeInv
  <2>2. \A d \in Opens : d # c => opc'[d] = opc[d] /\ result'[d] = result[d]
    BY <2>1 DEF TypeInv
  <2>3. opc'[c] \in {"lock", "wait", "done"}
    BY <2>1 DEF TypeInv
  <2>4. TypeInv'
    BY <2>1 DEF TypeInv
  <2>5. state[c] = "none"
    BY <2>1 DEF StateInv
  <2>6. StateInv'
    BY <2>1, <2>2, <2>3, <2>5 DEF StateInv
  <2> QED
    BY <2>1, <2>2, <2>3, <2>4, <2>6 DEF ReplayInv, OwnInv, DropInv, Dropping, CloseInv,
                    Unlocked, TypeInv, Replaying
<1>2. CASE Create(c)
  <2>1. /\ opc[c] = "lock" /\ dbs[name[c]] = None /\ replays[name[c]] = None /\ state[c] = "none"
        /\ UNCHANGED <<closing, toClose, name, dpc, target, wiped>>
    BY <1>2 DEF Create, StateInv
  <2>2. CASE CreateUnlogged(c) /\ dbs' # dbs
    BY <2>1, <2>2 DEF CreateUnlogged, Return, TypeInv, StateInv, ReplayInv, OwnInv, DropInv,
                      Dropping, CloseInv, Unlocked, Replaying
  <2>3. CASE StartReplay(c)
    BY <2>1, <2>3 DEF StartReplay, TypeInv, StateInv, ReplayInv, OwnInv, DropInv, Dropping,
                      CloseInv, Unlocked, Replaying
  <2>4. CASE (CreateUnlogged(c) /\ dbs' = dbs) \/ SetupFails(c)
    BY <2>1, <2>4 DEF CreateUnlogged, SetupFails, Return, TypeInv, StateInv, ReplayInv, OwnInv,
                      DropInv, Dropping, CloseInv, Unlocked, Replaying
  <2> QED
    BY <1>2, <2>2, <2>3, <2>4 DEF Create
<1>3. CASE OpenLog(c) \/ recover(c)
  BY <1>3 DEF OpenLog, recover, Replayed, TypeInv, StateInv, ReplayInv, OwnInv, DropInv,
              Dropping, CloseInv, Unlocked, Replaying
<1>4. CASE EndReplay(c)
  BY <1>4 DEF EndReplay, TypeInv, StateInv, ReplayInv, OwnInv, DropInv, Dropping, CloseInv,
              Unlocked, Replaying
<1> QED
  BY <1>1, <1>2, <1>3, <1>4 DEF Open

\* The steps of DropDB preserve the invariant.
LEMMA DropStep ==
  ASSUME IInv, SerialDrops, NEW d \in Drops, Drop(d)
  PROVE  IInv'
<1> USE StoreAssumption DEF IInv, StoreAssumption, closeVars, openVars
<1>1. CASE DropDB(d)
  BY <1>1 DEF DropDB, DropGoes, TypeInv, StateInv, ReplayInv, OwnInv, DropInv, Dropping,
              CloseInv, Unlocked, Replaying
<1>2. CASE DropCloses(d)
  BY <1>2 DEF DropCloses, DropGoes, CloseDB, TypeInv, StateInv, ReplayInv, OwnInv, DropInv,
              Dropping, CloseInv, Unlocked, Replaying
<1>3. CASE DropClears(d)
  <2>1. target[d] \in Opens /\ dbs[name[target[d]]] = target[d]
    BY <1>3 DEF DropClears, DropInv, Dropping
  <2>2. wiped' = wiped
    BY <1>3, <2>1, OnlyUser DEF DropClears, dropStorage
  <2> QED
    BY <1>3, <2>2 DEF DropClears, DropGoes, TypeInv, StateInv, ReplayInv, OwnInv, DropInv,
                      Dropping, CloseInv, Unlocked, Replaying
<1>4. CASE DropRemoves(d)
  BY <1>4 DEF DropRemoves, DropGoes, TypeInv, StateInv, ReplayInv, OwnInv, DropInv, Dropping,
              CloseInv, Unlocked, Replaying
<1> QED
  BY <1>1, <1>2, <1>3, <1>4 DEF Drop

\* The steps of Close preserve the invariant.
LEMMA ClosingStep ==
  ASSUME IInv, CloseStep
  PROVE  IInv'
<1> USE StoreAssumption DEF IInv, StoreAssumption, openVars, dropVars
<1>1. CASE Close \/ Closed
  BY <1>1 DEF Close, Closed, TypeInv, StateInv, ReplayInv, OwnInv, DropInv, Dropping, CloseInv,
              Unlocked
<1>2. ASSUME NEW c \in Opens, CloseNext(c)
      PROVE  IInv'
  <2>1. dbs[name[c]] = c
    BY <1>2 DEF CloseNext, CloseInv
  <2>2. wiped' = wiped
    BY <1>2, <2>1, OnlyUser DEF CloseNext, dropStorage
  <2> QED
    BY <1>2, <2>1, <2>2 DEF CloseNext, CloseDB, TypeInv, StateInv, ReplayInv, OwnInv, DropInv,
                            Dropping, CloseInv, Unlocked, Replaying
<1> QED
  BY <1>1, <1>2 DEF CloseStep

(***************************************************************************)
(* A name has one open database at a time, which the store knows and whose  *)
(* files nobody removes (ColumnStore.DB, DropDB and Close).                 *)
(***************************************************************************)
THEOREM StoreOwnership ==
  ASSUME SerialDrops
  PROVE  Spec => []OneOwner
<1>1. Init => IInv
  BY StoreAssumption DEF Init, IInv, TypeInv, StateInv, ReplayInv, OwnInv, DropInv, Dropping,
                         CloseInv, Replaying, StoreAssumption
<1>2. IInv /\ [Next]_vars => IInv'
  <2>1. IInv /\ Next => IInv'
    BY OpenStep, DropStep, ClosingStep DEF Next
  <2>2. IInv /\ UNCHANGED vars => IInv'
    BY DEF vars, closeVars, openVars, dropVars, IInv, TypeInv, StateInv, ReplayInv, OwnInv,
           DropInv, Dropping, CloseInv, Unlocked
  <2> QED
    BY <2>1, <2>2
<1>3. IInv => OneOwner
  BY DEF IInv, ReplayInv, OwnInv, OneOwner
<1> QED
  BY <1>1, <1>2, <1>3, PTL DEF Spec
=============================================================================
