---------------------------- MODULE ModelPricing ----------------------------
(***************************************************************************)
(* Model prices: a release ships them in a file, the billing worker copies *)
(* the file into the database when it starts, a transaction per model, and *)
(* each process that computes costs keeps what it read first until it      *)
(* restarts.  A deployment restarts every process, in no given order.      *)
(***************************************************************************)
EXTENDS Naturals

CONSTANTS
  Models,      (* number of models in the file                             *)
  Proc,        (* processes that compute costs                             *)
  MaxRelease,  (* bound: releases                                          *)
  None

ModelPricingAssumption == Models \in Nat /\ MaxRelease \in Nat \ {0}

VARIABLES
  file,     (* release of the billing worker's file                        *)
  next,     (* next entry of the file to be copied                         *)
  table,    (* release of each model's prices in the database, 0: no row   *)
  pending,  (* processes the deployment has not restarted yet              *)
  cache,    (* what each process has read                                  *)
  early     (* history: processes that read before the copy was complete   *)

vars == <<file, next, table, pending, cache, early>>

Model == 1..Models
Copied == next > Models

Init ==
  /\ file = 1 /\ next = 1
  /\ table = [m \in Model |-> 0]
  /\ pending = {} /\ early = {}
  /\ cache = [p \in Proc |-> None]

Deploy ==
  /\ file < MaxRelease /\ pending = {}
  /\ file' = file + 1 /\ next' = 1 /\ pending' = Proc
  /\ UNCHANGED <<table, cache, early>>

RestartKeeps(p) ==  \* mutant: the cache outlives the process
  /\ pending' = pending \ {p} /\ early' = early \ {p}
  /\ UNCHANGED <<file, next, table, cache>>

(* After a deployment, or a crash.                                         *)
Restart(p) ==
  /\ cache' = [cache EXCEPT ![p] = None]
  /\ pending' = pending \ {p} /\ early' = early \ {p}
  /\ UNCHANGED <<file, next, table>>

SyncDeletes ==  \* mutant: the update deletes the prices and creates none
  /\ ~Copied
  /\ table' = [table EXCEPT ![next] = IF table[next] = 0 THEN file ELSE 0]
  /\ next' = next + 1
  /\ UNCHANGED <<file, pending, cache, early>>

(* Old prices are deleted and new ones created in one transaction.         *)
Sync ==
  /\ ~Copied
  /\ table' = [table EXCEPT ![next] = file]
  /\ next' = next + 1
  /\ UNCHANGED <<file, pending, cache, early>>

(* The billing worker dies; it copies everything again when it restarts.   *)
SyncRestarts ==
  /\ next' = 1
  /\ UNCHANGED <<file, table, pending, cache, early>>

(* The first call for a price.  An empty answer is cached like any other;  *)
(* only a failed query is not.                                             *)
Load(p) ==
  /\ cache[p] = None
  /\ cache' = [cache EXCEPT ![p] = table]
  /\ early' = IF Copied /\ p \notin pending THEN early ELSE early \cup {p}
  /\ UNCHANGED <<file, next, table, pending>>

Next == Deploy \/ Sync \/ SyncRestarts \/ \E p \in Proc : Restart(p) \/ Load(p)
Spec == Init /\ [][Next]_vars

-----------------------------------------------------------------------------
TypeOK ==
  /\ file \in 1..MaxRelease /\ next \in 1..(Models + 1)
  /\ table \in [Model -> 0..file]
  /\ pending \subseteq Proc /\ early \subseteq Proc
  /\ cache \in [Proc -> [Model -> 0..file] \cup {None}]

(* A model that has prices never has none: no reader meets a gap.          *)
PriceStays == \A m \in Model : table[m] # 0 => table'[m] # 0

(* A process that reads after the copy, and after its own restart, has the *)
(* prices of the release.                                                  *)
LateReaderIsCurrent ==
  \A p \in Proc \ (early \cup pending) :
    cache[p] # None => \A m \in Model : cache[p][m] = file

(* Prices are there all the time, and those of the release from the copy.  *)
PricesMoveOn == PriceStays /\ LateReaderIsCurrent'
=============================================================================
