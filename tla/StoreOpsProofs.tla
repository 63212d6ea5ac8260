--------------------------- MODULE StoreOpsProofs --------------------------
(***************************************************************************)
(* Lemmas about the operators of StoreOps, used by the theorems about      *)
(* Store and about Daemon: the operators on entries and slots are closed.  *)
(***************************************************************************)
EXTENDS StoreOps, TLAPS

USE DEF Time

(***************************************************************************)
(* Every operation on an entry yields an entry (entry.rs).                 *)
(***************************************************************************)
LEMMA EntryOpsType ==
    ASSUME NEW e \in CacheEntries, NEW t \in Time, NEW d \in Time
    PROVE  /\ Evaluate(e, t) \in CacheEntries
           /\ ExtendEntry(e, t) \in CacheEntries
           /\ PinUntil(e, d, t) \in CacheEntries
           /\ UnpinEntry(e) \in CacheEntries
  <1>1. Zeroize(e) \in CacheEntries
    BY DEF Zeroize, CacheEntries, Option
  <1> QED BY <1>1 DEF Evaluate, ExtendEntry, PinUntil, UnpinEntry, CacheEntries, Option

(***************************************************************************)
(* A fresh entry is an entry (entry.rs CacheEntry::new).                   *)
(***************************************************************************)
LEMMA NewEntryType ==
    ASSUME NEW src \in Sources \cup {Static}, NEW v \in Values, NEW ttl \in Ttl,
           NEW t \in Time
    PROVE  NewEntry(src, v, ttl, t) \in CacheEntries
  BY DEF NewEntry, CacheEntries, Option

(***************************************************************************)
(* Every method of the store yields a slot (store.rs).                     *)
(***************************************************************************)
LEMMA SlotOpsType ==
    ASSUME NEW s \in Slots, NEW t \in Time
    PROVE  /\ Evaluated(s, t) \in Slots
           /\ Unpin(s) \in Slots
           /\ Delete(s) \in Slots
           /\ EmptySlot \in Slots
           /\ Undefine(s) \in Slots
           /\ RunFailed(s, t) \in Slots
  <1>1. EmptySlot \in Slots /\ Delete(s) \in Slots /\ Undefine(s) \in Slots
    BY DEF EmptySlot, Delete, Undefine, Slots, Option
  <1>2. RunFailed(s, t) \in Slots
    BY BackoffIsDuration DEF RunFailed, Slots, Option, FailureRecords
  <1>3. CASE s.entry = None
    BY <1>1, <1>2, <1>3 DEF Evaluated, Unpin
  <1>4. CASE s.entry # None
    <2>1. s.entry \in CacheEntries
      BY <1>4 DEF Slots, Option
    <2> QED BY <1>1, <1>2, <1>4, <2>1, EntryOpsType DEF Evaluated, Unpin, Slots, Option
  <1> QED BY <1>3, <1>4

(***************************************************************************)
(* A value put into a slot keeps it a slot (store.rs set, and the install  *)
(* step of regenerate and get_or_regenerate).                              *)
(***************************************************************************)
LEMMA InstallType ==
    ASSUME NEW s \in Slots, NEW t \in Time, NEW ttl \in Ttl, NEW v \in Values,
           NEW src \in Sources \cup {Static}
    PROVE  Set(s, src, v, ttl, t) \in Slots /\ Install(s, src, ttl, v, t) \in Slots
  BY NewEntryType DEF Set, Install, Slots, Option

\* What the methods that can refuse return.
Results ==
    [slot : Slots,
     out  : {"Ok", "NotFound", "HardExpired", "AuthFailed", "Backoff", "Undefined",
             "NotRegenerable", "NotHardExpired", "ValueResident", "RunFailed",
             "Conflict"}]

(***************************************************************************)
(* The refusable methods yield a slot and a result (store.rs extend,       *)
(* extend_authenticated, pin_authenticated).                               *)
(***************************************************************************)
LEMMA ResultOpsClosed ==
    ASSUME NEW s \in Slots, NEW t0 \in Time, NEW t1 \in Time, NEW d \in Time,
           NEW auth \in BOOLEAN
    PROVE  /\ Extend(s, t0) \in Results
           /\ ExtendAuthenticated(s, auth, t0, t1) \in Results
           /\ PinAuthenticated(s, d, auth, t0, t1) \in Results
  <1>1. ASSUME NEW t \in Time PROVE Extend(s, t) \in Results
    <2>1. s.entry # None => [s EXCEPT !.entry = ExtendEntry(@, t)] \in Slots
      BY EntryOpsType DEF Slots, Option
    <2> QED BY <2>1, SlotOpsType DEF Extend, Result, Results
  <1>2. ExtendAuthenticated(s, auth, t0, t1) \in Results
    BY <1>1, SlotOpsType DEF ExtendAuthenticated, Result, Results
  <1>3. PinAuthenticated(s, d, auth, t0, t1) \in Results
    <2>1. s.entry # None => [s EXCEPT !.entry = PinUntil(@, d, t1)] \in Slots
      BY EntryOpsType DEF Slots, Option
    <2> QED BY <2>1 DEF PinAuthenticated, Result, Results
  <1> QED BY <1>1, <1>2, <1>3

(***************************************************************************)
(* A registration yields a slot and a result (store.rs define_with_meta).  *)
(***************************************************************************)
LEMMA DefineClosed ==
    ASSUME NEW s \in Slots, NEW def \in Definitions
    PROVE  Define(s, def) \in Results
  BY DEF Define, Result, Results, Slots, Option

(***************************************************************************)
(* The two upstream methods yield a slot and a result (store.rs            *)
(* regenerate, get_or_regenerate).                                         *)
(***************************************************************************)
LEMMA UpstreamOpsClosed ==
    ASSUME NEW s \in Slots, NEW t0 \in Time, NEW t1 \in Time,
           NEW run \in Option(Values), NEW auth \in BOOLEAN
    PROVE  /\ Regenerate(s, run, auth, t0, t1) \in Results
           /\ GetOrRegenerate(s, run, auth, t0, t1) \in Results
  <1>1. ASSUME NEW u \in Slots, NEW src \in Sources \cup {Static}, NEW ttl \in Ttl
        PROVE  FetchAndInstall(u, src, ttl, run, auth, t1) \in Results
    BY SlotOpsType, InstallType DEF FetchAndInstall, Result, Results, Option
  <1>2. Regenerate(s, run, auth, t0, t1) \in Results
    <2>1. s.entry # None => s.entry.source \in Sources \cup {Static} /\ s.entry.ttl \in Ttl
      BY DEF Slots, Option, CacheEntries
    <2>2. s.entry = None => StateOf(s, t0) # "HardExpired"
      BY DEF StateOf
    <2> QED BY <1>1, <2>1, <2>2, SlotOpsType DEF Regenerate, Result, Results
  <1>3. GetOrRegenerate(s, run, auth, t0, t1) \in Results
    <2>1. s.def # None => s.def.source \in Sources \cup {Static} /\ s.def.ttl \in Ttl
      BY DEF Slots, Option, Definitions
    <2> QED BY <1>1, <2>1, SlotOpsType DEF GetOrRegenerate, Result, Results
  <1> QED BY <1>2, <1>3

=============================================================================
