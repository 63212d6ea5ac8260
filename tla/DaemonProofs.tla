---------------------------- MODULE DaemonProofs ----------------------------
(***************************************************************************)
(* Theorems about Daemon, for any keys, peers, guards, owners, lifetimes   *)
(* and policies, and any number of failing writes, crashes and locks.      *)
(*                                                                         *)
(* First the invariant of the types and the guards, by one lemma per       *)
(* action.  Then what relates memory to file and to what the callers were  *)
(* told: every step means one of eleven things for a key (Happens), and    *)
(* each of those invariants is kept by each of the eleven.                 *)
(***************************************************************************)
EXTENDS Daemon, StoreOpsProofs, TLAPS

-----------------------------------------------------------------------------
(* The inductive invariant *)

\* The value of a slot, if any, is under the guard it was set with.
Guarded(s) ==
    (s.entry # None /\ s.entry.value # None /\ Audience[s.entry.value] # None)
        => s.guard = Audience[s.entry.value]

GuardedEntry(e) ==
    (e # None /\ Audience[e.value] # None) => e.guard = Audience[e.value]

(***************************************************************************)
(* A store, and the entries of a vault, in which no value is without its   *)
(* guard.                                                                  *)
(***************************************************************************)
Stored(ss) == ss \in [Keys -> Slots] /\ \A k \in Keys : Guarded(ss[k])

Kept(entries) == entries \in Entries /\ \A k \in Keys : GuardedEntry(entries[k])

(***************************************************************************)
(* The two files and the open vault; then everything but the histories.    *)
(***************************************************************************)
Filed ==
    /\ registry \in [Keys -> Option(Definitions)]
    /\ disk # None => Kept(disk)
    /\ open # None => Kept(open) /\ disk # None
    /\ faults \in Nat

Held == Stored(slots) /\ Filed /\ now \in Time

Remembered ==
    /\ last \in [Keys -> SUBSET Values] /\ top \in [Keys -> Nat]
    /\ owned \in [Keys -> Option(Principals)]

(***************************************************************************)
(* What a reply may say: a value only to its audience, of a set what was   *)
(* set, of a fetch that a slot now has what was fetched.                   *)
(***************************************************************************)
Honest ==
    /\ GuardTravels
    /\ (reply.op = "set" /\ reply.key \in Keys /\ reply.out \in {"Ok", "IoError", "NoReply"})
           => /\ reply.wrote \in Values /\ reply.version \in Nat
              /\ reply.owner \in Option(Principals)
    /\ (reply.key \in Keys /\ reply.fetched)
           => /\ slots[reply.key].entry # None
              /\ slots[reply.key].entry.value \in Option(Values)

IInv == Held /\ Remembered /\ GuardTravels

-----------------------------------------------------------------------------
(* Slots *)

\* Slot n has the guard of s, and its value or none.
Keeps(s, n) ==
    /\ n \in Slots /\ n.guard = s.guard
    /\ n.entry # None => s.entry # None /\ n.entry.value \in {s.entry.value, None}

Good(s) == s \in Slots /\ Guarded(s)

\* The value of slot s, if any, needs no guard.
Public(s) == (s.entry # None /\ s.entry.value # None) => Audience[s.entry.value] = None

(***************************************************************************)
(* A slot that keeps value and guard of a good one is good, and one that   *)
(* keeps a public value is public.                                         *)
(***************************************************************************)
LEMMA KeepsGood ==
    ASSUME NEW s, NEW n, Keeps(s, n)
    PROVE  (Good(s) => Good(n)) /\ (Public(s) => Public(n))
  BY DEF Good, Keeps, Guarded, Public

(***************************************************************************)
(* The operations of entry.rs keep the value or destroy it.                *)
(***************************************************************************)
LEMMA EntryOpsKeep ==
    ASSUME NEW e \in CacheEntries, NEW t \in Time, NEW d \in Time
    PROVE  /\ Evaluate(e, t).value \in {e.value, None}
           /\ ExtendEntry(e, t).value \in {e.value, None}
           /\ PinUntil(e, d, t).value \in {e.value, None}
           /\ UnpinEntry(e).value = e.value
  BY DEF Evaluate, ExtendEntry, PinUntil, UnpinEntry, Zeroize, CacheEntries

(***************************************************************************)
(* Reading a state, a failed run, an extension, a pin and its end keep the *)
(* value or destroy it, and keep the guard (store.rs).                     *)
(***************************************************************************)
LEMMA SlotOpsKeep ==
    ASSUME NEW s \in Slots, NEW t \in Time, NEW t1 \in Time, NEW d \in Time, NEW auth \in BOOLEAN
    PROVE  /\ Keeps(s, Evaluated(s, t)) /\ Keeps(s, RunFailed(s, t)) /\ Keeps(s, Unpin(s))
           /\ (Evaluated(s, t).entry = None <=> s.entry = None)
           /\ Keeps(s, ExtendAuthenticated(s, auth, t, t1).slot)
           /\ Keeps(s, PinAuthenticated(s, d, auth, t, t1).slot)
  <1>1. Keeps(s, s)
    BY DEF Keeps
  <1>2. ASSUME NEW e \in CacheEntries, s.entry # None, e.value \in {s.entry.value, None}
        PROVE  Keeps(s, [s EXCEPT !.entry = e])
    BY <1>2 DEF Keeps, Slots, Option
  <1>3. s.entry # None => s.entry \in CacheEntries
    BY DEF Slots, Option
  <1>4. ASSUME NEW u \in Time PROVE Keeps(s, Evaluated(s, u))
    BY <1>1, <1>2, <1>3, EntryOpsType, EntryOpsKeep DEF Evaluated
  <1>5. Keeps(s, Unpin(s))
    BY <1>1, <1>2, <1>3, EntryOpsType, EntryOpsKeep DEF Unpin
  <1>6. Keeps(s, RunFailed(s, t))
    <2>1. RunFailed(s, t) \in Slots
      BY SlotOpsType
    <2>2. RunFailed(s, t).guard = s.guard /\ RunFailed(s, t).entry = s.entry
      BY DEF RunFailed, Slots
    <2> QED BY <2>1, <2>2 DEF Keeps
  <1>7. Evaluated(s, t).entry = None <=> s.entry = None
    <2>1. s.entry # None => Evaluate(s.entry, t) # None
      BY <1>3, EntryOpsType, NoneIsNoEntry
    <2> QED BY <2>1 DEF Evaluated, Slots
  <1>8. ASSUME NEW u \in Time PROVE Keeps(s, Extend(s, u).slot)
    <2>1. s.entry # None => Keeps(s, [s EXCEPT !.entry = ExtendEntry(@, u)])
      BY <1>2, <1>3, EntryOpsType, EntryOpsKeep
    <2> QED BY <1>1, <1>4, <2>1 DEF Extend, Result
  <1>9. Keeps(s, ExtendAuthenticated(s, auth, t, t1).slot)
    BY <1>1, <1>4, <1>8 DEF ExtendAuthenticated, Result
  <1>10. Keeps(s, PinAuthenticated(s, d, auth, t, t1).slot)
    <2>1. s.entry # None => Keeps(s, [s EXCEPT !.entry = PinUntil(@, d, t1)])
      BY <1>2, <1>3, EntryOpsType, EntryOpsKeep
    <2> QED BY <1>1, <2>1 DEF PinAuthenticated, Result
  <1> QED BY <1>4, <1>5, <1>6, <1>7, <1>9, <1>10

(***************************************************************************)
(* The methods that leave the entry alone, or take it away (store.rs).     *)
(***************************************************************************)
LEMMA SideOpsKeep ==
    ASSUME NEW s, Good(s)
    PROVE  /\ Good(Delete(s)) /\ Good(DeleteWithDefinition(s))
           /\ Good(ClearOwner(s)) /\ Good(ClearRefreshClaim(s))
           /\ \A claim \in RefreshClaims : Good(SetRefreshClaim(s, claim))
           /\ \A def \in Definitions : Good(Define(s, def).slot)
  <1>1. s \in Slots
    BY DEF Good
  <1>2. Good(Delete(s)) /\ Good(DeleteWithDefinition(s))
    <2>1. Delete(s) \in Slots /\ EmptySlot \in Slots
      BY <1>1, SlotOpsType, 0 \in Nat DEF Time
    <2>2. Delete(s).entry = None /\ EmptySlot.entry = None
      BY <1>1 DEF Delete, EmptySlot, Slots
    <2> QED BY <2>1, <2>2 DEF Good, Guarded, DeleteWithDefinition
  <1>3. Keeps(s, ClearOwner(s)) /\ Keeps(s, ClearRefreshClaim(s))
    BY <1>1 DEF ClearOwner, ClearRefreshClaim, Keeps, Slots, Option
  <1>4. ASSUME NEW claim \in RefreshClaims PROVE Keeps(s, SetRefreshClaim(s, claim))
    BY <1>1 DEF SetRefreshClaim, Keeps, Slots, Option
  <1>5. ASSUME NEW def \in Definitions PROVE Keeps(s, Define(s, def).slot)
    BY <1>1 DEF Define, Result, Keeps, Slots, Option
  <1> QED BY <1>2, <1>3, <1>4, <1>5, KeepsGood

(***************************************************************************)
(* What an upstream command fetched is under no guard, so the install step *)
(* may drop the guard of the value before it; otherwise the guard stays    *)
(* (store.rs get_or_regenerate, regenerate).                               *)
(***************************************************************************)
LEMMA FetchKeeps ==
    ASSUME NEW s, Good(s), NEW run \in Option(Fetched), NEW auth \in BOOLEAN,
           NEW t1 \in Time, now \in Time, NEW r, r = Fetch(s, run, auth, t1)
    PROVE  /\ Good(r.slot) /\ (r.slot.guard = s.guard \/ Public(r.slot))
           /\ r.out = "Ok" => r.slot.entry # None
  <1> DEFINE Fine(f) == /\ Good(f.slot) /\ (f.slot.guard = s.guard \/ Public(f.slot))
                        /\ f.out = "Ok" => f.slot.entry # None
             e == Evaluated(s, now)
  <1>1. s \in Slots
    BY DEF Good
  <1>2. e \in Slots /\ Good(e) /\ e.guard = s.guard
    BY <1>1, SlotOpsKeep, KeepsGood DEF Keeps
  <1> HIDE DEF e
  <1>3. ASSUME NEW src \in Sources \cup {Static}, NEW ttl \in Ttl
        PROVE  Fine(FetchAndInstall(e, src, ttl, run, auth, t1))
    <2>1. CASE run = None \/ ~auth
      <3>1. Good(RunFailed(e, t1)) /\ RunFailed(e, t1).guard = s.guard
        BY <1>2, SlotOpsKeep, KeepsGood DEF Keeps
      <3> QED BY <1>2, <2>1, <3>1 DEF FetchAndInstall, Result
    <2>2. CASE run # None /\ auth
      <3>1. run \in Values /\ Audience[run] = None
        BY <2>2, ValueConstants DEF Option
      <3> DEFINE n == Install(e, src, ttl, run, t1)
      <3>2. FetchAndInstall(e, src, ttl, run, auth, t1) = Result(n, "Ok")
        BY <2>2 DEF FetchAndInstall
      <3>3. n \in Slots /\ NewEntry(src, run, ttl, t1) \in CacheEntries
        BY <1>2, <3>1, InstallType, NewEntryType
      <3>4. n.entry = NewEntry(src, run, ttl, t1)
        BY <1>2 DEF Install, Slots
      <3>5. n.entry.value = run /\ n.entry # None
        BY <3>3, <3>4, NoneIsNoEntry DEF NewEntry
      <3> HIDE DEF n
      <3>6. Good(n) /\ Public(n)
        BY <3>1, <3>3, <3>5 DEF Good, Guarded, Public
      <3> QED BY <3>2, <3>5, <3>6 DEF Result
    <2> QED BY <2>1, <2>2
  <1>4. ASSUME NEW out PROVE out # "Ok" => Fine(Result(s, out)) /\ Fine(Result(e, out))
    BY <1>2 DEF Result
  <1> HIDE DEF Fine
  <1>5. ASSUME s.def # None, r = GetOrRegenerate(s, run, auth, now, t1) PROVE Fine(r)
    <2>1. s.def.source \in Sources \cup {Static} /\ s.def.ttl \in Ttl
      BY <1>1, <1>5 DEF Slots, Option, Definitions
    <2>2. \/ \E out : out # "Ok" /\ r \in {Result(s, out), Result(e, out)}
          \/ r = FetchAndInstall(e, s.def.source, s.def.ttl, run, auth, t1)
      BY <1>5 DEF GetOrRegenerate, e
    <2> QED BY <1>3, <1>4, <2>1, <2>2
  <1>6. ASSUME r = Regenerate(s, run, auth, now, t1) PROVE Fine(r)
    <2>1. s.entry # None => s.entry.source \in Sources \cup {Static} /\ s.entry.ttl \in Ttl
      BY <1>1 DEF Slots, Option, CacheEntries
    <2>2. \/ \E out : out # "Ok" /\ r = Result(s, out)
          \/ s.entry # None /\ r = FetchAndInstall(e, s.entry.source, s.entry.ttl, run, auth, t1)
      BY <1>6 DEF Regenerate, e
    <2> QED BY <1>3, <1>4, <2>1, <2>2
  <1> QED BY <1>5, <1>6 DEF Fetch, Fine

(***************************************************************************)
(* The retrieval chain of handle_get, whatever is waited for in it: the    *)
(* value that comes out is under the guard the key had before, or under    *)
(* none.                                                                   *)
(***************************************************************************)
LEMMA ChainKeeps ==
    ASSUME Held, NEW k \in Keys, NEW run \in Option(Fetched), NEW auth \in BOOLEAN,
           NEW t1 \in Time, NEW r, r = Chain(k, run, auth, t1)
    PROVE  /\ Good(r.slot) /\ (r.slot.guard = slots[k].guard \/ Public(r.slot))
           /\ r.fetched => /\ r.slot.entry # None
                           /\ r.slot.entry.value \in Option(Values)
  <1> DEFINE s == Evaluated(slots[k], now)
             Done(x, waited, fetched) ==
                 [slot |-> Evaluated(x.slot, IF waited THEN t1 ELSE now), out |-> x.out,
                  waited |-> waited, fetched |-> fetched]
             Fine(n) == Good(n) /\ (n.guard = slots[k].guard \/ Public(n))
             f == Fetch(s, run, auth, t1)
             ran == f.out \in {"Ok", "RunFailed", "AuthFailed"}
             extended == ExtendAuthenticated(s, auth, now, t1)
  <1>1. now \in Time /\ Good(slots[k]) /\ slots[k] \in Slots
    BY DEF Held, Stored, Good
  <1>2. Good(s) /\ s.guard = slots[k].guard /\ s \in Slots
    BY <1>1, SlotOpsKeep, KeepsGood DEF Keeps
  <1> HIDE DEF s
  <1>3. ASSUME NEW x, Fine(x), NEW t \in Time
        PROVE  /\ Fine(Evaluated(x, t)) /\ (Evaluated(x, t).entry = None <=> x.entry = None)
               /\ Evaluated(x, t).entry # None => Evaluated(x, t).entry.value \in Option(Values)
    <2>1. Keeps(x, Evaluated(x, t)) /\ (Evaluated(x, t).entry = None <=> x.entry = None)
      BY <1>3, SlotOpsKeep DEF Good
    <2>2. Evaluated(x, t) \in Slots
      BY <2>1 DEF Keeps
    <2>3. Evaluated(x, t).entry # None => Evaluated(x, t).entry.value \in Option(Values)
      BY <2>2 DEF Slots, Option, CacheEntries
    <2> QED BY <1>3, <2>1, <2>3, KeepsGood DEF Keeps
  <1>4. Fine(f.slot) /\ (f.out = "Ok" => f.slot.entry # None)
    BY <1>1, <1>2, FetchKeeps
  <1>5. Fine(s) /\ Fine(extended.slot)
    BY <1>1, <1>2, SlotOpsKeep, KeepsGood DEF Keeps
  <1>6. \/ r = Done(f, ran, ran /\ f.out = "Ok")
        \/ r = Done(extended, TRUE, FALSE)
        \/ \E out : r = Done(Result(s, out), FALSE, FALSE)
    BY DEF Chain, s
  <1> HIDE DEF f, ran, extended, Fine
  <1>7. CASE r = Done(f, ran, ran /\ f.out = "Ok")
    <2>1. r.slot = Evaluated(f.slot, IF ran THEN t1 ELSE now) /\ r.fetched = (ran /\ f.out = "Ok")
      BY <1>7
    <2> QED BY <1>1, <1>3, <1>4, <2>1 DEF Fine
  <1>8. CASE r = Done(extended, TRUE, FALSE)
    BY <1>3, <1>5, <1>8 DEF Fine
  <1>9. CASE \E out : r = Done(Result(s, out), FALSE, FALSE)
    <2>1. r.slot = Evaluated(s, now) /\ ~r.fetched
      BY <1>9 DEF Result
    <2> QED BY <1>1, <1>3, <1>5, <2>1 DEF Fine
  <1> QED BY <1>6, <1>7, <1>8, <1>9

-----------------------------------------------------------------------------
(* Stores and files *)

(***************************************************************************)
(* A handler that leaves a good slot leaves a good store.                  *)
(***************************************************************************)
LEMMA SlotWritten ==
    ASSUME Stored(slots), NEW k \in Keys, NEW s, Good(s)
    PROVE  Stored([slots EXCEPT ![k] = s])
  BY DEF Stored, Good

(***************************************************************************)
(* A daemon that starts has no values (register_definitions).              *)
(***************************************************************************)
LEMMA ColdStored ==
    ASSUME NEW defs \in [Keys -> Option(Definitions)]
    PROVE  Stored(Cold(defs))
  <1>1. ASSUME NEW k \in Keys PROVE Cold(defs)[k] \in Slots /\ Cold(defs)[k].entry = None
    BY <1>1, KeyConstants DEF Cold, EmptySlot, Slots, Option
  <1>2. Cold(defs) = [k \in Keys |-> Cold(defs)[k]]
    BY DEF Cold
  <1> HIDE DEF Cold
  <1> QED BY <1>1, <1>2 DEF Stored, Guarded

(***************************************************************************)
(* However a write of the vault file ends (UnlockedVault::commit), and     *)
(* whether or not the process survives it.                                 *)
(***************************************************************************)
LEMMA Committed ==
    ASSUME Held, NEW entries, Kept(entries), NEW c \in Commits, NEW ss, Stored(ss),
           CommitVault(entries, c), StoreAfter(c, ss), now' = now,
           registry' \in [Keys -> Option(Definitions)]
    PROVE  Held'
  <1>1. Stored(slots')
    BY ColdStored DEF StoreAfter, Held, Filed
  <1>2. entries # None
    BY NoneIsNoContent DEF Kept
  <1>3. faults' \in Nat
    BY DEF CommitVault, Counts, Held, Filed
  <1>4. disk' # None => Kept(disk')
    BY DEF CommitVault, Held, Filed
  <1>5. open' # None => Kept(open') /\ disk' # None
    <2>1. CASE c \in {"ok", "unsaved"}
      BY <1>2, <2>1 DEF CommitVault
    <2>2. CASE c = "died"
      BY <2>2 DEF CommitVault
    <2>3. CASE c \notin {"ok", "unsaved", "died"}
      BY <1>2, <2>3 DEF CommitVault, Held, Filed
    <2> QED BY <2>1, <2>2, <2>3
  <1> QED BY <1>1, <1>3, <1>4, <1>5 DEF Held, Filed, Stored, Kept

(***************************************************************************)
(* The definitions file is rewritten with the definitions of the store     *)
(* (persist_if_enabled).                                                   *)
(***************************************************************************)
LEMMA Saved ==
    ASSUME registry \in [Keys -> Option(Definitions)], slots' \in [Keys -> Slots],
           NEW c, SaveDefinitions(c)
    PROVE  registry' \in [Keys -> Option(Definitions)]
  BY DEF SaveDefinitions, OnlineDefs, Slots, Option

(***************************************************************************)
(* An entry that carries its guard may be written.                         *)
(***************************************************************************)
LEMMA EntryKept ==
    ASSUME NEW entries, Kept(entries), NEW k \in Keys, NEW e \in Option(VaultEntries),
           GuardedEntry(e)
    PROVE  Kept([entries EXCEPT ![k] = e])
  BY DEF Kept, Entries, GuardedEntry

(***************************************************************************)
(* A request that touches one slot and neither the vault nor its file.     *)
(***************************************************************************)
LEMMA OneSlot ==
    ASSUME Held, NEW k \in Keys, NEW s, Good(s), slots' = [slots EXCEPT ![k] = s],
           UNCHANGED <<disk, open>>, registry' \in [Keys -> Option(Definitions)],
           faults' \in Nat, now' \in Time
    PROVE  Held'
  <1>1. Stored(slots')
    BY SlotWritten DEF Held
  <1> QED BY <1>1 DEF Held, Filed, Stored, Kept

(***************************************************************************)
(* A request that reaches neither the vault nor a file.                    *)
(***************************************************************************)
LEMMA StoreWritten ==
    ASSUME Held, NEW ss, Stored(ss), slots' = ss, UNCHANGED <<files, now, faults>>
    PROVE  Held'
  BY DEF files, Held, Filed, Stored, Kept

(***************************************************************************)
(* A refusal changes nothing.                                              *)
(***************************************************************************)
LEMMA Refused ==
    ASSUME Held, NEW op, NEW p, NEW k, NEW out, Refuse(op, p, k, out)
    PROVE  Held'
  BY StoreWritten DEF Refuse, Held

(***************************************************************************)
(* A reply without a value, that is not the acknowledgement of a set.      *)
(***************************************************************************)
LEMMA Quiet ==
    ASSUME NEW op, NEW p, NEW k, NEW out, reply' = Answer(op, p, k, out),
           op # "set" \/ out \notin {"Ok", "IoError", "NoReply"}
    PROVE  Honest'
  BY DEF Answer, Silence, Honest, GuardTravels

-----------------------------------------------------------------------------
(* Requests *)

(***************************************************************************)
(* The slot a set writes has the value and the guard it is set with, or    *)
(* none (handle_set: the last declaration wins).                           *)
(***************************************************************************)
LEMMA SetKeeps ==
    ASSUME NEW s, Good(s), NEW v \in Values, NEW ttl \in Ttl,
           NEW owner \in Option(Principals), now \in Time,
           NEW n, n = SlotAfterSet(s, v, ttl, Audience[v], owner)
    PROVE  /\ Good(n) /\ n.entry # None /\ n.entry.value = v /\ n.guard = Audience[v]
           /\ n.version \in Nat /\ n.owner \in Option(Principals)
  <1> DEFINE w == Set(s, Static, v, ttl, now)
             t == IF Audience[v] = None THEN ClearGuard(w) ELSE SetGuard(w, Audience[v])
             u == ClearRefreshClaim(BumpVersion(t))
  <1>1. s \in Slots /\ Audience[v] \in Option(Guards)
    BY ValueConstants DEF Good
  <1>2. w \in Slots /\ w.entry # None /\ w.entry.value = v
    <2>1. NewEntry(Static, v, ttl, now) \in CacheEntries /\ w \in Slots
      BY <1>1, NewEntryType, InstallType
    <2>2. w.entry = NewEntry(Static, v, ttl, now)
      BY <1>1 DEF Set, Slots
    <2> QED BY <2>1, <2>2, NoneIsNoEntry DEF NewEntry
  <1> HIDE DEF w
  <1>3. t \in Slots /\ t.entry = w.entry /\ t.guard = Audience[v]
    BY <1>1, <1>2 DEF ClearGuard, SetGuard, Slots, Option
  <1> HIDE DEF t
  <1>4. u \in Slots /\ u.entry = w.entry /\ u.guard = Audience[v]
    <2>1. /\ BumpVersion(t) \in Slots /\ BumpVersion(t).entry = w.entry
          /\ BumpVersion(t).guard = Audience[v]
      BY <1>3 DEF BumpVersion, Slots
    <2> QED BY <2>1 DEF ClearRefreshClaim, Slots, Option
  <1> HIDE DEF u
  <1>5. n = IF owner = None THEN u ELSE SetOwner(u, owner)
    BY DEF SlotAfterSet, u, t, w
  <1>6. n \in Slots /\ n.entry = u.entry /\ n.guard = u.guard
    BY <1>4, <1>5 DEF SetOwner, Slots, Option
  <1>7. n.version \in Nat /\ n.owner \in Option(Principals)
    BY <1>6 DEF Slots
  <1> QED BY <1>2, <1>4, <1>6, <1>7 DEF Good, Guarded

(***************************************************************************)
(* The vault gets the value with its guard (write_through_to_vault).       *)
(***************************************************************************)
LEMMA WriteThroughKeeps ==
    ASSUME NEW s \in Slots, s.entry # None, s.entry.value \in Values,
           Audience[s.entry.value] # None => s.guard = Audience[s.entry.value],
           NEW e \in Option(VaultEntries), NEW token,
           NEW r, r = WriteThrough(e, s, token), r.out = "Ok"
    PROVE  r.entry \in VaultEntries /\ GuardedEntry(r.entry)
  <1>1. CurrentVersion(e) \in Nat
    BY DEF CurrentVersion, VaultEntries, Option
  <1>2. r.entry = [value |-> s.entry.value, guard |-> s.guard, owner |-> s.owner,
                   version |-> CurrentVersion(e) + 1, claim |-> None]
    BY DEF WriteThrough, Upsert, WriteEntry, Outcome
  <1>3. s.guard \in Option(Guards) /\ s.owner \in Option(Principals)
    BY DEF Slots
  <1>4. r.entry \in VaultEntries
    BY <1>1, <1>2, <1>3 DEF VaultEntries, Option
  <1> QED BY <1>2, <1>4 DEF GuardedEntry

(***************************************************************************)
(* The entry of an open vault is one whose value is under its guard.       *)
(***************************************************************************)
LEMMA OpenKept ==
    ASSUME Held, NEW k \in Keys
    PROVE  /\ VaultEntry(k) \in Option(VaultEntries) /\ GuardedEntry(VaultEntry(k))
           /\ open # None => Kept(open) /\ VaultEntry(k) = open[k]
  BY DEF Held, Filed, Kept, Entries, VaultEntry, GuardedEntry, Option

(***************************************************************************)
(* kv.set (handle_set, write_through_to_vault).                            *)
(***************************************************************************)
LEMMA KvSetKeeps ==
    ASSUME Held, NEW p, NEW k \in Keys, NEW v \in Values, NEW ttl \in Ttl, NEW flag \in BOOLEAN,
           NEW expected, NEW token, NEW owner \in Option(Principals), NEW c \in Commits,
           KvSet(p, k, v, ttl, flag, expected, token, owner, c)
    PROVE  Held' /\ Honest'
  <1> DEFINE persist == flag \/ k \in PersistedKeys
             refusal == SetRefusal(p, k, ttl, persist, expected, token)
             s == SlotAfterSet(slots[k], v, ttl, Audience[v], owner)
             r == WriteThrough(VaultEntry(k), s, token)
             ack(out) == [Answer("set", p, k, out) EXCEPT !.wrote = v, !.owner = s.owner,
                             !.version = s.version, !.token = token]
  <1>1. now \in Time /\ Good(slots[k])
    BY DEF Held, Stored, Good
  <1>2. /\ Good(s) /\ s.entry # None /\ s.entry.value = v /\ s.guard = Audience[v]
        /\ s.version \in Nat /\ s.owner \in Option(Principals)
    BY <1>1, SetKeeps
  <1>3. r.out = "Ok" => r.entry \in VaultEntries /\ GuardedEntry(r.entry)
    BY <1>2, OpenKept, WriteThroughKeeps DEF Good
  <1>4. refusal \in {"Ok", "AuthFailed", "BadRequest", "VaultClosed", "CasMismatch", "ClaimRefused"}
        /\ (refusal = "Ok" /\ persist => open # None)
    BY DEF SetRefusal
  <1>5. ASSUME NEW out, reply' = ack(out) PROVE Honest'
    <2>1. /\ reply'.value = None /\ reply'.fetched = FALSE
          /\ reply'.wrote = v /\ reply'.version = s.version /\ reply'.owner = s.owner
      BY <1>5 DEF Answer, Silence
    <2> QED BY <1>2, <2>1 DEF Honest, GuardTravels
  <1>6. CASE refusal # "Ok" /\ Refuse("set", p, k, refusal)
    <2>1. reply' = Answer("set", p, k, refusal)
      BY <1>6 DEF Refuse
    <2>2. refusal \notin {"Ok", "IoError", "NoReply"}
      BY <1>4, <1>6
    <2> HIDE DEF refusal
    <2> QED BY <1>6, <2>1, <2>2, Quiet, Refused
  <1>7. CASE /\ slots' = [slots EXCEPT ![k] = s]
             /\ reply' = ack(IF persist THEN "IoError" ELSE "Ok")
             /\ UNCHANGED <<files, now, faults>>
    <2>1. Honest'
      BY <1>5, <1>7
    <2> HIDE DEF s
    <2>2. Held'
      BY <1>2, <1>7, OneSlot DEF files, Held, Filed
    <2> QED BY <2>1, <2>2
  <1>8. CASE /\ refusal = "Ok" /\ persist /\ r.out = "Ok"
             /\ CommitVault([open EXCEPT ![k] = r.entry], c)
             /\ StoreAfter(c, [slots EXCEPT ![k] = s])
             /\ reply' = ack(OutOf(c))
             /\ UNCHANGED <<registry, now>>
    <2>1. Honest'
      BY <1>5, <1>8
    <2>2. Kept(open)
      BY <1>4, <1>8, OpenKept
    <2> HIDE DEF s, r, refusal
    <2>3. Kept([open EXCEPT ![k] = r.entry])
      BY <1>3, <1>8, <2>2, EntryKept DEF Option
    <2>4. Stored([slots EXCEPT ![k] = s])
      BY <1>2, SlotWritten DEF Held
    <2>5. Held'
      BY <1>8, <2>3, <2>4, Committed DEF Held, Filed
    <2> QED BY <2>1, <2>5
  <1>9. \/ refusal # "Ok" /\ Refuse("set", p, k, refusal)
        \/ /\ slots' = [slots EXCEPT ![k] = s]
           /\ reply' = ack(IF persist THEN "IoError" ELSE "Ok")
           /\ UNCHANGED <<files, now, faults>>
        \/ /\ refusal = "Ok" /\ persist /\ r.out = "Ok"
           /\ CommitVault([open EXCEPT ![k] = r.entry], c)
           /\ StoreAfter(c, [slots EXCEPT ![k] = s])
           /\ reply' = ack(OutOf(c))
           /\ UNCHANGED <<registry, now>>
    BY DEF KvSet
  <1> QED BY <1>6, <1>7, <1>8, <1>9

(***************************************************************************)
(* kv.get (handle_get): who reads a value satisfies the guard of its slot, *)
(* and that is the guard the value was set with.                           *)
(***************************************************************************)
LEMMA KvGetKeeps ==
    ASSUME Held, NEW p, NEW k \in Keys, NEW run \in Option(Fetched), NEW auth \in BOOLEAN,
           NEW t1 \in Time, KvGet(p, k, run, auth, t1)
    PROVE  Held' /\ Honest'
  <1> DEFINE r == Chain(k, run, auth, t1)
             t == IF r.waited THEN t1 ELSE now
             value == IF r.out = "Ok" /\ Readable(r.slot, t) THEN r.slot.entry.value ELSE None
  <1>1. Good(r.slot) /\ (r.slot.guard = slots[k].guard \/ Public(r.slot))
        /\ (r.fetched => r.slot.entry # None /\ r.slot.entry.value \in Option(Values))
    BY ChainKeeps
  <1>2. now \in Time /\ t \in Time
    BY DEF Held
  <1>3. CASE Refuse("get", p, k, "AuthFailed")
    <2>1. reply' = Answer("get", p, k, "AuthFailed")
      BY <1>3 DEF Refuse
    <2> QED BY <1>3, <2>1, Quiet, Refused
  <1>4. CASE /\ SatisfiesGuard(p, k)
             /\ now' = t /\ slots' = [slots EXCEPT ![k] = r.slot]
             /\ reply' = [Answer("get", p, k, r.out) EXCEPT
                              !.fetched = r.fetched, !.value = value]
             /\ UNCHANGED <<files, faults>>
    <2>1. /\ reply'.op = "get" /\ reply'.peer = p /\ reply'.key = k
          /\ reply'.fetched = r.fetched /\ reply'.value = value
      BY <1>4 DEF Answer, Silence
    <2>2. value # None /\ Audience[value] # None => p \in Audience[value]
      <3> SUFFICES ASSUME value # None, Audience[value] # None PROVE p \in Audience[value]
        OBVIOUS
      <3>1. value = r.slot.entry.value /\ r.slot.entry # None
        BY DEF Readable, StateOf
      <3>2. r.slot.guard = Audience[value] /\ r.slot.guard = slots[k].guard
        BY <1>1, <3>1 DEF Good, Guarded, Public
      <3> QED BY <1>4, <3>2 DEF SatisfiesGuard
    <2> HIDE DEF value, r, t
    <2>3. slots'[k] = r.slot
      BY <1>4 DEF Held, Stored
    <2>4. Honest'
      BY <1>1, <2>1, <2>2, <2>3 DEF Honest, GuardTravels
    <2>5. Held'
      BY <1>1, <1>2, <1>4, OneSlot DEF files, Held, Filed
    <2> QED BY <2>4, <2>5
  <1> QED BY <1>3, <1>4 DEF KvGet

(***************************************************************************)
(* kv.del (handle_del).                                                    *)
(***************************************************************************)
LEMMA KvDelKeeps ==
    ASSUME Held, NEW p, NEW k \in Keys, NEW with_define \in BOOLEAN, NEW c \in Commits,
           KvDel(p, k, with_define, c)
    PROVE  Held' /\ Honest'
  <1>1. Good(Delete(slots[k])) /\ Good(DeleteWithDefinition(slots[k]))
    BY SideOpsKeep DEF Held, Stored, Good
  <1>2. Honest'
    <2>1. \E out : reply' = Answer("del", p, k, out)
      BY DEF KvDel, Refuse
    <2> QED BY <2>1, Quiet
  <1>3. CASE \E out : Refuse("del", p, k, out)
    <2>1. PICK out : Refuse("del", p, k, out)
      BY <1>3
    <2> QED BY <1>2, <2>1, Refused
  <1>4. CASE /\ slots' = [slots EXCEPT ![k] = IF with_define THEN DeleteWithDefinition(@)
                                              ELSE Delete(@)]
             /\ Counts(c)
             /\ IF with_define THEN c \in {"ok", "unsaved"} /\ SaveDefinitions(c)
                ELSE c = "ok" /\ UNCHANGED registry
             /\ UNCHANGED <<disk, open, now>>
    <2> DEFINE s == IF with_define THEN DeleteWithDefinition(slots[k]) ELSE Delete(slots[k])
    <2>1. Good(s) /\ slots' = [slots EXCEPT ![k] = s]
      BY <1>1, <1>4
    <2> HIDE DEF s
    <2>2. slots' \in [Keys -> Slots]
      BY <2>1, SlotWritten DEF Held, Stored
    <2>3. registry' \in [Keys -> Option(Definitions)]
      BY <1>4, <2>2, Saved DEF Held, Filed
    <2>4. faults' \in Nat /\ now' \in Time
      BY <1>4 DEF Counts, Held, Filed
    <2> QED BY <1>2, <1>4, <2>1, <2>3, <2>4, OneSlot
  <1>5. CASE /\ Owned(k) /\ CommitVault([open EXCEPT ![k] = DeleteEntry(@).entry], c)
             /\ StoreAfter(c, IF c \in {"ok", "unsaved"}
                              THEN [slots EXCEPT ![k] = DeleteWithDefinition(@)] ELSE slots)
             /\ IF with_define THEN SaveDefinitions(c) ELSE UNCHANGED registry
             /\ UNCHANGED now
    <2> DEFINE ss == IF c \in {"ok", "unsaved"}
                     THEN [slots EXCEPT ![k] = DeleteWithDefinition(@)] ELSE slots
    <2>1. Stored(ss) /\ StoreAfter(c, ss)
      BY <1>1, <1>5, SlotWritten DEF Held
    <2> HIDE DEF ss
    <2> DEFINE entries == [open EXCEPT ![k] = DeleteEntry(@).entry]
    <2>2. Kept(open) /\ DeleteEntry(open[k]).entry = None
      BY <1>5, OpenKept DEF Owned, DeleteEntry, Outcome
    <2>3. Kept(entries) /\ CommitVault(entries, c)
      BY <1>5, <2>2, EntryKept DEF Option, GuardedEntry
    <2>4. slots' \in [Keys -> Slots]
      BY <2>1, ColdStored DEF StoreAfter, Held, Filed, Stored
    <2>5. registry' \in [Keys -> Option(Definitions)]
      BY <1>5, <2>4, Saved DEF Held, Filed
    <2>6. now' = now
      BY <1>5
    <2> HIDE DEF entries
    <2> QED BY <1>2, <2>1, <2>3, <2>5, <2>6, Committed
  <1>6. \/ \E out : Refuse("del", p, k, out)
        \/ /\ slots' = [slots EXCEPT ![k] = IF with_define THEN DeleteWithDefinition(@)
                                            ELSE Delete(@)]
           /\ Counts(c)
           /\ IF with_define THEN c \in {"ok", "unsaved"} /\ SaveDefinitions(c)
              ELSE c = "ok" /\ UNCHANGED registry
           /\ UNCHANGED <<disk, open, now>>
        \/ /\ Owned(k) /\ CommitVault([open EXCEPT ![k] = DeleteEntry(@).entry], c)
           /\ StoreAfter(c, IF c \in {"ok", "unsaved"}
                            THEN [slots EXCEPT ![k] = DeleteWithDefinition(@)] ELSE slots)
           /\ IF with_define THEN SaveDefinitions(c) ELSE UNCHANGED registry
           /\ UNCHANGED now
    BY DEF KvDel
  <1> QED BY <1>2, <1>3, <1>4, <1>5, <1>6

(***************************************************************************)
(* The claim of a vault entry is taken and given up without touching its   *)
(* value or its guard (take_claim_in_vault, release_claim_in_vault).       *)
(***************************************************************************)
LEMMA ClaimsKeep ==
    ASSUME NEW e \in Option(VaultEntries), GuardedEntry(e), NEW expected,
           NEW token \in Tokens, NEW expires_at \in Time, NEW held, NEW r,
           \/ r = TakeClaim(e, expected, token, expires_at)
           \/ r = GiveUpClaim(e, held),
           r.out = "Ok"
    PROVE  e # None /\ r.entry \in VaultEntries /\ GuardedEntry(r.entry)
  <1>1. e # None /\ e \in VaultEntries
    BY DEF TakeClaim, GiveUpClaim, Outcome, Option
  <1>2. \E claim \in Option(RefreshClaims) : r.entry = [e EXCEPT !.claim = claim]
    <2>1. CASE r = TakeClaim(e, expected, token, expires_at)
      <3>1. r.entry = [e EXCEPT !.claim = [token |-> token, expires_at |-> expires_at]]
        BY <1>1, <2>1 DEF TakeClaim, ClaimRefresh, Outcome
      <3> QED BY <3>1 DEF RefreshClaims, Option
    <2>2. CASE r = GiveUpClaim(e, held)
      <3>1. r.entry = [e EXCEPT !.claim = None]
        BY <1>1, <2>2 DEF GiveUpClaim, ReleaseClaim, Outcome
      <3> QED BY <3>1 DEF Option
    <2> QED BY <2>1, <2>2
  <1>3. r.entry \in VaultEntries /\ r.entry.value = e.value /\ r.entry.guard = e.guard
    BY <1>1, <1>2 DEF VaultEntries
  <1> QED BY <1>1, <1>3 DEF GuardedEntry

(***************************************************************************)
(* A handler that ends with a write of one entry of the open vault and of  *)
(* one slot.                                                               *)
(***************************************************************************)
LEMMA EntryCommitted ==
    ASSUME Held, NEW k \in Keys, NEW e \in VaultEntries, GuardedEntry(e), open # None,
           NEW c \in Commits, NEW ss, Stored(ss),
           CommitVault([open EXCEPT ![k] = e], c), StoreAfter(c, ss), UNCHANGED <<registry, now>>
    PROVE  Held'
  <1>1. Kept([open EXCEPT ![k] = e])
    BY OpenKept, EntryKept DEF Option
  <1> QED BY <1>1, Committed DEF Held, Filed

(***************************************************************************)
(* kv.claim (handle_claim).                                                *)
(***************************************************************************)
LEMMA KvClaimKeeps ==
    ASSUME Held, NEW p, NEW k \in Keys, NEW expected, NEW token \in Tokens,
           NEW ttl \in Nat, NEW c \in Commits, KvClaim(p, k, expected, token, ttl, c)
    PROVE  Held' /\ Honest'
  <1> DEFINE claim == [token |-> token, expires_at |-> now + ttl]
             r == TakeClaim(VaultEntry(k), expected, token, now + ttl)
             ss == [slots EXCEPT ![k] = IF c = "ok" THEN SetRefreshClaim(@, claim) ELSE @]
             ack(out) == [Answer("claim", p, k, out) EXCEPT
                             !.token = token, !.version = slots[k].version]
  <1>1. now + ttl \in Time /\ claim \in RefreshClaims
    BY DEF Held, Time, RefreshClaims
  <1>2. Stored(ss)
    <2>1. Good(slots[k]) /\ Good(SetRefreshClaim(slots[k], claim))
      BY <1>1, SideOpsKeep DEF Held, Stored, Good
    <2> QED BY <2>1, SlotWritten DEF Held
  <1>3. \/ \E out : Refuse("claim", p, k, out)
        \/ slots' = ss /\ (\E out : reply' = ack(out)) /\ UNCHANGED <<files, now, faults>>
        \/ /\ r.out = "Ok" /\ CommitVault([open EXCEPT ![k] = r.entry], c) /\ StoreAfter(c, ss)
           /\ (\E out : reply' = ack(out)) /\ UNCHANGED <<registry, now>>
    BY DEF KvClaim
  <1> HIDE DEF claim, ss
  <1>4. Honest'
    <2>1. \/ \E out : reply' = Answer("claim", p, k, out)
          \/ \E out : reply' = ack(out)
      BY <1>3 DEF Refuse
    <2>2. ASSUME NEW out, reply' = ack(out) PROVE Honest'
      BY <2>2 DEF Answer, Silence, Honest, GuardTravels
    <2> QED BY <2>1, <2>2, Quiet
  <1>5. CASE \E out : Refuse("claim", p, k, out)
    <2>1. PICK out : Refuse("claim", p, k, out)
      BY <1>5
    <2> QED BY <1>4, <2>1, Refused
  <1>6. CASE slots' = ss /\ UNCHANGED <<files, now, faults>>
    BY <1>4, <1>2, <1>6, StoreWritten
  <1>7. CASE /\ r.out = "Ok" /\ CommitVault([open EXCEPT ![k] = r.entry], c)
             /\ StoreAfter(c, ss) /\ UNCHANGED <<registry, now>>
    <2>1. VaultEntry(k) # None /\ r.entry \in VaultEntries /\ GuardedEntry(r.entry)
      BY <1>1, <1>7, OpenKept, ClaimsKeep
    <2>2. open # None
      BY <2>1 DEF VaultEntry
    <2> HIDE DEF r
    <2> QED BY <1>4, <1>2, <1>7, <2>1, <2>2, EntryCommitted
  <1> QED BY <1>3, <1>4, <1>5, <1>6, <1>7

(***************************************************************************)
(* kv.unclaim (handle_unclaim).                                            *)
(***************************************************************************)
LEMMA KvUnclaimKeeps ==
    ASSUME Held, NEW p, NEW k \in Keys, NEW token \in Tokens, NEW c \in Commits,
           KvUnclaim(p, k, token, c)
    PROVE  Held' /\ Honest'
  <1> DEFINE r == GiveUpClaim(VaultEntry(k), token)
             ss == [slots EXCEPT ![k] = IF c = "ok" THEN ClearRefreshClaim(@) ELSE @]
  <1>1. Stored(ss)
    <2>1. Good(slots[k]) /\ Good(ClearRefreshClaim(slots[k]))
      BY SideOpsKeep DEF Held, Stored, Good
    <2> QED BY <2>1, SlotWritten DEF Held
  <1>2. \/ \E out : Refuse("unclaim", p, k, out)
        \/ slots' = ss /\ (\E out : reply' = Answer("unclaim", p, k, out))
           /\ UNCHANGED <<files, now, faults>>
        \/ /\ r.out = "Ok" /\ CommitVault([open EXCEPT ![k] = r.entry], c) /\ StoreAfter(c, ss)
           /\ (\E out : reply' = Answer("unclaim", p, k, out)) /\ UNCHANGED <<registry, now>>
    BY DEF KvUnclaim
  <1> HIDE DEF ss
  <1>3. Honest'
    <2>1. \E out : reply' = Answer("unclaim", p, k, out)
      BY <1>2 DEF Refuse
    <2> QED BY <2>1, Quiet
  <1>4. CASE \E out : Refuse("unclaim", p, k, out)
    <2>1. PICK out : Refuse("unclaim", p, k, out)
      BY <1>4
    <2> QED BY <1>3, <2>1, Refused
  <1>5. CASE slots' = ss /\ UNCHANGED <<files, now, faults>>
    BY <1>3, <1>1, <1>5, StoreWritten
  <1>6. CASE /\ r.out = "Ok" /\ CommitVault([open EXCEPT ![k] = r.entry], c)
             /\ StoreAfter(c, ss) /\ UNCHANGED <<registry, now>>
    <2>1. VaultEntry(k) # None /\ r.entry \in VaultEntries /\ GuardedEntry(r.entry)
      <3>1. 0 \in Time
        BY DEF Time
      <3> QED BY <1>6, <3>1, OpenKept, ClaimsKeep
    <2>2. open # None
      BY <2>1 DEF VaultEntry
    <2> HIDE DEF r
    <2> QED BY <1>3, <1>1, <1>6, <2>1, <2>2, EntryCommitted
  <1> QED BY <1>2, <1>3, <1>4, <1>5, <1>6

(***************************************************************************)
(* kv.define (handle_define).                                              *)
(***************************************************************************)
LEMMA KvDefineKeeps ==
    ASSUME Held, NEW p, NEW k \in Keys, NEW def \in Definitions, NEW c \in Commits,
           KvDefine(p, k, def, c)
    PROVE  Held' /\ Honest'
  <1> DEFINE s == Define(slots[k], def).slot
  <1>1. Good(s)
    BY SideOpsKeep DEF Held, Stored, Good
  <1>2. \/ \E out : Refuse("define", p, k, out)
        \/ /\ Counts(c) /\ slots' = [slots EXCEPT ![k] = s] /\ SaveDefinitions(c)
           /\ (\E out : reply' = Answer("define", p, k, out)) /\ UNCHANGED <<disk, open, now>>
    BY DEF KvDefine
  <1> HIDE DEF s
  <1>3. Honest'
    <2>1. PICK out : reply' = Answer("define", p, k, out)
      BY <1>2 DEF Refuse
    <2> QED BY <2>1, Quiet
  <1>4. CASE \E out : Refuse("define", p, k, out)
    <2>1. PICK out : Refuse("define", p, k, out)
      BY <1>4
    <2> QED BY <1>3, <2>1, Refused
  <1>5. CASE /\ Counts(c) /\ slots' = [slots EXCEPT ![k] = s] /\ SaveDefinitions(c)
             /\ UNCHANGED <<disk, open, now>>
    <2>1. slots' \in [Keys -> Slots]
      BY <1>1, <1>5, SlotWritten DEF Held, Stored
    <2>2. registry' \in [Keys -> Option(Definitions)]
      BY <1>5, <2>1, Saved DEF Held, Filed
    <2>3. faults' \in Nat /\ now' \in Time
      BY <1>5 DEF Counts, Held, Filed
    <2> QED BY <1>1, <1>3, <1>5, <2>2, <2>3, OneSlot
  <1> QED BY <1>2, <1>3, <1>4, <1>5

(***************************************************************************)
(* kv.pin (handle_pin) lengthens a value's life and reads none.            *)
(***************************************************************************)
LEMMA KvPinKeeps ==
    ASSUME Held, NEW p, NEW k \in Keys, NEW length \in Nat, NEW auth \in BOOLEAN,
           NEW t1 \in Time, KvPin(p, k, length, auth, t1)
    PROVE  Held' /\ Honest'
  <1> DEFINE s == PinAuthenticated(slots[k], now + length, auth, now, t1).slot
  <1>1. Good(s)
    <2>1. now \in Time /\ now + length \in Time /\ Good(slots[k]) /\ slots[k] \in Slots
      BY DEF Held, Stored, Good, Time
    <2> QED BY <2>1, SlotOpsKeep, KeepsGood
  <1>2. \/ Refuse("pin", p, k, "AuthFailed")
        \/ /\ slots' = [slots EXCEPT ![k] = s] /\ now' \in {now, t1}
           /\ (\E out : reply' = Answer("pin", p, k, out)) /\ UNCHANGED <<files, faults>>
    BY DEF KvPin
  <1> HIDE DEF s
  <1>3. Honest'
    <2>1. PICK out : reply' = Answer("pin", p, k, out)
      BY <1>2 DEF Refuse
    <2> QED BY <2>1, Quiet
  <1>4. CASE slots' = [slots EXCEPT ![k] = s] /\ now' \in {now, t1} /\ UNCHANGED <<files, faults>>
    BY <1>1, <1>3, <1>4, OneSlot DEF files, Held, Filed
  <1> QED BY <1>2, <1>3, <1>4, Refused

(***************************************************************************)
(* kv.unpin and kv.owner.clear.                                            *)
(***************************************************************************)
LEMMA SmallRequestsKeep ==
    ASSUME Held, NEW p, NEW k \in Keys, KvUnpin(p, k) \/ KvOwnerClear(p, k)
    PROVE  Held' /\ Honest'
  <1>1. Good(Unpin(slots[k])) /\ Good(ClearOwner(slots[k]))
    <2>1. Good(slots[k]) /\ slots[k] \in Slots /\ now \in Time
      BY DEF Held, Stored, Good
    <2> QED BY <2>1, SlotOpsKeep, SideOpsKeep, KeepsGood
  <1>2. PICK op \in {"unpin", "owner_clear"}, s \in {Unpin(slots[k]), ClearOwner(slots[k])} :
           \/ \E out : Refuse(op, p, k, out)
           \/ /\ slots' = [slots EXCEPT ![k] = s] /\ reply' = Answer(op, p, k, "Ok")
              /\ UNCHANGED <<files, now, faults>>
    BY DEF KvUnpin, KvOwnerClear
  <1>3. Honest'
    <2>1. \E out : reply' = Answer(op, p, k, out)
      BY <1>2 DEF Refuse
    <2>2. PICK out : reply' = Answer(op, p, k, out)
      BY <2>1
    <2> QED BY <2>2, Quiet
  <1>4. CASE \E out : Refuse(op, p, k, out)
    <2>1. PICK out : Refuse(op, p, k, out)
      BY <1>4
    <2> QED BY <1>3, <2>1, Refused
  <1>5. CASE slots' = [slots EXCEPT ![k] = s] /\ UNCHANGED <<files, now, faults>>
    <2>1. Good(s)
      BY <1>1, <1>2
    <2>2. Stored([slots EXCEPT ![k] = s])
      BY <2>1, SlotWritten DEF Held
    <2> QED BY <1>3, <1>5, <2>2, StoreWritten
  <1> QED BY <1>2, <1>3, <1>4, <1>5

-----------------------------------------------------------------------------
(* The vault *)

(***************************************************************************)
(* A restored value is under its guard: the vault's, for the vault has one *)
(* for every value that needs one (install_vault_entries).                 *)
(***************************************************************************)
LEMMA InstallKeeps ==
    ASSUME NEW s, Good(s), NEW e \in VaultEntries, GuardedEntry(e), now \in Time
    PROVE  Good(InstallEntry(s, e))
  <1> DEFINE ttl == [soft |-> None, hard |-> None]
             w == Set(s, Static, e.value, ttl, now)
             t == RestoreVersion(w, e.version)
             n == InstallEntry(s, e)
  <1>1. s \in Slots /\ ttl \in Ttl
    BY DEF Good, Ttl, Option
  <1>2. /\ e.value \in Values /\ e.version \in Nat /\ e.guard \in Option(Guards)
        /\ e.owner \in Option(Principals) /\ e.claim \in Option(RefreshClaims)
    BY DEF VaultEntries
  <1> HIDE DEF ttl
  <1>3. w \in Slots /\ NewEntry(Static, e.value, ttl, now) \in CacheEntries
    BY <1>1, <1>2, InstallType, NewEntryType
  <1>4. w.entry = NewEntry(Static, e.value, ttl, now)
    BY <1>1 DEF Set, Slots
  <1>5. w.entry # None /\ w.entry.value = e.value
    BY <1>3, <1>4, NoneIsNoEntry DEF NewEntry
  <1> HIDE DEF w
  <1>6. t \in Slots /\ t.entry = w.entry
    BY <1>2, <1>3 DEF RestoreVersion, Slots
  <1>7. n = [t EXCEPT !.guard = IF e.guard = None THEN @ ELSE e.guard,
                      !.owner = IF e.owner = None THEN @ ELSE e.owner,
                      !.claim = IF ClaimActive(e, now) THEN e.claim ELSE @]
    BY DEF InstallEntry, t, w, ttl
  <1> HIDE DEF t, n
  <1>8. n \in Slots /\ n.entry = t.entry
    BY <1>2, <1>6, <1>7 DEF Slots
  <1>9. n.guard = IF e.guard = None THEN t.guard ELSE e.guard
    BY <1>6, <1>7 DEF Slots
  <1>10. Audience[e.value] # None => e.guard = Audience[e.value] /\ e.guard # None
    BY NoneIsNoEntry DEF GuardedEntry
  <1>11. Guarded(n)
    BY <1>5, <1>6, <1>8, <1>9, <1>10 DEF Guarded
  <1> QED BY <1>8, <1>11 DEF Good, n

(***************************************************************************)
(* vault.init makes a vault without entries.                               *)
(***************************************************************************)
LEMMA VaultInitKeeps ==
    ASSUME Held, NEW c \in Commits, VaultInit(c)
    PROVE  Held' /\ Honest'
  <1> DEFINE entries == [k \in Keys |-> None]
  <1>1. Kept(entries)
    BY DEF Kept, Entries, GuardedEntry, Option
  <1>2. CommitVault(entries, c) /\ StoreAfter(c, slots) /\ UNCHANGED <<registry, now>>
    BY DEF VaultInit
  <1> HIDE DEF entries
  <1>3. Held'
    BY <1>1, <1>2, Committed DEF Held, Filed
  <1>4. reply' = Answer("init", None, None, OutOf(c))
    BY DEF VaultInit
  <1> QED BY <1>3, <1>4, Quiet

(***************************************************************************)
(* vault.unlock installs what the vault has (install_vault_entries).       *)
(***************************************************************************)
LEMMA VaultUnlockKeeps ==
    ASSUME Held, NEW valid \in BOOLEAN, VaultUnlock(valid)
    PROVE  Held' /\ Honest'
  <1> DEFINE entries == IF open = None THEN disk ELSE open
             ss == [k \in Keys |-> IF entries[k] = None THEN slots[k]
                                   ELSE InstallEntry(slots[k], entries[k])]
  <1>1. CASE Refuse("unlock", None, None, "AuthFailed")
    <2>1. reply' = Answer("unlock", None, None, "AuthFailed")
      BY <1>1 DEF Refuse
    <2> QED BY <1>1, <2>1, Quiet, Refused
  <1>2. CASE /\ disk # None /\ open' = entries /\ slots' = ss
             /\ reply' = Answer("unlock", None, None, "Ok")
             /\ UNCHANGED <<registry, disk, now, faults>>
    <2>1. Kept(entries)
      BY <1>2 DEF Held, Filed
    <2> HIDE DEF entries
    <2>2. ASSUME NEW k \in Keys PROVE Good(ss[k])
      <3>1. Good(slots[k]) /\ now \in Time
        BY DEF Held, Stored, Good
      <3>2. entries[k] # None => entries[k] \in VaultEntries /\ GuardedEntry(entries[k])
        BY <2>1 DEF Kept, Entries, Option
      <3> QED BY <3>1, <3>2, InstallKeeps
    <2>3. Stored(ss)
      BY <2>2 DEF Stored, Good
    <2> HIDE DEF ss
    <2>4. Held'
      BY <1>2, <2>1, <2>3 DEF Held, Filed, Stored, Kept
    <2> QED BY <1>2, <2>4, Quiet
  <1> QED BY <1>1, <1>2 DEF VaultUnlock

(***************************************************************************)
(* vault.lock takes value and guard together (handle_vault_lock).          *)
(***************************************************************************)
LEMMA VaultLockKeeps ==
    ASSUME Held, VaultLock
    PROVE  Held' /\ Honest'
  <1>1. ASSUME NEW k \in Keys PROVE Good(Evicted[k])
    BY SideOpsKeep DEF Held, Stored, Good, Evicted
  <1>2. Stored(Evicted)
    BY <1>1 DEF Stored, Good, Evicted
  <1>3. Held'
    BY <1>2 DEF VaultLock, Held, Filed, Stored, Kept
  <1>4. reply' = Answer("lock", None, None, "Ok")
    BY DEF VaultLock
  <1> QED BY <1>3, <1>4, Quiet

(***************************************************************************)
(* The process ends: the values in memory go, the files stay.              *)
(***************************************************************************)
LEMMA CrashKeeps ==
    ASSUME Held, Crash
    PROVE  Held' /\ Honest'
  <1>1. Stored(Cold(registry))
    BY ColdStored DEF Held, Filed
  <1>2. Held'
    BY <1>1 DEF Crash, Held, Filed, Stored, Kept
  <1>3. reply' = Answer("crash", None, None, "NoReply")
    BY DEF Crash
  <1> QED BY <1>2, <1>3, Quiet

(***************************************************************************)
(* Time passes.                                                            *)
(***************************************************************************)
LEMMA TickKeeps ==
    ASSUME Held, Tick
    PROVE  Held' /\ Honest'
  <1>1. Held'
    BY DEF Tick, files, Held, Filed, Stored, Kept, Time
  <1>2. Honest'
    BY DEF Tick, Silence, Honest, GuardTravels
  <1> QED BY <1>1, <1>2

-----------------------------------------------------------------------------
(* The theorems *)

(***************************************************************************)
(* A time a command or a prompt may last to is one.                        *)
(***************************************************************************)
LEMMA LaterIsTime ==
    ASSUME now \in Time
    PROVE  Later \subseteq Time
  BY DEF Later, Time

(***************************************************************************)
(* No request, no lock, no crash and no tick takes a value from its guard. *)
(***************************************************************************)
LEMMA StepKeeps ==
    ASSUME Held, Step
    PROVE  Held' /\ Honest'
  <1>1. Later \subseteq Time
    BY LaterIsTime DEF Held
  <1>2. CASE Tick \/ Crash \/ VaultLock \/ \E valid \in BOOLEAN : VaultUnlock(valid)
    BY <1>2, TickKeeps, CrashKeeps, VaultLockKeeps, VaultUnlockKeeps
  <1>3. CASE \E c \in Commits : VaultInit(c)
    BY <1>3, VaultInitKeeps
  <1>4. ASSUME NEW p \in Peers, NEW k \in Keys, NEW v \in Values, NEW ttl \in Ttls,
               NEW flag \in PersistFlags, NEW expected \in Option(0..MaxVersion),
               NEW token \in Option(Tokens), NEW owner \in Option(Principals),
               NEW c \in Commits, KvSet(p, k, v, ttl, flag, expected, token, owner, c)
        PROVE  Held' /\ Honest'
    BY <1>4, KeyConstants, KvSetKeeps
  <1>5. ASSUME NEW p \in Peers, NEW k \in Keys, NEW run \in Option(Fetched),
               NEW auth \in BOOLEAN, NEW t1 \in Later, KvGet(p, k, run, auth, t1)
        PROVE  Held' /\ Honest'
    BY <1>1, <1>5, KvGetKeeps
  <1>6. ASSUME NEW p \in Peers, NEW k \in Keys, NEW with_define \in BOOLEAN, NEW c \in Commits,
               KvDel(p, k, with_define, c)
        PROVE  Held' /\ Honest'
    BY <1>6, KvDelKeeps
  <1>7. ASSUME NEW p \in Peers, NEW k \in Keys, NEW expected \in 0..MaxVersion,
               NEW token \in Tokens, NEW ttl \in ClaimTtls, NEW c \in Commits,
               KvClaim(p, k, expected, token, ttl, c)
        PROVE  Held' /\ Honest'
    BY <1>7, DurationConstants, KvClaimKeeps
  <1>8. ASSUME NEW p \in Peers, NEW k \in Keys, NEW token \in Tokens, NEW c \in Commits,
               KvUnclaim(p, k, token, c)
        PROVE  Held' /\ Honest'
    BY <1>8, KvUnclaimKeeps
  <1>9. ASSUME NEW p \in Peers, NEW k \in Keys, NEW source \in Sources, NEW ttl \in Ttls,
               NEW c \in Commits, KvDefine(p, k, [source |-> source, ttl |-> ttl], c)
        PROVE  Held' /\ Honest'
    <2>1. [source |-> source, ttl |-> ttl] \in Definitions
      BY KeyConstants DEF Definitions
    <2> QED BY <1>9, <2>1, KvDefineKeeps
  <1>10. ASSUME NEW p \in Peers, NEW k \in Keys, NEW length \in PinLengths,
                NEW auth \in BOOLEAN, NEW t1 \in Later, KvPin(p, k, length, auth, t1)
         PROVE  Held' /\ Honest'
    BY <1>1, <1>10, DurationConstants, KvPinKeeps
  <1>11. ASSUME NEW p \in Peers, NEW k \in Keys, KvUnpin(p, k) \/ KvOwnerClear(p, k)
         PROVE  Held' /\ Honest'
    BY <1>11, SmallRequestsKeep
  <1> QED BY <1>2, <1>3, <1>4, <1>5, <1>6, <1>7, <1>8, <1>9, <1>10, <1>11 DEF Step

(***************************************************************************)
(* The histories stay typed, for a reply only says what there is.          *)
(***************************************************************************)
LEMMA RememberKeeps ==
    ASSUME Remembered, Honest', Remember
    PROVE  Remembered'
  <1>1. ASSUME NEW k \in Keys PROVE last'[k] \in SUBSET Values
    <2>1. Told("set", k) \/ Untold("set", k) => reply'.wrote \in Values
      BY DEF Told, Untold, Honest
    <2>2. Refetched(k) => {slots'[k].entry.value} \ {None} \subseteq Values
      BY DEF Refetched, Honest, Option
    <2>3. last[k] \subseteq Values
      BY DEF Remembered
    <2>4. last'[k] = IF Forgotten(k) \/ Told("del", k) THEN {}
                     ELSE IF Told("set", k) THEN {reply'.wrote}
                     ELSE IF Untold("set", k) THEN last[k] \cup {reply'.wrote}
                     ELSE IF Refetched(k) THEN {slots'[k].entry.value} \ {None}
                     ELSE last[k]
      BY DEF Remember
    <2>5. \/ last'[k] \in {{}, last[k]}
          \/ Told("set", k) /\ last'[k] = {reply'.wrote}
          \/ Untold("set", k) /\ last'[k] = last[k] \cup {reply'.wrote}
          \/ Refetched(k) /\ last'[k] = {slots'[k].entry.value} \ {None}
      BY <2>4
    <2> QED BY <2>1, <2>2, <2>3, <2>5
  <1>2. ASSUME NEW k \in Keys PROVE top'[k] \in Nat
    <2>1. Told("set", k) => reply'.version \in Nat
      BY DEF Told, Honest
    <2>2. top'[k] = IF Forgotten(k) THEN 0
                    ELSE IF Told("set", k) THEN reply'.version ELSE top[k]
      BY DEF Remember
    <2>3. top'[k] \in {0, top[k]} \/ (Told("set", k) /\ top'[k] = reply'.version)
      BY <2>2
    <2> QED BY <2>1, <2>3 DEF Remembered
  <1>3. ASSUME NEW k \in Keys PROVE owned'[k] \in Option(Principals)
    <2>1. Told("set", k) \/ Untold("set", k) => reply'.owner \in Option(Principals)
      BY DEF Told, Untold, Honest
    <2>2. owned'[k] = IF Forgotten(k) \/ Told("owner_clear", k) THEN None
                      ELSE IF Told("set", k) \/ Untold("set", k) THEN reply'.owner
                      ELSE owned[k]
      BY DEF Remember
    <2>3. \/ owned'[k] \in {None, owned[k]}
          \/ (Told("set", k) \/ Untold("set", k)) /\ owned'[k] = reply'.owner
      BY <2>2
    <2> QED BY <2>1, <2>3 DEF Remembered, Option
  <1>4. /\ last' = [k \in Keys |-> last'[k]] /\ top' = [k \in Keys |-> top'[k]]
        /\ owned' = [k \in Keys |-> owned'[k]]
    BY DEF Remember
  <1> QED BY <1>1, <1>2, <1>3, <1>4 DEF Remembered

(***************************************************************************)
(* The invariant of the daemon: every value, in memory, in the open vault  *)
(* and on the disk, is under the guard it was set with.                    *)
(***************************************************************************)
THEOREM DaemonInvariant == Spec => []IInv
  <1>1. Init => IInv
    <2> SUFFICES ASSUME Init PROVE IInv
      OBVIOUS
    <2>1. registry \in [Keys -> Option(Definitions)]
      BY DEF Init, Option
    <2>2. Stored(slots) /\ Filed /\ now \in Time
      BY <2>1, ColdStored DEF Init, Filed, Time
    <2>3. Remembered
      BY DEF Init, Remembered, Option
    <2>4. GuardTravels
      BY DEF Init, Silence, GuardTravels
    <2> QED BY <2>2, <2>3, <2>4 DEF IInv, Held
  <1>2. IInv /\ [Next]_vars => IInv'
    <2>1. ASSUME IInv, Next PROVE IInv'
      <3>1. Held' /\ Honest'
        BY <2>1, StepKeeps DEF IInv, Next
      <3>2. Remembered'
        BY <2>1, <3>1, RememberKeeps DEF IInv, Next
      <3> QED BY <3>1, <3>2 DEF IInv, Honest
    <2>2. ASSUME IInv, UNCHANGED vars PROVE IInv'
      BY <2>2 DEF vars, IInv, Held, Filed, Stored, Kept, Remembered, GuardTravels
    <2> QED BY <2>1, <2>2
  <1> QED BY <1>1, <1>2, PTL DEF Spec

(***************************************************************************)
(* Slots, files and histories keep their types, for any configuration and  *)
(* any failures.                                                           *)
(***************************************************************************)
THEOREM DaemonTypeOK == Spec => []TypeOK
  <1>1. IInv => TypeOK
    BY DEF IInv, Held, Filed, Stored, Kept, Remembered, TypeOK, Option
  <1> QED BY <1>1, DaemonInvariant, PTL

(***************************************************************************)
(* A value set with a guard is never handed to a peer outside it.          *)
(* (handler.rs handle_set "last declaration wins", write_through_to_vault, *)
(* install_vault_entries)                                                  *)
(***************************************************************************)
THEOREM GuardTravelsHolds == Spec => []GuardTravels
  <1>1. IInv => GuardTravels
    BY DEF IInv
  <1> QED BY <1>1, DaemonInvariant, PTL

-----------------------------------------------------------------------------
(* One key through one step *)

(***************************************************************************)
(* A write of the vault file takes effect or it does not: no rename is     *)
(* made whose outcome the daemon is not told.                              *)
(***************************************************************************)
RenameIsSafe == "renamed" \notin Commits

(***************************************************************************)
(* Whatever a write of the vault file does not do, the daemon does not     *)
(* survive.                                                                *)
(***************************************************************************)
AllOrDeath == Commits \cap {"untouched", "renamed"} = {}

(***************************************************************************)
(* Only keys declared in the configuration are persisted, and there they   *)
(* have a definition (config.rs persisted_keys).                           *)
(***************************************************************************)
DeclaredOnly   == TRUE \in PersistFlags => PersistedKeys = Keys
ConfiguredKeys == \A k \in PersistedKeys : ConfigDefs[k] # None

OnFile(k) == IF disk = None THEN None ELSE disk[k]
Opened    == open # None
Mirrored  == Opened => open = disk

\* A value no clock takes away.
Lasting(s) == s.entry # None /\ s.entry.value # None /\ s.entry.ttl.hard = None

\* Slot n has the entry of s, whose value may have reached its hard limit.
SameEntry(s, n) ==
    /\ n.entry = None <=> s.entry = None
    /\ n.entry # None => n.entry.ttl = s.entry.ttl /\ n.entry.value \in {s.entry.value, None}
    /\ Lasting(s) => n.entry.value = s.entry.value

SameFile(k)  == OnFile(k)' = OnFile(k) /\ Opened' = Opened
SameTale(k)  == last'[k] = last[k] /\ top'[k] = top[k] /\ owned'[k] = owned[k]
Forgets(k)   == last'[k] = {} /\ top'[k] = 0 /\ holder'[k] = None /\ owned'[k] = None

(***************************************************************************)
(* What a step may mean for a key.  A request for another key, a refused   *)
(* or failed one, or one that touches neither value nor files.             *)
(***************************************************************************)
Stays(k) ==
    LET s == slots[k]
        n == slots'[k]
    IN  /\ SameEntry(s, n) /\ n.version = s.version /\ n.guard = s.guard /\ n.claim = s.claim
        /\ SameFile(k) /\ last'[k] = last[k] /\ top'[k] = top[k]
        /\ holder'[k] \in {holder[k], None}
        /\ owned'[k] = None \/ (owned'[k] = owned[k] /\ n.owner = s.owner)
        /\ s.def # None => n.def # None

Fetches(k) ==
    LET s == slots[k]
        n == slots'[k]
    IN  /\ ~Lasting(s) /\ (s.entry = None => ~Unavailable(k))
        /\ n.entry # None /\ n.version = s.version /\ n.owner = s.owner
        /\ SameFile(k) /\ last'[k] = {n.entry.value} \ {None}
        /\ top'[k] = top[k] /\ owned'[k] = owned[k] /\ holder'[k] = None

MayPersist(k) == k \in PersistedKeys \/ TRUE \in PersistFlags

(***************************************************************************)
(* A value is set: in memory only, for it is not to be persisted or the    *)
(* vault was not written; or in both places.                               *)
(***************************************************************************)
Sets(k, v, persist) ==
    LET s == slots[k]
        n == slots'[k]
    IN  /\ n.entry # None /\ n.entry.value = v /\ v # None
        /\ persist => n.entry.ttl.hard = None /\ Opened /\ MayPersist(k)
        /\ k \in PersistedKeys => persist
        /\ n.version = s.version + 1 /\ n.claim = None
        /\ holder'[k] = None /\ owned'[k] = n.owner

WrittenEntry(k, v, guard, owner) ==
    [value |-> v, guard |-> guard, owner |-> owner,
     version |-> CurrentVersion(OnFile(k)) + 1, claim |-> None]

SetsInMemory(k) ==
    \E v \in Values, persist \in BOOLEAN, token \in Option(Tokens) :
        /\ Sets(k, v, persist) /\ SameFile(k)
        /\ IF persist
           THEN /\ last'[k] = last[k] \cup {v} /\ top'[k] = top[k]
                /\ \/ "untouched" \in Commits
                   \/ ClaimAllows(slots[k], token, now) /\ ~ClaimAllows(OnFile(k), token, now)
           ELSE last'[k] = {v} /\ top'[k] = slots'[k].version

SetsThrough(k) ==
    \E v \in Values :
        /\ Sets(k, v, TRUE) /\ Opened'
        /\ OnFile(k)' = WrittenEntry(k, v, slots'[k].guard, slots'[k].owner)
        /\ last'[k] = {v} /\ top'[k] = slots'[k].version

(***************************************************************************)
(* A value is deleted, with its definition or without.                     *)
(***************************************************************************)
Erases(k) ==
    /\ slots'[k] = EmptySlot /\ Opened' = Opened /\ Forgets(k)
    /\ \/ OnFile(k)' = None
       \/ /\ OnFile(k)' = OnFile(k)
          /\ (slots[k] = EmptySlot /\ Opened) \/ (~Opened /\ k \notin PersistedKeys)

Deletes(k) ==
    /\ slots'[k] = Delete(slots[k]) /\ SameFile(k)
    /\ OnFile(k) # None => ~Opened /\ k \notin PersistedKeys
    /\ last'[k] = {} /\ top'[k] = top[k] /\ holder'[k] = None /\ owned'[k] = owned[k]

(***************************************************************************)
(* A claim is granted, or given up, in both places.                        *)
(***************************************************************************)
Claims(k) ==
    \E claim \in RefreshClaims :
        /\ ~Unavailable(k) /\ ~ClaimActive(slots[k], now) /\ Opened' = Opened
        /\ slots'[k] = SetRefreshClaim(slots[k], claim)
        /\ OnFile(k)' = IF Opened /\ OnFile(k) # None
                        THEN [OnFile(k) EXCEPT !.claim = claim] ELSE OnFile(k)
        /\ SameTale(k) /\ holder'[k] = claim

Unclaims(k) ==
    /\ slots'[k] = ClearRefreshClaim(slots[k]) /\ Opened' = Opened
    /\ OnFile(k)' = IF Opened /\ OnFile(k) # None
                    THEN [OnFile(k) EXCEPT !.claim = None] ELSE OnFile(k)
    /\ SameTale(k) /\ holder'[k] = None

(***************************************************************************)
(* The process ends, on its own or in the middle of a request.             *)
(***************************************************************************)
Starts(s, k) ==
    /\ s.entry = None /\ s.guard = None /\ s.claim = None /\ s.owner = None /\ s.version = 0
    /\ ConfigDefs[k] # None => s.def # None

Ends(k) ==
    /\ Starts(slots'[k], k) /\ ~Opened'
    /\ \/ OnFile(k)' = None /\ Forgets(k)
       \/ OnFile(k)' = OnFile(k) /\ SameTale(k) /\ holder'[k] = holder[k]
          /\ OnFile(k) # None
       \/ \E v \in Values, guard \in Option(Guards), owner \in Option(Principals) :
             /\ OnFile(k)' = WrittenEntry(k, v, guard, owner) /\ MayPersist(k)
             /\ last'[k] = last[k] \cup {v} /\ top'[k] = top[k]
             /\ holder'[k] = None /\ owned'[k] = owner
       \/ /\ Opened /\ OnFile(k) # None /\ SameTale(k)
          /\ \E claim \in Option(RefreshClaims) :
                /\ OnFile(k)' = [OnFile(k) EXCEPT !.claim = claim]
                /\ \/ ~ClaimActive(slots[k], now) /\ holder'[k] = holder[k]
                   \/ holder'[k] = None

(***************************************************************************)
(* The vault is opened (or created) and locked.                            *)
(***************************************************************************)
Opens(k) ==
    /\ slots'[k] = IF OnFile(k) = None THEN slots[k] ELSE InstallEntry(slots[k], OnFile(k))
    /\ OnFile(k)' = OnFile(k) /\ Opened' /\ now' = now
    /\ SameTale(k) /\ holder'[k] = holder[k]

Locks(k) ==
    /\ slots'[k] = IF Owned(k) THEN Delete(slots[k]) ELSE slots[k]
    /\ OnFile(k)' = OnFile(k) /\ ~Opened' /\ now' = now
    /\ SameTale(k) /\ holder'[k] = holder[k]

Happens(k) ==
    \/ Stays(k) \/ Fetches(k) \/ SetsInMemory(k) \/ SetsThrough(k)
    \/ Erases(k) \/ Deletes(k) \/ Claims(k) \/ Unclaims(k)
    \/ Ends(k) \/ Opens(k) \/ Locks(k)

Sound(k) == Happens(k) /\ Mirrored'
-----------------------------------------------------------------------------
(* What the replies leave in the histories *)

(***************************************************************************)
(* The histories of one key.                                               *)
(***************************************************************************)
LEMMA Tale ==
    ASSUME Remember, NEW k \in Keys
    PROVE  /\ last'[k] = IF Forgotten(k) \/ Told("del", k) THEN {}
                         ELSE IF Told("set", k) THEN {reply'.wrote}
                         ELSE IF Untold("set", k) THEN last[k] \cup {reply'.wrote}
                         ELSE IF Refetched(k) THEN {slots'[k].entry.value} \ {None}
                         ELSE last[k]
           /\ top'[k] = IF Forgotten(k) THEN 0
                        ELSE IF Told("set", k) THEN reply'.version ELSE top[k]
           /\ holder'[k] = IF \/ Forgotten(k) \/ Told("del", k) \/ Refetched(k)
                              \/ Told("set", k) \/ Untold("set", k)
                              \/ Told("unclaim", k) \/ Untold("unclaim", k) THEN None
                           ELSE IF Told("claim", k) THEN slots'[k].claim ELSE holder[k]
           /\ owned'[k] = IF Forgotten(k) \/ Told("owner_clear", k) THEN None
                          ELSE IF Told("set", k) \/ Untold("set", k) THEN reply'.owner
                          ELSE owned[k]
  BY DEF Remember

(***************************************************************************)
(* Nothing was said of the key.                                            *)
(***************************************************************************)
LEMMA TaleElsewhere ==
    ASSUME Remember, NEW k \in Keys, reply'.key # k \/ ~reply'.fetched,
           \/ reply'.key # k
           \/ reply'.op \notin {"set", "del", "claim", "unclaim", "owner_clear"}
           \/ reply'.out \notin {"Ok", "IoError", "NoReply"},
           reply'.out = "NoReply" => OnDisk(k)
    PROVE  SameTale(k) /\ holder'[k] = holder[k]
  <1>1. ~Forgotten(k) /\ ~Refetched(k)
    BY DEF Forgotten, Told, Untold, Refetched
  <1>2. /\ ~Told("set", k) /\ ~Told("del", k) /\ ~Told("claim", k) /\ ~Told("unclaim", k)
        /\ ~Told("owner_clear", k) /\ ~Untold("set", k) /\ ~Untold("unclaim", k)
    BY DEF Told, Untold
  <1> QED BY <1>1, <1>2, Tale DEF SameTale

(***************************************************************************)
(* The process ended without the vault holding the key.                    *)
(***************************************************************************)
LEMMA TaleLost ==
    ASSUME Remember, NEW k \in Keys, reply'.out = "NoReply", ~OnDisk(k)
    PROVE  Forgets(k)
  <1>1. Forgotten(k)
    BY DEF Forgotten
  <1> QED BY <1>1, Tale DEF Forgets

(***************************************************************************)
(* A set was acknowledged; it failed, or the process ended after it.       *)
(***************************************************************************)
LEMMA TaleOfSet ==
    ASSUME Remember, NEW k \in Keys, reply'.op = "set", reply'.key = k, ~reply'.fetched,
           reply'.out \in {"Ok", "IoError", "NoReply"}, reply'.out = "NoReply" => OnDisk(k)
    PROVE  /\ holder'[k] = None /\ owned'[k] = reply'.owner
           /\ IF reply'.out = "Ok" THEN last'[k] = {reply'.wrote} /\ top'[k] = reply'.version
              ELSE last'[k] = last[k] \cup {reply'.wrote} /\ top'[k] = top[k]
  <1>1. ~Forgotten(k) /\ ~Refetched(k) /\ ~Told("del", k) /\ ~Told("owner_clear", k)
    BY DEF Forgotten, Told, Untold, Refetched
  <1>2. IF reply'.out = "Ok" THEN Told("set", k) ELSE Untold("set", k) /\ ~Told("set", k)
    BY DEF Told, Untold
  <1> QED BY <1>1, <1>2, Tale

(***************************************************************************)
(* A deletion was acknowledged, or it failed after the store was changed,  *)
(* or before.                                                              *)
(***************************************************************************)
LEMMA TaleOfDel ==
    ASSUME Remember, NEW k \in Keys, reply'.op = "del", reply'.key = k, ~reply'.fetched,
           reply'.out \in {"Ok", "IoError"}
    PROVE  /\ slots'[k] = EmptySlot => Forgets(k)
           /\ slots'[k] # EmptySlot /\ reply'.out = "Ok" =>
                 /\ last'[k] = {} /\ top'[k] = top[k] /\ holder'[k] = None
                 /\ owned'[k] = owned[k]
           /\ slots'[k] # EmptySlot /\ reply'.out = "IoError" =>
                 SameTale(k) /\ holder'[k] = holder[k]
  <1>1. /\ ~Told("set", k) /\ ~Told("claim", k) /\ ~Told("unclaim", k) /\ ~Refetched(k)
        /\ ~Told("owner_clear", k) /\ ~Untold("set", k) /\ ~Untold("unclaim", k)
        /\ Told("del", k) <=> reply'.out = "Ok"
        /\ Forgotten(k) <=> slots'[k] = EmptySlot
    BY DEF Told, Untold, Refetched, Forgotten
  <1> QED BY <1>1, Tale DEF Forgets, SameTale

(***************************************************************************)
(* A claim was granted, or its write failed.                               *)
(***************************************************************************)
LEMMA TaleOfClaim ==
    ASSUME Remember, NEW k \in Keys, reply'.op = "claim", reply'.key = k, ~reply'.fetched,
           reply'.out = "NoReply" => OnDisk(k)
    PROVE  SameTale(k) /\ holder'[k] = IF reply'.out = "Ok" THEN slots'[k].claim ELSE holder[k]
  <1>1. /\ ~Told("set", k) /\ ~Told("del", k) /\ ~Told("unclaim", k) /\ ~Refetched(k)
        /\ ~Told("owner_clear", k) /\ ~Untold("set", k) /\ ~Untold("unclaim", k)
        /\ Told("claim", k) <=> reply'.out = "Ok"
        /\ ~Forgotten(k)
    BY DEF Told, Untold, Refetched, Forgotten
  <1> QED BY <1>1, Tale DEF SameTale

(***************************************************************************)
(* A claim was given up, or that failed.                                   *)
(***************************************************************************)
LEMMA TaleOfUnclaim ==
    ASSUME Remember, NEW k \in Keys, reply'.op = "unclaim", reply'.key = k, ~reply'.fetched,
           reply'.out \in {"Ok", "IoError", "NoReply"}, reply'.out = "NoReply" => OnDisk(k)
    PROVE  SameTale(k) /\ holder'[k] = None
  <1>1. /\ ~Told("set", k) /\ ~Told("del", k) /\ ~Refetched(k)
        /\ ~Told("owner_clear", k) /\ ~Untold("set", k)
        /\ Told("unclaim", k) \/ Untold("unclaim", k)
        /\ ~Forgotten(k)
    BY DEF Told, Untold, Refetched, Forgotten
  <1> QED BY <1>1, Tale DEF SameTale

(***************************************************************************)
(* A value was fetched.                                                    *)
(***************************************************************************)
LEMMA TaleOfGet ==
    ASSUME Remember, NEW k \in Keys, reply'.op = "get", reply'.key = k, reply'.fetched,
           reply'.out # "NoReply"
    PROVE  /\ last'[k] = {slots'[k].entry.value} \ {None} /\ top'[k] = top[k]
           /\ owned'[k] = owned[k] /\ holder'[k] = None
  <1>1. /\ ~Told("set", k) /\ ~Told("del", k) /\ ~Told("owner_clear", k)
        /\ ~Untold("set", k) /\ ~Forgotten(k) /\ Refetched(k)
    BY DEF Told, Untold, Refetched, Forgotten
  <1> QED BY <1>1, Tale

(***************************************************************************)
(* An owner was cleared.                                                   *)
(***************************************************************************)
LEMMA TaleOfOwnerClear ==
    ASSUME Remember, NEW k \in Keys, reply'.op = "owner_clear", reply'.key = k,
           ~reply'.fetched, reply'.out = "Ok"
    PROVE  /\ last'[k] = last[k] /\ top'[k] = top[k] /\ holder'[k] = holder[k]
           /\ owned'[k] = None
  <1>1. /\ ~Told("set", k) /\ ~Told("del", k) /\ ~Refetched(k) /\ ~Untold("unclaim", k)
        /\ ~Told("claim", k) /\ ~Told("unclaim", k)
        /\ ~Untold("set", k) /\ ~Forgotten(k) /\ Told("owner_clear", k)
    BY DEF Told, Untold, Refetched, Forgotten
  <1> QED BY <1>1, Tale
-----------------------------------------------------------------------------
(* What the requests mean for a key *)

(***************************************************************************)
(* How a write of the vault file ends, if its rename is safe.              *)
(***************************************************************************)
LEMMA CommitEnds ==
    ASSUME RenameIsSafe, Mirrored, NEW entries \in Entries, NEW c \in Commits,
           CommitVault(entries, c)
    PROVE  /\ Mirrored' /\ c \in {"ok", "unsaved", "died", "untouched"}
           /\ c # "untouched" => disk' = entries /\ \A k \in Keys : OnFile(k)' = entries[k]
           /\ c \in {"ok", "unsaved"} => Opened'
           /\ c = "died" => ~Opened'
           /\ c = "untouched" => UNCHANGED <<disk, open>>
  <1>1. c \in {"ok", "unsaved", "died", "untouched"}
    BY CommitConstants DEF RenameIsSafe
  <1>2. entries # None
    BY NoneIsNoContent
  <1>3. CASE c \in {"ok", "unsaved"}
    BY <1>2, <1>3 DEF CommitVault, Mirrored, Opened, OnFile
  <1>4. CASE c = "died"
    BY <1>2, <1>4 DEF CommitVault, Mirrored, Opened, OnFile
  <1>5. CASE c = "untouched"
    BY <1>5 DEF CommitVault, Mirrored, Opened
  <1> QED BY <1>1, <1>3, <1>4, <1>5

(***************************************************************************)
(* What is on file is an entry or none; of an open vault it is the vault's *)
(* entry.                                                                  *)
(***************************************************************************)
LEMMA FileType ==
    ASSUME Held, NEW k \in Keys
    PROVE  /\ OnFile(k) \in Option(VaultEntries)
           /\ Mirrored /\ Opened => VaultEntry(k) = OnFile(k) /\ open \in Entries
           /\ Mirrored => (Owned(k) <=> Opened /\ OnFile(k) # None)
  BY DEF Held, Filed, Kept, Entries, OnFile, Opened, Mirrored, VaultEntry, Owned, Option

(***************************************************************************)
(* A daemon that starts has no values, and the definitions of the          *)
(* configuration (register_definitions).                                   *)
(***************************************************************************)
LEMMA ColdStarts ==
    ASSUME NEW k \in Keys
    PROVE  Starts(Cold(registry)[k], k)
  BY DEF Cold, EmptySlot, Starts

(***************************************************************************)
(* The same slot has the same entry.                                       *)
(***************************************************************************)
LEMMA Reflexive ==
    ASSUME NEW s
    PROVE  SameEntry(s, s)
  BY DEF SameEntry

(***************************************************************************)
(* A key whose slot, file entry and histories are left alone.              *)
(***************************************************************************)
LEMMA Undisturbed ==
    ASSUME NEW k \in Keys, slots'[k] = slots[k], SameFile(k), SameTale(k),
           holder'[k] \in {holder[k], None}
    PROVE  Happens(k)
  BY Reflexive DEF Happens, Stays, SameTale

(***************************************************************************)
(* A refusal.                                                              *)
(***************************************************************************)
LEMMA RefusedMeans ==
    ASSUME Held, Mirrored, Remember, NEW op, NEW p, NEW k0, NEW out, NEW k \in Keys,
           Refuse(op, p, k0, out),
           \/ op \notin {"set", "del", "claim", "unclaim", "owner_clear"}
           \/ out \notin {"Ok", "IoError", "NoReply"}
           \/ op = "unclaim" /\ out = "IoError",
           out # "NoReply"
    PROVE  Sound(k)
  <1>1. reply'.op = op /\ reply'.key = k0 /\ reply'.out = out /\ ~reply'.fetched
    BY DEF Refuse, Answer, Silence
  <1>2. Mirrored' /\ slots'[k] = slots[k] /\ SameFile(k)
    BY DEF Refuse, files, Mirrored, SameFile, OnFile, Opened
  <1>3. CASE op = "unclaim" /\ out = "IoError"
    BY <1>1, <1>2, <1>3, TaleOfUnclaim, TaleElsewhere, Undisturbed DEF Sound
  <1>4. CASE ~(op = "unclaim" /\ out = "IoError")
    BY <1>1, <1>2, <1>4, TaleElsewhere, Undisturbed DEF Sound
  <1> QED BY <1>3, <1>4

(***************************************************************************)
(* A key the request is not about, if the process survives it.             *)
(***************************************************************************)
LEMMA OthersStay ==
    ASSUME Remember, NEW k0 \in Keys, NEW k \in Keys, k # k0, reply'.key = k0,
           reply'.out # "NoReply", slots'[k] = slots[k], SameFile(k)
    PROVE  Happens(k)
  BY TaleElsewhere, Undisturbed

(***************************************************************************)
(* What is known of a key the request is not about, if the process does    *)
(* not survive it: only what the vault holds.                              *)
(***************************************************************************)
LEMMA OthersEnd ==
    ASSUME Remember, NEW k \in Keys, reply'.out = "NoReply", reply'.key # k \/ ~reply'.fetched,
           \/ reply'.key # k
           \/ reply'.op \notin {"set", "del", "claim", "unclaim", "owner_clear"},
           slots' = Cold(registry), ~Opened', OnFile(k)' \in {OnFile(k), None}
    PROVE  Happens(k)
  <1>1. Starts(slots'[k], k)
    BY ColdStarts
  <1>2. OnDisk(k) <=> OnFile(k)' # None
    BY DEF OnDisk, OnFile
  <1>3. CASE OnDisk(k)
    BY <1>1, <1>2, <1>3, TaleElsewhere DEF Happens, Ends
  <1>4. CASE ~OnDisk(k)
    BY <1>1, <1>2, <1>4, TaleLost DEF Happens, Ends
  <1> QED BY <1>3, <1>4

(***************************************************************************)
(* A request that writes the entry of one key to the vault file.           *)
(***************************************************************************)
LEMMA OneEntryCommitted ==
    ASSUME RenameIsSafe, Held, Mirrored, Remember, Opened, NEW k0 \in Keys,
           NEW e \in Option(VaultEntries), NEW c \in Commits,
           CommitVault([open EXCEPT ![k0] = e], c),
           NEW s, StoreAfter(c, [slots EXCEPT ![k0] = s]),
           reply'.key = k0, reply'.out = OutOf(c), ~reply'.fetched
    PROVE  /\ Mirrored' /\ c \in {"ok", "unsaved", "died", "untouched"}
           /\ \A k \in Keys : k # k0 => Happens(k)
           /\ c # "untouched" => OnFile(k0)' = e
           /\ c \in {"ok", "unsaved"} => Opened'
           /\ c = "untouched" => SameFile(k0)
           /\ c # "died" => slots'[k0] = s /\ reply'.out # "NoReply"
           /\ c = "died" => /\ Starts(slots'[k0], k0) /\ ~Opened' /\ reply'.out = "NoReply"
                            /\ OnDisk(k0) <=> e # None
  <1> DEFINE entries == [open EXCEPT ![k0] = e]
  <1>1. entries \in Entries /\ open = disk /\ open # None
    BY FileType DEF Entries, Mirrored, Opened
  <1>2. \A k \in Keys : entries[k] = IF k = k0 THEN e ELSE OnFile(k)
    BY <1>1, FileType DEF Entries, OnFile
  <1>3. CommitVault(entries, c)
    OBVIOUS
  <1> HIDE DEF entries
  <1>4. /\ Mirrored' /\ c \in {"ok", "unsaved", "died", "untouched"}
        /\ c # "untouched" => disk' = entries /\ \A k \in Keys : OnFile(k)' = entries[k]
        /\ c \in {"ok", "unsaved"} => Opened'
        /\ c = "died" => ~Opened'
        /\ c = "untouched" => UNCHANGED <<disk, open>>
    BY <1>1, <1>3, CommitEnds
  <1>5. slots \in [Keys -> Slots]
    BY DEF Held, Stored
  <1>6. c # "died" => reply'.out # "NoReply" /\ slots'[k0] = s
                      /\ \A k \in Keys : k # k0 => slots'[k] = slots[k]
    BY <1>4, <1>5 DEF StoreAfter, OutOf
  <1>7. c = "died" => reply'.out = "NoReply" /\ slots' = Cold(registry)
    BY DEF StoreAfter, OutOf
  <1>8. c = "untouched" => SameFile(k0) /\ \A k \in Keys : SameFile(k)
    BY <1>4 DEF SameFile, OnFile, Opened
  <1>9. ASSUME NEW k \in Keys, k # k0 PROVE Happens(k)
    <2>1. CASE c = "died"
      BY <1>2, <1>4, <1>7, <1>9, <2>1, OthersEnd
    <2>2. CASE c # "died"
      <3>1. SameFile(k)
        BY <1>2, <1>4, <1>8, <1>9, <2>2 DEF SameFile
      <3> QED BY <1>6, <1>9, <2>2, <3>1, OthersStay
    <2> QED BY <2>1, <2>2
  <1>10. c = "died" => Starts(slots'[k0], k0) /\ (OnDisk(k0) <=> e # None)
    BY <1>1, <1>2, <1>4, <1>7, ColdStarts, NoneIsNoContent DEF OnDisk
  <1> QED BY <1>2, <1>4, <1>6, <1>7, <1>8, <1>9, <1>10

(***************************************************************************)
(* The slot a set leaves (handle_set): a new version, no claim.            *)
(***************************************************************************)
LEMMA SetLeaves ==
    ASSUME NEW s \in Slots, NEW v \in Values, NEW ttl \in Ttl,
           NEW guard \in Option(Guards), NEW owner \in Option(Principals), now \in Time
    PROVE  LET n == SlotAfterSet(s, v, ttl, guard, owner)
           IN  /\ n.entry # None /\ n.entry.value = v /\ n.entry.ttl = ttl
               /\ n.guard = guard /\ n.owner = IF owner = None THEN s.owner ELSE owner
               /\ n.version = s.version + 1 /\ n.claim = None
               /\ n.owner \in Option(Principals)
  <1> DEFINE w == Set(s, Static, v, ttl, now)
             t == IF guard = None THEN ClearGuard(w) ELSE SetGuard(w, guard)
             u == ClearRefreshClaim(BumpVersion(t))
             n == SlotAfterSet(s, v, ttl, guard, owner)
  <1>1. w \in Slots /\ w.entry # None /\ w.entry.value = v /\ w.entry.ttl = ttl
        /\ w.version = s.version /\ w.owner = s.owner
    <2>1. NewEntry(Static, v, ttl, now) \in CacheEntries /\ w \in Slots
      BY NewEntryType, InstallType
    <2>2. /\ w.entry = NewEntry(Static, v, ttl, now)
          /\ w.version = s.version /\ w.owner = s.owner
      BY DEF Set, Slots
    <2> QED BY <2>1, <2>2, NoneIsNoEntry DEF NewEntry
  <1> HIDE DEF w
  <1>2. /\ t \in Slots /\ t.entry = w.entry /\ t.guard = guard
        /\ t.version = s.version /\ t.owner = s.owner
    BY <1>1 DEF ClearGuard, SetGuard, Slots, Option
  <1> HIDE DEF t
  <1>3. /\ u \in Slots /\ u.entry = w.entry /\ u.guard = guard
        /\ u.version = s.version + 1 /\ u.owner = s.owner /\ u.claim = None
    <2>1. /\ BumpVersion(t) \in Slots /\ BumpVersion(t).entry = w.entry
          /\ BumpVersion(t).guard = guard /\ BumpVersion(t).version = s.version + 1
          /\ BumpVersion(t).owner = s.owner
      BY <1>2 DEF BumpVersion, Slots
    <2> QED BY <2>1 DEF ClearRefreshClaim, Slots, Option
  <1> HIDE DEF u
  <1>4. n = IF owner = None THEN u ELSE SetOwner(u, owner)
    BY DEF SlotAfterSet, u, t, w
  <1>5. /\ n.entry = u.entry /\ n.guard = u.guard /\ n.version = u.version /\ n.claim = u.claim
        /\ n.owner = IF owner = None THEN s.owner ELSE owner
    BY <1>3, <1>4 DEF SetOwner, Slots
  <1>6. s.owner \in Option(Principals)
    BY DEF Slots
  <1> QED BY <1>1, <1>3, <1>5, <1>6

(***************************************************************************)
(* kv.set (handle_set, write_through_to_vault).                            *)
(***************************************************************************)
LEMMA SetMeans ==
    ASSUME RenameIsSafe, Held, Mirrored, Remember, NEW p, NEW k0 \in Keys, NEW v \in Values,
           NEW ttl \in Ttl, NEW flag \in PersistFlags, NEW expected,
           NEW token \in Option(Tokens), NEW owner \in Option(Principals), NEW c \in Commits,
           KvSet(p, k0, v, ttl, flag, expected, token, owner, c), NEW k \in Keys
    PROVE  Sound(k)
  <1> DEFINE persist == flag \/ k0 \in PersistedKeys
             refusal == SetRefusal(p, k0, ttl, persist, expected, token)
             s == SlotAfterSet(slots[k0], v, ttl, Audience[v], owner)
             r == WriteThrough(VaultEntry(k0), s, token)
             ack(out) == [Answer("set", p, k0, out) EXCEPT !.wrote = v, !.owner = s.owner,
                             !.version = s.version, !.token = token]
  <1>1. slots \in [Keys -> Slots] /\ now \in Time /\ Audience[v] \in Option(Guards)
    BY ValueConstants DEF Held, Stored
  <1>2. /\ s.entry # None /\ s.entry.value = v /\ s.entry.ttl = ttl
        /\ s.guard = Audience[v] /\ s.version = slots[k0].version + 1 /\ s.claim = None
        /\ s.owner \in Option(Principals)
    BY <1>1, SetLeaves
  <1>3. persist \in BOOLEAN /\ flag \in BOOLEAN /\ v # None
    BY KeyConstants, NoneIsNoValue
  <1>4. /\ refusal \in {"Ok", "AuthFailed", "BadRequest", "VaultClosed", "CasMismatch",
                        "ClaimRefused"}
        /\ (refusal = "Ok" /\ persist => Opened /\ ttl.hard = None)
        /\ refusal = "Ok" => ClaimAllows(slots[k0], token, now)
    BY DEF SetRefusal, Opened
  <1>5. /\ r.out # "Ok" => ~ClaimAllows(VaultEntry(k0), token, now)
        /\ r.out = "Ok" => r.entry = [value |-> v, guard |-> s.guard, owner |-> s.owner,
                              version |-> CurrentVersion(VaultEntry(k0)) + 1, claim |-> None]
    BY <1>2 DEF WriteThrough, Upsert, WriteEntry, Outcome
  <1>6. \/ refusal # "Ok" /\ Refuse("set", p, k0, refusal)
        \/ /\ refusal = "Ok" /\ (persist => r.out # "Ok")
           /\ slots' = [slots EXCEPT ![k0] = s]
           /\ reply' = ack(IF persist THEN "IoError" ELSE "Ok")
           /\ UNCHANGED <<files, now, faults>>
        \/ /\ refusal = "Ok" /\ persist /\ r.out = "Ok" /\ c # "unsaved"
           /\ CommitVault([open EXCEPT ![k0] = r.entry], c)
           /\ StoreAfter(c, [slots EXCEPT ![k0] = s])
           /\ reply' = ack(OutOf(c))
           /\ UNCHANGED <<registry, now>>
    BY DEF KvSet
  <1> HIDE DEF refusal, s, r
  <1>7. ASSUME NEW out, reply' = ack(out)
        PROVE  /\ reply'.op = "set" /\ reply'.key = k0 /\ reply'.out = out /\ ~reply'.fetched
               /\ reply'.wrote = v /\ reply'.version = s.version /\ reply'.owner = s.owner
    BY <1>7 DEF Answer, Silence
  <1> HIDE DEF ack
  <1>8. CASE refusal # "Ok" /\ Refuse("set", p, k0, refusal)
    BY <1>4, <1>8, RefusedMeans
  <1>9. CASE /\ refusal = "Ok" /\ (persist => r.out # "Ok")
             /\ slots' = [slots EXCEPT ![k0] = s]
             /\ reply' = ack(IF persist THEN "IoError" ELSE "Ok")
             /\ UNCHANGED <<files, now, faults>>
    <2>1. Mirrored' /\ SameFile(k) /\ SameFile(k0)
      BY <1>9 DEF files, Mirrored, SameFile, OnFile, Opened
    <2>2. /\ reply'.op = "set" /\ reply'.key = k0 /\ ~reply'.fetched
          /\ reply'.out = (IF persist THEN "IoError" ELSE "Ok")
          /\ reply'.wrote = v /\ reply'.version = s.version /\ reply'.owner = s.owner
      BY <1>7, <1>9
    <2>3. CASE k # k0
      BY <1>1, <1>9, <2>1, <2>2, <2>3, OthersStay DEF Sound
    <2>4. CASE k = k0
      <3>1. slots'[k0] = s
        BY <1>1, <1>9
      <3>2. /\ holder'[k0] = None /\ owned'[k0] = s.owner
            /\ IF ~persist THEN last'[k0] = {v} /\ top'[k0] = s.version
               ELSE last'[k0] = last[k0] \cup {v} /\ top'[k0] = top[k0]
        BY <1>3, <2>2, TaleOfSet
      <3>3. Sets(k0, v, persist)
        BY <1>2, <1>3, <1>4, <1>9, <3>1, <3>2 DEF Sets, MayPersist
      <3>4. persist => ClaimAllows(slots[k0], token, now)
                       /\ ~ClaimAllows(OnFile(k0), token, now)
        BY <1>4, <1>5, <1>9, FileType
      <3>5. SetsInMemory(k0)
        BY <1>3, <2>1, <3>1, <3>2, <3>3, <3>4 DEF SetsInMemory
      <3> QED BY <2>1, <2>4, <3>5 DEF Sound, Happens
    <2> QED BY <2>3, <2>4
  <1>10. CASE /\ refusal = "Ok" /\ persist /\ r.out = "Ok" /\ c # "unsaved"
              /\ CommitVault([open EXCEPT ![k0] = r.entry], c)
              /\ StoreAfter(c, [slots EXCEPT ![k0] = s])
              /\ reply' = ack(OutOf(c))
              /\ UNCHANGED <<registry, now>>
    <2>1. /\ Opened /\ VaultEntry(k0) = OnFile(k0) /\ MayPersist(k0)
          /\ OnFile(k0) \in Option(VaultEntries)
      BY <1>3, <1>4, <1>10, FileType DEF MayPersist
    <2>2. /\ r.entry = WrittenEntry(k0, v, s.guard, s.owner)
          /\ r.entry \in VaultEntries
      <3>1. CurrentVersion(OnFile(k0)) \in Nat
        BY <2>1 DEF CurrentVersion, VaultEntries, Option
      <3> QED BY <1>1, <1>2, <1>5, <1>10, <2>1, <3>1 DEF WrittenEntry, VaultEntries, Option
    <2>3. r.entry # None
      BY <2>2, NoneIsNoEntry
    <2>4. /\ reply'.op = "set" /\ reply'.key = k0 /\ ~reply'.fetched /\ reply'.out = OutOf(c)
          /\ reply'.wrote = v /\ reply'.version = s.version /\ reply'.owner = s.owner
      BY <1>7, <1>10
    <2>5. /\ Mirrored' /\ c \in {"ok", "died", "untouched"}
          /\ k # k0 => Happens(k)
          /\ c # "untouched" => OnFile(k0)' = r.entry
          /\ c = "ok" => Opened'
          /\ c = "untouched" => SameFile(k0)
          /\ c # "died" => slots'[k0] = s
          /\ c = "died" => Starts(slots'[k0], k0) /\ ~Opened' /\ OnDisk(k0)
      BY <1>10, <2>1, <2>2, <2>3, <2>4, OneEntryCommitted DEF Option
    <2>6. /\ reply'.out \in {"Ok", "IoError", "NoReply"} /\ (reply'.out = "NoReply" <=> c = "died")
          /\ reply'.out = "Ok" <=> c = "ok"
      BY <2>4, <2>5 DEF OutOf
    <2>7. /\ holder'[k0] = None /\ owned'[k0] = s.owner
          /\ IF c = "ok" THEN last'[k0] = {v} /\ top'[k0] = s.version
             ELSE last'[k0] = last[k0] \cup {v} /\ top'[k0] = top[k0]
      BY <2>4, <2>5, <2>6, TaleOfSet
    <2>8. c # "died" => Sets(k0, v, TRUE)
      BY <1>2, <1>3, <1>4, <1>10, <2>1, <2>5, <2>7 DEF Sets
    <2>9. CASE c = "ok"
      BY <2>2, <2>5, <2>7, <2>8, <2>1, <2>9 DEF SetsThrough, Happens, Sound
    <2>10. CASE c = "untouched"
      <3>1. SetsInMemory(k0)
        BY <2>5, <2>7, <2>8, <2>10 DEF SetsInMemory
      <3> QED BY <2>5, <3>1 DEF Happens, Sound
    <2>11. CASE c = "died"
      <3>1. Ends(k0)
        BY <1>1, <1>2, <2>1, <2>2, <2>5, <2>7, <2>11 DEF Ends
      <3> QED BY <2>5, <3>1 DEF Happens, Sound
    <2> QED BY <2>5, <2>9, <2>10, <2>11
  <1> QED BY <1>6, <1>8, <1>9, <1>10

(***************************************************************************)
(* A slot in which only clocks, pins and failures moved.                   *)
(***************************************************************************)
Alike(s, n) ==
    /\ SameEntry(s, n) /\ n.version = s.version /\ n.guard = s.guard /\ n.claim = s.claim
    /\ n.owner = s.owner /\ n.def = s.def

(***************************************************************************)
(* One such change after another.                                          *)
(***************************************************************************)
LEMMA AlikeTrans ==
    ASSUME NEW s, NEW m, NEW n, Alike(s, m), Alike(m, n)
    PROVE  Alike(s, n) /\ Alike(s, s) /\ (Lasting(s) => Lasting(n))
  BY DEF Alike, SameEntry, Lasting

(***************************************************************************)
(* The operations of entry.rs, on the value and its lifetime.              *)
(***************************************************************************)
LEMMA EntryOpsSame ==
    ASSUME NEW e \in CacheEntries, NEW t \in Time, NEW d \in Time
    PROVE  \A f \in {Evaluate(e, t), ExtendEntry(e, t), PinUntil(e, d, t), UnpinEntry(e)} :
              /\ f \in CacheEntries /\ f.ttl = e.ttl /\ f.value \in {e.value, None}
              /\ (e.value # None /\ e.ttl.hard = None) => f.value = e.value
  <1>1. State(e, t) = "HardExpired" => e.value = None \/ e.ttl.hard # None
    BY DEF State, Dead, HardElapsed
  <1>2. /\ Zeroize(e).ttl = e.ttl /\ Zeroize(e).value = None
        /\ [e EXCEPT !.extended_at = t].ttl = e.ttl /\ [e EXCEPT !.extended_at = t].value = e.value
        /\ [e EXCEPT !.pin = d].ttl = e.ttl /\ [e EXCEPT !.pin = d].value = e.value
        /\ UnpinEntry(e).ttl = e.ttl /\ UnpinEntry(e).value = e.value
    BY DEF Zeroize, UnpinEntry, CacheEntries
  <1>3. /\ Evaluate(e, t) \in CacheEntries /\ ExtendEntry(e, t) \in CacheEntries
        /\ PinUntil(e, d, t) \in CacheEntries /\ UnpinEntry(e) \in CacheEntries
    BY EntryOpsType
  <1>4. Evaluate(e, t).ttl = e.ttl /\ Evaluate(e, t).value \in {e.value, None}
        /\ ((e.value # None /\ e.ttl.hard = None) => Evaluate(e, t).value = e.value)
    BY <1>1, <1>2 DEF Evaluate
  <1>5. ExtendEntry(e, t).ttl = e.ttl /\ ExtendEntry(e, t).value \in {e.value, None}
        /\ ((e.value # None /\ e.ttl.hard = None) => ExtendEntry(e, t).value = e.value)
    BY <1>1, <1>2 DEF ExtendEntry
  <1>6. PinUntil(e, d, t).ttl = e.ttl /\ PinUntil(e, d, t).value \in {e.value, None}
        /\ ((e.value # None /\ e.ttl.hard = None) => PinUntil(e, d, t).value = e.value)
    BY <1>1, <1>2 DEF PinUntil
  <1> QED BY <1>2, <1>3, <1>4, <1>5, <1>6

(***************************************************************************)
(* Reading a state, a failed run, an extension, a pin and its end (store.rs*)
(* evaluate, regenerate, extend_authenticated, pin_authenticated, unpin).  *)
(***************************************************************************)
LEMMA SlotOpsAlike ==
    ASSUME NEW s \in Slots, NEW t \in Time, NEW t1 \in Time, NEW d \in Time, NEW auth \in BOOLEAN
    PROVE  /\ Alike(s, Evaluated(s, t)) /\ Alike(s, RunFailed(s, t)) /\ Alike(s, Unpin(s))
           /\ Alike(s, ExtendAuthenticated(s, auth, t, t1).slot)
           /\ Alike(s, PinAuthenticated(s, d, auth, t, t1).slot)
           /\ ExtendAuthenticated(s, auth, t, t1).out # "NoReply"
           /\ PinAuthenticated(s, d, auth, t, t1).out # "NoReply"
  <1>1. Alike(s, s)
    BY DEF Alike, SameEntry
  <1>2. ASSUME NEW e \in CacheEntries, s.entry # None, e.ttl = s.entry.ttl,
               e.value \in {s.entry.value, None},
               (s.entry.value # None /\ s.entry.ttl.hard = None) => e.value = s.entry.value
        PROVE  Alike(s, [s EXCEPT !.entry = e])
    <2>1. e # None
      BY NoneIsNoEntry
    <2> QED BY <1>2, <2>1 DEF Alike, SameEntry, Lasting, Slots
  <1>3. s.entry # None => s.entry \in CacheEntries
    BY DEF Slots, Option
  <1>4. ASSUME NEW u \in Time PROVE Alike(s, Evaluated(s, u))
    BY <1>1, <1>2, <1>3, EntryOpsSame DEF Evaluated
  <1>5. Alike(s, Unpin(s))
    BY <1>1, <1>2, <1>3, EntryOpsSame DEF Unpin
  <1>6. Alike(s, RunFailed(s, t))
    BY <1>1 DEF RunFailed, Alike, SameEntry, Lasting, Slots
  <1>7. ASSUME NEW u \in Time PROVE Alike(s, Extend(s, u).slot) /\ Extend(s, u).out # "NoReply"
    <2>1. s.entry # None => Alike(s, [s EXCEPT !.entry = ExtendEntry(@, u)])
      BY <1>2, <1>3, EntryOpsSame
    <2> QED BY <1>1, <1>4, <2>1 DEF Extend, Result
  <1>8. /\ Alike(s, ExtendAuthenticated(s, auth, t, t1).slot)
        /\ ExtendAuthenticated(s, auth, t, t1).out # "NoReply"
    BY <1>1, <1>4, <1>7 DEF ExtendAuthenticated, Result
  <1>9. /\ Alike(s, PinAuthenticated(s, d, auth, t, t1).slot)
        /\ PinAuthenticated(s, d, auth, t, t1).out # "NoReply"
    <2>1. s.entry # None => Alike(s, [s EXCEPT !.entry = PinUntil(@, d, t1)])
      BY <1>2, <1>3, EntryOpsSame
    <2> QED BY <1>1, <2>1 DEF PinAuthenticated, Result
  <1> QED BY <1>4, <1>5, <1>6, <1>8, <1>9

(***************************************************************************)
(* Slot n has a value that was just fetched for s.                         *)
(***************************************************************************)
Renewed(s, n) == n.entry # None /\ n.version = s.version /\ n.owner = s.owner /\ n \in Slots

(***************************************************************************)
(* A fetch installs a value or changes nothing that counts (store.rs       *)
(* get_or_regenerate, regenerate).                                         *)
(***************************************************************************)
LEMMA FetchMeans ==
    ASSUME NEW s \in Slots, NEW run \in Option(Fetched), NEW auth \in BOOLEAN,
           NEW t1 \in Time, now \in Time
    PROVE  LET r == Fetch(s, run, auth, t1)
           IN  /\ r.out # "NoReply" /\ r.slot \in Slots
               /\ IF r.out = "Ok" THEN Renewed(s, r.slot) ELSE Alike(s, r.slot)
  <1> DEFINE Fine(f) == /\ f.out # "NoReply" /\ f.slot \in Slots
                        /\ IF f.out = "Ok" THEN Renewed(s, f.slot) ELSE Alike(s, f.slot)
             e == Evaluated(s, now)
             r == Fetch(s, run, auth, t1)
  <1>1. e \in Slots /\ Alike(s, e) /\ Alike(s, s)
    BY SlotOpsType, SlotOpsAlike DEF Alike, SameEntry
  <1> HIDE DEF e
  <1>2. ASSUME NEW src \in Sources \cup {Static}, NEW ttl \in Ttl
        PROVE  Fine(FetchAndInstall(e, src, ttl, run, auth, t1))
    <2>1. CASE run = None \/ ~auth
      <3>1. Alike(s, RunFailed(e, t1)) /\ RunFailed(e, t1) \in Slots
        BY <1>1, SlotOpsType, SlotOpsAlike, AlikeTrans
      <3> QED BY <1>1, <2>1, <3>1 DEF FetchAndInstall, Result
    <2>2. CASE run # None /\ auth
      <3>1. run \in Values
        BY <2>2, ValueConstants DEF Option
      <3> DEFINE n == Install(e, src, ttl, run, t1)
      <3>2. FetchAndInstall(e, src, ttl, run, auth, t1) = Result(n, "Ok")
        BY <2>2 DEF FetchAndInstall
      <3>3. n \in Slots /\ NewEntry(src, run, ttl, t1) \in CacheEntries
        BY <1>1, <3>1, InstallType, NewEntryType
      <3>4. n.entry = NewEntry(src, run, ttl, t1) /\ n.version = e.version /\ n.owner = e.owner
        BY <1>1 DEF Install, Slots
      <3>5. Renewed(s, n)
        BY <1>1, <3>3, <3>4, NoneIsNoEntry DEF Renewed, Alike
      <3> QED BY <3>2, <3>3, <3>5 DEF Result
    <2> QED BY <2>1, <2>2
  <1>3. ASSUME NEW out PROVE out \notin {"Ok", "NoReply"} =>
                                Fine(Result(s, out)) /\ Fine(Result(e, out))
    BY <1>1 DEF Result
  <1> HIDE DEF Fine, r
  <1>4. ASSUME s.def # None, r = GetOrRegenerate(s, run, auth, now, t1) PROVE Fine(r)
    <2>1. s.def.source \in Sources \cup {Static} /\ s.def.ttl \in Ttl
      BY <1>4 DEF Slots, Option, Definitions
    <2>2. \/ \E out : out \notin {"Ok", "NoReply"} /\ r \in {Result(s, out), Result(e, out)}
          \/ r = FetchAndInstall(e, s.def.source, s.def.ttl, run, auth, t1)
      BY <1>4 DEF GetOrRegenerate, e
    <2> QED BY <1>2, <1>3, <2>1, <2>2
  <1>5. ASSUME r = Regenerate(s, run, auth, now, t1) PROVE Fine(r)
    <2>1. s.entry # None => s.entry.source \in Sources \cup {Static} /\ s.entry.ttl \in Ttl
      BY DEF Slots, Option, CacheEntries
    <2>2. \/ \E out : out \notin {"Ok", "NoReply"} /\ r = Result(s, out)
          \/ s.entry # None /\ r = FetchAndInstall(e, s.entry.source, s.entry.ttl, run, auth, t1)
      BY <1>5 DEF Regenerate, e
    <2> QED BY <1>2, <1>3, <2>1, <2>2
  <1>6. Fine(r)
    BY <1>4, <1>5 DEF Fetch, r
  <1> QED BY <1>6 DEF Fine, r

(***************************************************************************)
(* The retrieval chain of handle_get: a value is fetched only for a key    *)
(* that has none, in memory or behind a closed vault, or whose value has   *)
(* reached its hard limit.                                                 *)
(***************************************************************************)
LEMMA ChainMeans ==
    ASSUME Held, NEW k \in Keys, NEW run \in Option(Fetched), NEW auth \in BOOLEAN, NEW t1 \in Time
    PROVE  LET r == Chain(k, run, auth, t1)
           IN  /\ r.out # "NoReply" /\ r.fetched \in BOOLEAN /\ (r.fetched => r.out = "Ok")
               /\ IF r.fetched
                  THEN /\ Renewed(slots[k], r.slot) /\ ~Lasting(slots[k])
                       /\ slots[k].entry = None => ~Unavailable(k)
                  ELSE Alike(slots[k], r.slot)
  <1> DEFINE s == Evaluated(slots[k], now)
             Done(x, waited, fetched) ==
                 [slot |-> Evaluated(x.slot, IF waited THEN t1 ELSE now), out |-> x.out,
                  waited |-> waited, fetched |-> fetched]
             f == Fetch(s, run, auth, t1)
             ran == f.out \in {"Ok", "RunFailed", "AuthFailed"}
             extended == ExtendAuthenticated(s, auth, now, t1)
             r == Chain(k, run, auth, t1)
             Old(x) == x \in Slots /\ Alike(slots[k], x)
  <1>1. now \in Time /\ slots[k] \in Slots
    BY DEF Held, Stored
  <1>2. s \in Slots /\ Old(s)
    BY <1>1, SlotOpsType, SlotOpsAlike
  <1>3. /\ StateOf(s, now) = "HardExpired" => ~Lasting(slots[k]) /\ slots[k].entry # None
        /\ StateOf(s, now) = "Absent" => slots[k].entry = None
        /\ StateOf(s, now) \in {"Active", "SoftExpired", "HardExpired", "Absent"}
    <2>1. StateOf(s, now) = "HardExpired" => ~Lasting(s) /\ s.entry # None
      BY DEF StateOf, State, Dead, HardElapsed, Lasting
    <2>2. StateOf(s, now) = "Absent" => s.entry = None
      BY DEF StateOf, State
    <2>3. StateOf(s, now) \in {"Active", "SoftExpired", "HardExpired", "Absent"}
      BY DEF StateOf, State
    <2> QED BY <1>2, <2>1, <2>2, <2>3, AlikeTrans DEF Alike, SameEntry
  <1> HIDE DEF s
  <1>4. ASSUME NEW x \in Slots, NEW t \in Time
        PROVE  /\ Old(x) => Old(Evaluated(x, t))
               /\ Renewed(slots[k], x) => Renewed(slots[k], Evaluated(x, t))
    <2>1. Alike(x, Evaluated(x, t)) /\ Evaluated(x, t) \in Slots
      BY SlotOpsType, SlotOpsAlike
    <2>2. Old(x) => Old(Evaluated(x, t))
      BY <2>1, AlikeTrans
    <2>3. Renewed(slots[k], x) => Renewed(slots[k], Evaluated(x, t))
      BY <2>1 DEF Renewed, Alike, SameEntry
    <2> QED BY <2>2, <2>3
  <1>5. /\ f.out # "NoReply" /\ f.slot \in Slots
        /\ IF f.out = "Ok" THEN Renewed(slots[k], f.slot) ELSE Old(f.slot)
    <2>1. /\ f.out # "NoReply" /\ f.slot \in Slots
          /\ IF f.out = "Ok" THEN Renewed(s, f.slot) ELSE Alike(s, f.slot)
      BY <1>1, <1>2, FetchMeans
    <2> QED BY <1>2, <2>1, AlikeTrans DEF Renewed, Alike
  <1>6. Old(extended.slot) /\ extended.out # "NoReply"
    <2>1. extended.slot \in Slots
      BY <1>1, <1>2, SlotOpsKeep DEF Keeps
    <2> QED BY <1>1, <1>2, <2>1, SlotOpsAlike, AlikeTrans
  <1>7. \/ /\ r = Done(f, ran, ran /\ f.out = "Ok")
           /\ \/ StateOf(s, now) = "HardExpired"
              \/ StateOf(s, now) = "Absent" /\ ~Unavailable(k)
        \/ r = Done(extended, TRUE, FALSE)
        \/ \E out : out # "NoReply" /\ r = Done(Result(s, out), FALSE, FALSE)
    <2>1. CASE StateOf(s, now) = "Active"
      <3>1. r = Done(Result(s, "Ok"), FALSE, FALSE)
        BY <2>1 DEF Chain, s
      <3> QED BY <3>1
    <2>2. CASE StateOf(s, now) = "SoftExpired"
      BY <2>2 DEF Chain, s
    <2>3. CASE StateOf(s, now) = "HardExpired"
      BY <2>3 DEF Chain, s
    <2>4. CASE StateOf(s, now) = "Absent"
      <3>1. CASE ~Unavailable(k) /\ s.def # None
        BY <2>4, <3>1 DEF Chain, s
      <3>2. CASE Unavailable(k)
        <4>1. r = Done(Result(s, "VaultClosed"), FALSE, FALSE)
          BY <2>4, <3>2 DEF Chain, s
        <4> QED BY <4>1
      <3>3. CASE ~Unavailable(k) /\ s.def = None
        <4>1. r = Done(Result(s, IF k \in PersistedKeys THEN "NotRegenerable"
                                 ELSE "NotFound"), FALSE, FALSE)
          BY <2>4, <3>3 DEF Chain, s
        <4> QED BY <4>1
      <3> QED BY <3>1, <3>2, <3>3
    <2> QED BY <1>3, <2>1, <2>2, <2>3, <2>4
  <1> HIDE DEF f, ran, extended, r
  <1>8. CASE r = Done(extended, TRUE, FALSE)
    BY <1>4, <1>6, <1>8 DEF r
  <1>9. CASE \E out : out # "NoReply" /\ r = Done(Result(s, out), FALSE, FALSE)
    <2>1. r.slot = Evaluated(s, now) /\ ~r.fetched /\ r.out # "NoReply" /\ r.fetched \in BOOLEAN
      BY <1>9 DEF Result
    <2> QED BY <1>1, <1>2, <1>4, <2>1 DEF r
  <1>10. CASE /\ r = Done(f, ran, ran /\ f.out = "Ok")
              /\ \/ StateOf(s, now) = "HardExpired"
                 \/ StateOf(s, now) = "Absent" /\ ~Unavailable(k)
    <2>1. /\ r.slot = Evaluated(f.slot, IF ran THEN t1 ELSE now) /\ r.out = f.out
          /\ r.fetched = (ran /\ f.out = "Ok")
      BY <1>10
    <2>2. f.out = "Ok" => ran
      BY DEF ran
    <2>3. ~Lasting(slots[k]) /\ (slots[k].entry = None => ~Unavailable(k))
      BY <1>3, <1>10 DEF Lasting
    <2>4. (IF ran THEN t1 ELSE now) \in Time
      BY <1>1
    <2>5. ran \in BOOLEAN
      BY DEF ran
    <2>6. r.fetched \in BOOLEAN /\ (r.fetched <=> f.out = "Ok")
      BY <2>1, <2>2, <2>5
    <2>7. IF f.out = "Ok" THEN Renewed(slots[k], r.slot) ELSE Old(r.slot)
      BY <1>4, <1>5, <2>1, <2>4
    <2> QED BY <1>5, <2>1, <2>3, <2>6, <2>7 DEF r
  <1> QED BY <1>7, <1>8, <1>9, <1>10

(***************************************************************************)
(* A key of whose slot only clocks, pins and failures moved.               *)
(***************************************************************************)
LEMMA AlikeStays ==
    ASSUME NEW k \in Keys, Alike(slots[k], slots'[k]), SameFile(k), SameTale(k),
           holder'[k] \in {holder[k], None}
    PROVE  Happens(k)
  BY DEF Happens, Stays, SameTale, Alike

(***************************************************************************)
(* kv.get (handle_get).                                                    *)
(***************************************************************************)
LEMMA GetMeans ==
    ASSUME Held, Mirrored, Remember, NEW p, NEW k0 \in Keys, NEW run \in Option(Fetched),
           NEW auth \in BOOLEAN, NEW t1 \in Time, KvGet(p, k0, run, auth, t1), NEW k \in Keys
    PROVE  Sound(k)
  <1> DEFINE r == Chain(k0, run, auth, t1)
             t == IF r.waited THEN t1 ELSE now
             value == IF r.out = "Ok" /\ Readable(r.slot, t) THEN r.slot.entry.value ELSE None
  <1>1. CASE Refuse("get", p, k0, "AuthFailed")
    BY <1>1, RefusedMeans
  <1>2. CASE /\ now' = t /\ slots' = [slots EXCEPT ![k0] = r.slot]
             /\ reply' = [Answer("get", p, k0, r.out) EXCEPT
                              !.fetched = r.fetched, !.value = value]
             /\ UNCHANGED <<files, faults>>
    <2>1. /\ r.out # "NoReply" /\ r.fetched \in BOOLEAN /\ (r.fetched => r.out = "Ok")
          /\ IF r.fetched
             THEN /\ Renewed(slots[k0], r.slot) /\ ~Lasting(slots[k0])
                  /\ slots[k0].entry = None => ~Unavailable(k0)
             ELSE Alike(slots[k0], r.slot)
      BY ChainMeans
    <2>2. /\ reply'.op = "get" /\ reply'.key = k0 /\ reply'.fetched = r.fetched
          /\ reply'.out = r.out
      BY <1>2 DEF Answer, Silence
    <2>3. Mirrored' /\ SameFile(k) /\ SameFile(k0)
      BY <1>2 DEF files, Mirrored, SameFile, OnFile, Opened
    <2>4. /\ k0 # k => slots'[k] = slots[k]
          /\ slots'[k0] = r.slot
      BY <1>2 DEF Held, Stored
    <2> HIDE DEF r, t, value
    <2>5. CASE k # k0
      BY <2>1, <2>2, <2>3, <2>4, <2>5, OthersStay DEF Sound
    <2>6. CASE k = k0 /\ r.fetched
      <3>1. /\ last'[k0] = {slots'[k0].entry.value} \ {None} /\ top'[k0] = top[k0]
            /\ owned'[k0] = owned[k0] /\ holder'[k0] = None
        BY <2>1, <2>2, <2>6, TaleOfGet
      <3>2. Fetches(k0)
        BY <2>1, <2>3, <2>4, <2>6, <3>1 DEF Fetches, Renewed
      <3> QED BY <2>3, <2>6, <3>2 DEF Happens, Sound
    <2>7. CASE k = k0 /\ ~r.fetched
      <3>1. SameTale(k0) /\ holder'[k0] = holder[k0]
        BY <2>1, <2>2, <2>7, TaleElsewhere
      <3> QED BY <2>1, <2>3, <2>4, <2>7, <3>1, AlikeStays DEF Sound
    <2> QED BY <2>1, <2>5, <2>6, <2>7
  <1> QED BY <1>1, <1>2 DEF KvGet

(***************************************************************************)
(* kv.pin (handle_pin).                                                    *)
(***************************************************************************)
LEMMA PinMeans ==
    ASSUME Held, Mirrored, Remember, NEW p, NEW k0 \in Keys, NEW length \in Nat,
           NEW auth \in BOOLEAN, NEW t1 \in Time, KvPin(p, k0, length, auth, t1), NEW k \in Keys
    PROVE  Sound(k)
  <1> DEFINE r == PinAuthenticated(slots[k0], now + length, auth, now, t1)
  <1>1. CASE Refuse("pin", p, k0, "AuthFailed")
    BY <1>1, RefusedMeans
  <1>2. CASE /\ slots' = [slots EXCEPT ![k0] = r.slot]
             /\ reply' = Answer("pin", p, k0, r.out)
             /\ UNCHANGED <<files, faults>>
    <2>1. now \in Time /\ now + length \in Time /\ slots[k0] \in Slots
      BY DEF Held, Stored, Time
    <2>2. r.out # "NoReply" /\ Alike(slots[k0], r.slot)
      BY <2>1, SlotOpsAlike
    <2>3. reply'.op = "pin" /\ reply'.key = k0 /\ ~reply'.fetched /\ reply'.out = r.out
      BY <1>2 DEF Answer, Silence
    <2>4. Mirrored' /\ SameFile(k)
      BY <1>2 DEF files, Mirrored, SameFile, OnFile, Opened
    <2>5. (k0 # k => slots'[k] = slots[k]) /\ slots'[k0] = r.slot
      BY <1>2 DEF Held, Stored
    <2> HIDE DEF r
    <2>6. SameTale(k) /\ holder'[k] = holder[k]
      BY <2>2, <2>3, TaleElsewhere
    <2> QED BY <2>2, <2>4, <2>5, <2>6, AlikeStays, Undisturbed DEF Sound
  <1> QED BY <1>1, <1>2 DEF KvPin

(***************************************************************************)
(* kv.unpin, kv.owner_clear (handle_unpin, handle_owner_clear).            *)
(***************************************************************************)
LEMMA SmallRequestsMean ==
    ASSUME Held, Mirrored, Remember, NEW p, NEW k0 \in Keys,
           KvUnpin(p, k0) \/ KvOwnerClear(p, k0), NEW k \in Keys
    PROVE  Sound(k)
  <1>1. CASE \E op \in {"unpin", "owner_clear"}, out \in {"NotFound", "AuthFailed"} :
                Refuse(op, p, k0, out)
    BY <1>1, RefusedMeans
  <1>2. CASE /\ slots' = [slots EXCEPT ![k0] = Unpin(@)]
             /\ reply' = Answer("unpin", p, k0, "Ok")
             /\ UNCHANGED <<files, now, faults>>
    <2>1. Alike(slots[k0], Unpin(slots[k0]))
      BY SlotOpsAlike DEF Held, Stored
    <2>2. reply'.op = "unpin" /\ reply'.key = k0 /\ ~reply'.fetched /\ reply'.out = "Ok"
      BY <1>2 DEF Answer, Silence
    <2>3. Mirrored' /\ SameFile(k)
      BY <1>2 DEF files, Mirrored, SameFile, OnFile, Opened
    <2>4. (k0 # k => slots'[k] = slots[k]) /\ slots'[k0] = Unpin(slots[k0])
      BY <1>2 DEF Held, Stored
    <2>5. SameTale(k) /\ holder'[k] = holder[k]
      BY <2>2, TaleElsewhere
    <2> QED BY <2>1, <2>3, <2>4, <2>5, AlikeStays, Undisturbed DEF Sound
  <1>3. CASE /\ slots' = [slots EXCEPT ![k0] = ClearOwner(@)]
             /\ reply' = Answer("owner_clear", p, k0, "Ok")
             /\ UNCHANGED <<files, now, faults>>
    <2>1. reply'.op = "owner_clear" /\ reply'.key = k0 /\ ~reply'.fetched /\ reply'.out = "Ok"
      BY <1>3 DEF Answer, Silence
    <2>2. Mirrored' /\ SameFile(k)
      BY <1>3 DEF files, Mirrored, SameFile, OnFile, Opened
    <2>3. (k0 # k => slots'[k] = slots[k]) /\ slots'[k0] = ClearOwner(slots[k0])
      BY <1>3 DEF Held, Stored
    <2>4. CASE k # k0
      BY <2>1, <2>2, <2>3, <2>4, OthersStay DEF Sound
    <2>5. CASE k = k0
      <3>1. /\ last'[k0] = last[k0] /\ top'[k0] = top[k0] /\ holder'[k0] = holder[k0]
            /\ owned'[k0] = None
        BY <2>1, TaleOfOwnerClear
      <3>2. LET s == slots[k0]
                n == ClearOwner(s)
            IN  /\ SameEntry(s, n) /\ n.version = s.version /\ n.guard = s.guard
                /\ n.claim = s.claim /\ n.def = s.def
        BY DEF Held, Stored, Slots, ClearOwner, SameEntry, Lasting
      <3>3. Stays(k0)
        BY <2>2, <2>3, <2>5, <3>1, <3>2 DEF Stays
      <3> QED BY <2>2, <2>5, <3>3 DEF Happens, Sound
    <2> QED BY <2>4, <2>5
  <1> QED BY <1>1, <1>2, <1>3 DEF KvUnpin, KvOwnerClear

(***************************************************************************)
(* kv.define (handle_define).                                              *)
(***************************************************************************)
LEMMA DefineMeans ==
    ASSUME Held, Mirrored, Remember, NEW p, NEW k0 \in Keys, NEW def \in Definitions,
           NEW c \in Commits, KvDefine(p, k0, def, c), NEW k \in Keys
    PROVE  Sound(k)
  <1> DEFINE r == Define(slots[k0], def)
  <1>1. CASE \E out \in {"Conflict", "AuthFailed"} : Refuse("define", p, k0, out)
    BY <1>1, RefusedMeans
  <1>2. CASE /\ c \in {"ok", "unsaved"} /\ slots' = [slots EXCEPT ![k0] = r.slot]
             /\ reply' = Answer("define", p, k0, OutOf(c))
             /\ UNCHANGED <<disk, open, now>>
    <2>1. LET s == slots[k0]
              n == r.slot
          IN  /\ SameEntry(s, n) /\ n.version = s.version /\ n.guard = s.guard
              /\ n.claim = s.claim /\ n.owner = s.owner
              /\ s.def # None => n.def # None
      BY DEF Held, Stored, Slots, Define, Result, SameEntry, Lasting
    <2>2. reply'.op = "define" /\ reply'.key = k0 /\ ~reply'.fetched /\ reply'.out # "NoReply"
      BY <1>2 DEF Answer, Silence, OutOf
    <2>3. Mirrored' /\ SameFile(k)
      BY <1>2 DEF Mirrored, SameFile, OnFile, Opened
    <2>4. (k0 # k => slots'[k] = slots[k]) /\ slots'[k0] = r.slot
      BY <1>2 DEF Held, Stored
    <2> HIDE DEF r
    <2>5. SameTale(k) /\ holder'[k] = holder[k]
      BY <2>2, TaleElsewhere
    <2>6. CASE k = k0
      BY <2>1, <2>3, <2>4, <2>5, <2>6 DEF Sound, Happens, Stays, SameTale
    <2> QED BY <2>3, <2>4, <2>5, <2>6, Undisturbed DEF Sound
  <1> QED BY <1>1, <1>2 DEF KvDefine

(***************************************************************************)
(* kv.del (handle_del).                                                    *)
(***************************************************************************)
LEMMA DelMeans ==
    ASSUME RenameIsSafe, Held, Mirrored, Remember, NEW p, NEW k0 \in Keys,
           NEW with_define \in BOOLEAN, NEW c \in Commits, KvDel(p, k0, with_define, c),
           NEW k \in Keys
    PROVE  Sound(k)
  <1>1. slots \in [Keys -> Slots]
    BY DEF Held, Stored
  <1>2. CASE \E out \in {"VaultClosed", "AuthFailed"} : Refuse("del", p, k0, out)
    BY <1>2, RefusedMeans
  <1>3. CASE /\ ~Unavailable(k0) /\ ~Owned(k0)
             /\ slots' = [slots EXCEPT ![k0] = IF with_define THEN DeleteWithDefinition(@)
                                               ELSE Delete(@)]
             /\ IF with_define THEN c \in {"ok", "unsaved"} ELSE c = "ok"
             /\ reply' = Answer("del", p, k0, OutOf(c))
             /\ UNCHANGED <<disk, open, now>>
    <2>1. /\ reply'.op = "del" /\ reply'.key = k0 /\ ~reply'.fetched
          /\ reply'.out \in {"Ok", "IoError"} /\ (~with_define => reply'.out = "Ok")
      BY <1>3 DEF Answer, Silence, OutOf
    <2>2. Mirrored' /\ SameFile(k) /\ SameFile(k0)
      BY <1>3 DEF Mirrored, SameFile, OnFile, Opened
    <2>3. /\ k0 # k => slots'[k] = slots[k]
          /\ slots'[k0] = IF with_define THEN EmptySlot ELSE Delete(slots[k0])
      BY <1>1, <1>3 DEF DeleteWithDefinition
    <2>4. OnFile(k0) # None => ~Opened /\ k0 \notin PersistedKeys
      BY <1>3, FileType DEF Unavailable, Opened
    <2>5. CASE k # k0
      BY <2>1, <2>2, <2>3, <2>5, OthersStay DEF Sound
    <2>6. CASE k = k0 /\ slots'[k0] = EmptySlot
      <3>1. Forgets(k0)
        BY <2>1, <2>6, TaleOfDel
      <3>2. Erases(k0)
        BY <2>2, <2>4, <2>6, <3>1 DEF Erases, SameFile
      <3> QED BY <2>2, <2>6, <3>2 DEF Happens, Sound
    <2>7. CASE k = k0 /\ slots'[k0] # EmptySlot
      <3>1. last'[k0] = {} /\ top'[k0] = top[k0] /\ holder'[k0] = None /\ owned'[k0] = owned[k0]
        BY <2>1, <2>3, <2>7, TaleOfDel
      <3>2. Deletes(k0)
        BY <2>2, <2>3, <2>4, <2>7, <3>1 DEF Deletes
      <3> QED BY <2>2, <2>7, <3>2 DEF Happens, Sound
    <2> QED BY <2>5, <2>6, <2>7
  <1>4. CASE /\ Owned(k0)
             /\ CommitVault([open EXCEPT ![k0] = DeleteEntry(@).entry], c)
             /\ StoreAfter(c, IF c \in {"ok", "unsaved"}
                              THEN [slots EXCEPT ![k0] = DeleteWithDefinition(@)] ELSE slots)
             /\ reply' = Answer("del", p, k0, OutOf(c))
    <2> DEFINE s == IF c \in {"ok", "unsaved"} THEN EmptySlot ELSE slots[k0]
    <2>1. Opened /\ OnFile(k0) # None /\ open \in Entries
      BY <1>4, FileType
    <2>2. CommitVault([open EXCEPT ![k0] = None], c)
      <3>1. [open EXCEPT ![k0] = DeleteEntry(@).entry] = [open EXCEPT ![k0] = None]
        BY DEF DeleteEntry, Outcome
      <3> QED BY <1>4, <3>1
    <2>3. StoreAfter(c, [slots EXCEPT ![k0] = s])
      <3>1. slots = [slots EXCEPT ![k0] = slots[k0]]
        BY <1>1
      <3> QED BY <1>4, <3>1 DEF DeleteWithDefinition
    <2>4. /\ reply'.op = "del" /\ reply'.key = k0 /\ ~reply'.fetched /\ reply'.out = OutOf(c)
      BY <1>4 DEF Answer, Silence
    <2>5. /\ Mirrored' /\ c \in {"ok", "unsaved", "died", "untouched"}
          /\ k # k0 => Happens(k)
          /\ c # "untouched" => OnFile(k0)' = None
          /\ c \in {"ok", "unsaved"} => Opened'
          /\ c = "untouched" => SameFile(k0)
          /\ c # "died" => slots'[k0] = s
          /\ c = "died" => /\ Starts(slots'[k0], k0) /\ ~Opened' /\ reply'.out = "NoReply"
                           /\ ~OnDisk(k0)
      BY <2>1, <2>2, <2>3, <2>4, OneEntryCommitted DEF Option
    <2>6. c # "died" => reply'.out \in {"Ok", "IoError"} /\ (reply'.out = "Ok" <=> c = "ok")
      BY <2>4, <2>5 DEF OutOf
    <2>7. CASE c \in {"ok", "unsaved"}
      <3>1. slots'[k0] = EmptySlot
        BY <2>5, <2>7
      <3>2. Forgets(k0)
        BY <2>4, <2>6, <2>7, <3>1, TaleOfDel
      <3>3. Erases(k0)
        BY <2>1, <2>5, <2>7, <3>1, <3>2 DEF Erases
      <3> QED BY <2>5, <3>3 DEF Happens, Sound
    <2>8. CASE c = "untouched"
      <3>1. slots'[k0] = slots[k0] /\ reply'.out = "IoError"
        BY <2>5, <2>6, <2>8
      <3>2. CASE slots[k0] = EmptySlot
        <4>1. Forgets(k0)
          BY <2>4, <3>1, <3>2, TaleOfDel
        <4>2. Erases(k0)
          BY <2>1, <2>5, <2>8, <3>1, <3>2, <4>1 DEF Erases, SameFile
        <4> QED BY <2>5, <4>2 DEF Happens, Sound
      <3>3. CASE slots[k0] # EmptySlot
        <4>1. SameTale(k0) /\ holder'[k0] = holder[k0]
          BY <2>4, <3>1, <3>3, TaleOfDel
        <4> QED BY <2>5, <2>8, <3>1, <4>1, Undisturbed DEF Sound
      <3> QED BY <3>2, <3>3
    <2>9. CASE c = "died"
      <3>1. Forgets(k0)
        BY <2>5, <2>9, TaleLost
      <3>2. Ends(k0)
        BY <2>5, <2>9, <3>1 DEF Ends
      <3> QED BY <2>5, <3>2 DEF Happens, Sound
    <2> QED BY <2>5, <2>7, <2>8, <2>9
  <1> QED BY <1>2, <1>3, <1>4 DEF KvDel

(***************************************************************************)
(* kv.claim (handle_claim, take_claim_in_vault).                           *)
(***************************************************************************)
LEMMA ClaimMeans ==
    ASSUME RenameIsSafe, Held, Mirrored, Remember, NEW p, NEW k0 \in Keys, NEW expected,
           NEW token \in Tokens, NEW ttl \in Nat, NEW c \in Commits,
           KvClaim(p, k0, expected, token, ttl, c), NEW k \in Keys
    PROVE  Sound(k)
  <1> DEFINE refusal == ClaimRefusal(p, k0, expected)
             claim == [token |-> token, expires_at |-> now + ttl]
             r == TakeClaim(VaultEntry(k0), expected, token, now + ttl)
             s == IF c = "ok" THEN SetRefreshClaim(slots[k0], claim) ELSE slots[k0]
             ss == [slots EXCEPT ![k0] = IF c = "ok" THEN SetRefreshClaim(@, claim) ELSE @]
             ack(out) == [Answer("claim", p, k0, out) EXCEPT
                             !.token = token, !.version = slots[k0].version]
  <1>1. slots \in [Keys -> Slots] /\ claim \in RefreshClaims /\ ss = [slots EXCEPT ![k0] = s]
    BY DEF Held, Stored, RefreshClaims, Time
  <1>2. /\ refusal \in {"Ok", "AuthFailed", "VaultClosed", "NotFound", "CasMismatch",
                        "AlreadyClaimed"}
        /\ refusal = "Ok" => ~Unavailable(k0) /\ ~ClaimActive(slots[k0], now)
    BY DEF ClaimRefusal
  <1>3. /\ r.out \in {"Ok", "Noop", "NotFound", "CasMismatch", "AlreadyClaimed"}
        /\ r.out = "Noop" => VaultEntry(k0) = None
        /\ r.out = "Ok" => /\ r.entry = [VaultEntry(k0) EXCEPT !.claim = claim]
                           /\ VaultEntry(k0) # None
    BY DEF TakeClaim, ClaimRefresh, Outcome
  <1>4. \/ refusal # "Ok" /\ Refuse("claim", p, k0, refusal)
        \/ r.out \notin {"Ok", "Noop"} /\ Refuse("claim", p, k0, r.out)
        \/ /\ refusal = "Ok" /\ r.out = "Noop" /\ c = "ok"
           /\ slots' = ss
           /\ reply' = ack("Ok")
           /\ UNCHANGED <<files, now, faults>>
        \/ /\ refusal = "Ok" /\ r.out = "Ok" /\ c # "unsaved"
           /\ CommitVault([open EXCEPT ![k0] = r.entry], c)
           /\ StoreAfter(c, ss)
           /\ reply' = ack(OutOf(c))
    BY DEF KvClaim
  <1>5. ASSUME NEW out, reply' = ack(out)
        PROVE  reply'.op = "claim" /\ reply'.key = k0 /\ reply'.out = out /\ ~reply'.fetched
    BY <1>5 DEF Answer, Silence
  <1>6. SetRefreshClaim(slots[k0], claim).claim = claim
    BY <1>1 DEF SetRefreshClaim, Slots
  <1> HIDE DEF refusal, claim, r, ss, ack
  <1>7. CASE \/ refusal # "Ok" /\ Refuse("claim", p, k0, refusal)
             \/ r.out \notin {"Ok", "Noop"} /\ Refuse("claim", p, k0, r.out)
    BY <1>2, <1>3, <1>7, RefusedMeans
  <1>8. CASE /\ refusal = "Ok" /\ r.out = "Noop" /\ c = "ok"
             /\ slots' = ss
             /\ reply' = ack("Ok")
             /\ UNCHANGED <<files, now, faults>>
    <2>1. Mirrored' /\ SameFile(k) /\ SameFile(k0)
      BY <1>8 DEF files, Mirrored, SameFile, OnFile, Opened
    <2>2. reply'.op = "claim" /\ reply'.key = k0 /\ ~reply'.fetched /\ reply'.out = "Ok"
      BY <1>5, <1>8
    <2>3. /\ k0 # k => slots'[k] = slots[k]
          /\ slots'[k0] = SetRefreshClaim(slots[k0], claim)
      BY <1>1, <1>8
    <2>4. CASE k # k0
      BY <2>1, <2>2, <2>3, <2>4, OthersStay DEF Sound
    <2>5. CASE k = k0
      <3>1. SameTale(k0) /\ holder'[k0] = claim
        BY <1>6, <2>2, <2>3, TaleOfClaim
      <3>2. Opened => OnFile(k0) = None
        BY <1>3, <1>8, FileType
      <3>3. Claims(k0)
        BY <1>1, <1>2, <1>8, <2>1, <2>3, <3>1, <3>2 DEF Claims, SameFile
      <3> QED BY <2>1, <2>5, <3>3 DEF Happens, Sound
    <2> QED BY <2>4, <2>5
  <1>9. CASE /\ refusal = "Ok" /\ r.out = "Ok" /\ c # "unsaved"
             /\ CommitVault([open EXCEPT ![k0] = r.entry], c)
             /\ StoreAfter(c, ss)
             /\ reply' = ack(OutOf(c))
    <2>1. VaultEntry(k0) # None
      BY <1>3, <1>9
    <2>2. Opened
      BY <2>1 DEF VaultEntry, Opened
    <2>3. VaultEntry(k0) = OnFile(k0) /\ OnFile(k0) \in VaultEntries
      BY <2>1, <2>2, FileType DEF Option
    <2>4. r.entry = [OnFile(k0) EXCEPT !.claim = claim] /\ r.entry \in VaultEntries
      BY <1>1, <1>3, <1>9, <2>3 DEF VaultEntries, Option
    <2>5. r.entry # None
      BY <2>4, NoneIsNoEntry
    <2>6. reply'.op = "claim" /\ reply'.key = k0 /\ ~reply'.fetched /\ reply'.out = OutOf(c)
      BY <1>5, <1>9
    <2>7. StoreAfter(c, [slots EXCEPT ![k0] = s])
      BY <1>1, <1>9
    <2>8. /\ Mirrored' /\ c \in {"ok", "died", "untouched"}
          /\ k # k0 => Happens(k)
          /\ c # "untouched" => OnFile(k0)' = r.entry
          /\ c = "ok" => Opened'
          /\ c = "untouched" => SameFile(k0)
          /\ c # "died" => slots'[k0] = s
          /\ c = "died" => Starts(slots'[k0], k0) /\ ~Opened' /\ OnDisk(k0)
      BY <1>9, <2>2, <2>4, <2>5, <2>6, <2>7, OneEntryCommitted DEF Option
    <2>9. /\ reply'.out = "NoReply" <=> c = "died"
          /\ reply'.out = "Ok" <=> c = "ok"
      BY <2>6, <2>8 DEF OutOf
    <2>10. SameTale(k0) /\ holder'[k0] = IF c = "ok" THEN slots'[k0].claim ELSE holder[k0]
      BY <2>6, <2>8, <2>9, TaleOfClaim
    <2>11. CASE c = "ok"
      <3>1. slots'[k0] = SetRefreshClaim(slots[k0], claim) /\ holder'[k0] = claim
        BY <1>6, <2>8, <2>10, <2>11
      <3>2. OnFile(k0) # None
        BY <2>1, <2>3
      <3>3. Claims(k0)
        BY <1>1, <1>2, <1>9, <2>2, <2>4, <2>8, <2>10, <2>11, <3>1, <3>2 DEF Claims
      <3> QED BY <2>8, <3>3 DEF Happens, Sound
    <2>12. CASE c = "untouched"
      BY <2>8, <2>10, <2>12, Undisturbed DEF Sound
    <2>13. CASE c = "died"
      <3>1. OnFile(k0) # None /\ claim \in Option(RefreshClaims)
        BY <1>1, <2>1, <2>3 DEF Option
      <3>2. Ends(k0)
        BY <1>2, <1>9, <2>2, <2>4, <2>8, <2>10, <2>13, <3>1 DEF Ends
      <3> QED BY <2>8, <3>2 DEF Happens, Sound
    <2> QED BY <2>8, <2>11, <2>12, <2>13
  <1> QED BY <1>4, <1>7, <1>8, <1>9

(***************************************************************************)
(* kv.unclaim (handle_unclaim, release_claim_in_vault).                    *)
(***************************************************************************)
LEMMA UnclaimMeans ==
    ASSUME RenameIsSafe, Held, Mirrored, Remember, NEW p, NEW k0 \in Keys,
           NEW token \in Tokens, NEW c \in Commits, KvUnclaim(p, k0, token, c), NEW k \in Keys
    PROVE  Sound(k)
  <1> DEFINE refusal == UnclaimRefusal(p, k0, token)
             r == GiveUpClaim(VaultEntry(k0), token)
             s == IF c = "ok" THEN ClearRefreshClaim(slots[k0]) ELSE slots[k0]
             ss == [slots EXCEPT ![k0] = IF c = "ok" THEN ClearRefreshClaim(@) ELSE @]
  <1>1. slots \in [Keys -> Slots] /\ ss = [slots EXCEPT ![k0] = s]
    BY DEF Held, Stored
  <1>2. refusal \in {"Ok", "AuthFailed", "VaultClosed", "ClaimRefused"}
    BY DEF UnclaimRefusal
  <1>3. /\ r.out = "Noop" => VaultEntry(k0) = None \/ VaultEntry(k0).claim = None
        /\ r.out = "Ok" => r.entry = [VaultEntry(k0) EXCEPT !.claim = None]
                           /\ VaultEntry(k0) # None
    BY DEF GiveUpClaim, ReleaseClaim, Outcome
  <1>4. \/ refusal # "Ok" /\ Refuse("unclaim", p, k0, refusal)
        \/ Refuse("unclaim", p, k0, "IoError")
        \/ /\ r.out = "Noop" /\ c = "ok"
           /\ slots' = ss
           /\ reply' = Answer("unclaim", p, k0, "Ok")
           /\ UNCHANGED <<files, now, faults>>
        \/ /\ r.out = "Ok" /\ c # "unsaved"
           /\ CommitVault([open EXCEPT ![k0] = r.entry], c)
           /\ StoreAfter(c, ss)
           /\ reply' = Answer("unclaim", p, k0, OutOf(c))
    BY DEF KvUnclaim
  <1> HIDE DEF refusal, r, ss
  <1>5. CASE \/ refusal # "Ok" /\ Refuse("unclaim", p, k0, refusal)
             \/ Refuse("unclaim", p, k0, "IoError")
    BY <1>2, <1>5, RefusedMeans
  <1>6. CASE /\ r.out = "Noop" /\ c = "ok"
             /\ slots' = ss
             /\ reply' = Answer("unclaim", p, k0, "Ok")
             /\ UNCHANGED <<files, now, faults>>
    <2>1. Mirrored' /\ SameFile(k) /\ SameFile(k0)
      BY <1>6 DEF files, Mirrored, SameFile, OnFile, Opened
    <2>2. reply'.op = "unclaim" /\ reply'.key = k0 /\ ~reply'.fetched /\ reply'.out = "Ok"
      BY <1>6 DEF Answer, Silence
    <2>3. /\ k0 # k => slots'[k] = slots[k]
          /\ slots'[k0] = ClearRefreshClaim(slots[k0])
      BY <1>1, <1>6
    <2>4. CASE k # k0
      BY <2>1, <2>2, <2>3, <2>4, OthersStay DEF Sound
    <2>5. CASE k = k0
      <3>1. SameTale(k0) /\ holder'[k0] = None
        BY <2>2, TaleOfUnclaim
      <3>2. Opened /\ OnFile(k0) # None => OnFile(k0).claim = None /\ OnFile(k0) \in VaultEntries
        BY <1>3, <1>6, FileType DEF Option
      <3>3. Opened /\ OnFile(k0) # None => [OnFile(k0) EXCEPT !.claim = None] = OnFile(k0)
        BY <3>2 DEF VaultEntries
      <3>4. Unclaims(k0)
        BY <2>1, <2>3, <3>1, <3>3 DEF Unclaims, SameFile
      <3> QED BY <2>1, <2>5, <3>4 DEF Happens, Sound
    <2> QED BY <2>4, <2>5
  <1>7. CASE /\ r.out = "Ok" /\ c # "unsaved"
             /\ CommitVault([open EXCEPT ![k0] = r.entry], c)
             /\ StoreAfter(c, ss)
             /\ reply' = Answer("unclaim", p, k0, OutOf(c))
    <2>1. VaultEntry(k0) # None
      BY <1>3, <1>7
    <2>2. Opened
      BY <2>1 DEF VaultEntry, Opened
    <2>3. VaultEntry(k0) = OnFile(k0) /\ OnFile(k0) \in VaultEntries /\ OnFile(k0) # None
      BY <2>1, <2>2, FileType DEF Option
    <2>4. r.entry = [OnFile(k0) EXCEPT !.claim = None] /\ r.entry \in VaultEntries
      BY <1>3, <1>7, <2>3 DEF VaultEntries, Option
    <2>5. r.entry # None
      BY <2>4, NoneIsNoEntry
    <2>6. reply'.op = "unclaim" /\ reply'.key = k0 /\ ~reply'.fetched /\ reply'.out = OutOf(c)
      BY <1>7 DEF Answer, Silence
    <2>7. StoreAfter(c, [slots EXCEPT ![k0] = s])
      BY <1>1, <1>7
    <2>8. /\ Mirrored' /\ c \in {"ok", "died", "untouched"}
          /\ k # k0 => Happens(k)
          /\ c # "untouched" => OnFile(k0)' = r.entry
          /\ c = "ok" => Opened'
          /\ c = "untouched" => SameFile(k0)
          /\ c # "died" => slots'[k0] = s
          /\ c = "died" => Starts(slots'[k0], k0) /\ ~Opened' /\ OnDisk(k0)
      BY <1>7, <2>2, <2>4, <2>5, <2>6, <2>7, OneEntryCommitted DEF Option
    <2>9. reply'.out \in {"Ok", "IoError", "NoReply"} /\ (reply'.out = "NoReply" <=> c = "died")
      BY <2>6, <2>8 DEF OutOf
    <2>10. SameTale(k0) /\ holder'[k0] = None
      BY <2>6, <2>8, <2>9, TaleOfUnclaim
    <2>11. CASE c = "ok"
      <3>1. Unclaims(k0)
        BY <2>2, <2>3, <2>4, <2>8, <2>10, <2>11 DEF Unclaims
      <3> QED BY <2>8, <3>1 DEF Happens, Sound
    <2>12. CASE c = "untouched"
      BY <2>8, <2>10, <2>12, Undisturbed DEF Sound
    <2>13. CASE c = "died"
      <3>1. None \in Option(RefreshClaims)
        BY DEF Option
      <3>2. Ends(k0)
        BY <2>2, <2>3, <2>4, <2>8, <2>10, <2>13, <3>1 DEF Ends
      <3> QED BY <2>8, <3>2 DEF Happens, Sound
    <2> QED BY <2>8, <2>11, <2>12, <2>13
  <1> QED BY <1>4, <1>5, <1>6, <1>7

(***************************************************************************)
(* vault.init (handle_vault_init): a vault without entries.                *)
(***************************************************************************)
LEMMA InitMeans ==
    ASSUME RenameIsSafe, Held, Mirrored, Remember, NEW c \in Commits, VaultInit(c),
           NEW k \in Keys
    PROVE  Sound(k)
  <1> DEFINE entries == [i \in Keys |-> None]
  <1>1. entries \in Entries
    BY DEF Entries, Option
  <1>2. /\ disk = None /\ c \notin {"renamed", "unsaved"} /\ CommitVault(entries, c)
        /\ StoreAfter(c, slots) /\ reply' = Answer("init", None, None, OutOf(c)) /\ now' = now
    BY DEF VaultInit
  <1>3. entries[k] = None
    OBVIOUS
  <1> HIDE DEF entries
  <1>4. OnFile(k) = None
    BY <1>2 DEF OnFile
  <1>5. /\ Mirrored' /\ c \in {"ok", "died", "untouched"}
        /\ c # "untouched" => OnFile(k)' = None
        /\ c = "ok" => Opened'
        /\ c = "died" => ~Opened'
        /\ c = "untouched" => SameFile(k)
    BY <1>1, <1>2, <1>3, CommitEnds DEF SameFile, OnFile, Opened
  <1>6. reply'.op = "init" /\ ~reply'.fetched /\ (reply'.out = "NoReply" <=> c = "died")
    BY <1>2, <1>5 DEF Answer, Silence, OutOf
  <1>7. CASE c = "died"
    <2>1. slots' = Cold(registry)
      BY <1>2, <1>7 DEF StoreAfter
    <2> QED BY <1>4, <1>5, <1>6, <1>7, <2>1, OthersEnd DEF Sound
  <1>8. CASE c # "died"
    <2>1. slots' = slots
      BY <1>2, <1>8 DEF StoreAfter
    <2>2. SameTale(k) /\ holder'[k] = holder[k]
      BY <1>6, <1>8, TaleElsewhere
    <2>3. CASE c = "ok"
      <3>1. Opens(k)
        BY <1>2, <1>4, <1>5, <2>1, <2>2, <2>3 DEF Opens
      <3> QED BY <1>5, <3>1 DEF Sound, Happens
    <2>4. CASE c = "untouched"
      BY <1>5, <2>1, <2>2, <2>4, Undisturbed DEF Sound
    <2> QED BY <1>5, <1>8, <2>3, <2>4
  <1> QED BY <1>7, <1>8

(***************************************************************************)
(* vault.unlock (handle_vault_unlock, install_vault_entries).              *)
(***************************************************************************)
LEMMA UnlockMeans ==
    ASSUME Held, Mirrored, Remember, NEW valid \in BOOLEAN, VaultUnlock(valid), NEW k \in Keys
    PROVE  Sound(k)
  <1> DEFINE entries == IF open = None THEN disk ELSE open
  <1>1. CASE Refuse("unlock", None, None, "AuthFailed")
    BY <1>1, RefusedMeans
  <1>2. CASE /\ disk # None /\ open' = entries
             /\ slots' = [i \in Keys |-> IF entries[i] = None THEN slots[i]
                                         ELSE InstallEntry(slots[i], entries[i])]
             /\ reply' = Answer("unlock", None, None, "Ok")
             /\ UNCHANGED <<registry, disk, now, faults>>
    <2>1. entries = disk /\ OnFile(k) = entries[k]
      BY <1>2 DEF Mirrored, Opened, OnFile
    <2> HIDE DEF entries
    <2>2. Mirrored' /\ Opened' /\ OnFile(k)' = OnFile(k)
      BY <1>2, <2>1 DEF Mirrored, Opened, OnFile
    <2>3. reply'.op = "unlock" /\ ~reply'.fetched /\ reply'.out = "Ok"
      BY <1>2 DEF Answer, Silence
    <2>4. SameTale(k) /\ holder'[k] = holder[k]
      BY <2>3, TaleElsewhere
    <2>5. slots'[k] = IF OnFile(k) = None THEN slots[k] ELSE InstallEntry(slots[k], OnFile(k))
      BY <1>2, <2>1
    <2>6. Opens(k)
      BY <1>2, <2>2, <2>4, <2>5 DEF Opens
    <2> QED BY <2>2, <2>6 DEF Sound, Happens
  <1> QED BY <1>1, <1>2 DEF VaultUnlock

(***************************************************************************)
(* vault.lock (handle_vault_lock).                                         *)
(***************************************************************************)
LEMMA LockMeans ==
    ASSUME Held, Mirrored, Remember, VaultLock, NEW k \in Keys
    PROVE  Sound(k)
  <1>1. Mirrored' /\ ~Opened' /\ OnFile(k)' = OnFile(k) /\ now' = now
    BY DEF VaultLock, Mirrored, Opened, OnFile
  <1>2. reply'.op = "lock" /\ ~reply'.fetched /\ reply'.out = "Ok"
    BY DEF VaultLock, Answer, Silence
  <1>3. SameTale(k) /\ holder'[k] = holder[k]
    BY <1>2, TaleElsewhere
  <1>4. slots'[k] = IF Owned(k) THEN Delete(slots[k]) ELSE slots[k]
    BY DEF VaultLock, Evicted
  <1>5. Locks(k)
    BY <1>1, <1>3, <1>4 DEF Locks
  <1> QED BY <1>1, <1>5 DEF Sound, Happens

(***************************************************************************)
(* The process ends; time passes.                                          *)
(***************************************************************************)
LEMMA IdleStepsMean ==
    ASSUME Held, Mirrored, Remember, Crash \/ Tick, NEW k \in Keys
    PROVE  Sound(k)
  <1>1. CASE Crash
    <2>1. Mirrored' /\ ~Opened' /\ OnFile(k)' = OnFile(k) /\ slots' = Cold(registry)
      BY <1>1 DEF Crash, Mirrored, Opened, OnFile
    <2>2. reply'.op = "crash" /\ ~reply'.fetched /\ reply'.out = "NoReply"
      BY <1>1 DEF Crash, Answer, Silence
    <2> QED BY <2>1, <2>2, OthersEnd DEF Sound
  <1>2. CASE Tick
    <2>1. Mirrored' /\ SameFile(k) /\ slots' = slots
      BY <1>2 DEF Tick, files, Mirrored, SameFile, OnFile, Opened
    <2>2. reply'.op = "none" /\ ~reply'.fetched /\ reply'.out = "Ok"
      BY <1>2 DEF Tick, Silence
    <2> QED BY <2>1, <2>2, TaleElsewhere, Undisturbed DEF Sound
  <1> QED BY <1>1, <1>2

(***************************************************************************)
(* Whatever the daemon does, it means one of these for each key.           *)
(***************************************************************************)
LEMMA NextMeans ==
    ASSUME RenameIsSafe, Held, Mirrored, [Next]_vars, NEW j \in Keys
    PROVE  Sound(j)
  <1>1. CASE UNCHANGED vars
    BY <1>1, Undisturbed
      DEF vars, files, history, Sound, Mirrored, SameFile, SameTale, OnFile, Opened
  <1> SUFFICES ASSUME Step, Remember PROVE Sound(j)
    BY <1>1 DEF Next
  <1>2. Later \subseteq Time
    BY LaterIsTime DEF Held
  <1>3. CASE Tick \/ Crash \/ VaultLock \/ \E valid \in BOOLEAN : VaultUnlock(valid)
    BY <1>3, IdleStepsMean, LockMeans, UnlockMeans
  <1>4. CASE \E c \in Commits : VaultInit(c)
    BY <1>4, InitMeans
  <1>5. ASSUME NEW p \in Peers, NEW k \in Keys, NEW v \in Values, NEW ttl \in Ttls,
               NEW flag \in PersistFlags, NEW expected \in Option(0..MaxVersion),
               NEW token \in Option(Tokens), NEW owner \in Option(Principals),
               NEW c \in Commits, KvSet(p, k, v, ttl, flag, expected, token, owner, c)
        PROVE  Sound(j)
    BY <1>5, KeyConstants, SetMeans
  <1>6. ASSUME NEW p \in Peers, NEW k \in Keys, NEW run \in Option(Fetched),
               NEW auth \in BOOLEAN, NEW t1 \in Later, KvGet(p, k, run, auth, t1)
        PROVE  Sound(j)
    BY <1>2, <1>6, GetMeans
  <1>7. ASSUME NEW p \in Peers, NEW k \in Keys, NEW with_define \in BOOLEAN, NEW c \in Commits,
               KvDel(p, k, with_define, c)
        PROVE  Sound(j)
    BY <1>7, DelMeans
  <1>8. ASSUME NEW p \in Peers, NEW k \in Keys, NEW expected \in 0..MaxVersion,
               NEW token \in Tokens, NEW ttl \in ClaimTtls, NEW c \in Commits,
               KvClaim(p, k, expected, token, ttl, c)
        PROVE  Sound(j)
    BY <1>8, DurationConstants, ClaimMeans
  <1>9. ASSUME NEW p \in Peers, NEW k \in Keys, NEW token \in Tokens, NEW c \in Commits,
               KvUnclaim(p, k, token, c)
        PROVE  Sound(j)
    BY <1>9, UnclaimMeans
  <1>10. ASSUME NEW p \in Peers, NEW k \in Keys, NEW source \in Sources, NEW ttl \in Ttls,
                NEW c \in Commits, KvDefine(p, k, [source |-> source, ttl |-> ttl], c)
         PROVE  Sound(j)
    <2>1. [source |-> source, ttl |-> ttl] \in Definitions
      BY KeyConstants DEF Definitions
    <2> QED BY <1>10, <2>1, DefineMeans
  <1>11. ASSUME NEW p \in Peers, NEW k \in Keys, NEW length \in PinLengths,
                NEW auth \in BOOLEAN, NEW t1 \in Later, KvPin(p, k, length, auth, t1)
         PROVE  Sound(j)
    BY <1>2, <1>11, DurationConstants, PinMeans
  <1>12. ASSUME NEW p \in Peers, NEW k \in Keys, KvUnpin(p, k) \/ KvOwnerClear(p, k)
         PROVE  Sound(j)
    BY <1>12, SmallRequestsMean
  <1> QED BY <1>3, <1>4, <1>5, <1>6, <1>7, <1>8, <1>9, <1>10, <1>11, <1>12 DEF Step

(***************************************************************************)
(* Time does not go back.                                                  *)
(***************************************************************************)
LEMMA TimePasses ==
    ASSUME Held, [Next]_vars
    PROVE  now' \in Time /\ now' >= now
  <1>1. now \in Nat
    BY DEF Held, Time
  <1>2. \A t1 \in Later : t1 \in Nat /\ t1 >= now
    BY <1>1 DEF Later
  <1> DEFINE On == now' = now \/ now' = now + 1 \/ now' \in Later
  <1>3. UNCHANGED vars => On
    BY DEF vars
  <1>4. ASSUME Step PROVE On
    <2>1. CASE Tick \/ Crash \/ VaultLock \/ \E valid \in BOOLEAN : VaultUnlock(valid)
      BY <2>1 DEF Tick, Crash, VaultLock, VaultUnlock, Refuse
    <2>2. CASE \E c \in Commits : VaultInit(c)
      BY <2>2 DEF VaultInit
    <2>3. ASSUME NEW p, NEW k, NEW v, NEW ttl, NEW flag, NEW expected, NEW token, NEW owner,
                 NEW c, KvSet(p, k, v, ttl, flag, expected, token, owner, c)
          PROVE  On
      BY <2>3 DEF KvSet, Refuse
    <2>4. ASSUME NEW p, NEW k, NEW run, NEW auth, NEW t1 \in Later, KvGet(p, k, run, auth, t1)
          PROVE  On
      BY <2>4 DEF KvGet, Refuse
    <2>5. ASSUME NEW p, NEW k, NEW with_define, NEW c, KvDel(p, k, with_define, c)
          PROVE  On
      BY <2>5 DEF KvDel, Refuse
    <2>6. ASSUME NEW p, NEW k, NEW expected, NEW token, NEW ttl, NEW c,
                 KvClaim(p, k, expected, token, ttl, c)
          PROVE  On
      BY <2>6 DEF KvClaim, Refuse
    <2>7. ASSUME NEW p, NEW k, NEW token, NEW c, KvUnclaim(p, k, token, c)
          PROVE  On
      BY <2>7 DEF KvUnclaim, Refuse
    <2>8. ASSUME NEW p, NEW k, NEW def, NEW c, KvDefine(p, k, def, c)
          PROVE  On
      BY <2>8 DEF KvDefine, Refuse
    <2>9. ASSUME NEW p, NEW k, NEW length, NEW auth, NEW t1 \in Later,
                 KvPin(p, k, length, auth, t1)
          PROVE  On
      BY <2>9 DEF KvPin, Refuse
    <2>10. ASSUME NEW p, NEW k, KvUnpin(p, k) \/ KvOwnerClear(p, k)
           PROVE  On
      BY <2>10 DEF KvUnpin, KvOwnerClear, Refuse
    <2> HIDE DEF On
    <2> QED BY <1>4, <2>1, <2>2, <2>3, <2>4, <2>5, <2>6, <2>7, <2>8, <2>9, <2>10 DEF Step
  <1> HIDE DEF On
  <1>5. On
    BY <1>3, <1>4 DEF Next
  <1> QED BY <1>1, <1>2, <1>5 DEF Time, On
-----------------------------------------------------------------------------
(* Where a declared value is *)

(***************************************************************************)
(* What is on file of a declared key is in memory, for good, while the     *)
(* vault is open, and nothing of it is while the vault is closed.          *)
(***************************************************************************)
Resident(k) ==
    OnFile(k) # None => IF Opened THEN Lasting(slots[k]) ELSE slots[k].entry = None

Resides == Mirrored /\ \A k \in PersistedKeys : Resident(k)

(***************************************************************************)
(* The slot an entry of the vault is installed in (install_vault_entries). *)
(***************************************************************************)
LEMMA InstallLeaves ==
    ASSUME NEW s \in Slots, NEW e \in VaultEntries, now \in Time
    PROVE  LET n == InstallEntry(s, e)
           IN  /\ n \in Slots /\ Lasting(n) /\ n.entry.value = e.value
               /\ n.guard = IF e.guard = None THEN s.guard ELSE e.guard
               /\ n.owner = IF e.owner = None THEN s.owner ELSE e.owner
               /\ n.claim = IF ClaimActive(e, now) THEN e.claim ELSE s.claim
               /\ n.version = IF e.version > s.version THEN e.version ELSE s.version
               /\ n.def = s.def
  <1> DEFINE ttl == [soft |-> None, hard |-> None]
             w == Set(s, Static, e.value, ttl, now)
             t == RestoreVersion(w, e.version)
             n == InstallEntry(s, e)
  <1>1. ttl \in Ttl /\ ttl.hard = None
    BY DEF Ttl, Option
  <1>2. /\ e.value \in Values /\ e.version \in Nat /\ e.guard \in Option(Guards)
        /\ e.owner \in Option(Principals) /\ e.claim \in Option(RefreshClaims)
    BY DEF VaultEntries
  <1> HIDE DEF ttl
  <1>3. w \in Slots /\ NewEntry(Static, e.value, ttl, now) \in CacheEntries
    BY <1>1, <1>2, InstallType, NewEntryType
  <1>4. w.entry = NewEntry(Static, e.value, ttl, now)
    BY DEF Set, Slots
  <1>5. /\ w.guard = s.guard /\ w.owner = s.owner /\ w.claim = s.claim
        /\ w.version = s.version /\ w.def = s.def
    BY DEF Set, Slots
  <1>6. w.entry # None /\ w.entry.value = e.value /\ w.entry.ttl = ttl
    BY <1>3, <1>4, NoneIsNoEntry DEF NewEntry
  <1> HIDE DEF w
  <1>7. /\ t \in Slots /\ t.entry = w.entry /\ t.guard = w.guard /\ t.owner = w.owner
        /\ t.claim = w.claim /\ t.def = w.def
        /\ t.version = IF e.version > w.version THEN e.version ELSE w.version
    BY <1>2, <1>3 DEF RestoreVersion, Slots
  <1>8. n = [t EXCEPT !.guard = IF e.guard = None THEN @ ELSE e.guard,
                      !.owner = IF e.owner = None THEN @ ELSE e.owner,
                      !.claim = IF ClaimActive(e, now) THEN e.claim ELSE @]
    BY DEF InstallEntry, t, w, ttl
  <1> HIDE DEF t, n
  <1>9. /\ n \in Slots /\ n.entry = t.entry /\ n.version = t.version /\ n.def = t.def
        /\ n.guard = IF e.guard = None THEN t.guard ELSE e.guard
        /\ n.owner = IF e.owner = None THEN t.owner ELSE e.owner
        /\ n.claim = IF ClaimActive(e, now) THEN e.claim ELSE t.claim
    BY <1>2, <1>7, <1>8 DEF Slots
  <1>10. Lasting(n) /\ n.entry.value = e.value
    BY <1>1, <1>2, <1>6, <1>7, <1>9, NoneIsNoValue DEF Lasting
  <1> QED BY <1>5, <1>7, <1>9, <1>10 DEF n

(***************************************************************************)
(* An entry that lasts goes on lasting, and one that is not there does not *)
(* come.                                                                   *)
(***************************************************************************)
LEMMA SameEntryLasts ==
    ASSUME NEW s, NEW n, SameEntry(s, n)
    PROVE  (Lasting(s) => Lasting(n)) /\ (s.entry = None <=> n.entry = None)
  BY DEF SameEntry, Lasting

(***************************************************************************)
(* A value fetched stands in for none on file (lazy_generate,              *)
(* vault_ownership).                                                       *)
(***************************************************************************)
LEMMA FetchesBesides ==
    ASSUME NEW k \in PersistedKeys, Resident(k), Fetches(k)
    PROVE  OnFile(k) = None
  BY DEF Fetches, Resident, Unavailable, Opened

(***************************************************************************)
(* A deletion leaves nothing on file of a declared key.                    *)
(***************************************************************************)
LEMMA DeletedBoth ==
    ASSUME NEW k \in PersistedKeys, Resident(k), Erases(k) \/ Deletes(k)
    PROVE  OnFile(k)' = None
  BY DEF Erases, Deletes, Resident, SameFile, EmptySlot, Lasting

(***************************************************************************)
(* No step parts a declared value from its place.                          *)
(***************************************************************************)
LEMMA ResidentKept ==
    ASSUME Held, Mirrored, NEW k \in PersistedKeys, Resident(k), Happens(k)
    PROVE  Resident(k)'
  <1>1. k \in Keys /\ slots[k] \in Slots /\ now \in Time
    BY KeyConstants DEF Held, Stored
  <1>2. CASE Stays(k)
    BY <1>2, SameEntryLasts DEF Stays, Resident, SameFile
  <1>3. CASE Fetches(k)
    BY <1>3, FetchesBesides DEF Fetches, Resident, SameFile
  <1>4. CASE SetsInMemory(k) \/ SetsThrough(k)
    BY <1>4 DEF SetsInMemory, SetsThrough, Sets, Resident, SameFile, Lasting
  <1>5. CASE Erases(k) \/ Deletes(k)
    BY <1>5, DeletedBoth DEF Resident
  <1>6. CASE Claims(k) \/ Unclaims(k)
    <2>1. slots'[k].entry = slots[k].entry
      BY <1>1, <1>6 DEF Claims, Unclaims, SetRefreshClaim, ClearRefreshClaim, Slots
    <2>2. Opened' = Opened /\ (OnFile(k)' # None => OnFile(k) # None)
      BY <1>6 DEF Claims, Unclaims
    <2> QED BY <2>1, <2>2 DEF Resident, Lasting
  <1>7. CASE Ends(k)
    BY <1>7 DEF Ends, Starts, Resident
  <1>8. CASE Opens(k)
    <2>1. OnFile(k) # None => Lasting(InstallEntry(slots[k], OnFile(k)))
      BY <1>1, InstallLeaves, FileType DEF Option
    <2> QED BY <1>8, <2>1 DEF Opens, Resident
  <1>9. CASE Locks(k)
    <2>1. Owned(k) <=> Opened /\ OnFile(k) # None
      BY <1>1, FileType
    <2>2. Delete(slots[k]).entry = None
      BY <1>1 DEF Delete, Slots
    <2> QED BY <1>9, <2>1, <2>2 DEF Locks, Resident
  <1> QED BY <1>2, <1>3, <1>4, <1>5, <1>6, <1>7, <1>8, <1>9 DEF Happens

(***************************************************************************)
(* No step parts any of them, nor the open vault from its file.            *)
(***************************************************************************)
LEMMA ResidesKept ==
    ASSUME RenameIsSafe, Held, Resides, [Next]_vars
    PROVE  Resides'
  <1>1. ASSUME NEW k \in PersistedKeys PROVE Resident(k)'
    BY <1>1, NextMeans, ResidentKept, KeyConstants DEF Resides, Sound
  <1>2. Mirrored'
    <2>1. CASE Keys = {}
      <3>1. Held'
        BY StepKeeps DEF Next, Held, Stored, Filed, Kept, vars, files
      <3>2. open' # None => /\ open' \in [{} -> Option(VaultEntries)]
                            /\ disk' \in [{} -> Option(VaultEntries)]
        BY <2>1, <3>1 DEF Held, Filed, Kept, Entries
      <3> QED BY <3>2 DEF Mirrored, Opened
    <2>2. CASE Keys # {}
      BY <2>2, NextMeans DEF Resides, Sound
    <2> QED BY <2>1, <2>2
  <1> QED BY <1>1, <1>2 DEF Resides

(***************************************************************************)
(* Where a declared value is, if writes of the vault file are atomic.      *)
(***************************************************************************)
THEOREM DeclaredValuesReside ==
    ASSUME RenameIsSafe
    PROVE  Spec => []Resides
  <1>1. Init => Resides
    BY DEF Init, Resides, Resident, Mirrored, Opened, OnFile
  <1>2. IInv /\ Resides /\ [Next]_vars => Resides'
    BY ResidesKept DEF IInv
  <1> QED BY <1>1, <1>2, DaemonInvariant, PTL DEF Spec

(***************************************************************************)
(* While the vault is closed no value it holds for a declared key is in    *)
(* memory, however often it was locked, the process ended or a write       *)
(* failed, if the rename of a write does not happen behind a reported      *)
(* failure.  (handler.rs handle_vault_lock, vault_ownership)               *)
(***************************************************************************)
THEOREM LockedHides ==
    ASSUME RenameIsSafe
    PROVE  Spec => []LockedHidesValues
  <1>1. Resides => LockedHidesValues
    BY DEF Resides, Resident, LockedHidesValues, OnFile, Opened
  <1> QED BY <1>1, DeclaredValuesReside, PTL
-----------------------------------------------------------------------------
(* What a read may return *)

(***************************************************************************)
(* Only declared keys have anything on file, if callers ask to persist     *)
(* no other.                                                               *)
(***************************************************************************)
Declared == \A k \in Keys \ PersistedKeys : OnFile(k) = None

(***************************************************************************)
(* The value on file and the one in memory are among those a read may      *)
(* return.                                                                 *)
(***************************************************************************)
Current(k) ==
    /\ OnFile(k) # None => OnFile(k).value \in last[k]
    /\ (slots[k].entry # None /\ slots[k].entry.value # None)
           => slots[k].entry.value \in last[k]

(***************************************************************************)
(* No step files a key that is not declared.                               *)
(***************************************************************************)
LEMMA DeclaredKept ==
    ASSUME DeclaredOnly, NEW k \in Keys \ PersistedKeys, OnFile(k) = None, Happens(k)
    PROVE  OnFile(k)' = None
  <1>1. ~MayPersist(k)
    BY DEF DeclaredOnly, MayPersist
  <1> QED BY <1>1 DEF Happens, Stays, Fetches, SetsInMemory, SetsThrough, Sets, Erases, Deletes,
                      Claims, Unclaims, Ends, Opens, Locks, SameFile

(***************************************************************************)
(* Of what is fetched or deleted, nothing is on file.                      *)
(***************************************************************************)
LEMMA NothingOnFile ==
    ASSUME Resides, Declared, NEW k \in Keys
    PROVE  /\ Fetches(k) => OnFile(k) = None
           /\ Erases(k) \/ Deletes(k) => OnFile(k)' = None
  <1>1. CASE k \in PersistedKeys
    BY <1>1, FetchesBesides, DeletedBoth DEF Resides
  <1>2. CASE k \notin PersistedKeys
    BY <1>2 DEF Declared, Erases, Deletes, SameFile
  <1> QED BY <1>1, <1>2

(***************************************************************************)
(* No step makes an outdated value of one that is held.                    *)
(***************************************************************************)
LEMMA CurrentKept ==
    ASSUME DeclaredOnly, Held, Resides, Declared, NEW k \in Keys, Current(k), Happens(k)
    PROVE  Current(k)'
  <1>1. slots[k] \in Slots /\ now \in Time /\ OnFile(k) \in Option(VaultEntries)
    BY FileType DEF Held, Stored
  <1>2. CASE Stays(k)
    BY <1>2 DEF Stays, SameEntry, Current, SameFile
  <1>3. CASE Fetches(k)
    <2>1. OnFile(k)' = None
      BY <1>3, NothingOnFile DEF Fetches, SameFile
    <2> QED BY <1>3, <2>1 DEF Fetches, Current
  <1>4. CASE SetsInMemory(k)
    <2>1. PICK v \in Values, persist \in BOOLEAN :
             /\ Sets(k, v, persist) /\ SameFile(k)
             /\ last'[k] = IF persist THEN last[k] \cup {v} ELSE {v}
      BY <1>4 DEF SetsInMemory
    <2>2. ~persist => OnFile(k) = None
      BY <2>1 DEF Sets, Declared
    <2> QED BY <2>1, <2>2 DEF Sets, SameFile, Current
  <1>5. CASE SetsThrough(k)
    <2>1. PICK v \in Values :
             /\ Sets(k, v, TRUE) /\ last'[k] = {v}
             /\ OnFile(k)' = WrittenEntry(k, v, slots'[k].guard, slots'[k].owner)
      BY <1>5 DEF SetsThrough
    <2>2. OnFile(k)'.value = v
      BY <2>1 DEF WrittenEntry
    <2> QED BY <2>1, <2>2 DEF Sets, Current
  <1>6. CASE Erases(k) \/ Deletes(k)
    <2>1. OnFile(k)' = None
      BY <1>6, NothingOnFile
    <2>2. EmptySlot.entry = None /\ Delete(slots[k]).entry = None
      BY <1>1 DEF EmptySlot, Delete, Slots
    <2>3. slots'[k].entry = None
      BY <1>6, <2>2 DEF Erases, Deletes
    <2> QED BY <2>1, <2>3 DEF Current
  <1>7. CASE Claims(k) \/ Unclaims(k)
    <2>1. slots'[k].entry = slots[k].entry
      BY <1>1, <1>7 DEF Claims, Unclaims, SetRefreshClaim, ClearRefreshClaim, Slots
    <2>2. OnFile(k)' # None => OnFile(k) # None /\ OnFile(k)'.value = OnFile(k).value
      BY <1>1, <1>7 DEF Claims, Unclaims, VaultEntries, Option
    <2>3. last'[k] = last[k]
      BY <1>7 DEF Claims, Unclaims, SameTale
    <2> QED BY <2>1, <2>2, <2>3 DEF Current
  <1>8. CASE Ends(k)
    <2>1. slots'[k].entry = None
      BY <1>8 DEF Ends, Starts
    <2>2. \/ OnFile(k)' = None
          \/ OnFile(k) # None /\ OnFile(k)'.value = OnFile(k).value /\ last'[k] = last[k]
          \/ \E v \in Values : OnFile(k)'.value = v /\ last'[k] = last[k] \cup {v}
      <3>1. \A v, guard, owner : WrittenEntry(k, v, guard, owner).value = v
        BY DEF WrittenEntry
      <3>2. \A claim : OnFile(k) # None =>
               [OnFile(k) EXCEPT !.claim = claim].value = OnFile(k).value
        BY <1>1 DEF VaultEntries, Option
      <3>3. ASSUME NEW v \in Values, NEW guard, NEW owner,
                   OnFile(k)' = WrittenEntry(k, v, guard, owner), last'[k] = last[k] \cup {v}
            PROVE  \E w \in Values : OnFile(k)'.value = w /\ last'[k] = last[k] \cup {w}
        BY <3>1, <3>3
      <3>4. CASE OnFile(k)' = None \/ (OnFile(k)' = OnFile(k) /\ SameTale(k) /\ OnFile(k) # None)
        BY <3>4 DEF SameTale
      <3>5. ASSUME NEW claim, OnFile(k)' = [OnFile(k) EXCEPT !.claim = claim],
                   OnFile(k) # None, SameTale(k)
            PROVE  OnFile(k)'.value = OnFile(k).value /\ last'[k] = last[k]
        BY <3>2, <3>5 DEF SameTale
      <3> QED BY <1>8, <3>3, <3>4, <3>5 DEF Ends
    <2> QED BY <2>1, <2>2 DEF Current
  <1>9. CASE Opens(k)
    <2>1. OnFile(k) # None => InstallEntry(slots[k], OnFile(k)).entry.value = OnFile(k).value
      BY <1>1, InstallLeaves DEF Option
    <2> QED BY <1>9, <2>1 DEF Opens, SameTale, Current
  <1>10. CASE Locks(k)
    <2>1. Delete(slots[k]).entry = None
      BY <1>1 DEF Delete, Slots
    <2> QED BY <1>10, <2>1 DEF Locks, SameTale, Current
  <1> QED BY <1>2, <1>3, <1>4, <1>5, <1>6, <1>7, <1>8, <1>9, <1>10 DEF Happens
-----------------------------------------------------------------------------
(* What the replies say of the state they were made in *)

(***************************************************************************)
(* A key behind a closed vault whose owner is there, too: of its slot      *)
(* there is only the definition.                                           *)
(***************************************************************************)
Asleep(k) ==
    /\ Unavailable(k) /\ slots[k].entry = None /\ slots[k].owner = None
    /\ slots[k].def # None

(***************************************************************************)
(* A read that fetched nothing returns the value there was.  A set that is *)
(* acknowledged took the next version and passed the claim, of a declared  *)
(* key with the vault open.  A claim that is granted met none, and the     *)
(* vault open for a declared key.                                          *)
(***************************************************************************)
Justified ==
    /\ (reply'.value # None /\ ~reply'.fetched) =>
          /\ reply'.key \in Keys /\ slots[reply'.key].entry # None
          /\ slots[reply'.key].entry.value = reply'.value
    /\ (reply'.op = "set" /\ reply'.out = "Ok") =>
          /\ reply'.key \in Keys /\ reply'.version = slots[reply'.key].version + 1
          /\ ClaimAllows(slots[reply'.key], reply'.token, now)
          /\ reply'.key \in PersistedKeys => Opened
    /\ (reply'.op = "claim" /\ reply'.out = "Ok") =>
          /\ reply'.key \in Keys /\ ~ClaimActive(slots[reply'.key], now)
          /\ ~Unavailable(reply'.key)

(***************************************************************************)
(* Whoever reads or changes an entry is its owner, and what is asleep is   *)
(* not read or changed.                                                    *)
(***************************************************************************)
Authorized ==
    (/\ reply'.key \in Keys
     /\ reply'.value # None \/ (reply'.out = "Ok" /\ slots'[reply'.key] # slots[reply'.key]))
        => SatisfiesOwner(reply'.peer, reply'.key) /\ ~Asleep(reply'.key)

(***************************************************************************)
(* A reply without a value that acknowledges no set and no claim.          *)
(***************************************************************************)
LEMMA PlainReply ==
    ASSUME NEW op, NEW p, NEW k, NEW out, reply' = Answer(op, p, k, out),
           op \notin {"set", "claim"} \/ out # "Ok",
           (k \in Keys /\ out = "Ok" /\ slots'[k] # slots[k]) => SatisfiesOwner(p, k) /\ ~Asleep(k)
    PROVE  Justified /\ Authorized
  BY DEF Answer, Silence, Justified, Authorized

(***************************************************************************)
(* A refusal.                                                              *)
(***************************************************************************)
LEMMA RefusalReply ==
    ASSUME NEW op, NEW p, NEW k, NEW out, Refuse(op, p, k, out), out # "Ok"
    PROVE  Justified /\ Authorized
  BY PlainReply DEF Refuse

(***************************************************************************)
(* kv.set.                                                                 *)
(***************************************************************************)
LEMMA SetReply ==
    ASSUME Held, NEW p, NEW k \in Keys, NEW v \in Values, NEW ttl \in Ttl,
           NEW flag \in PersistFlags, NEW expected, NEW token \in Option(Tokens),
           NEW owner \in Option(Principals), NEW c \in Commits,
           KvSet(p, k, v, ttl, flag, expected, token, owner, c)
    PROVE  Justified /\ Authorized
  <1> DEFINE persist == flag \/ k \in PersistedKeys
             refusal == SetRefusal(p, k, ttl, persist, expected, token)
             s == SlotAfterSet(slots[k], v, ttl, Audience[v], owner)
             r == WriteThrough(VaultEntry(k), s, token)
             ack(out) == [Answer("set", p, k, out) EXCEPT !.wrote = v, !.owner = s.owner,
                             !.version = s.version, !.token = token]
  <1>1. s.version = slots[k].version + 1
    BY SetLeaves, ValueConstants DEF Held, Stored
  <1>2. refusal = "Ok" => /\ SatisfiesOwner(p, k) /\ ClaimAllows(slots[k], token, now)
                          /\ persist => Opened
    BY DEF SetRefusal, Opened
  <1>3. \/ refusal # "Ok" /\ Refuse("set", p, k, refusal)
        \/ refusal = "Ok" /\ \E out : reply' = ack(out)
    BY DEF KvSet
  <1> HIDE DEF refusal, s, r
  <1>4. ASSUME NEW out, reply' = ack(out)
        PROVE  /\ reply'.op = "set" /\ reply'.key = k /\ reply'.peer = p /\ reply'.value = None
               /\ reply'.version = s.version /\ reply'.token = token
    BY <1>4 DEF Answer, Silence
  <1> HIDE DEF ack
  <1>5. k \in PersistedKeys => persist
    OBVIOUS
  <1>6. Asleep(k) => ~Opened /\ k \in PersistedKeys
    BY DEF Asleep, Unavailable, Opened
  <1> HIDE DEF persist
  <1>7. CASE refusal # "Ok" /\ Refuse("set", p, k, refusal)
    BY <1>7, RefusalReply
  <1>8. CASE refusal = "Ok" /\ \E out : reply' = ack(out)
    <2>1. /\ reply'.op = "set" /\ reply'.key = k /\ reply'.peer = p /\ reply'.value = None
          /\ reply'.version = s.version /\ reply'.token = token
      BY <1>4, <1>8
    <2>2. Justified
      BY <1>1, <1>2, <1>5, <1>8, <2>1 DEF Justified
    <2>3. Authorized
      BY <1>2, <1>5, <1>6, <1>8, <2>1 DEF Authorized
    <2> QED BY <2>2, <2>3
  <1> QED BY <1>3, <1>7, <1>8

(***************************************************************************)
(* While a key is asleep, its retrieval chain ends at the closed vault.    *)
(***************************************************************************)
LEMMA AsleepChain ==
    ASSUME Held, NEW k \in Keys, NEW run, NEW auth, NEW t1, Asleep(k)
    PROVE  Chain(k, run, auth, t1).out = "VaultClosed"
  <1>1. Evaluated(slots[k], now) = slots[k] /\ StateOf(slots[k], now) = "Absent"
    BY DEF Asleep, Evaluated, StateOf
  <1> QED BY <1>1 DEF Asleep, Chain, Result

(***************************************************************************)
(* kv.get.                                                                 *)
(***************************************************************************)
LEMMA GetReply ==
    ASSUME Held, NEW p, NEW k \in Keys, NEW run \in Option(Fetched), NEW auth \in BOOLEAN,
           NEW t1 \in Time, KvGet(p, k, run, auth, t1)
    PROVE  Justified /\ Authorized
  <1> DEFINE r == Chain(k, run, auth, t1)
             t == IF r.waited THEN t1 ELSE now
             value == IF r.out = "Ok" /\ Readable(r.slot, t) THEN r.slot.entry.value ELSE None
  <1>1. CASE Refuse("get", p, k, "AuthFailed")
    BY <1>1, RefusalReply
  <1>2. CASE /\ SatisfiesOwner(p, k)
             /\ reply' = [Answer("get", p, k, r.out) EXCEPT !.fetched = r.fetched, !.value = value]
    <2>1. /\ reply'.op = "get" /\ reply'.peer = p /\ reply'.key = k /\ reply'.out = r.out
          /\ reply'.fetched = r.fetched /\ reply'.value = value
      BY <1>2 DEF Answer, Silence
    <2>2. ~r.fetched => Alike(slots[k], r.slot)
      BY ChainMeans
    <2>3. value # None => /\ r.slot.entry # None /\ value = r.slot.entry.value /\ r.out = "Ok"
      BY DEF Readable, StateOf
    <2>4. Asleep(k) => r.out = "VaultClosed"
      BY AsleepChain
    <2> HIDE DEF value, r, t
    <2>5. value # None /\ ~r.fetched => slots[k].entry # None /\ slots[k].entry.value = value
      BY <2>2, <2>3 DEF Alike, SameEntry
    <2> QED BY <1>2, <2>1, <2>3, <2>4, <2>5 DEF Justified, Authorized
  <1> QED BY <1>1, <1>2 DEF KvGet

(***************************************************************************)
(* kv.claim.                                                               *)
(***************************************************************************)
LEMMA ClaimReply ==
    ASSUME NEW p, NEW k \in Keys, NEW expected, NEW token, NEW ttl, NEW c,
           KvClaim(p, k, expected, token, ttl, c)
    PROVE  Justified /\ Authorized
  <1> DEFINE refusal == ClaimRefusal(p, k, expected)
             r == TakeClaim(VaultEntry(k), expected, token, now + ttl)
             ack(out) == [Answer("claim", p, k, out) EXCEPT
                             !.token = token, !.version = slots[k].version]
  <1>1. refusal = "Ok" =>
           SatisfiesOwner(p, k) /\ ~Unavailable(k) /\ ~ClaimActive(slots[k], now)
    BY DEF ClaimRefusal
  <1>2. \/ refusal # "Ok" /\ Refuse("claim", p, k, refusal)
        \/ r.out \notin {"Ok", "Noop"} /\ Refuse("claim", p, k, r.out)
        \/ refusal = "Ok" /\ \E out : reply' = ack(out)
    BY DEF KvClaim
  <1>3. ASSUME NEW out, reply' = ack(out)
        PROVE  reply'.op = "claim" /\ reply'.key = k /\ reply'.peer = p /\ reply'.value = None
    BY <1>3 DEF Answer, Silence
  <1> HIDE DEF refusal, r, ack
  <1>4. CASE \/ refusal # "Ok" /\ Refuse("claim", p, k, refusal)
             \/ r.out \notin {"Ok", "Noop"} /\ Refuse("claim", p, k, r.out)
    BY <1>4, RefusalReply
  <1>5. CASE refusal = "Ok" /\ \E out : reply' = ack(out)
    <2>1. reply'.op = "claim" /\ reply'.key = k /\ reply'.peer = p /\ reply'.value = None
      BY <1>3, <1>5
    <2> QED BY <1>1, <1>5, <2>1 DEF Justified, Authorized, Asleep
  <1> QED BY <1>2, <1>4, <1>5

(***************************************************************************)
(* kv.unclaim.                                                             *)
(***************************************************************************)
LEMMA UnclaimReply ==
    ASSUME NEW p, NEW k \in Keys, NEW token, NEW c, KvUnclaim(p, k, token, c)
    PROVE  Justified /\ Authorized
  <1> DEFINE refusal == UnclaimRefusal(p, k, token)
  <1>1. refusal = "Ok" => SatisfiesOwner(p, k) /\ ~Unavailable(k)
    BY DEF UnclaimRefusal
  <1>2. \/ refusal # "Ok" /\ Refuse("unclaim", p, k, refusal)
        \/ Refuse("unclaim", p, k, "IoError")
        \/ refusal = "Ok" /\ \E out : reply' = Answer("unclaim", p, k, out)
    BY DEF KvUnclaim
  <1> HIDE DEF refusal
  <1> QED BY <1>1, <1>2, RefusalReply, PlainReply DEF Asleep

(***************************************************************************)
(* kv.del.                                                                 *)
(***************************************************************************)
LEMMA DelReply ==
    ASSUME NEW p, NEW k \in Keys, NEW with_define, NEW c, KvDel(p, k, with_define, c)
    PROVE  Justified /\ Authorized
  <1>1. CASE \E out \in {"VaultClosed", "AuthFailed"} : Refuse("del", p, k, out)
    BY <1>1, RefusalReply
  <1>2. CASE /\ SatisfiesOwner(p, k) /\ (~Unavailable(k) \/ Owned(k))
             /\ reply' = Answer("del", p, k, OutOf(c))
    <2>1. ~Asleep(k)
      BY <1>2 DEF Asleep, Unavailable, Owned
    <2> QED BY <1>2, <2>1, PlainReply
  <1> QED BY <1>1, <1>2 DEF KvDel

(***************************************************************************)
(* kv.define: of a key that has a definition nothing changes.              *)
(***************************************************************************)
LEMMA DefineReply ==
    ASSUME Held, NEW p, NEW k \in Keys, NEW def, NEW c, KvDefine(p, k, def, c)
    PROVE  Justified /\ Authorized
  <1> DEFINE r == Define(slots[k], def)
  <1>1. CASE \E out \in {"Conflict", "AuthFailed"} : Refuse("define", p, k, out)
    BY <1>1, RefusalReply
  <1>2. CASE /\ SatisfiesOwner(p, k) /\ r.out # "Conflict"
             /\ slots' = [slots EXCEPT ![k] = r.slot]
             /\ reply' = Answer("define", p, k, OutOf(c))
    <2>1. slots[k].def # None => r.slot = slots[k]
      BY <1>2 DEF Define, Result
    <2>2. slots'[k] = r.slot
      BY <1>2 DEF Held, Stored
    <2> HIDE DEF r
    <2>3. slots'[k] # slots[k] => ~Asleep(k)
      BY <2>1, <2>2 DEF Asleep
    <2> QED BY <1>2, <2>3, PlainReply
  <1> QED BY <1>1, <1>2 DEF KvDefine

(***************************************************************************)
(* kv.pin.                                                                 *)
(***************************************************************************)
LEMMA PinReply ==
    ASSUME Held, NEW p, NEW k \in Keys, NEW length, NEW auth, NEW t1,
           KvPin(p, k, length, auth, t1)
    PROVE  Justified /\ Authorized
  <1> DEFINE r == PinAuthenticated(slots[k], now + length, auth, now, t1)
  <1>1. CASE Refuse("pin", p, k, "AuthFailed")
    BY <1>1, RefusalReply
  <1>2. CASE /\ SatisfiesOwner(p, k)
             /\ slots' = [slots EXCEPT ![k] = r.slot]
             /\ reply' = Answer("pin", p, k, r.out)
    <2>1. slots[k].entry = None => r.slot = slots[k]
      BY DEF PinAuthenticated, Result
    <2>2. slots'[k] = r.slot
      BY <1>2 DEF Held, Stored
    <2> HIDE DEF r
    <2>3. slots'[k] # slots[k] => ~Asleep(k)
      BY <2>1, <2>2 DEF Asleep
    <2> QED BY <1>2, <2>3, PlainReply
  <1> QED BY <1>1, <1>2 DEF KvPin

(***************************************************************************)
(* kv.unpin and kv.owner_clear.                                            *)
(***************************************************************************)
LEMMA SmallReplies ==
    ASSUME NEW p, NEW k \in Keys, KvUnpin(p, k) \/ KvOwnerClear(p, k)
    PROVE  Justified /\ Authorized
  <1>1. CASE \E op \in {"unpin", "owner_clear"}, out \in {"NotFound", "AuthFailed"} :
                Refuse(op, p, k, out)
    BY <1>1, RefusalReply
  <1>2. CASE /\ SatisfiesOwner(p, k) /\ ~(slots[k].entry = None /\ slots[k].owner = None)
             /\ \E op \in {"unpin", "owner_clear"} : reply' = Answer(op, p, k, "Ok")
    BY <1>2, PlainReply DEF Asleep
  <1> QED BY <1>1, <1>2 DEF KvUnpin, KvOwnerClear

(***************************************************************************)
(* Every reply of a step is justified and authorized.                      *)
(***************************************************************************)
LEMMA RepliesMean ==
    ASSUME Held, Step
    PROVE  Justified /\ Authorized
  <1> DEFINE J == Justified /\ Authorized
  <1>1. Later \subseteq Time
    BY LaterIsTime DEF Held
  <1>2. CASE Tick
    BY <1>2, KeyConstants DEF Tick, Silence, Justified, Authorized
  <1>3. CASE \/ Crash \/ VaultLock \/ \E valid \in BOOLEAN : VaultUnlock(valid)
             \/ \E c \in Commits : VaultInit(c)
    <2>1. \E op, out : op \notin {"set", "claim"} /\ reply' = Answer(op, None, None, out)
      BY <1>3 DEF Crash, VaultLock, VaultUnlock, VaultInit, Refuse
    <2> QED BY <2>1, PlainReply, KeyConstants
  <1>4. ASSUME NEW p \in Peers, NEW k \in Keys, NEW v \in Values, NEW ttl \in Ttls,
               NEW flag \in PersistFlags, NEW expected \in Option(0..MaxVersion),
               NEW token \in Option(Tokens), NEW owner \in Option(Principals),
               NEW c \in Commits, KvSet(p, k, v, ttl, flag, expected, token, owner, c)
        PROVE  J
    BY <1>4, KeyConstants, SetReply
  <1>5. ASSUME NEW p \in Peers, NEW k \in Keys, NEW run \in Option(Fetched),
               NEW auth \in BOOLEAN, NEW t1 \in Later, KvGet(p, k, run, auth, t1)
        PROVE  J
    BY <1>1, <1>5, GetReply
  <1>6. ASSUME NEW p \in Peers, NEW k \in Keys, NEW with_define \in BOOLEAN, NEW c \in Commits,
               KvDel(p, k, with_define, c)
        PROVE  J
    BY <1>6, DelReply
  <1>7. ASSUME NEW p \in Peers, NEW k \in Keys, NEW expected \in 0..MaxVersion,
               NEW token \in Tokens, NEW ttl \in ClaimTtls, NEW c \in Commits,
               KvClaim(p, k, expected, token, ttl, c)
        PROVE  J
    BY <1>7, ClaimReply
  <1>8. ASSUME NEW p \in Peers, NEW k \in Keys, NEW token \in Tokens, NEW c \in Commits,
               KvUnclaim(p, k, token, c)
        PROVE  J
    BY <1>8, UnclaimReply
  <1>9. ASSUME NEW p \in Peers, NEW k \in Keys, NEW source \in Sources, NEW ttl \in Ttls,
               NEW c \in Commits, KvDefine(p, k, [source |-> source, ttl |-> ttl], c)
        PROVE  J
    BY <1>9, DefineReply
  <1>10. ASSUME NEW p \in Peers, NEW k \in Keys, NEW length \in PinLengths,
                NEW auth \in BOOLEAN, NEW t1 \in Later, KvPin(p, k, length, auth, t1)
         PROVE  J
    BY <1>10, PinReply
  <1>11. ASSUME NEW p \in Peers, NEW k \in Keys, KvUnpin(p, k) \/ KvOwnerClear(p, k)
         PROVE  J
    BY <1>11, SmallReplies
  <1> HIDE DEF J
  <1>12. J
    BY <1>2, <1>3, <1>4, <1>5, <1>6, <1>7, <1>8, <1>9, <1>10, <1>11 DEF Step, J
  <1> QED BY <1>12 DEF J
-----------------------------------------------------------------------------
(* The two copies of a declared entry *)

\* The claim of x that runs at time t.
ClaimAt(x, t) == IF x.claim # None /\ t < x.claim.expires_at THEN x.claim ELSE None

(***************************************************************************)
(* A slot s and a vault entry e that agree at time t; and what the two are *)
(* in an open and in a closed vault.                                       *)
(***************************************************************************)
Twin(s, e, t) ==
    /\ s.entry # None /\ s.entry.value = e.value
    /\ s.guard = e.guard /\ s.version = e.version
    /\ ClaimAt(s, t) = ClaimAt(e, t)

Matches(s, e, opened, t) ==
    IF e = None THEN s.version = 0
    ELSE IF opened THEN Twin(s, e, t)
    ELSE s.guard = None /\ s.claim = None /\ s.version <= e.version

Matched(k) == Matches(slots[k], OnFile(k), Opened, now)

(***************************************************************************)
(* Claims that run until the same time do so later, too; and what a claim  *)
(* allows depends on what runs.                                            *)
(***************************************************************************)
LEMMA ClaimsRunOn ==
    ASSUME NEW x, NEW y, NEW n, NEW f, NEW t \in Time, NEW u \in Time, u >= t,
           x.claim \in Option(RefreshClaims), y.claim \in Option(RefreshClaims),
           n.claim = x.claim, f.claim = y.claim, ClaimAt(x, t) = ClaimAt(y, t)
    PROVE  ClaimAt(n, u) = ClaimAt(f, u)
  <1>1. \A c \in RefreshClaims : c.expires_at \in Nat
    BY DEF RefreshClaims, Time
  <1>2. \A c \in RefreshClaims : u < c.expires_at => t < c.expires_at
    BY <1>1 DEF Time
  <1> QED BY <1>2 DEF ClaimAt, Option

(***************************************************************************)
(* A slot and an entry whose running claims agree allow the same tokens.   *)
(***************************************************************************)
LEMMA SameClaimAllows ==
    ASSUME NEW s \in Slots, NEW e, ClaimAt(s, now) = ClaimAt(e, now), NEW token,
           ClaimAllows(s, token, now)
    PROVE  ClaimAllows(e, token, now)
  BY NoneIsNoEntry DEF ClaimAllows, ClaimAt, ClaimActive

(***************************************************************************)
(* While writes take effect or end the daemon, nothing that is to be       *)
(* persisted is set in memory alone: the vault's copy has the claim of the *)
(* store's.                                                                *)
(***************************************************************************)
LEMMA NeverInMemoryAlone ==
    ASSUME AllOrDeath, NEW k \in PersistedKeys, slots[k] \in Slots, Matched(k)
    PROVE  ~SetsInMemory(k)
  <1> SUFFICES ASSUME SetsInMemory(k) PROVE FALSE
    OBVIOUS
  <1>1. PICK token : /\ Opened /\ ClaimAllows(slots[k], token, now)
                     /\ ~ClaimAllows(OnFile(k), token, now)
    BY DEF SetsInMemory, Sets, AllOrDeath
  <1>2. OnFile(k) # None
    BY <1>1 DEF ClaimAllows
  <1>3. ClaimAt(slots[k], now) = ClaimAt(OnFile(k), now)
    BY <1>1, <1>2 DEF Matched, Matches, Twin
  <1> QED BY <1>1, <1>3, SameClaimAllows

(***************************************************************************)
(* No step makes the copies of a declared entry differ.                    *)
(***************************************************************************)
LEMMA MatchedKept ==
    ASSUME AllOrDeath, Held, Held', Mirrored, NEW k \in PersistedKeys, Resident(k), Matched(k),
           Happens(k), now' >= now
    PROVE  Matched(k)'
  <1> DEFINE s == slots[k]
             n == slots'[k]
             e == OnFile(k)
             f == OnFile(k)'
  <1>1. /\ k \in Keys /\ s \in Slots /\ n \in Slots /\ now \in Time /\ now' \in Time
        /\ e \in Option(VaultEntries) /\ f \in Option(VaultEntries)
    <2>1. k \in Keys
      BY KeyConstants
    <2>2. f \in Option(VaultEntries)
      BY <2>1 DEF Held, Filed, Kept, Entries, OnFile, Option
    <2> QED BY <2>1, <2>2, FileType DEF Held, Stored
  <1>2. /\ s.claim \in Option(RefreshClaims) /\ s.version \in Nat
        /\ e # None => e.claim \in Option(RefreshClaims) /\ e.version \in Nat
    BY <1>1 DEF Slots, VaultEntries, Option
  <1>3. Matches(s, e, Opened, now)
    BY DEF Matched
  <1> SUFFICES Matches(n, f, Opened', now')
    BY DEF Matched
  <1> DEFINE Same == n.version = s.version /\ n.guard = s.guard /\ n.claim = s.claim /\ f = e
                     /\ Opened' = Opened
  <1>4. ASSUME e # None, Opened, n.claim = s.claim, f.claim = e.claim
        PROVE  ClaimAt(n, now') = ClaimAt(f, now')
    <2>1. ClaimAt(s, now) = ClaimAt(e, now)
      BY <1>3, <1>4 DEF Matches, Twin
    <2> QED BY <1>1, <1>2, <1>4, <2>1, ClaimsRunOn
  <1>5. CASE Stays(k)
    <2>1. SameEntry(s, n) /\ n.version = s.version /\ n.guard = s.guard /\ n.claim = s.claim
          /\ f = e /\ Opened' = Opened
      BY <1>5 DEF Stays, SameFile
    <2>2. e # None /\ Opened => n.entry # None /\ n.entry.value = s.entry.value
      BY <2>1 DEF Resident, SameEntry, Lasting
    <2> HIDE DEF s, n, e, f
    <2> QED BY <1>3, <1>4, <2>1, <2>2 DEF Matches, Twin
  <1>6. CASE Fetches(k)
    <2>1. e = None /\ f = e /\ n.version = s.version
      BY <1>6, FetchesBesides DEF Fetches, SameFile
    <2> QED BY <1>3, <2>1 DEF Matches
  <1>7. CASE SetsThrough(k)
    <2>1. PICK v \in Values : /\ Sets(k, v, TRUE) /\ Opened'
                              /\ f = WrittenEntry(k, v, n.guard, n.owner)
      BY <1>7 DEF SetsThrough
    <2>2. /\ n.entry # None /\ n.entry.value = v /\ n.version = s.version + 1 /\ n.claim = None
          /\ Opened
      BY <2>1 DEF Sets
    <2>3. /\ f.value = v /\ f.guard = n.guard /\ f.version = CurrentVersion(e) + 1
          /\ f.claim = None
      BY <2>1 DEF WrittenEntry
    <2>4. CurrentVersion(e) = s.version
      BY <1>3, <2>2 DEF Matches, Twin, CurrentVersion
    <2>5. f # None
      <3>1. f \in VaultEntries
        <4>1. n.guard \in Option(Guards) /\ n.owner \in Option(Principals)
          BY <1>1 DEF Slots
        <4>2. CurrentVersion(e) + 1 \in Nat
          BY <1>2, <2>4
        <4> QED BY <2>1, <4>1, <4>2 DEF WrittenEntry, VaultEntries, Option
      <3> QED BY <3>1, NoneIsNoEntry
    <2> HIDE DEF s, n, e, f
    <2> QED BY <2>1, <2>2, <2>3, <2>4, <2>5 DEF Matches, Twin, ClaimAt
  <1>8. CASE SetsInMemory(k)
    BY <1>1, <1>8, NeverInMemoryAlone
  <1>9. CASE Erases(k) \/ Deletes(k)
    <2>1. f = None
      BY <1>9, DeletedBoth
    <2>2. CASE Erases(k)
      BY <2>1, <2>2 DEF Erases, EmptySlot, Matches
    <2>3. CASE Deletes(k)
      <3>1. e = None
        BY <2>1, <2>3 DEF Deletes, SameFile
      <3>2. Delete(s).version = s.version
        BY <1>1 DEF Delete, Slots
      <3> QED BY <1>3, <2>1, <2>3, <3>1, <3>2 DEF Deletes, Matches
    <2> QED BY <1>9, <2>2, <2>3
  <1>10. ASSUME NEW claim \in Option(RefreshClaims), Opened' = Opened,
                n = [s EXCEPT !.claim = claim], Opened \/ claim = None,
                f = IF Opened /\ e # None THEN [e EXCEPT !.claim = claim] ELSE e
         PROVE  Matches(n, f, Opened', now')
    <2>1. n.entry = s.entry /\ n.guard = s.guard /\ n.version = s.version /\ n.claim = claim
      BY <1>1, <1>10 DEF Slots
    <2>2. e # None => f # None /\ f.value = e.value /\ f.guard = e.guard
                      /\ f.version = e.version /\ (Opened => f.claim = claim)
      <3> SUFFICES ASSUME e # None PROVE f # None /\ f.value = e.value /\ f.guard = e.guard
                      /\ f.version = e.version /\ (Opened => f.claim = claim)
        OBVIOUS
      <3>1. e \in VaultEntries
        BY <1>1 DEF Option
      <3>2. [e EXCEPT !.claim = claim] \in VaultEntries
        BY <3>1 DEF VaultEntries
      <3> HIDE DEF e, f
      <3> QED BY <1>10, <3>1, <3>2, NoneIsNoEntry DEF VaultEntries
    <2>3. e = None => f = None
      BY <1>10
    <2> HIDE DEF s, n, e, f
    <2> QED BY <1>3, <1>10, <2>1, <2>2, <2>3 DEF Matches, Twin, ClaimAt
  <1>11. CASE Claims(k)
    <2>1. Opened
      BY <1>11 DEF Claims, Unavailable, Opened
    <2> QED BY <1>10, <1>11, <2>1 DEF Claims, SetRefreshClaim, Option
  <1>12. CASE Unclaims(k)
    BY <1>10, <1>12 DEF Unclaims, ClearRefreshClaim, Option
  <1>13. CASE Ends(k)
    <2>1. ~Opened' /\ n.guard = None /\ n.claim = None /\ n.version = 0
      BY <1>13 DEF Ends, Starts
    <2>2. f # None => f.version \in Nat
      BY <1>1 DEF VaultEntries, Option
    <2> HIDE DEF s, n, e, f
    <2> QED BY <2>1, <2>2 DEF Matches
  <1>14. CASE Opens(k)
    <2>1. f = e /\ Opened' /\ now' = now
      BY <1>14 DEF Opens
    <2>2. CASE e = None
      BY <1>3, <1>14, <2>1, <2>2 DEF Opens, Matches
    <2>3. CASE e # None
      <3> DEFINE i == InstallEntry(s, e)
      <3>1. n = i
        BY <1>14, <2>3 DEF Opens
      <3>2. /\ Lasting(i) /\ i.entry.value = e.value
            /\ i.guard = IF e.guard = None THEN s.guard ELSE e.guard
            /\ i.claim = IF ClaimActive(e, now) THEN e.claim ELSE s.claim
            /\ i.version = IF e.version > s.version THEN e.version ELSE s.version
        BY <1>1, <2>3, InstallLeaves DEF Option
      <3> HIDE DEF s, n, e, f, i
      <3>3. i.guard = e.guard /\ i.version = e.version
        BY <1>2, <1>3, <2>3, <3>2 DEF Matches, Twin
      <3>4. ClaimAt(i, now) = ClaimAt(e, now)
        BY <1>3, <2>3, <3>2 DEF Matches, Twin, ClaimAt, ClaimActive
      <3> QED BY <2>1, <2>3, <3>1, <3>2, <3>3, <3>4 DEF Matches, Twin, Lasting
    <2> QED BY <2>2, <2>3
  <1>15. CASE Locks(k)
    <2>1. f = e /\ ~Opened' /\ n = IF Opened /\ e # None THEN Delete(s) ELSE s
      BY <1>1, <1>15, FileType DEF Locks
    <2>2. Delete(s).guard = None /\ Delete(s).claim = None /\ Delete(s).version = s.version
      BY <1>1 DEF Delete, Slots
    <2> HIDE DEF s, n, e, f
    <2> QED BY <1>2, <1>3, <2>1, <2>2 DEF Matches, Twin
  <1> QED BY <1>5, <1>6, <1>7, <1>8, <1>9, <1>11, <1>12, <1>13, <1>14, <1>15 DEF Happens

(***************************************************************************)
(* The values a read may return, whatever failed.                          *)
(***************************************************************************)
THEOREM ValuesAreCurrent ==
    ASSUME RenameIsSafe, DeclaredOnly
    PROVE  Spec => [](Declared /\ \A k \in Keys : Current(k))
  <1> DEFINE I == Declared /\ \A k \in Keys : Current(k)
  <1>1. Init => I
    BY DEF Init, Declared, Current, OnFile, Cold, EmptySlot
  <1>2. IInv /\ Resides /\ I /\ [Next]_vars => I'
    <2> SUFFICES ASSUME IInv, Resides, I, [Next]_vars PROVE I'
      OBVIOUS
    <2>1. \A k \in Keys : Happens(k)
      BY NextMeans DEF IInv, Resides, Sound
    <2>2. Declared'
      BY <2>1, DeclaredKept DEF Declared
    <2>3. \A k \in Keys : Current(k)'
      BY <2>1, CurrentKept DEF IInv
    <2> QED BY <2>2, <2>3
  <1> HIDE DEF I
  <1>3. Spec => []I
    BY <1>1, <1>2, DaemonInvariant, DeclaredValuesReside, PTL DEF Spec
  <1> QED BY <1>3 DEF I

(***************************************************************************)
(* A read returns the last value written, or a later one whose fate its    *)
(* writer was not told, however often the vault was locked, the daemon     *)
(* restarted or a write failed in between.  (handler.rs handle_get,        *)
(* write_through_to_vault, install_vault_entries)                          *)
(***************************************************************************)
THEOREM ReadsReturnTheLatest ==
    ASSUME RenameIsSafe, DeclaredOnly
    PROVE  Spec => ReadsLatest
  <1> DEFINE I == Declared /\ \A k \in Keys : Current(k)
             A == reply'.value # None /\ ~reply'.fetched => reply'.value \in last[reply'.key]
  <1>1. IInv /\ I /\ [Next]_vars => [A]_vars
    <2> SUFFICES ASSUME IInv, I, Next PROVE A
      OBVIOUS
    <2>1. Justified
      BY RepliesMean DEF IInv, Next
    <2> QED BY <2>1 DEF Justified, Current
  <1> HIDE DEF I, A
  <1>2. Spec => []I
    BY ValuesAreCurrent DEF I
  <1>3. Spec => [][A]_vars
    BY <1>1, <1>2, DaemonInvariant, PTL DEF Spec
  <1> QED BY <1>3 DEF ReadsLatest, A

(***************************************************************************)
(* The copies of the declared entries.                                     *)
(***************************************************************************)
THEOREM CopiesMatch ==
    ASSUME AllOrDeath
    PROVE  Spec => [](Resides /\ \A k \in PersistedKeys : Matched(k))
  <1> DEFINE I == \A k \in PersistedKeys : Matched(k)
  <1>1. RenameIsSafe
    BY DEF AllOrDeath, RenameIsSafe
  <1>2. Init => I
    BY KeyConstants DEF Init, Matched, Matches, OnFile, Cold, EmptySlot
  <1>3. IInv /\ Resides /\ I /\ [Next]_vars => I'
    <2> SUFFICES ASSUME IInv, Resides, I, [Next]_vars PROVE I'
      OBVIOUS
    <2>1. ASSUME NEW k \in PersistedKeys PROVE Matched(k)'
      <3>1. k \in Keys
        BY KeyConstants
      <3>2. Happens(k)
        BY <1>1, <3>1, NextMeans DEF IInv, Resides, Sound
      <3>3. Held'
        BY StepKeeps DEF IInv, Next, Held, Stored, Filed, Kept, vars, files
      <3>4. now' >= now
        BY TimePasses DEF IInv
      <3> QED BY <3>2, <3>3, <3>4, MatchedKept DEF IInv, Resides
    <2> QED BY <2>1
  <1> HIDE DEF I
  <1>4. Spec => [](Resides /\ I)
    BY <1>1, <1>2, <1>3, DaemonInvariant, DeclaredValuesReside, PTL DEF Spec
  <1> QED BY <1>4 DEF I

(***************************************************************************)
(* The two copies of a declared entry, in memory and in the open vault,    *)
(* agree: value, guard, version and running claim, however often the vault *)
(* is locked and opened, if a write of the vault file takes effect or ends *)
(* the daemon.  (handler.rs write_through_to_vault "keeps the two copies   *)
(* of the counter in step", handle_claim, handle_unclaim)                  *)
(***************************************************************************)
THEOREM CopiesAlwaysAgree ==
    ASSUME AllOrDeath
    PROVE  Spec => []CopiesAgree
  <1>1. Resides /\ (\A k \in PersistedKeys : Matched(k)) => CopiesAgree
    <2> SUFFICES ASSUME Resides, \A i \in PersistedKeys : Matched(i),
                        NEW k \in PersistedKeys, Owned(k)
                 PROVE  /\ slots[k].entry # None /\ slots[k].entry.value = open[k].value
                        /\ slots[k].guard = open[k].guard
                        /\ slots[k].version = open[k].version
                        /\ RunningClaim(slots[k]) = RunningClaim(open[k])
      BY DEF CopiesAgree
    <2>1. Opened /\ OnFile(k) = open[k] /\ OnFile(k) # None
      BY DEF Resides, Mirrored, Owned, OnFile, Opened
    <2>2. Twin(slots[k], OnFile(k), now)
      BY <2>1 DEF Matched, Matches
    <2> QED BY <2>1, <2>2 DEF Twin, ClaimAt, RunningClaim, ClaimActive
  <1> QED BY <1>1, CopiesMatch, PTL
-----------------------------------------------------------------------------
(* What the callers were told *)

(***************************************************************************)
(* The highest version acknowledged, the claim granted and the owner in    *)
(* force are still those of the entry, on file or in memory.               *)
(***************************************************************************)
Counted(k) ==
    top[k] <= IF k \in PersistedKeys THEN CurrentVersion(OnFile(k)) ELSE slots[k].version

Fenced(k) ==
    /\ holder[k] \in Option(RefreshClaims)
    /\ (holder[k] # None /\ now < holder[k].expires_at) =>
          /\ OnFile(k) # None => OnFile(k).claim = holder[k]
          /\ OnFile(k) = None \/ Opened => slots[k].claim = holder[k]

Possessed(k) ==
    owned[k] # None =>
        /\ OnFile(k) # None => OnFile(k).owner = owned[k]
        /\ \/ slots[k].owner = owned[k]
           \/ /\ OnFile(k) # None /\ ~Opened
              /\ slots[k].owner = None /\ slots[k].entry = None /\ slots[k].def # None

(***************************************************************************)
(* What the callers were told is kept together with the two copies and the *)
(* keys that have any.                                                     *)
(***************************************************************************)
Placed ==
    /\ Held /\ Remembered /\ Resides /\ Declared
    /\ \A k \in PersistedKeys : Matched(k)

(***************************************************************************)
(* While writes take effect or end the daemon, what is set in memory alone *)
(* is not on file.                                                         *)
(***************************************************************************)
LEMMA SetBesides ==
    ASSUME AllOrDeath, DeclaredOnly, Placed, NEW k \in Keys, SetsInMemory(k)
    PROVE  /\ k \notin PersistedKeys /\ OnFile(k) = None /\ OnFile(k)' = None
           /\ slots'[k].version = slots[k].version + 1 /\ top'[k] = slots'[k].version
           /\ holder'[k] = None /\ owned'[k] = slots'[k].owner
  <1>1. k \notin PersistedKeys
    BY NeverInMemoryAlone DEF Placed, Held, Stored
  <1>2. OnFile(k) = None
    BY <1>1 DEF Placed, Declared
  <1>3. ~MayPersist(k)
    BY <1>1 DEF DeclaredOnly, MayPersist
  <1> QED BY <1>1, <1>2, <1>3 DEF SetsInMemory, Sets, SameFile

(***************************************************************************)
(* The slot and the file entry of a key, before and after a step, have     *)
(* their types.                                                            *)
(***************************************************************************)
LEMMA KeyTyped ==
    ASSUME Placed, Held', NEW k \in Keys
    PROVE  /\ slots[k] \in Slots /\ slots'[k] \in Slots
           /\ OnFile(k) \in Option(VaultEntries) /\ OnFile(k)' \in Option(VaultEntries)
           /\ now \in Nat /\ now' \in Nat /\ top[k] \in Nat
           /\ CurrentVersion(OnFile(k)) \in Nat /\ slots[k].version \in Nat
           /\ OnFile(k) # None => k \in PersistedKeys
  <1>1. OnFile(k)' \in Option(VaultEntries)
    BY DEF Held, Filed, Kept, Entries, OnFile, Option
  <1>2. slots[k] \in Slots /\ slots'[k] \in Slots /\ OnFile(k) \in Option(VaultEntries)
    BY FileType DEF Placed, Held, Stored
  <1>3. CurrentVersion(OnFile(k)) \in Nat /\ slots[k].version \in Nat
    BY <1>2 DEF CurrentVersion, Slots, VaultEntries, Option
  <1>4. OnFile(k) # None => k \in PersistedKeys
    BY DEF Placed, Declared
  <1> QED BY <1>1, <1>2, <1>3, <1>4 DEF Placed, Held, Remembered, Time

(***************************************************************************)
(* The version a set through to the vault leaves is the next one of both   *)
(* copies.                                                                 *)
(***************************************************************************)
LEMMA NextVersion ==
    ASSUME Placed, NEW k \in PersistedKeys, Opened
    PROVE  slots[k].version = CurrentVersion(OnFile(k))
  BY DEF Placed, Matched, Matches, Twin, CurrentVersion

(***************************************************************************)
(* An entry of the vault with another claim is one, with the same version, *)
(* owner and value.                                                        *)
(***************************************************************************)
LEMMA ClaimedIsEntry ==
    ASSUME NEW e \in VaultEntries, NEW claim \in Option(RefreshClaims)
    PROVE  LET f == [e EXCEPT !.claim = claim]
           IN  /\ f \in VaultEntries /\ f # None /\ f.claim = claim
               /\ f.version = e.version /\ f.owner = e.owner /\ f.value = e.value
               /\ CurrentVersion(f) = CurrentVersion(e)
  <1> DEFINE f == [e EXCEPT !.claim = claim]
  <1>1. /\ f \in VaultEntries /\ f.claim = claim
        /\ f.version = e.version /\ f.owner = e.owner /\ f.value = e.value
    BY DEF VaultEntries
  <1>2. f # None /\ e # None
    BY <1>1, NoneIsNoEntry
  <1> QED BY <1>1, <1>2 DEF CurrentVersion

(***************************************************************************)
(* What a claim, or its end, makes of the entry on file.                   *)
(***************************************************************************)
LEMMA ClaimedFile ==
    ASSUME NEW k \in Keys, OnFile(k) \in Option(VaultEntries), slots[k] \in Slots,
           Claims(k) \/ Unclaims(k)
    PROVE  /\ OnFile(k)' = None <=> OnFile(k) = None
           /\ CurrentVersion(OnFile(k)') = CurrentVersion(OnFile(k))
           /\ OnFile(k) # None => OnFile(k)'.owner = OnFile(k).owner
           /\ slots'[k].version = slots[k].version /\ slots'[k].owner = slots[k].owner
           /\ slots'[k].entry = slots[k].entry /\ slots'[k].def = slots[k].def
  <1>1. PICK claim \in Option(RefreshClaims) :
           /\ slots'[k] = [slots[k] EXCEPT !.claim = claim]
           /\ OnFile(k)' = IF Opened /\ OnFile(k) # None
                           THEN [OnFile(k) EXCEPT !.claim = claim] ELSE OnFile(k)
    BY DEF Claims, Unclaims, SetRefreshClaim, ClearRefreshClaim, Option
  <1>2. /\ slots'[k].version = slots[k].version /\ slots'[k].owner = slots[k].owner
        /\ slots'[k].entry = slots[k].entry /\ slots'[k].def = slots[k].def
    BY <1>1 DEF Slots
  <1>3. CASE OnFile(k) = None \/ ~Opened
    BY <1>1, <1>2, <1>3
  <1>4. CASE OnFile(k) # None /\ Opened
    <2>1. OnFile(k) \in VaultEntries
      BY <1>4 DEF Option
    <2> QED BY <1>1, <1>2, <1>4, <2>1, ClaimedIsEntry
  <1> QED BY <1>3, <1>4

(***************************************************************************)
(* No step takes back a version that was acknowledged.                     *)
(***************************************************************************)
LEMMA CountedKept ==
    ASSUME AllOrDeath, DeclaredOnly, Placed, Held', NEW k \in Keys, Counted(k), Happens(k)
    PROVE  Counted(k)'
  <1> DEFINE s == slots[k]
             n == slots'[k]
             e == OnFile(k)
             f == OnFile(k)'
  <1>1. /\ s \in Slots /\ n \in Slots /\ e \in Option(VaultEntries) /\ f \in Option(VaultEntries)
        /\ top[k] \in Nat /\ CurrentVersion(e) \in Nat /\ s.version \in Nat
        /\ (e # None => k \in PersistedKeys)
    BY KeyTyped
  <1>2. top[k] <= IF k \in PersistedKeys THEN CurrentVersion(e) ELSE s.version
    BY DEF Counted
  <1> SUFFICES top'[k] <= IF k \in PersistedKeys THEN CurrentVersion(f) ELSE n.version
    BY DEF Counted, CurrentVersion
  <1>3. ASSUME top'[k] = top[k], CurrentVersion(f) = CurrentVersion(e), n.version = s.version
        PROVE  top'[k] <= IF k \in PersistedKeys THEN CurrentVersion(f) ELSE n.version
    BY <1>2, <1>3
  <1>4. CASE Stays(k) \/ Fetches(k)
    BY <1>3, <1>4 DEF Stays, Fetches, SameFile
  <1>5. CASE SetsInMemory(k)
    BY <1>1, <1>5, SetBesides DEF Slots
  <1>6. CASE SetsThrough(k)
    <2> PICK v \in Values : /\ Sets(k, v, TRUE) /\ top'[k] = n.version
                            /\ f = WrittenEntry(k, v, n.guard, n.owner)
      BY <1>6 DEF SetsThrough
    <2>1. /\ f.version = CurrentVersion(e) + 1 /\ n.version = s.version + 1 /\ Opened
          /\ k \in PersistedKeys /\ top'[k] = n.version
      <3>1. f.version = CurrentVersion(e) + 1
        BY DEF WrittenEntry
      <3> QED BY <3>1 DEF Sets, MayPersist, DeclaredOnly
    <2>2. f # None => CurrentVersion(f) = f.version
      BY DEF CurrentVersion
    <2>3. s.version = CurrentVersion(e)
      BY <2>1, NextVersion
    <2>4. f # None
      <3>1. f \in VaultEntries
        <4>1. n.guard \in Option(Guards) /\ n.owner \in Option(Principals)
          BY <1>1 DEF Slots
        <4> QED BY <1>1, <4>1 DEF WrittenEntry, VaultEntries, Option
      <3> QED BY <3>1, NoneIsNoEntry
    <2> HIDE DEF s, n, e, f
    <2> QED BY <1>1, <2>1, <2>2, <2>3, <2>4
  <1>7. CASE Erases(k)
    <2>1. top'[k] = 0 /\ n.version = 0
      BY <1>7 DEF Erases, Forgets, EmptySlot
    <2>2. CurrentVersion(f) \in Nat
      BY <1>1 DEF CurrentVersion, VaultEntries, Option
    <2> QED BY <2>1, <2>2
  <1>8. CASE Deletes(k)
    <2>1. Delete(s).version = s.version
      BY <1>1 DEF Delete, Slots
    <2> QED BY <1>3, <1>8, <2>1 DEF Deletes, SameFile
  <1>9. CASE Claims(k) \/ Unclaims(k)
    <2>1. top'[k] = top[k]
      BY <1>9 DEF Claims, Unclaims, SameTale
    <2> QED BY <1>1, <1>3, <1>9, <2>1, ClaimedFile
  <1>10. CASE Ends(k)
    <2>1. CASE f = None /\ Forgets(k)
      BY <1>10, <2>1 DEF Ends, Starts, Forgets, CurrentVersion
    <2>2. CASE f = e /\ SameTale(k) /\ e # None
      BY <1>1, <1>2, <2>2 DEF SameTale
    <2>3. ASSUME NEW v \in Values, NEW guard \in Option(Guards), NEW owner \in Option(Principals),
                 f = WrittenEntry(k, v, guard, owner), MayPersist(k), top'[k] = top[k]
          PROVE  top'[k] <= IF k \in PersistedKeys THEN CurrentVersion(f) ELSE n.version
      <3>1. f \in VaultEntries /\ f.version = CurrentVersion(e) + 1
        BY <1>1, <2>3 DEF WrittenEntry, VaultEntries, Option
      <3>2. f # None /\ k \in PersistedKeys
        BY <2>3, <3>1, NoneIsNoEntry DEF MayPersist, DeclaredOnly
      <3>3. CurrentVersion(f) = CurrentVersion(e) + 1
        BY <3>1, <3>2 DEF CurrentVersion
      <3> HIDE DEF s, n, e, f
      <3> QED BY <1>1, <1>2, <2>3, <3>2, <3>3
    <2>4. ASSUME NEW claim \in Option(RefreshClaims), e # None, SameTale(k),
                 f = [e EXCEPT !.claim = claim]
          PROVE  top'[k] <= IF k \in PersistedKeys THEN CurrentVersion(f) ELSE n.version
      <3>1. e \in VaultEntries
        BY <1>1, <2>4 DEF Option
      <3>2. CurrentVersion(f) = CurrentVersion(e)
        BY <2>4, <3>1, ClaimedIsEntry
      <3> HIDE DEF s, n, e, f
      <3> QED BY <1>1, <1>2, <2>4, <3>2 DEF SameTale
    <2> QED BY <1>10, <2>1, <2>2, <2>3, <2>4 DEF Ends
  <1>11. CASE Opens(k) \/ Locks(k)
    <2>1. f = e /\ top'[k] = top[k]
      BY <1>11 DEF Opens, Locks, SameTale
    <2>2. CASE k \in PersistedKeys
      BY <1>2, <2>1, <2>2
    <2>3. CASE k \notin PersistedKeys
      <3>1. ~Owned(k)
        BY <1>1, <2>3, FileType DEF Placed, Resides
      <3>2. n = s
        BY <1>1, <1>11, <2>3, <3>1 DEF Opens, Locks
      <3> QED BY <1>2, <2>1, <2>3, <3>2
    <2> QED BY <2>2, <2>3
  <1> QED BY <1>4, <1>5, <1>6, <1>7, <1>8, <1>9, <1>10, <1>11 DEF Happens

(***************************************************************************)
(* No step loses a claim that runs.                                        *)
(***************************************************************************)
LEMMA FencedKept ==
    ASSUME Held, Resides, Declared, Held', NEW k \in Keys, Fenced(k), Happens(k), now' >= now
    PROVE  Fenced(k)'
  <1> DEFINE s == slots[k]
             n == slots'[k]
             e == OnFile(k)
             f == OnFile(k)'
             c == holder[k]
             Runs == c # None /\ now < c.expires_at
             Running == holder'[k] # None /\ now' < holder'[k].expires_at
             Goal == /\ holder'[k] \in Option(RefreshClaims)
                     /\ Running => /\ f # None => f.claim = holder'[k]
                                   /\ f = None \/ Opened' => n.claim = holder'[k]
  <1>1. /\ s \in Slots /\ n \in Slots /\ e \in Option(VaultEntries) /\ f \in Option(VaultEntries)
        /\ now \in Nat /\ now' \in Nat
        /\ (e # None => k \in PersistedKeys)
    <2>1. OnFile(k)' \in Option(VaultEntries)
      BY DEF Held, Filed, Kept, Entries, OnFile, Option
    <2>2. slots[k] \in Slots /\ slots'[k] \in Slots /\ OnFile(k) \in Option(VaultEntries)
      BY FileType DEF Held, Stored
    <2>3. now \in Nat /\ now' \in Nat
      BY DEF Held, Time
    <2> QED BY <2>1, <2>2, <2>3 DEF Declared
  <1>2. /\ c \in Option(RefreshClaims)
        /\ Runs => /\ e # None => e.claim = c
                   /\ e = None \/ Opened => s.claim = c
    BY DEF Fenced
  <1> SUFFICES Goal
    BY DEF Fenced
  <1>3. CASE holder'[k] = None
    BY <1>3 DEF Option
  <1>4. ASSUME holder'[k] = c,
               Runs => (f # None => f.claim = c) /\ (f = None \/ Opened' => n.claim = c)
        PROVE  Goal
    <2>1. c # None => c.expires_at \in Nat
      BY <1>2 DEF Option, RefreshClaims, Time
    <2>2. Running => Runs
      BY <1>1, <1>4, <2>1
    <2> QED BY <1>2, <1>4, <2>2
  <1>5. CASE Stays(k)
    <2>1. n.claim = s.claim /\ f = e /\ Opened' = Opened /\ holder'[k] \in {c, None}
      BY <1>5 DEF Stays, SameFile
    <2> QED BY <1>2, <1>3, <1>4, <2>1
  <1>6. CASE \/ Fetches(k) \/ SetsInMemory(k) \/ SetsThrough(k)
             \/ Erases(k) \/ Deletes(k) \/ Unclaims(k)
    <2>1. holder'[k] = None
      BY <1>6 DEF Fetches, SetsInMemory, SetsThrough, Sets, Erases, Forgets, Deletes, Unclaims
    <2> QED BY <1>3, <2>1
  <1>7. CASE Claims(k)
    <2>1. PICK claim \in RefreshClaims :
             /\ ~Unavailable(k) /\ n = SetRefreshClaim(s, claim) /\ holder'[k] = claim
             /\ f = IF Opened /\ e # None THEN [e EXCEPT !.claim = claim] ELSE e
      BY <1>7 DEF Claims
    <2>2. n.claim = claim
      BY <1>1, <2>1 DEF SetRefreshClaim, Slots
    <2>3. CASE e = None
      <3>1. f = None
        BY <2>1, <2>3
      <3> QED BY <2>1, <2>2, <3>1 DEF Option
    <2>4. CASE e # None
      <3>1. Opened
        BY <1>1, <2>1, <2>4 DEF Unavailable, Opened
      <3>2. e \in VaultEntries /\ claim \in Option(RefreshClaims)
        BY <1>1, <2>4 DEF Option
      <3>3. f # None /\ f.claim = claim
        BY <2>1, <2>4, <3>1, <3>2, ClaimedIsEntry
      <3>4. holder'[k] = claim
        BY <2>1
      <3> QED BY <2>2, <3>2, <3>3, <3>4
    <2> QED BY <2>3, <2>4
  <1>8. CASE Ends(k)
    <2>1. CASE Forgets(k) \/ holder'[k] = None
      BY <1>3, <2>1 DEF Forgets
    <2>2. CASE f = e /\ e # None /\ ~Opened' /\ holder'[k] = c
      BY <1>2, <1>4, <2>2
    <2>3. CASE Opened /\ e # None /\ ~ClaimActive(s, now) /\ holder'[k] = c
      <3>1. ~Runs
        BY <1>2, <2>3 DEF ClaimActive
      <3> QED BY <1>4, <2>3, <3>1
    <2> QED BY <1>8, <2>1, <2>2, <2>3 DEF Ends
  <1>9. CASE Opens(k) \/ Locks(k)
    <2>1. f = e /\ holder'[k] = c
      BY <1>9 DEF Opens, Locks
    <2>2. e = None => n = s
      <3>1. e = None => ~Owned(k)
        BY <1>1, FileType DEF Resides
      <3> QED BY <1>9, <3>1 DEF Opens, Locks
    <2>3. (Runs /\ e # None /\ Opened') => n.claim = c
      <3> SUFFICES ASSUME Runs, e # None, Opened' PROVE n.claim = c
        OBVIOUS
      <3>1. n = InstallEntry(s, e)
        BY <1>9 DEF Opens, Locks
      <3>2. InstallEntry(s, e).claim = IF ClaimActive(e, now) THEN e.claim ELSE s.claim
        BY <1>1, InstallLeaves DEF Held, Option
      <3>3. e.claim = c /\ ClaimActive(e, now)
        BY <1>2 DEF ClaimActive
      <3> HIDE DEF s, n, e, f
      <3> QED BY <3>1, <3>2, <3>3
    <2> QED BY <1>2, <1>4, <2>1, <2>2, <2>3
  <1> QED BY <1>5, <1>6, <1>7, <1>8, <1>9 DEF Happens

(***************************************************************************)
(* No step loses an owner that is in force: it is in memory, or in the     *)
(* closed vault with a slot that is asleep.                                *)
(***************************************************************************)
LEMMA PossessedKept ==
    ASSUME AllOrDeath, DeclaredOnly, ConfiguredKeys, Placed, Held', NEW k \in Keys,
           Possessed(k), Happens(k)
    PROVE  Possessed(k)'
  <1> DEFINE s == slots[k]
             n == slots'[k]
             e == OnFile(k)
             f == OnFile(k)'
             Goal == owned'[k] # None =>
                        /\ f # None => f.owner = owned'[k]
                        /\ \/ n.owner = owned'[k]
                           \/ /\ f # None /\ ~Opened'
                              /\ n.owner = None /\ n.entry = None /\ n.def # None
  <1>1. /\ s \in Slots /\ n \in Slots /\ e \in Option(VaultEntries) /\ f \in Option(VaultEntries)
        /\ (e # None => k \in PersistedKeys)
    BY KeyTyped
  <1>2. owned[k] # None =>
           /\ e # None => e.owner = owned[k]
           /\ \/ s.owner = owned[k]
              \/ /\ e # None /\ ~Opened
                 /\ s.owner = None /\ s.entry = None /\ s.def # None
    BY DEF Possessed
  <1> SUFFICES Goal
    BY DEF Possessed
  <1>3. CASE owned'[k] = None
    BY <1>3
  <1>4. CASE Stays(k)
    <2>1. /\ (n.entry = None <=> s.entry = None) /\ f = e /\ Opened' = Opened
          /\ owned'[k] = None \/ (owned'[k] = owned[k] /\ n.owner = s.owner)
          /\ s.def # None => n.def # None
      BY <1>4 DEF Stays, SameEntry, SameFile
    <2> HIDE DEF s, n, e, f
    <2> QED BY <1>2, <2>1
  <1>5. CASE Fetches(k)
    <2>1. /\ s.entry = None => ~Unavailable(k)
          /\ n.owner = s.owner /\ f = e /\ owned'[k] = owned[k]
      BY <1>5 DEF Fetches, SameFile
    <2>2. e # None /\ ~Opened => Unavailable(k)
      BY <1>1 DEF Unavailable, Opened
    <2> HIDE DEF s, n, e, f
    <2> QED BY <1>2, <2>1, <2>2
  <1>6. CASE SetsInMemory(k)
    BY <1>6, SetBesides
  <1>7. CASE SetsThrough(k)
    <2>1. owned'[k] = n.owner /\ f.owner = n.owner
      BY <1>7 DEF SetsThrough, Sets, WrittenEntry
    <2> QED BY <2>1
  <1>8. CASE Erases(k)
    BY <1>3, <1>8 DEF Erases, Forgets
  <1>9. CASE Deletes(k)
    <2>1. f = None /\ e = None
      BY <1>9, NothingOnFile DEF Placed, Deletes, SameFile
    <2>2. n.owner = s.owner /\ owned'[k] = owned[k]
      BY <1>1, <1>9 DEF Deletes, Delete, Slots
    <2> HIDE DEF s, n, e, f
    <2> QED BY <1>2, <2>1, <2>2
  <1>10. CASE Claims(k) \/ Unclaims(k)
    <2>1. /\ f = None <=> e = None
          /\ e # None => f.owner = e.owner
          /\ n.owner = s.owner /\ n.entry = s.entry /\ n.def = s.def
      BY <1>1, <1>10, ClaimedFile
    <2>2. owned'[k] = owned[k] /\ Opened' = Opened
      BY <1>10 DEF Claims, Unclaims, SameTale
    <2> HIDE DEF s, n, e, f
    <2> QED BY <1>2, <2>1, <2>2
  <1>11. CASE Ends(k)
    <2>1. /\ ~Opened' /\ n.owner = None /\ n.entry = None
          /\ k \in PersistedKeys => n.def # None
      BY <1>11 DEF Ends, Starts, ConfiguredKeys
    <2>2. ASSUME owned'[k] # None PROVE f # None /\ f.owner = owned'[k] /\ k \in PersistedKeys
      <3>1. CASE f = e /\ SameTale(k) /\ e # None
        BY <1>1, <1>2, <2>2, <3>1 DEF SameTale
      <3>2. ASSUME NEW v \in Values, NEW guard \in Option(Guards),
                   NEW owner \in Option(Principals),
                   f = WrittenEntry(k, v, guard, owner), MayPersist(k), owned'[k] = owner
            PROVE  f # None /\ f.owner = owned'[k] /\ k \in PersistedKeys
        <4>1. f.owner = owner
          BY <3>2 DEF WrittenEntry
        <4>2. f \in VaultEntries
          <5>1. CurrentVersion(e) + 1 \in Nat
            BY KeyTyped
          <5> QED BY <3>2, <5>1 DEF WrittenEntry, VaultEntries, Option
        <4> QED BY <3>2, <4>1, <4>2, NoneIsNoEntry DEF MayPersist, DeclaredOnly
      <3>3. ASSUME NEW claim \in Option(RefreshClaims), e # None, SameTale(k),
                   f = [e EXCEPT !.claim = claim]
            PROVE  f # None /\ f.owner = owned'[k] /\ k \in PersistedKeys
        <4>1. e \in VaultEntries
          BY <1>1, <3>3 DEF Option
        <4>2. f # None /\ f.owner = e.owner
          BY <3>3, <4>1, ClaimedIsEntry
        <4> QED BY <1>1, <1>2, <2>2, <3>3, <4>2 DEF SameTale
      <3>4. ~Forgets(k)
        BY <2>2 DEF Forgets
      <3> QED BY <1>11, <3>1, <3>2, <3>3, <3>4 DEF Ends
    <2> QED BY <2>1, <2>2
  <1>12. CASE Opens(k)
    <2>1. f = e /\ owned'[k] = owned[k] /\ n = IF e = None THEN s ELSE InstallEntry(s, e)
      BY <1>12 DEF Opens, SameTale
    <2>2. e # None => InstallEntry(s, e).owner = IF e.owner = None THEN s.owner ELSE e.owner
      BY <1>1, InstallLeaves DEF Placed, Held, Option
    <2> HIDE DEF s, n, e, f
    <2> QED BY <1>2, <2>1, <2>2
  <1>13. CASE Locks(k)
    <2>1. /\ f = e /\ owned'[k] = owned[k] /\ ~Opened'
          /\ n = IF Opened /\ e # None THEN Delete(s) ELSE s
      BY <1>13, FileType DEF Locks, SameTale, Placed, Resides
    <2>2. Delete(s).owner = s.owner
      BY <1>1 DEF Delete, Slots
    <2> HIDE DEF s, n, e, f
    <2> QED BY <1>2, <2>1, <2>2
  <1> QED BY <1>4, <1>5, <1>6, <1>7, <1>8, <1>9, <1>10, <1>11, <1>12, <1>13 DEF Happens

(***************************************************************************)
(* Where the values and the claims are, in every state.                    *)
(***************************************************************************)
LEMMA PlacedAlways ==
    ASSUME AllOrDeath, DeclaredOnly
    PROVE  Spec => []Placed
  <1> DEFINE C == Resides /\ \A k \in PersistedKeys : Matched(k)
             D == Declared /\ \A k \in Keys : Current(k)
  <1>1. RenameIsSafe
    BY DEF AllOrDeath, RenameIsSafe
  <1>2. IInv /\ C /\ D => Placed
    BY DEF IInv, Placed
  <1> HIDE DEF C, D
  <1>3. Spec => []C
    BY CopiesMatch DEF C
  <1>4. Spec => []D
    BY <1>1, ValuesAreCurrent DEF D
  <1> QED BY <1>2, <1>3, <1>4, DaemonInvariant, PTL

(***************************************************************************)
(* What a step from there means for the keys.                              *)
(***************************************************************************)
LEMMA PlacedMeans ==
    ASSUME AllOrDeath, Placed, [Next]_vars
    PROVE  Held' /\ now' >= now /\ \A k \in Keys : Happens(k)
  <1>1. RenameIsSafe
    BY DEF AllOrDeath, RenameIsSafe
  <1>2. \A k \in Keys : Happens(k)
    BY <1>1, NextMeans DEF Placed, Resides, Sound
  <1>3. Held'
    BY StepKeeps DEF Placed, Next, Held, Stored, Filed, Kept, vars, files
  <1>4. now' >= now
    BY TimePasses DEF Placed
  <1> QED BY <1>2, <1>3, <1>4

(***************************************************************************)
(* Versions told to writers only grow while the entry lives, so a          *)
(* compare-and-swap never succeeds against a write it has not seen, even   *)
(* one of a previous process.  (handler.rs kv.set, install_vault_entries;  *)
(* DR-0034 section 4)                                                      *)
(***************************************************************************)
THEOREM VersionsOnlyAdvance ==
    ASSUME AllOrDeath, DeclaredOnly
    PROVE  Spec => VersionsAdvance
  <1> DEFINE I == \A k \in Keys : Counted(k)
             A == reply'.op = "set" /\ reply'.out = "Ok" => reply'.version > top[reply'.key]
  <1>1. Init => I
    BY DEF Init, Counted, OnFile, CurrentVersion, Cold, EmptySlot
  <1>2. Placed /\ I /\ [Next]_vars => I'
    BY PlacedMeans, CountedKept
  <1>3. Placed /\ I /\ [Next]_vars => [A]_vars
    <2> SUFFICES ASSUME Placed, I, Next, reply'.op = "set", reply'.out = "Ok"
                 PROVE  reply'.version > top[reply'.key]
      OBVIOUS
    <2> DEFINE k == reply'.key
    <2>1. /\ k \in Keys /\ reply'.version = slots[k].version + 1
          /\ k \in PersistedKeys => Opened
      BY RepliesMean DEF Placed, Next, Justified
    <2> HIDE DEF k
    <2>2. /\ top[k] \in Nat /\ slots[k].version \in Nat
      BY <2>1, PlacedMeans, KeyTyped
    <2>3. top[k] <= slots[k].version
      BY <2>1, NextVersion DEF Counted
    <2>4. reply'.version > top[k]
      BY <2>1, <2>2, <2>3
    <2> QED BY <2>4 DEF k
  <1> HIDE DEF I, A
  <1>4. Spec => [][A]_vars
    BY <1>1, <1>2, <1>3, PlacedAlways, PTL DEF Spec
  <1> QED BY <1>4 DEF VersionsAdvance, A

(***************************************************************************)
(* While a granted claim runs, only its token writes the entry or claims   *)
(* it, through locking and restarts.  (handler.rs check_claim_fence,       *)
(* handle_claim, take_claim_in_vault, install_vault_entries)               *)
(***************************************************************************)
THEOREM ClaimsFence ==
    ASSUME RenameIsSafe, DeclaredOnly
    PROVE  Spec => ClaimFenced
  <1> DEFINE I == \A k \in Keys : Fenced(k)
             A == \A k \in Keys :
                     ((Told("set", k) \/ Told("claim", k)) /\ holder[k] # None
                      /\ now < holder[k].expires_at) => reply'.token = holder[k].token
             R == Held /\ Resides /\ Declared
  <1>1. Init => I
    BY DEF Init, Fenced, Option
  <1>2. R /\ I /\ [Next]_vars => I'
    <2> SUFFICES ASSUME R, I, [Next]_vars PROVE I'
      OBVIOUS
    <2>1. \A k \in Keys : Happens(k)
      BY NextMeans DEF Resides, Sound
    <2>2. Held' /\ now' >= now
      BY StepKeeps, TimePasses DEF Next, Held, Stored, Filed, Kept, vars, files
    <2> QED BY <2>1, <2>2, FencedKept
  <1>3. R /\ I /\ [Next]_vars => [A]_vars
    <2> SUFFICES ASSUME R, I, Next, NEW k \in Keys, Told("set", k) \/ Told("claim", k),
                        holder[k] # None, now < holder[k].expires_at
                 PROVE  reply'.token = holder[k].token
      OBVIOUS
    <2>1. Justified
      BY RepliesMean DEF Next
    <2>2. k \in PersistedKeys => Opened
      BY <2>1 DEF Justified, Told, Unavailable, Opened
    <2>3. ClaimActive(slots[k], now) /\ slots[k].claim = holder[k]
      <3>1. OnFile(k) = None \/ Opened
        BY <2>2 DEF Declared
      <3> QED BY <3>1 DEF Fenced, ClaimActive
    <2>4. slots[k] # None
      BY NoneIsNoEntry DEF Held, Stored
    <2> QED BY <2>1, <2>3, <2>4 DEF Justified, Told, ClaimAllows
  <1>4. IInv /\ Resides /\ (Declared /\ \A k \in Keys : Current(k)) => R
    BY DEF IInv
  <1> HIDE DEF I, A, R
  <1>5. Spec => []R
    BY <1>4, DaemonInvariant, DeclaredValuesReside, ValuesAreCurrent, PTL
  <1>6. Spec => [][A]_vars
    BY <1>1, <1>2, <1>3, <1>5, PTL DEF Spec
  <1> QED BY <1>6 DEF ClaimFenced, A

(***************************************************************************)
(* As long as an owner is in force, nobody else reads the entry or changes *)
(* it, through locking, restarts and unanswered writes: what the closed    *)
(* vault has of a declared key is neither read nor changed without it.     *)
(* (handler.rs require_owner)                                              *)
(***************************************************************************)
THEOREM OwnersRule ==
    ASSUME AllOrDeath, DeclaredOnly, ConfiguredKeys
    PROVE  Spec => OwnerInForce
  <1> DEFINE I == \A k \in Keys : Possessed(k)
             A == \A k \in Keys :
                     (/\ reply'.key = k /\ owned[k] # None
                      /\ reply'.value # None \/ (reply'.out = "Ok" /\ slots'[k] # slots[k]))
                         => reply'.peer \in owned[k]
  <1>1. Init => I
    BY DEF Init, Possessed
  <1>2. Placed /\ I /\ [Next]_vars => I'
    BY PlacedMeans, PossessedKept
  <1>3. Placed /\ I /\ [Next]_vars => [A]_vars
    <2> SUFFICES ASSUME Placed, I, Next, NEW k \in Keys, reply'.key = k, owned[k] # None,
                        reply'.value # None \/ (reply'.out = "Ok" /\ slots'[k] # slots[k])
                 PROVE  reply'.peer \in owned[k]
      OBVIOUS
    <2>1. SatisfiesOwner(reply'.peer, k) /\ ~Asleep(k)
      BY RepliesMean DEF Placed, Next, Authorized
    <2>2. slots[k].owner = owned[k]
      <3>1. OnFile(k) # None => k \in PersistedKeys
        BY DEF Placed, Declared
      <3> QED BY <2>1, <3>1 DEF Possessed, Asleep, Unavailable, Opened
    <2> QED BY <2>1, <2>2 DEF SatisfiesOwner
  <1> HIDE DEF I, A
  <1>4. Spec => [][A]_vars
    BY <1>1, <1>2, <1>3, PlacedAlways, PTL DEF Spec
  <1> QED BY <1>4 DEF OwnerInForce, A

=============================================================================
