----------------------------- MODULE StoreProofs ----------------------------
(***************************************************************************)
(* Theorems about Store, for every set of keys, every choice of lifetimes  *)
(* and every bound on the clock.                                           *)
(***************************************************************************)
EXTENDS Store, StoreOpsProofs, TLAPS

-----------------------------------------------------------------------------
(* The operators on entries and slots are closed *)

USE DEF Time

(***************************************************************************)
(* The refusable methods yield a slot and a result (store.rs extend,       *)
(* extend_authenticated, pin_authenticated).                               *)
(***************************************************************************)
LEMMA ResultOpsType ==
    ASSUME NEW s \in Slots, NEW t0 \in Time, NEW t1 \in Time, NEW d \in Time,
           NEW auth \in BOOLEAN
    PROVE  /\ Extend(s, t0) \in [slot : Slots, out : Outs]
           /\ ExtendAuthenticated(s, auth, t0, t1) \in [slot : Slots, out : Outs]
           /\ PinAuthenticated(s, d, auth, t0, t1) \in [slot : Slots, out : Outs]
  BY ResultOpsClosed DEF Results, Outs

(***************************************************************************)
(* A registration yields a slot and a result (store.rs define_with_meta).  *)
(***************************************************************************)
LEMMA DefineType ==
    ASSUME NEW s \in Slots, NEW def \in Definitions
    PROVE  Define(s, def) \in [slot : Slots, out : Outs]
  BY DefineClosed DEF Results, Outs

(***************************************************************************)
(* The two upstream methods yield a slot and a result (store.rs            *)
(* regenerate, get_or_regenerate).                                         *)
(***************************************************************************)
LEMMA UpstreamOpsType ==
    ASSUME NEW s \in Slots, NEW t0 \in Time, NEW t1 \in Time,
           NEW run \in Option(Values), NEW auth \in BOOLEAN
    PROVE  /\ Regenerate(s, run, auth, t0, t1) \in [slot : Slots, out : Outs]
           /\ GetOrRegenerate(s, run, auth, t0, t1) \in [slot : Slots, out : Outs]
  BY UpstreamOpsClosed DEF Results, Outs

-----------------------------------------------------------------------------
(* Type correctness *)

(***************************************************************************)
(* The clock readings a call can end at are times, none before its start.  *)
(***************************************************************************)
LEMMA LaterIsLater ==
    ASSUME now \in Time, NEW t \in Later
    PROVE  t \in Time /\ now <= t
  BY BoundsAreTimes DEF Later

(***************************************************************************)
(* A reply built for a call is a reply, carries no value and reports no    *)
(* upstream run until the call says so (the return values of store.rs).    *)
(***************************************************************************)
LEMMA ReplyType ==
    ASSUME NEW op \in Ops, NEW k \in Keys, NEW out \in Outs
    PROVE  /\ NoReply \in Replies
           /\ Reply(op, k, out) \in Replies
           /\ Reply(op, k, out).value = None
           /\ Reply(op, k, out).key = k
           /\ Reply(op, k, out).out = out
           /\ Reply(op, k, out).op = op
           /\ Reply(op, k, out).ran = FALSE
  BY DEF NoReply, Reply, Replies, Ops, Outs, Option

(***************************************************************************)
(* The names the calls of Store report themselves under (the methods of    *)
(* store.rs).                                                              *)
(***************************************************************************)
LEMMA Vocabulary ==
    /\ {"set", "get", "state_of", "extend", "extend_authenticated", "pin_authenticated",
        "unpin", "regenerate", "get_or_regenerate", "define", "undefine", "delete",
        "delete_with_definition"} \subseteq Ops
    /\ {"Ok", "NotFound"} \subseteq Outs
  BY DEF Ops, Outs

-----------------------------------------------------------------------------
(* The inductive invariant *)

(***************************************************************************)
(* A freshly built store, with every map empty, satisfies the invariant    *)
(* (StoreBuilder::build).                                                  *)
(***************************************************************************)
LEMMA InitInv == Init => IInv
  BY SlotOpsType, ReplyType, LaterIsLater
     DEF Init, IInv, TypeOK, Bookkeeping, Tracks, Remembers, EmptySlot, Slots, Option,
         NoReply, Replies, Ops, Outs

(***************************************************************************)
(* A step that touches one key re-establishes the invariant if it does so  *)
(* for that key: the clock only moves forward, so the others keep it.      *)
(***************************************************************************)
Moves(k, s1, l1, f1) ==
    /\ slots' = [slots EXCEPT ![k] = s1] /\ s1 \in Slots
    /\ life' = [life EXCEPT ![k] = l1] /\ l1 \in Option(Lives)
    /\ failed' = [failed EXCEPT ![k] = f1] /\ f1 \in Option(Time)
    /\ now' \in Time /\ now <= now'
    /\ reply' \in Replies
    /\ Tracks(s1, l1) /\ Remembers(s1, f1, now')

(***************************************************************************)
(* Such a step keeps the whole invariant: every map of store.rs is changed *)
(* at the key of the call and nowhere else.                                *)
(***************************************************************************)
LEMMA OneKey ==
    ASSUME IInv, NEW k \in Keys, NEW s1, NEW l1, NEW f1, Moves(k, s1, l1, f1)
    PROVE  IInv'
  <1>1. TypeOK'
    BY DEF IInv, TypeOK, Moves
  <1>2. ASSUME NEW j \in Keys
        PROVE  Tracks(slots'[j], life'[j]) /\ Remembers(slots'[j], failed'[j], now')
    <2>1. CASE j = k
      BY <2>1 DEF IInv, TypeOK, Moves
    <2>2. CASE j # k
      <3>1. slots'[j] = slots[j] /\ life'[j] = life[j] /\ failed'[j] = failed[j]
        BY <2>2 DEF IInv, TypeOK, Moves
      <3>2. Tracks(slots[j], life[j]) /\ Remembers(slots[j], failed[j], now)
        BY DEF IInv, Bookkeeping
      <3>3. failed[j] # None => failed[j] \in Nat
        BY DEF IInv, TypeOK, Option
      <3> QED BY <3>1, <3>2, <3>3, BackoffIsDuration DEF Remembers, IInv, TypeOK, Moves
    <2> QED BY <2>1, <2>2
  <1> QED BY <1>1, <1>2 DEF IInv, Bookkeeping

(***************************************************************************)
(* What the invariant says about one key.                                  *)
(***************************************************************************)
LEMMA AtKey ==
    ASSUME IInv, NEW k \in Keys
    PROVE  /\ slots[k] \in Slots /\ life[k] \in Option(Lives) /\ failed[k] \in Option(Time)
           /\ now \in Time
           /\ Tracks(slots[k], life[k])
           /\ Remembers(slots[k], failed[k], now)
           /\ slots = [slots EXCEPT ![k] = slots[k]]
           /\ life = [life EXCEPT ![k] = life[k]]
           /\ failed = [failed EXCEPT ![k] = failed[k]]
  BY DEF IInv, TypeOK, Bookkeeping

(***************************************************************************)
(* Reading a slot, which may destroy its value, changes neither the        *)
(* bookkeeping nor the backoff.                                            *)
(***************************************************************************)
LEMMA EvaluatedKeeps ==
    ASSUME NEW s \in Slots, NEW t \in Time, NEW l \in Option(Lives)
    PROVE  /\ Tracks(s, l) => Tracks(Evaluated(s, t), l)
           /\ Evaluated(s, t).backoff = s.backoff
           /\ Evaluated(s, t).def = s.def
  <1>1. Evaluated(s, t).backoff = s.backoff /\ Evaluated(s, t).def = s.def
    BY DEF Evaluated, Slots
  <1>2. Tracks(s, l) => Tracks(Evaluated(s, t), l)
    <2>1. s.entry # None => s.entry \in CacheEntries
      BY DEF Slots, Option
    <2> QED BY <2>1 DEF Tracks, Evaluated, Evaluate, Zeroize, Slots, CacheEntries
  <1> QED BY <1>1, <1>2

(***************************************************************************)
(* Store::extend either leaves the bookkeeping alone or records t as the   *)
(* last approval.                                                          *)
(***************************************************************************)
LEMMA ExtendKeeps ==
    ASSUME NEW s \in Slots, NEW t \in Time, NEW l \in Option(Lives), Tracks(s, l)
    PROVE  LET r == Extend(s, t) IN
           /\ r.slot.backoff = s.backoff
           /\ r.out = "Ok" => l \in Lives /\ Tracks(r.slot, [l EXCEPT !.approved = t])
           /\ r.out # "Ok" => Tracks(r.slot, l)
  <1>1. s.entry # None => s.entry \in CacheEntries
    BY DEF Slots, Option
  <1>2. Tracks(Evaluated(s, t), l) /\ Evaluated(s, t).backoff = s.backoff
    BY EvaluatedKeeps
  <1>3. CASE s.entry = None
    BY <1>3 DEF Extend, Result, StateOf
  <1>4. CASE s.entry # None /\ StateOf(s, t) = "HardExpired"
    BY <1>2, <1>4 DEF Extend, Result
  <1>5. CASE s.entry # None /\ StateOf(s, t) # "HardExpired"
    <2>1. Extend(s, t) = Result([s EXCEPT !.entry = [s.entry EXCEPT !.extended_at = t]], "Ok")
      BY <1>5 DEF Extend, ExtendEntry, StateOf
    <2>2. l \in Lives
      BY <1>5 DEF Tracks, Option
    <2> DEFINE u == [s EXCEPT !.entry = [s.entry EXCEPT !.extended_at = t]]
    <2>3. u.entry = [s.entry EXCEPT !.extended_at = t] /\ u.backoff = s.backoff
      BY DEF Slots
    <2>4. /\ u.entry.ttl = s.entry.ttl
          /\ u.entry.loaded_at = s.entry.loaded_at
          /\ u.entry.extended_at = t
          /\ u.entry.pin = s.entry.pin
      BY <1>1, <1>5, <2>3 DEF CacheEntries
    <2> DEFINE m == [l EXCEPT !.approved = t]
    <2>5. m.ttl = l.ttl /\ m.birth = l.birth /\ m.approved = t /\ m.granted = l.granted
      BY <2>2 DEF Lives
    <2>6. m \in Lives
      BY <2>2 DEF Lives
    <2>7. Tracks(u, m)
      <3> HIDE DEF u, m
      <3> QED BY <1>5, <2>4, <2>5, <2>6 DEF Tracks
    <2>8. Extend(s, t).slot = u /\ Extend(s, t).out = "Ok"
      BY <2>1 DEF Result
    <2> HIDE DEF u
    <2> QED BY <2>2, <2>3, <2>7, <2>8
  <1> QED BY <1>3, <1>4, <1>5

(***************************************************************************)
(* Store::extend_authenticated likewise, at the time its prompt ended.     *)
(***************************************************************************)
LEMMA ExtendAuthenticatedKeeps ==
    ASSUME NEW s \in Slots, NEW t0 \in Time, NEW t1 \in Time, NEW auth \in BOOLEAN,
           NEW l \in Option(Lives), Tracks(s, l)
    PROVE  LET r == ExtendAuthenticated(s, auth, t0, t1)
               t == IF StateOf(s, t0) = "SoftExpired" THEN t1 ELSE t0
           IN
           /\ r.slot.backoff = s.backoff
           /\ r.out = "Ok" => l \in Lives /\ Tracks(r.slot, [l EXCEPT !.approved = t])
           /\ r.out # "Ok" => Tracks(r.slot, l)
  <1> DEFINE r == ExtendAuthenticated(s, auth, t0, t1)
  <1>1. s.entry # None => StateOf(s, t0) \in EntryStates
    BY DEF StateOf, State, EntryStates
  <1>2. s.entry = None => StateOf(s, t0) = "Absent"
    BY DEF StateOf
  <1>3. CASE s.entry # None /\ StateOf(s, t0) = "HardExpired"
    <2>1. r.slot = Evaluated(s, t0) /\ r.out = "HardExpired"
      BY <1>3 DEF ExtendAuthenticated, Result
    <2> QED BY <1>3, <2>1, EvaluatedKeeps
  <1>4. CASE s.entry # None /\ StateOf(s, t0) = "Active"
    <2>1. r = Extend(s, t0)
      BY <1>4 DEF ExtendAuthenticated
    <2> QED BY <1>4, <2>1, ExtendKeeps
  <1>5. CASE s.entry # None /\ StateOf(s, t0) = "SoftExpired"
    <2>1. auth => r = Extend(s, t1)
      BY <1>5 DEF ExtendAuthenticated
    <2>2. ~auth => r.slot = s /\ r.out = "AuthFailed"
      BY <1>5 DEF ExtendAuthenticated, Result
    <2> QED BY <1>5, <2>1, <2>2, ExtendKeeps
  <1>6. CASE s.entry = None
    <2>1. r.slot = s /\ r.out = "NotFound"
      BY <1>2, <1>6 DEF ExtendAuthenticated, Result
    <2> QED BY <2>1
  <1> QED BY <1>1, <1>3, <1>4, <1>5, <1>6 DEF EntryStates

(***************************************************************************)
(* Moving the pin of an entry and of its promise alike keeps them equal.   *)
(***************************************************************************)
LEMMA MovePin ==
    ASSUME NEW s \in Slots, s.entry # None, NEW l \in Option(Lives), Tracks(s, l),
           NEW u, NEW p \in Option(Time), u.entry = [s.entry EXCEPT !.pin = p]
    PROVE  Tracks(u, [l EXCEPT !.granted = p])
  <1>1. s.entry \in CacheEntries /\ l \in Lives
    BY DEF Slots, Option, Tracks
  <1>2. /\ u.entry.ttl = s.entry.ttl
        /\ u.entry.loaded_at = s.entry.loaded_at
        /\ u.entry.extended_at = s.entry.extended_at
        /\ u.entry.pin = p
    BY <1>1 DEF CacheEntries
  <1> DEFINE m == [l EXCEPT !.granted = p]
  <1>3. /\ m \in Lives
        /\ m.ttl = l.ttl /\ m.birth = l.birth
        /\ m.approved = l.approved /\ m.granted = p
    BY <1>1 DEF Lives
  <1> HIDE DEF m
  <1>4. Tracks(u, m)
    BY <1>2, <1>3 DEF Tracks
  <1> QED BY <1>4 DEF m

(***************************************************************************)
(* Store::pin_authenticated only moves the pin.                            *)
(***************************************************************************)
LEMMA PinKeeps ==
    ASSUME NEW s \in Slots, NEW t0 \in Time, NEW t1 \in Time, NEW auth \in BOOLEAN,
           NEW d \in Time, NEW l \in Option(Lives), Tracks(s, l)
    PROVE  LET r == PinAuthenticated(s, d, auth, t0, t1) IN
           /\ r.slot.backoff = s.backoff
           /\ r.out = "Ok" => l \in Lives /\ Tracks(r.slot, [l EXCEPT !.granted = d])
           /\ r.out # "Ok" => Tracks(r.slot, l)
  <1> DEFINE r == PinAuthenticated(s, d, auth, t0, t1)
  <1>1. s.entry # None => s.entry \in CacheEntries /\ l \in Lives
    BY DEF Slots, Option, Tracks
  <1>2. s.entry = None => StateOf(s, t0) = "Absent"
    BY DEF StateOf
  <1>3. CASE s.entry = None \/ StateOf(s, t0) = "HardExpired" \/ ~auth
    <2>1. r.slot = s /\ r.out # "Ok"
      BY <1>2, <1>3 DEF PinAuthenticated, Result
    <2> QED BY <2>1
  <1>4. CASE s.entry # None /\ StateOf(s, t0) # "HardExpired" /\ auth
    <2> DEFINE u == [s EXCEPT !.entry = PinUntil(s.entry, d, t1)]
    <2>1. r.slot = u /\ u.entry = PinUntil(s.entry, d, t1) /\ u.backoff = s.backoff
      BY <1>4 DEF PinAuthenticated, Result, Slots
    <2>2. CASE StateOf(s, t1) = "HardExpired"
      <3>1. r.out = "HardExpired" /\ u.entry = Zeroize(s.entry)
        BY <1>4, <2>1, <2>2 DEF PinAuthenticated, Result, PinUntil, StateOf
      <3>2. Tracks(u, l)
        BY <1>1, <1>4, <3>1 DEF Tracks, Zeroize, CacheEntries
      <3> HIDE DEF u
      <3> QED BY <2>1, <3>1, <3>2
    <2>3. CASE StateOf(s, t1) # "HardExpired"
      <3>1. r.out = "Ok" /\ u.entry = [s.entry EXCEPT !.pin = d]
        BY <1>4, <2>1, <2>3 DEF PinAuthenticated, Result, PinUntil, StateOf
      <3>2. Tracks(u, [l EXCEPT !.granted = d])
        BY <1>1, <1>4, <3>1, MovePin DEF Option
      <3> HIDE DEF u
      <3> QED BY <1>1, <1>4, <2>1, <3>1, <3>2
    <2> QED BY <2>2, <2>3
  <1> QED BY <1>3, <1>4

(***************************************************************************)
(* Store::unpin forgets the pin and nothing else.                          *)
(***************************************************************************)
LEMMA UnpinKeeps ==
    ASSUME NEW s \in Slots, NEW l \in Option(Lives), Tracks(s, l)
    PROVE  /\ Unpin(s).backoff = s.backoff
           /\ s.entry = None => Unpin(s) = s
           /\ s.entry # None => l \in Lives /\ Tracks(Unpin(s), [l EXCEPT !.granted = None])
  <1>1. Unpin(s).backoff = s.backoff /\ (s.entry = None => Unpin(s) = s)
    BY DEF Unpin, Slots
  <1>2. CASE s.entry # None
    <2>1. l \in Lives
      BY <1>2 DEF Tracks
    <2>2. Unpin(s).entry = [s.entry EXCEPT !.pin = None]
      BY <1>2 DEF Unpin, UnpinEntry, Slots
    <2> QED BY <1>1, <1>2, <2>1, <2>2, MovePin DEF Option
  <1> QED BY <1>1, <1>2

(***************************************************************************)
(* The common tail of the two upstream methods: a fresh value starts a     *)
(* fresh promise, a failed run leaves the entry and, unless the feature is *)
(* off, a record of the failure, a refusal leaves everything.              *)
(***************************************************************************)
LEMMA FetchKeeps ==
    ASSUME NEW s \in Slots, NEW src, NEW ttl \in Ttl, NEW t1 \in Time,
           NEW run \in Option(Values), NEW auth \in BOOLEAN,
           NEW l \in Option(Lives), Tracks(s, l)
    PROVE  LET r == FetchAndInstall(s, src, ttl, run, auth, t1) IN
           /\ r.out \in {"Ok", "RunFailed", "AuthFailed"}
           /\ r.out = "Ok" => NewLife(ttl, t1) \in Lives /\ Tracks(r.slot, NewLife(ttl, t1))
           /\ r.out = "RunFailed" => Tracks(r.slot, l) /\ Remembers(r.slot, t1, t1)
           /\ r.out = "AuthFailed" => r.slot = s
  <1> DEFINE r == FetchAndInstall(s, src, ttl, run, auth, t1)
  <1>1. CASE run = None
    <2>1. r.slot = RunFailed(s, t1) /\ r.out = "RunFailed"
      BY <1>1 DEF FetchAndInstall, Result
    <2>2. Tracks(RunFailed(s, t1), l)
      BY DEF RunFailed, Tracks, Slots
    <2>3. Remembers(RunFailed(s, t1), t1, t1)
      BY BackoffIsDuration DEF RunFailed, Remembers, Slots
    <2> QED BY <2>1, <2>2, <2>3
  <1>2. CASE run # None /\ ~auth
    <2>1. r.slot = s /\ r.out = "AuthFailed"
      BY <1>2 DEF FetchAndInstall, Result
    <2> QED BY <2>1
  <1>3. CASE run # None /\ auth
    <2>1. r.slot = Install(s, src, ttl, run, t1) /\ r.out = "Ok"
      BY <1>3 DEF FetchAndInstall, Result
    <2>2. NewLife(ttl, t1) \in Lives
      BY DEF NewLife, Lives, Option
    <2>3. Install(s, src, ttl, run, t1).entry = NewEntry(src, run, ttl, t1)
      BY DEF Install, Slots
    <2>4. Tracks(Install(s, src, ttl, run, t1), NewLife(ttl, t1))
      BY <2>2, <2>3 DEF Tracks, NewLife, NewEntry
    <2> QED BY <2>1, <2>2, <2>4
  <1> QED BY <1>1, <1>2, <1>3

(***************************************************************************)
(* Outside the backoff window the last failure is FailureBackoff old.      *)
(***************************************************************************)
LEMMA WindowOver ==
    ASSUME NEW s \in Slots, NEW f \in Option(Time), NEW t \in Time,
           Remembers(s, f, t), ~InBackoff(s, t), f # None
    PROVE  f <= t /\ t >= f + FailureBackoff
  <1>1. f \in Nat /\ f <= t
    BY DEF Option, Remembers
  <1>2. CASE s.backoff = [failed_at |-> f, retry_after |-> FailureBackoff]
    <2>1. s.backoff # None
      BY <1>1, <1>2, BackoffIsDuration, NoneIsNoFailure DEF FailureRecords
    <2> QED BY <1>1, <1>2, <2>1, BackoffIsDuration DEF InBackoff, Age
  <1> QED BY <1>1, <1>2 DEF Remembers

(***************************************************************************)
(* Store::regenerate and Store::get_or_regenerate keep the bookkeeping: l, *)
(* f are what the history says before the call, t0 and t1 when it starts   *)
(* and ends.                                                               *)
(***************************************************************************)
UpstreamKept(r, s, ttl, l, f, t0, t1) ==
    /\ UpstreamRan(r) => ~InBackoff(s, t0) /\ StateOf(s, t0) \in {"Absent", "HardExpired"}
    /\ Tracks(r.slot, IF r.out = "Ok" THEN NewLife(ttl, t1) ELSE l)
    /\ r.out = "Ok" => NewLife(ttl, t1) \in Lives
    /\ Remembers(r.slot, IF r.out = "RunFailed" THEN t1 ELSE f,
                         IF UpstreamRan(r) THEN t1 ELSE t0)

(***************************************************************************)
(* Once past its guards, an upstream method keeps the bookkeeping whatever *)
(* the command produces and the user answers (store.rs regenerate,         *)
(* get_or_regenerate).                                                     *)
(***************************************************************************)
LEMMA FetchedKept ==
    ASSUME NEW s \in Slots, NEW src, NEW ttl \in Ttl, NEW t0 \in Time, NEW t1 \in Time,
           t0 <= t1, NEW run \in Option(Values), NEW auth \in BOOLEAN,
           NEW l \in Option(Lives), NEW f \in Option(Time),
           Tracks(s, l), Remembers(s, f, t0), ~InBackoff(s, t0),
           StateOf(s, t0) \in {"Absent", "HardExpired"}
    PROVE  UpstreamKept(FetchAndInstall(Evaluated(s, t0), src, ttl, run, auth, t1),
                        s, ttl, l, f, t0, t1)
  <1> DEFINE e == Evaluated(s, t0)
             r == FetchAndInstall(e, src, ttl, run, auth, t1)
  <1>1. e \in Slots /\ Tracks(e, l) /\ e.backoff = s.backoff
    BY SlotOpsType, EvaluatedKeeps
  <1>2. f # None => f \in Nat /\ f <= t0 /\ t0 >= f + FailureBackoff
    BY WindowOver DEF Option
  <1>3. f # None => f <= t1 /\ t1 >= f + FailureBackoff
    BY <1>2, BackoffIsDuration
  <1>4. /\ r.out \in {"Ok", "RunFailed", "AuthFailed"}
        /\ r.out = "Ok" => NewLife(ttl, t1) \in Lives /\ Tracks(r.slot, NewLife(ttl, t1))
        /\ r.out = "RunFailed" => Tracks(r.slot, l) /\ Remembers(r.slot, t1, t1)
        /\ r.out = "AuthFailed" => r.slot = e
    <2> HIDE DEF e
    <2> QED BY <1>1, FetchKeeps
  <1> HIDE DEF r, e
  <1>5. UpstreamKept(r, s, ttl, l, f, t0, t1)
    <2>1. r.out # "RunFailed" => Remembers(r.slot, f, t1)
      BY <1>3 DEF Remembers
    <2> QED BY <1>1, <1>4, <2>1 DEF UpstreamKept, UpstreamRan
  <1> QED BY <1>5 DEF r, e

(***************************************************************************)
(* Both upstream methods keep the bookkeeping, on every early return and   *)
(* on every outcome of the run (store.rs regenerate, get_or_regenerate).   *)
(***************************************************************************)
LEMMA UpstreamKeeps ==
    ASSUME NEW s \in Slots, NEW t0 \in Time, NEW t1 \in Time, t0 <= t1,
           NEW run \in Option(Values), NEW auth \in BOOLEAN,
           NEW l \in Option(Lives), NEW f \in Option(Time),
           Tracks(s, l), Remembers(s, f, t0)
    PROVE  /\ UpstreamKept(Regenerate(s, run, auth, t0, t1), s, s.entry.ttl, l, f, t0, t1)
           /\ UpstreamKept(GetOrRegenerate(s, run, auth, t0, t1), s, s.def.ttl, l, f, t0, t1)
  <1>1. s.entry # None => s.entry \in CacheEntries /\ s.entry.ttl \in Ttl
    BY DEF Slots, Option, CacheEntries
  <1>2. s.def # None => s.def.ttl \in Ttl
    BY DEF Slots, Option, Definitions
  <1>3. /\ s.entry = None => StateOf(s, t0) = "Absent"
        /\ s.entry # None => StateOf(s, t0) \in EntryStates
    BY DEF StateOf, State, EntryStates
  <1>4. ASSUME NEW r, r.slot \in {s, Evaluated(s, t0)}, ~UpstreamRan(r), NEW ttl
        PROVE  UpstreamKept(r, s, ttl, l, f, t0, t1)
    <2>1. Tracks(r.slot, l) /\ Remembers(r.slot, f, t0)
      BY <1>4, EvaluatedKeeps DEF Remembers
    <2> QED BY <1>4, <2>1 DEF UpstreamKept, UpstreamRan
  <1>5. UpstreamKept(Regenerate(s, run, auth, t0, t1), s, s.entry.ttl, l, f, t0, t1)
    <2> DEFINE r == Regenerate(s, run, auth, t0, t1)
    <2>1. CASE InBackoff(s, t0)
      <3>1. r.slot = s /\ r.out = "Backoff"
        BY <2>1 DEF Regenerate, Result
      <3> QED BY <3>1, <1>4 DEF UpstreamRan
    <2>2. CASE ~InBackoff(s, t0) /\ s.entry = None
      <3>1. r.slot = s /\ r.out = "NotFound"
        BY <2>2 DEF Regenerate, Result
      <3> QED BY <3>1, <1>4 DEF UpstreamRan
    <2>3. CASE ~InBackoff(s, t0) /\ s.entry # None /\ s.entry.source = Static
      <3>1. r.slot = s /\ r.out = "NotRegenerable"
        BY <2>3 DEF Regenerate, Result
      <3> QED BY <3>1, <1>4 DEF UpstreamRan
    <2>4. CASE ~InBackoff(s, t0) /\ s.entry # None /\ s.entry.source # Static
      <3>1. CASE StateOf(s, t0) # "HardExpired"
        <4>1. r.slot = s /\ r.out = "NotHardExpired"
          BY <2>4, <3>1 DEF Regenerate, Result
        <4> QED BY <4>1, <1>4 DEF UpstreamRan
      <3>2. CASE StateOf(s, t0) = "HardExpired"
        <4>1. r = FetchAndInstall(Evaluated(s, t0), s.entry.source, s.entry.ttl, run, auth, t1)
          BY <2>4, <3>2 DEF Regenerate
        <4> QED BY <1>1, <2>4, <3>2, <4>1, FetchedKept
      <3> QED BY <3>1, <3>2
    <2> QED BY <2>1, <2>2, <2>3, <2>4
  <1>6. UpstreamKept(GetOrRegenerate(s, run, auth, t0, t1), s, s.def.ttl, l, f, t0, t1)
    <2> DEFINE r == GetOrRegenerate(s, run, auth, t0, t1)
    <2>1. CASE s.def = None
      <3>1. r.slot = s /\ r.out = "Undefined"
        BY <2>1 DEF GetOrRegenerate, Result
      <3> QED BY <3>1, <1>4 DEF UpstreamRan
    <2>2. CASE s.def # None /\ StateOf(s, t0) \in {"Active", "SoftExpired"}
      <3>1. r.slot = s /\ r.out = "ValueResident"
        BY <2>2 DEF GetOrRegenerate, Result
      <3> QED BY <3>1, <1>4 DEF UpstreamRan
    <2>3. CASE s.def # None /\ StateOf(s, t0) \notin {"Active", "SoftExpired"}
      <3>1. CASE InBackoff(s, t0)
        <4>1. r.slot = Evaluated(s, t0) /\ r.out = "Backoff"
          BY <2>3, <3>1 DEF GetOrRegenerate, Result
        <4> QED BY <4>1, <1>4 DEF UpstreamRan
      <3>2. CASE ~InBackoff(s, t0)
        <4>1. r = FetchAndInstall(Evaluated(s, t0), s.def.source, s.def.ttl, run, auth, t1)
          BY <2>3, <3>2 DEF GetOrRegenerate
        <4>2. StateOf(s, t0) \in {"Absent", "HardExpired"}
          BY <1>3, <2>3 DEF EntryStates
        <4> QED BY <1>2, <2>3, <3>2, <4>1, <4>2, FetchedKept
      <3> QED BY <3>1, <3>2
    <2> QED BY <2>1, <2>2, <2>3
  <1> QED BY <1>5, <1>6

(***************************************************************************)
(* The calls that load, read and forget keep the invariant.                *)
(***************************************************************************)
LEMMA LoadStep ==
    ASSUME IInv, NEW k \in Keys, NEW src \in Sources \cup {Static}, NEW v \in Values,
           NEW ttl \in Ttls, DoSet(k, src, v, ttl)
    PROVE  IInv'
  <1> DEFINE s1 == Set(slots[k], src, v, ttl, now)
             l1 == NewLife(ttl, now)
  <1>1. ttl \in Ttl /\ now \in Time
    BY TtlsAreValid, AtKey
  <1>2. s1 \in Slots /\ s1.entry = NewEntry(src, v, ttl, now) /\ s1.backoff = slots[k].backoff
    BY <1>1, AtKey, InstallType DEF Set, Slots
  <1>3. l1 \in Lives
    BY <1>1 DEF NewLife, Lives, Option
  <1>4. Tracks(s1, l1)
    BY <1>2, <1>3 DEF Tracks, NewLife, NewEntry
  <1>5. Remembers(s1, failed[k], now)
    BY <1>2, AtKey DEF Remembers
  <1>6. reply' \in Replies /\ now' = now
    <2>1. Reply("set", k, "Ok") \in Replies
      BY ReplyType, Vocabulary
    <2> QED BY <2>1 DEF DoSet
  <1>7. slots' = [slots EXCEPT ![k] = s1] /\ life' = [life EXCEPT ![k] = l1]
        /\ failed' = [failed EXCEPT ![k] = failed[k]]
    BY AtKey DEF DoSet
  <1> HIDE DEF s1, l1
  <1>8. failed[k] \in Option(Time) /\ l1 \in Option(Lives)
    BY <1>3, AtKey DEF Option
  <1>9. Moves(k, s1, l1, failed[k])
    BY <1>1, <1>2, <1>4, <1>5, <1>6, <1>7, <1>8 DEF Moves
  <1> QED BY <1>9, OneKey

(***************************************************************************)
(* The reading calls keep the invariant although they may destroy the      *)
(* value they find (store.rs get, state_of).                               *)
(***************************************************************************)
LEMMA ReadStep ==
    ASSUME IInv, NEW k \in Keys, DoGet(k) \/ DoStateOf(k)
    PROVE  IInv'
  <1> DEFINE s1 == Evaluated(slots[k], now)
  <1>1. s1 \in Slots /\ Tracks(s1, life[k]) /\ Remembers(s1, failed[k], now)
    BY AtKey, SlotOpsType, EvaluatedKeeps DEF Remembers
  <1>2. (IF Readable(slots[k], now) THEN slots[k].entry.value ELSE None) \in Option(Values)
    BY DEF IInv, TypeOK, Readable, StateOf, Slots, CacheEntries, Option
  <1>3. reply' \in Replies
    BY <1>2 DEF DoGet, DoStateOf, Reply, NoReply, Replies, Ops, Outs, Option
  <1>4. slots' = [slots EXCEPT ![k] = s1] /\ life' = [life EXCEPT ![k] = life[k]]
        /\ failed' = [failed EXCEPT ![k] = failed[k]] /\ now' = now
    BY AtKey DEF DoGet, DoStateOf
  <1>5. failed[k] \in Option(Time) /\ life[k] \in Option(Lives) /\ now \in Time
    BY AtKey
  <1> HIDE DEF s1
  <1>6. Moves(k, s1, life[k], failed[k])
    BY <1>1, <1>3, <1>4, <1>5 DEF Moves
  <1> QED BY <1>6, OneKey

(***************************************************************************)
(* The forgetting calls keep the invariant: delete and undefine leave the  *)
(* backoff record where it is, only delete_with_definition drops it.       *)
(***************************************************************************)
LEMMA ForgetStep ==
    ASSUME IInv, NEW k \in Keys,
           DoDelete(k) \/ DoDeleteWithDefinition(k) \/ DoUndefine(k)
    PROVE  IInv'
  <1>1. reply' \in Replies /\ now' = now /\ now \in Time
    <2>1. /\ Reply("delete", k, "Ok") \in Replies
          /\ Reply("delete_with_definition", k, "Ok") \in Replies
          /\ Reply("undefine", k, "Ok") \in Replies
      BY ReplyType, Vocabulary
    <2> QED BY <2>1, AtKey DEF DoDelete, DoDeleteWithDefinition, DoUndefine
  <1>5. /\ failed[k] \in Option(Time) /\ life[k] \in Option(Lives)
        /\ None \in Option(Time) /\ None \in Option(Lives)
    BY AtKey DEF Option
  <1>2. CASE DoDelete(k)
    <2>1. Delete(slots[k]) \in Slots /\ Delete(slots[k]).entry = None
          /\ Delete(slots[k]).backoff = slots[k].backoff
      BY AtKey, SlotOpsType DEF Delete, Slots
    <2>2. Tracks(Delete(slots[k]), None) /\ Remembers(Delete(slots[k]), failed[k], now)
      BY <2>1, AtKey DEF Tracks, Remembers
    <2>3. slots' = [slots EXCEPT ![k] = Delete(slots[k])] /\ life' = [life EXCEPT ![k] = None]
          /\ failed' = [failed EXCEPT ![k] = failed[k]]
      BY <1>2, AtKey DEF DoDelete
    <2>4. Moves(k, Delete(slots[k]), None, failed[k])
      BY <1>1, <1>5, <2>1, <2>2, <2>3 DEF Moves
    <2> QED BY <2>4, OneKey
  <1>3. CASE DoDeleteWithDefinition(k)
    <2>1. EmptySlot \in Slots /\ Tracks(EmptySlot, None) /\ Remembers(EmptySlot, None, now)
      BY AtKey, SlotOpsType DEF Tracks, Remembers, EmptySlot
    <2>2. slots' = [slots EXCEPT ![k] = EmptySlot] /\ life' = [life EXCEPT ![k] = None]
          /\ failed' = [failed EXCEPT ![k] = None]
      BY <1>3 DEF DoDeleteWithDefinition, DeleteWithDefinition
    <2>3. Moves(k, EmptySlot, None, None)
      BY <1>1, <1>5, <2>1, <2>2 DEF Moves
    <2> QED BY <2>3, OneKey
  <1>4. CASE DoUndefine(k)
    <2>1. Undefine(slots[k]) \in Slots /\ Undefine(slots[k]).entry = slots[k].entry
          /\ Undefine(slots[k]).backoff = slots[k].backoff
      BY AtKey, SlotOpsType DEF Undefine, Slots
    <2>2. Tracks(Undefine(slots[k]), life[k]) /\ Remembers(Undefine(slots[k]), failed[k], now)
      BY <2>1, AtKey DEF Tracks, Remembers
    <2>3. slots' = [slots EXCEPT ![k] = Undefine(slots[k])] /\ life' = [life EXCEPT ![k] = life[k]]
          /\ failed' = [failed EXCEPT ![k] = failed[k]]
      BY <1>4, AtKey DEF DoUndefine
    <2>4. Moves(k, Undefine(slots[k]), life[k], failed[k])
      BY <1>1, <1>5, <2>1, <2>2, <2>3 DEF Moves
    <2> QED BY <2>4, OneKey
  <1> QED BY <1>2, <1>3, <1>4

(***************************************************************************)
(* A registration, accepted or refused, keeps the invariant (store.rs      *)
(* define_with_meta).                                                      *)
(***************************************************************************)
LEMMA DefineStep ==
    ASSUME IInv, NEW k \in Keys, NEW def \in Definitions, DoDefine(k, def)
    PROVE  IInv'
  <1> DEFINE r == Define(slots[k], def)
  <1>1. r.slot \in Slots /\ r.out \in Outs
    BY AtKey, DefineType
  <1>2. r.slot.entry = slots[k].entry /\ r.slot.backoff = slots[k].backoff
    BY AtKey DEF Define, Result, Slots
  <1>3. Tracks(r.slot, life[k]) /\ Remembers(r.slot, failed[k], now)
    BY <1>2, AtKey DEF Tracks, Remembers
  <1>4. reply' \in Replies
    BY <1>1, ReplyType DEF DoDefine, Ops
  <1>5. slots' = [slots EXCEPT ![k] = r.slot] /\ life' = [life EXCEPT ![k] = life[k]]
        /\ failed' = [failed EXCEPT ![k] = failed[k]] /\ now' = now
    BY AtKey DEF DoDefine
  <1>6. failed[k] \in Option(Time) /\ life[k] \in Option(Lives) /\ now \in Time
    BY AtKey
  <1> HIDE DEF r
  <1>7. Moves(k, r.slot, life[k], failed[k])
    BY <1>1, <1>3, <1>4, <1>5, <1>6 DEF Moves
  <1> QED BY <1>7, OneKey

(***************************************************************************)
(* A call that either changes the promise of a key to l1 or leaves it      *)
(* keeps the invariant, if the slot it returns carries that promise.       *)
(***************************************************************************)
Renews(k, op, r, l1) ==
    /\ r \in [slot : Slots, out : Outs] /\ op \in Ops
    /\ r.slot.backoff = slots[k].backoff
    /\ r.out = "Ok" => l1 \in Lives /\ Tracks(r.slot, l1)
    /\ r.out # "Ok" => Tracks(r.slot, life[k])
    /\ slots' = [slots EXCEPT ![k] = r.slot]
    /\ life' = [life EXCEPT ![k] = IF r.out = "Ok" THEN l1 ELSE life[k]]
    /\ failed' = failed /\ now' \in Time /\ now <= now'
    /\ reply' = Reply(op, k, r.out)

(***************************************************************************)
(* Such a call keeps the invariant (store.rs extend, extend_authenticated, *)
(* pin_authenticated, unpin).                                              *)
(***************************************************************************)
LEMMA RenewStep ==
    ASSUME IInv, NEW k \in Keys, NEW op, NEW r, NEW l1, Renews(k, op, r, l1)
    PROVE  IInv'
  <1> DEFINE l2 == IF r.out = "Ok" THEN l1 ELSE life[k]
  <1>1. l2 \in Option(Lives) /\ Tracks(r.slot, l2)
    BY AtKey DEF Renews, Option
  <1>2. Remembers(r.slot, failed[k], now')
    <2>1. /\ Remembers(slots[k], failed[k], now) /\ failed[k] \in Option(Time)
          /\ now \in Time
      BY AtKey
    <2> QED BY <2>1, BackoffIsDuration DEF Remembers, Option, Renews
  <1>3. reply' \in Replies
    BY ReplyType DEF Renews
  <1>4. failed' = [failed EXCEPT ![k] = failed[k]] /\ failed[k] \in Option(Time)
    BY AtKey DEF Renews
  <1>5. Moves(k, r.slot, l2, failed[k])
    BY <1>1, <1>2, <1>3, <1>4 DEF Moves, Renews
  <1> QED BY <1>5, OneKey

(***************************************************************************)
(* The calls that re-approve a resident value keep the invariant.          *)
(***************************************************************************)
LEMMA ExtendStep ==
    ASSUME IInv, NEW k \in Keys, DoExtend(k)
    PROVE  IInv'
  <1>1. /\ slots[k] \in Slots /\ Tracks(slots[k], life[k]) /\ now \in Time
        /\ life[k] \in Option(Lives)
    BY AtKey
  <1> DEFINE r == Extend(slots[k], now)
             l1 == [life[k] EXCEPT !.approved = now]
  <1>2. r \in [slot : Slots, out : Outs]
    BY <1>1, ResultOpsType
  <1>3. /\ r.slot.backoff = slots[k].backoff
        /\ r.out = "Ok" => life[k] \in Lives /\ Tracks(r.slot, l1)
        /\ r.out # "Ok" => Tracks(r.slot, life[k])
    BY <1>1, ExtendKeeps
  <1>4. life[k] \in Lives => l1 \in Lives
    BY <1>1 DEF Lives
  <1>5. life' = [life EXCEPT ![k] = IF r.out = "Ok" THEN l1 ELSE life[k]]
    BY AtKey DEF DoExtend
  <1>6. /\ slots' = [slots EXCEPT ![k] = r.slot] /\ failed' = failed /\ now' = now
        /\ reply' = Reply("extend", k, r.out)
    BY DEF DoExtend
  <1> HIDE DEF r, l1
  <1>7. Renews(k, "extend", r, l1)
    BY <1>1, <1>2, <1>3, <1>4, <1>5, <1>6, Vocabulary DEF Renews
  <1> QED BY <1>7, RenewStep

(***************************************************************************)
(* So does the extend that may prompt, judged at the time of the answer    *)
(* (store.rs extend_authenticated).                                        *)
(***************************************************************************)
LEMMA ExtendAuthenticatedStep ==
    ASSUME IInv, NEW k \in Keys, NEW auth \in BOOLEAN, NEW t1 \in Later,
           DoExtendAuthenticated(k, auth, t1)
    PROVE  IInv'
  <1>1. /\ slots[k] \in Slots /\ Tracks(slots[k], life[k]) /\ now \in Time
        /\ life[k] \in Option(Lives) /\ t1 \in Time /\ now <= t1
    BY AtKey, LaterIsLater DEF IInv, TypeOK
  <1> DEFINE r == ExtendAuthenticated(slots[k], auth, now, t1)
             t == IF StateOf(slots[k], now) = "SoftExpired" THEN t1 ELSE now
             l1 == [life[k] EXCEPT !.approved = t]
  <1>2. r \in [slot : Slots, out : Outs]
    BY <1>1, ResultOpsType
  <1>3. /\ r.slot.backoff = slots[k].backoff
        /\ r.out = "Ok" => life[k] \in Lives /\ Tracks(r.slot, l1)
        /\ r.out # "Ok" => Tracks(r.slot, life[k])
    BY <1>1, ExtendAuthenticatedKeeps
  <1>4. life[k] \in Lives => l1 \in Lives
    BY <1>1 DEF Lives
  <1>5. now' = t /\ now' \in Time /\ now <= now'
    BY <1>1 DEF DoExtendAuthenticated
  <1>6. life' = [life EXCEPT ![k] = IF r.out = "Ok" THEN l1 ELSE life[k]]
    BY <1>5, AtKey DEF DoExtendAuthenticated
  <1>7. /\ slots' = [slots EXCEPT ![k] = r.slot] /\ failed' = failed
        /\ reply' = Reply("extend_authenticated", k, r.out)
    BY DEF DoExtendAuthenticated
  <1> HIDE DEF r, l1, t
  <1>8. Renews(k, "extend_authenticated", r, l1)
    BY <1>2, <1>3, <1>4, <1>5, <1>6, <1>7, Vocabulary DEF Renews
  <1> QED BY <1>8, RenewStep

(***************************************************************************)
(* The calls that move a pin keep the invariant.                           *)
(***************************************************************************)
LEMMA PinStep ==
    ASSUME IInv, NEW k \in Keys, NEW len \in PinLengths, NEW auth \in BOOLEAN,
           NEW t1 \in Later, DoPinAuthenticated(k, len, auth, t1)
    PROVE  IInv'
  <1> DEFINE d == now + len
             r == PinAuthenticated(slots[k], d, auth, now, t1)
             l1 == [life[k] EXCEPT !.granted = d]
  <1>1. /\ slots[k] \in Slots /\ Tracks(slots[k], life[k]) /\ now \in Time
        /\ life[k] \in Option(Lives) /\ t1 \in Time /\ now <= t1 /\ d \in Time
    BY AtKey, LaterIsLater, PinLengthsAreDurations DEF IInv, TypeOK
  <1> HIDE DEF d
  <1>2. r \in [slot : Slots, out : Outs]
    BY <1>1, ResultOpsType
  <1>3. /\ r.slot.backoff = slots[k].backoff
        /\ r.out = "Ok" => life[k] \in Lives /\ Tracks(r.slot, l1)
        /\ r.out # "Ok" => Tracks(r.slot, life[k])
    BY <1>1, PinKeeps
  <1>4. life[k] \in Lives => l1 \in Lives
    BY <1>1 DEF Lives, Option
  <1>5. now' \in Time /\ now <= now'
    BY <1>1 DEF DoPinAuthenticated
  <1>6. life' = [life EXCEPT ![k] = IF r.out = "Ok" THEN l1 ELSE life[k]]
    BY AtKey DEF DoPinAuthenticated, d
  <1>7. /\ slots' = [slots EXCEPT ![k] = r.slot] /\ failed' = failed
        /\ reply' = Reply("pin_authenticated", k, r.out)
    BY DEF DoPinAuthenticated, d
  <1> HIDE DEF r, l1
  <1>8. Renews(k, "pin_authenticated", r, l1)
    BY <1>2, <1>3, <1>4, <1>5, <1>6, <1>7, Vocabulary DEF Renews
  <1> QED BY <1>8, RenewStep

(***************************************************************************)
(* An unpin forgets the pin and the grant together (store.rs unpin).       *)
(***************************************************************************)
LEMMA UnpinStep ==
    ASSUME IInv, NEW k \in Keys, DoUnpin(k)
    PROVE  IInv'
  <1> DEFINE r == [slot |-> Unpin(slots[k]),
                   out |-> IF slots[k].entry = None THEN "NotFound" ELSE "Ok"]
             l1 == [life[k] EXCEPT !.granted = None]
  <1>1. /\ slots[k] \in Slots /\ Tracks(slots[k], life[k]) /\ now \in Time
        /\ life[k] \in Option(Lives)
    BY AtKey
  <1>2. r \in [slot : Slots, out : Outs]
    BY <1>1, SlotOpsType, Vocabulary
  <1>3. /\ r.slot.backoff = slots[k].backoff
        /\ r.out = "Ok" => life[k] \in Lives /\ Tracks(r.slot, l1)
        /\ r.out # "Ok" => Tracks(r.slot, life[k])
    BY <1>1, UnpinKeeps
  <1>4. life[k] \in Lives => l1 \in Lives
    BY <1>1 DEF Lives, Option
  <1>5. life' = [life EXCEPT ![k] = IF r.out = "Ok" THEN l1 ELSE life[k]]
    BY AtKey DEF DoUnpin
  <1>6. /\ slots' = [slots EXCEPT ![k] = r.slot] /\ failed' = failed /\ now' = now
        /\ reply' = Reply("unpin", k, r.out)
    BY DEF DoUnpin
  <1> HIDE DEF r, l1
  <1>7. Renews(k, "unpin", r, l1)
    BY <1>1, <1>2, <1>3, <1>4, <1>5, <1>6, Vocabulary DEF Renews
  <1> QED BY <1>7, RenewStep

(***************************************************************************)
(* The calls that may run an upstream command keep the invariant.          *)
(***************************************************************************)
LEMMA UpstreamStep ==
    ASSUME IInv, NEW k \in Keys, NEW run \in Option(Values), NEW auth \in BOOLEAN,
           NEW t1 \in Later, DoRegenerate(k, run, auth, t1) \/ DoGetOrRegenerate(k, run, auth, t1)
    PROVE  IInv'
  <1>1. /\ slots[k] \in Slots /\ Tracks(slots[k], life[k]) /\ now \in Time
        /\ Remembers(slots[k], failed[k], now) /\ failed[k] \in Option(Time)
        /\ life[k] \in Option(Lives) /\ t1 \in Time /\ now <= t1
    BY AtKey, LaterIsLater DEF IInv, TypeOK
  <1>2. ASSUME NEW op \in Ops, NEW r \in [slot : Slots, out : Outs], NEW ttl,
               UpstreamKept(r, slots[k], ttl, life[k], failed[k], now, t1),
               Upstream(op, k, r, ttl, t1)
        PROVE  IInv'
    <2> DEFINE l1 == IF r.out = "Ok" THEN NewLife(ttl, t1) ELSE life[k]
               f1 == IF r.out = "RunFailed" THEN t1 ELSE failed[k]
    <2>1. l1 \in Option(Lives) /\ f1 \in Option(Time)
      BY <1>1, <1>2 DEF UpstreamKept, Option
    <2>2. Tracks(r.slot, l1) /\ Remembers(r.slot, f1, now')
      BY <1>2 DEF UpstreamKept, Upstream
    <2>3. life' = [life EXCEPT ![k] = l1] /\ failed' = [failed EXCEPT ![k] = f1]
      BY <1>2, AtKey DEF Upstream
    <2>4. reply' \in Replies
      <3>1. Reply(op, k, r.out) \in Replies
        BY ReplyType
      <3>2. /\ [Reply(op, k, r.out) EXCEPT !.ran = TRUE] \in Replies
            /\ [Reply(op, k, r.out) EXCEPT !.ran = FALSE] \in Replies
        BY <3>1 DEF Replies
      <3>3. UpstreamRan(r) \in BOOLEAN
        BY DEF UpstreamRan
      <3>4. reply' = [Reply(op, k, r.out) EXCEPT !.ran = UpstreamRan(r)]
        BY <1>2 DEF Upstream
      <3> QED BY <3>2, <3>3, <3>4
    <2>5. slots' = [slots EXCEPT ![k] = r.slot] /\ now' \in Time /\ now <= now'
      BY <1>1, <1>2 DEF Upstream
    <2> HIDE DEF l1, f1
    <2>6. Moves(k, r.slot, l1, f1)
      BY <2>1, <2>2, <2>3, <2>4, <2>5 DEF Moves
    <2> QED BY <2>6, OneKey
  <1>3. CASE DoRegenerate(k, run, auth, t1)
    <2> DEFINE r == Regenerate(slots[k], run, auth, now, t1)
    <2>1. r \in [slot : Slots, out : Outs]
      BY <1>1, UpstreamOpsType
    <2>2. UpstreamKept(r, slots[k], slots[k].entry.ttl, life[k], failed[k], now, t1)
      BY <1>1, UpstreamKeeps
    <2>3. Upstream("regenerate", k, r, slots[k].entry.ttl, t1)
      BY <1>3 DEF DoRegenerate
    <2> HIDE DEF r
    <2> QED BY <1>2, <2>1, <2>2, <2>3, Vocabulary
  <1>4. CASE DoGetOrRegenerate(k, run, auth, t1)
    <2> DEFINE r == GetOrRegenerate(slots[k], run, auth, now, t1)
    <2>1. r \in [slot : Slots, out : Outs]
      BY <1>1, UpstreamOpsType
    <2>2. UpstreamKept(r, slots[k], slots[k].def.ttl, life[k], failed[k], now, t1)
      BY <1>1, UpstreamKeeps
    <2>3. Upstream("get_or_regenerate", k, r, slots[k].def.ttl, t1)
      BY <1>4 DEF DoGetOrRegenerate
    <2> HIDE DEF r
    <2> QED BY <1>2, <2>1, <2>2, <2>3, Vocabulary
  <1> QED BY <1>3, <1>4

(***************************************************************************)
(* Time passing keeps the invariant: an old backoff stays over, a record   *)
(* stays the record.                                                       *)
(***************************************************************************)
LEMMA TickStep == IInv /\ Tick => IInv'
  <1> SUFFICES ASSUME IInv, Tick PROVE IInv'
    OBVIOUS
  <1>1. TypeOK'
    BY DEF IInv, TypeOK, Tick, NoReply, Replies, Ops, Outs, Option
  <1>2. ASSUME NEW k \in Keys PROVE Tracks(slots[k], life[k])' /\ Remembers(slots[k], failed[k], now)'
    <2>1. /\ Tracks(slots[k], life[k]) /\ Remembers(slots[k], failed[k], now)
          /\ failed[k] \in Option(Time) /\ now \in Time
      BY AtKey
    <2> QED BY <2>1, BackoffIsDuration DEF Tick, Tracks, Remembers, Option
  <1> QED BY <1>1, <1>2 DEF IInv, Bookkeeping

-----------------------------------------------------------------------------
(* The theorems *)

(***************************************************************************)
(* Every call of the store keeps the invariant, so it is inductive         *)
(* (store.rs).                                                             *)
(***************************************************************************)
LEMMA InvStep == IInv /\ [Next]_vars => IInv'
  <1> SUFFICES ASSUME IInv, [Next]_vars PROVE IInv'
    OBVIOUS
  <1>1. CASE UNCHANGED vars
    BY <1>1 DEF IInv, TypeOK, Bookkeeping, Tracks, Remembers, vars
  <1>2. CASE Tick
    BY <1>2, TickStep
  <1>3. ASSUME NEW k \in Keys, NEW src \in Sources \cup {Static}, NEW v \in Values,
               NEW ttl \in Ttls, DoSet(k, src, v, ttl)
        PROVE  IInv'
    BY <1>3, LoadStep
  <1>4. ASSUME NEW k \in Keys, DoGet(k) \/ DoStateOf(k) PROVE IInv'
    BY <1>4, ReadStep
  <1>5. ASSUME NEW k \in Keys, DoExtend(k) PROVE IInv'
    BY <1>5, ExtendStep
  <1>6. ASSUME NEW k \in Keys, NEW auth \in BOOLEAN, NEW t1 \in Later,
               DoExtendAuthenticated(k, auth, t1)
        PROVE  IInv'
    BY <1>6, ExtendAuthenticatedStep
  <1>7. ASSUME NEW k \in Keys, NEW len \in PinLengths, NEW auth \in BOOLEAN, NEW t1 \in Later,
               DoPinAuthenticated(k, len, auth, t1)
        PROVE  IInv'
    BY <1>7, PinStep
  <1>8. ASSUME NEW k \in Keys, DoUnpin(k) PROVE IInv'
    BY <1>8, UnpinStep
  <1>9. ASSUME NEW k \in Keys, DoDelete(k) \/ DoDeleteWithDefinition(k) \/ DoUndefine(k)
        PROVE  IInv'
    BY <1>9, ForgetStep
  <1>10. ASSUME NEW k \in Keys, NEW src \in Sources, NEW ttl \in Ttls,
                DoDefine(k, [source |-> src, ttl |-> ttl])
         PROVE  IInv'
    <2>1. [source |-> src, ttl |-> ttl] \in Definitions
      BY TtlsAreValid DEF Definitions
    <2> QED BY <1>10, <2>1, DefineStep
  <1>11. ASSUME NEW k \in Keys, NEW run \in Option(Values), NEW auth \in BOOLEAN, NEW t1 \in Later,
                DoRegenerate(k, run, auth, t1) \/ DoGetOrRegenerate(k, run, auth, t1)
         PROVE  IInv'
    BY <1>11, UpstreamStep
  <1> QED BY <1>1, <1>2, <1>3, <1>4, <1>5, <1>6, <1>7, <1>8, <1>9, <1>10, <1>11 DEF Next

(***************************************************************************)
(* The store's variables keep their types, and its bookkeeping agrees with *)
(* the history of loads, approvals, pins and failures, under every         *)
(* sequence of calls.  (store.rs, entry.rs)                                *)
(***************************************************************************)
THEOREM Invariance == Spec => []IInv
  BY InitInv, InvStep, PTL DEF Spec

(***************************************************************************)
(* Every reachable state of the store is well typed: the slots, the clock, *)
(* the replies and the two histories (the field types of store.rs,         *)
(* entry.rs).                                                              *)
(***************************************************************************)
THEOREM TypeCorrect == Spec => []TypeOK
  BY Invariance, PTL DEF IInv

(***************************************************************************)
(* The fields the expiry rules read are, for every resident value, the     *)
(* times of its load, its last approval and its last granted pin, and the  *)
(* backoff record is the one of the last failure.  (store.rs set, extend,  *)
(* pin_authenticated, regenerate, get_or_regenerate, delete)               *)
(***************************************************************************)
THEOREM Kept == Spec => []Bookkeeping
  BY Invariance, PTL DEF IInv

(***************************************************************************)
(* Only get hands out a value; every other step answers without one.       *)
(***************************************************************************)
LEMMA OnlyGetReleases ==
    ASSUME IInv, Next
    PROVE  reply'.value = None \/ \E k \in Keys : DoGet(k)
  <1>1. ASSUME NEW op, NEW k, NEW out PROVE Reply(op, k, out).value = None
    BY DEF Reply, NoReply
  <1>2. CASE Tick
    BY <1>2 DEF Tick, NoReply
  <1>3. ASSUME NEW k \in Keys, NEW src \in Sources \cup {Static}, NEW v \in Values,
               NEW ttl \in Ttls, DoSet(k, src, v, ttl)
        PROVE  reply'.value = None
    BY <1>1, <1>3 DEF DoSet
  <1>4. ASSUME NEW k \in Keys, DoStateOf(k) \/ DoExtend(k) \/ DoUnpin(k) \/ DoDelete(k)
                               \/ DoDeleteWithDefinition(k) \/ DoUndefine(k)
        PROVE  reply'.value = None
    BY <1>1, <1>4 DEF DoStateOf, DoExtend, DoUnpin, DoDelete, DoDeleteWithDefinition, DoUndefine
  <1>5. ASSUME NEW k \in Keys, NEW auth \in BOOLEAN, NEW t1 \in Later,
               DoExtendAuthenticated(k, auth, t1)
        PROVE  reply'.value = None
    BY <1>1, <1>5 DEF DoExtendAuthenticated
  <1>6. ASSUME NEW k \in Keys, NEW len \in PinLengths, NEW auth \in BOOLEAN, NEW t1 \in Later,
               DoPinAuthenticated(k, len, auth, t1)
        PROVE  reply'.value = None
    BY <1>1, <1>6 DEF DoPinAuthenticated
  <1>7. ASSUME NEW k \in Keys, NEW def, DoDefine(k, def) PROVE reply'.value = None
    BY <1>1, <1>7 DEF DoDefine
  <1>8. ASSUME NEW k \in Keys, NEW run \in Option(Values), NEW auth \in BOOLEAN, NEW t1 \in Later,
               DoRegenerate(k, run, auth, t1) \/ DoGetOrRegenerate(k, run, auth, t1)
        PROVE  reply'.value = None
    BY <1>8 DEF DoRegenerate, DoGetOrRegenerate, Upstream, Reply, NoReply
  <1> QED BY <1>2, <1>3, <1>4, <1>5, <1>6, <1>7, <1>8 DEF Next

(***************************************************************************)
(* A get that finds the entry Active finds its promise in force.           *)
(***************************************************************************)
LEMMA ActiveIsPromised ==
    ASSUME NEW s \in Slots, NEW l \in Option(Lives), NEW t \in Time,
           Tracks(s, l), Readable(s, t)
    PROVE  l \in Lives /\ Promised(l, t)
  <1>1. s.entry # None /\ State(s.entry, t) = "Active"
    BY DEF Readable, StateOf
  <1>2. s.entry \in CacheEntries /\ l \in Lives
    BY <1>1 DEF Slots, Option, Tracks
  <1>3. /\ s.entry.ttl = l.ttl /\ s.entry.loaded_at = l.birth
        /\ s.entry.extended_at = l.approved /\ s.entry.pin = l.granted
    BY <1>1 DEF Tracks
  <1>4. ~Dead(s.entry, t) /\ (PinActive(s.entry, t) \/ ~SoftElapsed(s.entry, t))
    BY <1>1 DEF State
  <1>5. CASE PinActive(s.entry, t)
    BY <1>2, <1>3, <1>5 DEF PinActive, Promised
  <1>6. CASE ~PinActive(s.entry, t)
    <2>1. ~HardElapsed(s.entry, t) /\ ~SoftElapsed(s.entry, t)
      BY <1>4, <1>6 DEF Dead
    <2>2. /\ l.birth \in Nat /\ l.approved \in Nat
          /\ l.ttl.hard # None => l.ttl.hard \in Nat
          /\ l.ttl.soft # None => l.ttl.soft \in Nat
      BY <1>2 DEF Lives, Ttl, Option
    <2>3. l.ttl.hard # None => t < l.birth + l.ttl.hard
      BY <1>3, <2>1, <2>2 DEF HardElapsed, Age
    <2>4. l.ttl.soft # None => t < l.approved + l.ttl.soft
      BY <1>3, <2>1, <2>2 DEF SoftElapsed, Age
    <2> QED BY <1>2, <2>3, <2>4 DEF Promised
  <1> QED BY <1>5, <1>6, <1>2

(***************************************************************************)
(* No call ever hands out a secret beyond its hard life, or later than its *)
(* soft life after the last approval, except under a pin the user granted  *)
(* for it.  (store.rs get; entry.rs state, extend, pin_until)              *)
(***************************************************************************)
THEOREM Released == Spec => []ReleasedAsPromised
  <1>1. Init => ReleasedAsPromised
    BY DEF Init, NoReply, ReleasedAsPromised
  <1>2. IInv /\ ReleasedAsPromised /\ [Next]_vars => ReleasedAsPromised'
    <2> SUFFICES ASSUME IInv, ReleasedAsPromised, [Next]_vars PROVE ReleasedAsPromised'
      OBVIOUS
    <2>1. CASE UNCHANGED vars
      BY <2>1 DEF vars, ReleasedAsPromised, Promised
    <2>2. CASE Next /\ reply'.value = None
      BY <2>2 DEF ReleasedAsPromised
    <2>3. ASSUME NEW k \in Keys, DoGet(k), reply'.value # None PROVE ReleasedAsPromised'
      <3>1. /\ slots[k] \in Slots /\ Tracks(slots[k], life[k]) /\ now \in Time
            /\ life[k] \in Option(Lives)
        BY AtKey
      <3>2. reply'.key = k /\ Readable(slots[k], now)
        BY <2>3 DEF DoGet, Reply, NoReply
      <3>3. life[k] \in Lives /\ Promised(life[k], now)
        BY <3>1, <3>2, ActiveIsPromised
      <3>4. life' = life /\ now' = now
        BY <2>3 DEF DoGet
      <3> QED BY <3>2, <3>3, <3>4 DEF ReleasedAsPromised, Promised
    <2> QED BY <2>1, <2>2, <2>3, OnlyGetReleases
  <1> QED BY <1>1, <1>2, Invariance, PTL DEF Spec

(***************************************************************************)
(* Only regenerate and get_or_regenerate run an upstream command.          *)
(***************************************************************************)
LEMMA OnlyUpstreamRuns ==
    ASSUME IInv, Next, reply'.ran
    PROVE  \E k \in Keys, run \in Option(Values), auth \in BOOLEAN, t1 \in Later :
               DoRegenerate(k, run, auth, t1) \/ DoGetOrRegenerate(k, run, auth, t1)
  <1>1. ASSUME NEW op, NEW k, NEW out PROVE ~Reply(op, k, out).ran
    BY DEF Reply, NoReply
  <1>2. CASE Tick
    BY <1>2 DEF Tick, NoReply
  <1>3. ASSUME NEW k \in Keys, NEW src \in Sources \cup {Static}, NEW v \in Values,
               NEW ttl \in Ttls, DoSet(k, src, v, ttl)
        PROVE  FALSE
    BY <1>1, <1>3 DEF DoSet
  <1>4. ASSUME NEW k \in Keys, DoStateOf(k) \/ DoExtend(k) \/ DoUnpin(k) \/ DoDelete(k)
                               \/ DoDeleteWithDefinition(k) \/ DoUndefine(k)
        PROVE  FALSE
    BY <1>1, <1>4 DEF DoStateOf, DoExtend, DoUnpin, DoDelete, DoDeleteWithDefinition, DoUndefine
  <1>5. ASSUME NEW k \in Keys, NEW auth \in BOOLEAN, NEW t1 \in Later,
               DoExtendAuthenticated(k, auth, t1)
        PROVE  FALSE
    BY <1>1, <1>5 DEF DoExtendAuthenticated
  <1>6. ASSUME NEW k \in Keys, NEW len \in PinLengths, NEW auth \in BOOLEAN, NEW t1 \in Later,
               DoPinAuthenticated(k, len, auth, t1)
        PROVE  FALSE
    BY <1>1, <1>6 DEF DoPinAuthenticated
  <1>7. ASSUME NEW k \in Keys, NEW def, DoDefine(k, def) PROVE FALSE
    BY <1>1, <1>7 DEF DoDefine
  <1>8. ASSUME NEW k \in Keys, DoGet(k) PROVE FALSE
    BY <1>8 DEF DoGet, Reply, NoReply
  <1> QED BY <1>2, <1>3, <1>4, <1>5, <1>6, <1>7, <1>8 DEF Next

(***************************************************************************)
(* When a step runs an upstream command, the key is out of its backoff     *)
(* window and has no usable value.  (store.rs failure_backoff_remaining,   *)
(* regenerate, get_or_regenerate)                                          *)
(***************************************************************************)
LEMMA RunsOnlyWhenAllowed ==
    ASSUME IInv, Next, reply'.ran
    PROVE  /\ \/ failed[reply'.key] = None
              \/ now >= failed[reply'.key] + FailureBackoff
           /\ StateOf(slots[reply'.key], now) \in {"Absent", "HardExpired"}
  <1>1. PICK k \in Keys, run \in Option(Values), auth \in BOOLEAN, t1 \in Later :
               DoRegenerate(k, run, auth, t1) \/ DoGetOrRegenerate(k, run, auth, t1)
    BY OnlyUpstreamRuns
  <1>2. /\ slots[k] \in Slots /\ Tracks(slots[k], life[k]) /\ now \in Time
        /\ Remembers(slots[k], failed[k], now) /\ failed[k] \in Option(Time)
        /\ life[k] \in Option(Lives) /\ t1 \in Time /\ now <= t1
    BY AtKey, LaterIsLater DEF IInv, TypeOK
  <1>3. ASSUME NEW op, NEW r, NEW ttl, Upstream(op, k, r, ttl, t1),
               UpstreamKept(r, slots[k], ttl, life[k], failed[k], now, t1)
        PROVE  /\ reply'.key = k
               /\ ~InBackoff(slots[k], now)
               /\ StateOf(slots[k], now) \in {"Absent", "HardExpired"}
    <2>1. reply' = [op |-> op, key |-> k, out |-> r.out, value |-> None, ran |-> UpstreamRan(r)]
      BY <1>3 DEF Upstream, Reply, NoReply
    <2>2. reply'.key = k /\ UpstreamRan(r)
      BY <2>1
    <2> QED BY <1>3, <2>2 DEF UpstreamKept
  <1>4. /\ reply'.key = k /\ ~InBackoff(slots[k], now)
        /\ StateOf(slots[k], now) \in {"Absent", "HardExpired"}
    <2>1. /\ UpstreamKept(Regenerate(slots[k], run, auth, now, t1), slots[k],
                          slots[k].entry.ttl, life[k], failed[k], now, t1)
          /\ UpstreamKept(GetOrRegenerate(slots[k], run, auth, now, t1), slots[k],
                          slots[k].def.ttl, life[k], failed[k], now, t1)
      BY <1>2, UpstreamKeeps
    <2>2. CASE DoRegenerate(k, run, auth, t1)
      <3>1. Upstream("regenerate", k, Regenerate(slots[k], run, auth, now, t1),
                     slots[k].entry.ttl, t1)
        BY <2>2 DEF DoRegenerate
      <3> QED BY <1>3, <2>1, <3>1
    <2>3. CASE DoGetOrRegenerate(k, run, auth, t1)
      <3>1. Upstream("get_or_regenerate", k, GetOrRegenerate(slots[k], run, auth, now, t1),
                     slots[k].def.ttl, t1)
        BY <2>3 DEF DoGetOrRegenerate
      <3> QED BY <1>3, <2>1, <3>1
    <2> QED BY <1>1, <2>2, <2>3
  <1> QED BY <1>2, <1>4, WindowOver

(***************************************************************************)
(* No upstream command runs within the backoff of the key's last failure.  *)
(* (store.rs failure_backoff_remaining, regenerate, get_or_regenerate)     *)
(***************************************************************************)
THEOREM Patience == Spec => BackoffHonoured
  <1>1. IInv /\ [Next]_vars =>
          [reply'.ran => \/ failed[reply'.key] = None
                         \/ now >= failed[reply'.key] + FailureBackoff]_vars
    BY RunsOnlyWhenAllowed DEF vars
  <1> QED BY <1>1, Invariance, PTL DEF Spec, BackoffHonoured

(***************************************************************************)
(* No upstream command runs for a key whose value is still usable.         *)
(* (store.rs get_or_regenerate, regenerate)                                *)
(***************************************************************************)
THEOREM Thrift == Spec => UpstreamOnlyWhenNeeded
  <1>1. IInv /\ [Next]_vars =>
          [reply'.ran =>
             StateOf(slots[reply'.key], now) \in {"Absent", "HardExpired"}]_vars
    BY RunsOnlyWhenAllowed DEF vars
  <1> QED BY <1>1, Invariance, PTL DEF Spec, UpstreamOnlyWhenNeeded

-----------------------------------------------------------------------------
(* Expiry is final *)

(***************************************************************************)
(* s1 does not bring back a value that is dead in s at time t.             *)
(***************************************************************************)
StaysDead(s, s1, t) ==
    StateOf(s, t) = "HardExpired" => StateOf(s1, t) \in {"HardExpired", "Absent"}

(***************************************************************************)
(* A slot whose entry is untouched, destroyed or gone brings nothing back. *)
(* (entry.rs state, zeroize_value)                                         *)
(***************************************************************************)
LEMMA Harmless ==
    ASSUME NEW s, NEW s1, NEW t,
           s1.entry = s.entry \/ s1.entry = None \/ s1.entry.value = None
    PROVE  StaysDead(s, s1, t)
  BY DEF StaysDead, StateOf, State, Dead

(***************************************************************************)
(* Reading a slot at one time brings nothing back at another.              *)
(* (entry.rs evaluate)                                                     *)
(***************************************************************************)
LEMMA ReadStaysDead ==
    ASSUME NEW s \in Slots, NEW t0 \in Time, NEW t
    PROVE  /\ \/ Evaluated(s, t0).entry = s.entry
              \/ Evaluated(s, t0).entry.value = None
           /\ StaysDead(s, Evaluated(s, t0), t)
  <1>1. s.entry # None => s.entry \in CacheEntries
    BY DEF Slots, Option
  <1>2. \/ Evaluated(s, t0).entry = s.entry
        \/ Evaluated(s, t0).entry.value = None
    BY <1>1 DEF Evaluated, Evaluate, Zeroize, Slots, CacheEntries
  <1> QED BY <1>2, Harmless

(***************************************************************************)
(* Neither an extend, nor an unpin, nor a pin granted at a prompt that     *)
(* outlasted the value brings it back: all of them look at the state at    *)
(* the time they take effect.  (entry.rs extend, pin_until, unpin)         *)
(***************************************************************************)
LEMMA ApprovalsStayDead ==
    ASSUME NEW s \in Slots, NEW t0 \in Time, NEW t1 \in Time, NEW d \in Time,
           NEW auth \in BOOLEAN
    PROVE  /\ StaysDead(s, Extend(s, t0).slot, t0)
           /\ StaysDead(s, Unpin(s), t0)
           /\ StaysDead(s, ExtendAuthenticated(s, auth, t0, t1).slot,
                        IF StateOf(s, t0) = "SoftExpired" THEN t1 ELSE t0)
           /\ StaysDead(s, PinAuthenticated(s, d, auth, t0, t1).slot,
                        IF StateOf(s, t0) \in {"Active", "SoftExpired"} THEN t1 ELSE t0)
  <1>1. s.entry # None => s.entry \in CacheEntries
    BY DEF Slots, Option
  <1>2. s.entry = None => \A t : StateOf(s, t) = "Absent"
    BY DEF StateOf
  <1>3. ASSUME NEW t \in Time PROVE StaysDead(s, Extend(s, t).slot, t)
    <2>1. CASE s.entry = None
      BY <1>2, <2>1 DEF StaysDead
    <2>2. CASE s.entry # None /\ StateOf(s, t) = "HardExpired"
      <3>1. Extend(s, t).slot = Evaluated(s, t)
        BY <2>2 DEF Extend, Result
      <3> QED BY <3>1, ReadStaysDead
    <2>3. CASE StateOf(s, t) # "HardExpired"
      BY <2>3 DEF StaysDead
    <2> QED BY <2>1, <2>2, <2>3
  <1>4. StaysDead(s, Unpin(s), t0)
    <2>1. CASE s.entry = None
      BY <1>2, <2>1 DEF StaysDead
    <2>2. CASE s.entry # None
      <3>1. /\ Unpin(s).entry.value = s.entry.value
            /\ Unpin(s).entry.ttl = s.entry.ttl
            /\ Unpin(s).entry.loaded_at = s.entry.loaded_at
            /\ Unpin(s).entry.pin = None
        <4>1. Unpin(s).entry = [s.entry EXCEPT !.pin = None]
          BY <2>2 DEF Unpin, UnpinEntry, Slots
        <4> QED BY <1>1, <2>2, <4>1 DEF CacheEntries
      <3>2. Dead(s.entry, t0) => Dead(Unpin(s).entry, t0)
        BY <3>1 DEF Dead, PinActive, HardElapsed
      <3> QED BY <2>2, <3>1, <3>2 DEF StaysDead, StateOf, State
    <2> QED BY <2>1, <2>2
  <1>5. StaysDead(s, ExtendAuthenticated(s, auth, t0, t1).slot,
                  IF StateOf(s, t0) = "SoftExpired" THEN t1 ELSE t0)
    <2> DEFINE r == ExtendAuthenticated(s, auth, t0, t1)
    <2>1. CASE s.entry = None
      BY <1>2, <2>1 DEF StaysDead
    <2>2. CASE s.entry # None /\ StateOf(s, t0) = "HardExpired"
      <3>1. r.slot = Evaluated(s, t0)
        BY <2>2 DEF ExtendAuthenticated, Result
      <3> QED BY <2>2, <3>1, ReadStaysDead
    <2>3. CASE s.entry # None /\ StateOf(s, t0) = "Active"
      BY <2>3 DEF StaysDead
    <2>4. CASE s.entry # None /\ StateOf(s, t0) = "SoftExpired"
      <3>1. r.slot = s \/ r.slot = Extend(s, t1).slot
        BY <2>4 DEF ExtendAuthenticated, Result
      <3> QED BY <2>4, <3>1, <1>3, Harmless
    <2> QED BY <2>1, <2>2, <2>3, <2>4 DEF StateOf, State
  <1>6. StaysDead(s, PinAuthenticated(s, d, auth, t0, t1).slot,
                  IF StateOf(s, t0) \in {"Active", "SoftExpired"} THEN t1 ELSE t0)
    <2> DEFINE r == PinAuthenticated(s, d, auth, t0, t1)
    <2>1. CASE s.entry = None
      BY <1>2, <2>1 DEF StaysDead
    <2>2. CASE s.entry # None /\ StateOf(s, t0) = "HardExpired"
      <3>1. r.slot = s
        BY <2>2 DEF PinAuthenticated, Result
      <3> QED BY <2>2, <3>1, Harmless
    <2>3. CASE s.entry # None /\ StateOf(s, t0) \in {"Active", "SoftExpired"}
      <3>1. CASE ~auth
        BY <2>3, <3>1, Harmless DEF PinAuthenticated, Result
      <3>2. CASE auth /\ StateOf(s, t1) = "HardExpired"
        <4>1. r.slot.entry = Zeroize(s.entry)
          BY <2>3, <3>2 DEF PinAuthenticated, Result, PinUntil, StateOf, Slots
        <4>2. r.slot.entry.value = None
          BY <1>1, <2>3, <4>1 DEF Zeroize, CacheEntries
        <4> QED BY <2>3, <4>2, Harmless
      <3>3. CASE StateOf(s, t1) # "HardExpired"
        BY <2>3, <3>3 DEF StaysDead
      <3> QED BY <3>1, <3>2, <3>3
    <2> QED BY <2>1, <2>2, <2>3 DEF StateOf, State
  <1> QED BY <1>3, <1>4, <1>5, <1>6

(***************************************************************************)
(* An upstream call that does not succeed returns the slot, the slot as    *)
(* read, or that with a failure recorded.  (store.rs regenerate,           *)
(* get_or_regenerate)                                                      *)
(***************************************************************************)
LEMMA FailedFetchStaysDead ==
    ASSUME NEW s \in Slots, NEW t0 \in Time, NEW t1 \in Time,
           NEW run \in Option(Values), NEW auth \in BOOLEAN, NEW t
    PROVE  /\ Regenerate(s, run, auth, t0, t1).out = "Ok"
              \/ StaysDead(s, Regenerate(s, run, auth, t0, t1).slot, t)
           /\ GetOrRegenerate(s, run, auth, t0, t1).out = "Ok"
              \/ StaysDead(s, GetOrRegenerate(s, run, auth, t0, t1).slot, t)
  <1> DEFINE e == Evaluated(s, t0)
  <1>1. e \in Slots /\ (e.entry = s.entry \/ e.entry.value = None)
    BY SlotOpsType, ReadStaysDead
  <1>2. StaysDead(s, s, t) /\ StaysDead(s, e, t)
    BY Harmless, ReadStaysDead
  <1>3. ASSUME NEW src, NEW ttl
        PROVE  \/ FetchAndInstall(e, src, ttl, run, auth, t1).out = "Ok"
               \/ StaysDead(s, FetchAndInstall(e, src, ttl, run, auth, t1).slot, t)
    <2> DEFINE r == FetchAndInstall(e, src, ttl, run, auth, t1)
    <2>1. CASE run = None
      <3>1. RunFailed(e, t1).entry = e.entry
        BY <1>1 DEF RunFailed, Slots
      <3>2. r.slot = RunFailed(e, t1)
        BY <2>1 DEF FetchAndInstall, Result
      <3> HIDE DEF e
      <3> QED BY <1>1, <3>1, <3>2, Harmless
    <2>2. CASE run # None /\ ~auth
      BY <1>2, <2>2 DEF FetchAndInstall, Result
    <2>3. CASE run # None /\ auth
      BY <2>3 DEF FetchAndInstall, Result
    <2> QED BY <2>1, <2>2, <2>3
  <1>4. Regenerate(s, run, auth, t0, t1).out = "Ok"
        \/ StaysDead(s, Regenerate(s, run, auth, t0, t1).slot, t)
    <2>1. \/ Regenerate(s, run, auth, t0, t1).slot = s
          \/ Regenerate(s, run, auth, t0, t1)
                = FetchAndInstall(e, s.entry.source, s.entry.ttl, run, auth, t1)
      BY DEF Regenerate, Result
    <2> HIDE DEF e
    <2> QED BY <1>2, <1>3, <2>1
  <1>5. GetOrRegenerate(s, run, auth, t0, t1).out = "Ok"
        \/ StaysDead(s, GetOrRegenerate(s, run, auth, t0, t1).slot, t)
    <2>1. \/ GetOrRegenerate(s, run, auth, t0, t1).slot \in {s, e}
          \/ GetOrRegenerate(s, run, auth, t0, t1)
                = FetchAndInstall(e, s.def.source, s.def.ttl, run, auth, t1)
      BY DEF GetOrRegenerate, Result
    <2> HIDE DEF e
    <2> QED BY <1>2, <1>3, <2>1
  <1> QED BY <1>4, <1>5

(***************************************************************************)
(* Every call leaves the other keys alone and either loads its own or      *)
(* brings nothing back.  (store.rs, all methods)                           *)
(***************************************************************************)
LEMMA NothingComesBack ==
    ASSUME IInv, Next
    PROVE  \A k \in Keys :
              (StateOf(slots[k], now') = "HardExpired" /\ ~Loaded(k))
                 => StateOf(slots'[k], now') \in {"HardExpired", "Absent"}
  <1> DEFINE Goal == \A k \in Keys :
                        (StateOf(slots[k], now') = "HardExpired" /\ ~Loaded(k))
                           => StateOf(slots'[k], now') \in {"HardExpired", "Absent"}
  <1>1. ASSUME NEW k \in Keys, NEW s1, slots' = [slots EXCEPT ![k] = s1],
               Loaded(k) \/ StaysDead(slots[k], s1, now')
        PROVE  Goal
    <2>1. ASSUME NEW j \in Keys, StateOf(slots[j], now') = "HardExpired", ~Loaded(j)
          PROVE  StateOf(slots'[j], now') \in {"HardExpired", "Absent"}
      <3>1. CASE j = k
        <4>1. slots'[j] = s1
          BY <1>1, <3>1 DEF IInv, TypeOK
        <4> QED BY <1>1, <2>1, <3>1, <4>1 DEF StaysDead
      <3>2. CASE j # k
        <4>1. slots'[j] = slots[j]
          BY <1>1, <3>2 DEF IInv, TypeOK
        <4> QED BY <2>1, <4>1
      <3> QED BY <3>1, <3>2
    <2> QED BY <2>1
  <1>2. ASSUME NEW k \in Keys
        PROVE  slots[k] \in Slots /\ now \in Time
    BY AtKey
  <1>3. ASSUME Tick PROVE Goal
    BY <1>3 DEF Tick
  <1>4. ASSUME NEW k \in Keys, NEW src \in Sources \cup {Static}, NEW v \in Values,
               NEW ttl \in Ttls, DoSet(k, src, v, ttl)
        PROVE  Goal
    <2>1. Loaded(k)
      BY <1>4 DEF DoSet, Loaded, LoadOps, Reply, NoReply
    <2>2. slots' = [slots EXCEPT ![k] = Set(slots[k], src, v, ttl, now)]
      BY <1>4 DEF DoSet
    <2> HIDE DEF Goal
    <2> QED BY <1>1, <2>1, <2>2
  <1>5. ASSUME NEW k \in Keys, DoGet(k) \/ DoStateOf(k) PROVE Goal
    <2>1. slots' = [slots EXCEPT ![k] = Evaluated(slots[k], now)]
      BY <1>5 DEF DoGet, DoStateOf
    <2>2. StaysDead(slots[k], Evaluated(slots[k], now), now')
      BY <1>2, ReadStaysDead
    <2> HIDE DEF Goal
    <2> QED BY <1>1, <2>1, <2>2
  <1>6. ASSUME NEW k \in Keys, DoExtend(k) PROVE Goal
    <2>1. slots' = [slots EXCEPT ![k] = Extend(slots[k], now).slot] /\ now' = now
      BY <1>6 DEF DoExtend
    <2>2. StaysDead(slots[k], Extend(slots[k], now).slot, now)
      BY <1>2, ApprovalsStayDead
    <2> HIDE DEF Goal
    <2> QED BY <1>1, <2>1, <2>2
  <1>7. ASSUME NEW k \in Keys, NEW auth \in BOOLEAN, NEW t1 \in Later,
               DoExtendAuthenticated(k, auth, t1)
        PROVE  Goal
    <2>1. /\ slots' = [slots EXCEPT ![k] = ExtendAuthenticated(slots[k], auth, now, t1).slot]
          /\ now' = IF StateOf(slots[k], now) = "SoftExpired" THEN t1 ELSE now
      BY <1>7 DEF DoExtendAuthenticated
    <2>2. StaysDead(slots[k], ExtendAuthenticated(slots[k], auth, now, t1).slot, now')
      BY <1>2, <2>1, LaterIsLater, ApprovalsStayDead
    <2> HIDE DEF Goal
    <2> QED BY <1>1, <2>1, <2>2
  <1>8. ASSUME NEW k \in Keys, NEW len \in PinLengths, NEW auth \in BOOLEAN, NEW t1 \in Later,
               DoPinAuthenticated(k, len, auth, t1)
        PROVE  Goal
    <2>1. /\ slots' = [slots EXCEPT ![k] = PinAuthenticated(slots[k], now + len, auth, now, t1).slot]
          /\ now' = IF StateOf(slots[k], now) \in {"Active", "SoftExpired"} THEN t1 ELSE now
      BY <1>8 DEF DoPinAuthenticated
    <2>2. now + len \in Time /\ t1 \in Time
      BY <1>2, LaterIsLater, PinLengthsAreDurations
    <2>3. StaysDead(slots[k], PinAuthenticated(slots[k], now + len, auth, now, t1).slot, now')
      BY <1>2, <2>1, <2>2, ApprovalsStayDead
    <2> HIDE DEF Goal
    <2> QED BY <1>1, <2>1, <2>3
  <1>9. ASSUME NEW k \in Keys, DoUnpin(k) PROVE Goal
    <2>1. slots' = [slots EXCEPT ![k] = Unpin(slots[k])] /\ now' = now
      BY <1>9 DEF DoUnpin
    <2>2. StaysDead(slots[k], Unpin(slots[k]), now)
      BY <1>2, ApprovalsStayDead
    <2> HIDE DEF Goal
    <2> QED BY <1>1, <2>1, <2>2
  <1>10. ASSUME NEW k \in Keys, DoDelete(k) \/ DoDeleteWithDefinition(k) \/ DoUndefine(k)
         PROVE  Goal
    <2>1. PICK s1 \in {Delete(slots[k]), EmptySlot, Undefine(slots[k])} :
                 slots' = [slots EXCEPT ![k] = s1]
      BY <1>10 DEF DoDelete, DoDeleteWithDefinition, DeleteWithDefinition, DoUndefine
    <2>2. s1.entry = slots[k].entry \/ s1.entry = None
      <3>1. Delete(slots[k]).entry = None /\ Undefine(slots[k]).entry = slots[k].entry
        BY <1>2 DEF Delete, Undefine, Slots
      <3>2. EmptySlot.entry = None
        BY DEF EmptySlot
      <3> HIDE DEF Goal
      <3> QED BY <2>1, <3>1, <3>2
    <2>3. StaysDead(slots[k], s1, now')
      BY <2>2, Harmless
    <2> HIDE DEF Goal
    <2> QED BY <1>1, <2>1, <2>3
  <1>11. ASSUME NEW k \in Keys, NEW def, DoDefine(k, def) PROVE Goal
    <2>1. slots' = [slots EXCEPT ![k] = Define(slots[k], def).slot]
      BY <1>11 DEF DoDefine
    <2>2. Define(slots[k], def).slot.entry = slots[k].entry
      BY <1>2 DEF Define, Result, Slots
    <2>3. StaysDead(slots[k], Define(slots[k], def).slot, now')
      BY <2>2, Harmless
    <2> HIDE DEF Goal
    <2> QED BY <1>1, <2>1, <2>3
  <1>12. ASSUME NEW k \in Keys, NEW run \in Option(Values), NEW auth \in BOOLEAN,
                NEW t1 \in Later, DoRegenerate(k, run, auth, t1) \/ DoGetOrRegenerate(k, run, auth, t1)
         PROVE  Goal
    <2>1. ASSUME NEW op \in LoadOps, NEW r, NEW ttl, Upstream(op, k, r, ttl, t1),
                 r.out = "Ok" \/ StaysDead(slots[k], r.slot, now')
          PROVE  Goal
      <3>1. slots' = [slots EXCEPT ![k] = r.slot]
        BY <2>1 DEF Upstream
      <3>2. r.out = "Ok" => Loaded(k)
        BY <2>1 DEF Upstream, Loaded, Reply, NoReply
      <3> HIDE DEF Goal
      <3> QED BY <1>1, <2>1, <3>1, <3>2
    <2>2. t1 \in Time
      BY <1>2, LaterIsLater
    <2>3. CASE DoRegenerate(k, run, auth, t1)
      <3> DEFINE r == Regenerate(slots[k], run, auth, now, t1)
      <3>1. Upstream("regenerate", k, r, slots[k].entry.ttl, t1)
        BY <2>3 DEF DoRegenerate
      <3>2. r.out = "Ok" \/ StaysDead(slots[k], r.slot, now')
        BY <1>2, <2>2, FailedFetchStaysDead
      <3> HIDE DEF Goal, r
      <3> QED BY <2>1, <3>1, <3>2 DEF LoadOps
    <2>4. CASE DoGetOrRegenerate(k, run, auth, t1)
      <3> DEFINE r == GetOrRegenerate(slots[k], run, auth, now, t1)
      <3>1. Upstream("get_or_regenerate", k, r, slots[k].def.ttl, t1)
        BY <2>4 DEF DoGetOrRegenerate
      <3>2. r.out = "Ok" \/ StaysDead(slots[k], r.slot, now')
        BY <1>2, <2>2, FailedFetchStaysDead
      <3> HIDE DEF Goal, r
      <3> QED BY <2>1, <3>1, <3>2 DEF LoadOps
    <2> QED BY <1>12, <2>3, <2>4
  <1> HIDE DEF Goal
  <1>13. Goal
    BY <1>3, <1>4, <1>5, <1>6, <1>7, <1>8, <1>9, <1>10, <1>11, <1>12 DEF Next
  <1> QED BY <1>13 DEF Goal

(***************************************************************************)
(* Hard expiry is final: a value past its hard limit, read or unread, or   *)
(* one that passed it while a prompt was open, is never usable again until *)
(* a new value is loaded.  (entry.rs evaluate, extend, pin_until, unpin)   *)
(***************************************************************************)
THEOREM Final == Spec => ExpiryIsFinal
  <1>1. IInv /\ [Next]_vars =>
          [\A k \in Keys :
              (StateOf(slots[k], now') = "HardExpired" /\ ~Loaded(k))
                 => StateOf(slots'[k], now') \in {"HardExpired", "Absent"}]_vars
    BY NothingComesBack
  <1> QED BY <1>1, Invariance, PTL DEF Spec, ExpiryIsFinal


-----------------------------------------------------------------------------
(* Refusals *)

\* s1 has the entry of s, or one whose value has been destroyed.
OnlyLoses(s, s1) ==
    s1.entry = s.entry \/ s1.entry.value = None

(***************************************************************************)
(* Such a slot is at no time more readable than before.  (entry.rs state)  *)
(***************************************************************************)
LEMMA LossGrantsNothing ==
    ASSUME NEW s, NEW s1, NEW t, OnlyLoses(s, s1)
    PROVE  Rank(s1, t) <= Rank(s, t)
  <1>1. Rank(s, t) \in {0, 1, 2}
    BY DEF Rank
  <1>2. CASE s1.entry = s.entry
    <2>1. Rank(s1, t) = Rank(s, t)
      BY <1>2 DEF Rank, StateOf
    <2> QED BY <1>1, <2>1
  <1>3. CASE s1.entry.value = None
    <2>1. Rank(s1, t) = 0
      BY <1>3 DEF Rank, StateOf, State, Dead
    <2> QED BY <1>1, <2>1
  <1> QED BY <1>2, <1>3 DEF OnlyLoses

(***************************************************************************)
(* Reading a slot can only cost it its value.  (entry.rs evaluate)         *)
(***************************************************************************)
LEMMA ReadOnlyLoses ==
    ASSUME NEW s \in Slots, NEW t
    PROVE  Evaluated(s, t) \in Slots => OnlyLoses(s, Evaluated(s, t))
  <1>1. CASE s.entry = None
    BY <1>1 DEF Evaluated, OnlyLoses
  <1>2. CASE s.entry # None
    <2>1. s.entry \in CacheEntries
      BY <1>2 DEF Slots, Option
    <2>2. Evaluated(s, t).entry = Evaluate(s.entry, t)
      BY <1>2 DEF Evaluated, Slots
    <2>3. CASE Evaluate(s.entry, t) = s.entry
      BY <2>2, <2>3 DEF OnlyLoses
    <2>4. CASE Evaluate(s.entry, t) = Zeroize(s.entry)
      BY <2>1, <2>2, <2>4 DEF OnlyLoses, Zeroize, CacheEntries
    <2> QED BY <2>3, <2>4 DEF Evaluate
  <1> QED BY <1>1, <1>2

(***************************************************************************)
(* An extend that is refused returns the slot as it was, or as read.       *)
(* (store.rs extend)                                                       *)
(***************************************************************************)
LEMMA ExtendRefused ==
    ASSUME NEW s \in Slots, NEW t \in Time, Extend(s, t).out # "Ok"
    PROVE  OnlyLoses(s, Extend(s, t).slot)
  <1>1. Extend(s, t).slot \in {s, Evaluated(s, t)}
    BY DEF Extend, Result
  <1>2. OnlyLoses(s, Evaluated(s, t)) /\ OnlyLoses(s, s)
    BY ReadOnlyLoses, SlotOpsType DEF OnlyLoses
  <1> QED BY <1>1, <1>2

(***************************************************************************)
(* So does a prompt for an extension that the user answers with no, or     *)
(* that outlasts the value.  (store.rs extend_authenticated)               *)
(***************************************************************************)
LEMMA ExtendAuthenticatedRefused ==
    ASSUME NEW s \in Slots, NEW t0 \in Time, NEW t1 \in Time, NEW auth \in BOOLEAN,
           ExtendAuthenticated(s, auth, t0, t1).out # "Ok"
    PROVE  OnlyLoses(s, ExtendAuthenticated(s, auth, t0, t1).slot)
  <1> DEFINE r == ExtendAuthenticated(s, auth, t0, t1)
  <1>1. \/ r.slot \in {s, Evaluated(s, t0)}
        \/ r = Extend(s, t0) \/ r = Extend(s, t1)
    BY DEF ExtendAuthenticated, Result
  <1>2. OnlyLoses(s, Evaluated(s, t0)) /\ OnlyLoses(s, s)
    BY ReadOnlyLoses, SlotOpsType DEF OnlyLoses
  <1> HIDE DEF r
  <1>3. r.out # "Ok"
    BY DEF r
  <1>4. OnlyLoses(s, r.slot)
    BY <1>1, <1>2, <1>3, ExtendRefused
  <1> QED BY <1>4 DEF r

(***************************************************************************)
(* A pin that is refused leaves the slot, or finds the value dead.         *)
(* (store.rs pin_authenticated)                                            *)
(***************************************************************************)
LEMMA PinRefused ==
    ASSUME NEW s \in Slots, NEW d, NEW t0 \in Time, NEW t1 \in Time, NEW auth \in BOOLEAN,
           PinAuthenticated(s, d, auth, t0, t1).out # "Ok"
    PROVE  OnlyLoses(s, PinAuthenticated(s, d, auth, t0, t1).slot)
  <1> DEFINE r == PinAuthenticated(s, d, auth, t0, t1)
  <1>1. \/ r.slot = s
        \/ /\ s.entry # None /\ StateOf(s, t1) = "HardExpired"
           /\ r.slot = [s EXCEPT !.entry = PinUntil(s.entry, d, t1)]
    BY DEF PinAuthenticated, Result
  <1> HIDE DEF r
  <1>2. CASE /\ s.entry # None /\ StateOf(s, t1) = "HardExpired"
             /\ r.slot = [s EXCEPT !.entry = PinUntil(s.entry, d, t1)]
    <2>1. s.entry \in CacheEntries
      BY <1>2 DEF Slots, Option
    <2>2. r.slot.entry = Zeroize(s.entry)
      BY <1>2 DEF Slots, PinUntil, StateOf
    <2>3. r.slot.entry.value = None
      BY <2>1, <2>2 DEF Zeroize, CacheEntries
    <2> QED BY <2>3 DEF OnlyLoses, r
  <1>3. OnlyLoses(s, r.slot)
    <2>1. CASE r.slot = s
      BY <2>1 DEF OnlyLoses
    <2> QED BY <1>1, <1>2, <2>1 DEF r
  <1> QED BY <1>3 DEF r

(***************************************************************************)
(* An upstream command that is refused or fails costs the value at most,   *)
(* and leaves its record.  (store.rs regenerate, get_or_regenerate)        *)
(***************************************************************************)
LEMMA FetchRefused ==
    ASSUME NEW s \in Slots, NEW t0 \in Time, NEW t1 \in Time,
           NEW run, NEW auth \in BOOLEAN, NEW r,
           \/ r = Regenerate(s, run, auth, t0, t1)
           \/ r = GetOrRegenerate(s, run, auth, t0, t1),
           r.out # "Ok"
    PROVE  OnlyLoses(s, r.slot)
  <1> DEFINE e == Evaluated(s, t0)
  <1>1. e \in Slots /\ OnlyLoses(s, e) /\ OnlyLoses(s, s)
    BY ReadOnlyLoses, SlotOpsType DEF OnlyLoses
  <1> HIDE DEF e
  <1>2. r.slot \in {s, e, RunFailed(e, t1)}
    BY DEF Regenerate, GetOrRegenerate, FetchAndInstall, Result, e
  <1>3. RunFailed(e, t1).entry = e.entry
    BY <1>1 DEF RunFailed, Slots
  <1> QED BY <1>1, <1>2, <1>3 DEF OnlyLoses

(***************************************************************************)
(* A refused call costs its key the value at most, and leaves the others   *)
(* alone.  (store.rs, all methods)                                         *)
(***************************************************************************)
LEMMA RefusedOnlyLoses ==
    ASSUME IInv, Next, reply'.out # "Ok"
    PROVE  \E k \in Keys : \E s1 :
               slots' = [slots EXCEPT ![k] = s1] /\ OnlyLoses(slots[k], s1)
  <1> DEFINE Goal == \E k \in Keys : \E s1 :
                         slots' = [slots EXCEPT ![k] = s1] /\ OnlyLoses(slots[k], s1)
  <1> HIDE DEF Goal
  <1>1. ASSUME NEW k \in Keys, NEW s1, slots' = [slots EXCEPT ![k] = s1],
               OnlyLoses(slots[k], s1)
        PROVE  Goal
    BY <1>1 DEF Goal
  <1>2. ASSUME NEW k \in Keys
        PROVE  slots[k] \in Slots /\ now \in Time
    BY AtKey
  <1>3. ~Tick
    BY DEF Tick, NoReply
  <1>4. ASSUME NEW k \in Keys
        PROVE  /\ \A src, v, ttl : ~DoSet(k, src, v, ttl)
               /\ ~DoGet(k) /\ ~DoStateOf(k)
               /\ ~DoDelete(k) /\ ~DoDeleteWithDefinition(k) /\ ~DoUndefine(k)
    BY DEF DoSet, DoGet, DoStateOf, DoDelete, DoDeleteWithDefinition, DoUndefine, Reply, NoReply
  <1>5. ASSUME NEW k \in Keys, DoExtend(k) PROVE Goal
    <2>1. /\ slots' = [slots EXCEPT ![k] = Extend(slots[k], now).slot]
          /\ Extend(slots[k], now).out # "Ok"
      BY <1>5 DEF DoExtend, Reply, NoReply
    <2>2. OnlyLoses(slots[k], Extend(slots[k], now).slot)
      BY <1>2, <2>1, ExtendRefused
    <2> QED BY <1>1, <2>1, <2>2
  <1>6. ASSUME NEW k \in Keys, NEW auth \in BOOLEAN, NEW t1 \in Later,
               DoExtendAuthenticated(k, auth, t1)
        PROVE  Goal
    <2>1. /\ slots' = [slots EXCEPT ![k] = ExtendAuthenticated(slots[k], auth, now, t1).slot]
          /\ ExtendAuthenticated(slots[k], auth, now, t1).out # "Ok"
      BY <1>6 DEF DoExtendAuthenticated, Reply, NoReply
    <2>2. OnlyLoses(slots[k], ExtendAuthenticated(slots[k], auth, now, t1).slot)
      BY <1>2, <2>1, LaterIsLater, ExtendAuthenticatedRefused
    <2> QED BY <1>1, <2>1, <2>2
  <1>7. ASSUME NEW k \in Keys, NEW len \in PinLengths, NEW auth \in BOOLEAN, NEW t1 \in Later,
               DoPinAuthenticated(k, len, auth, t1)
        PROVE  Goal
    <2>1. /\ slots' = [slots EXCEPT ![k] =
                          PinAuthenticated(slots[k], now + len, auth, now, t1).slot]
          /\ PinAuthenticated(slots[k], now + len, auth, now, t1).out # "Ok"
      BY <1>7 DEF DoPinAuthenticated, Reply, NoReply
    <2>2. OnlyLoses(slots[k], PinAuthenticated(slots[k], now + len, auth, now, t1).slot)
      BY <1>2, <2>1, LaterIsLater, PinRefused
    <2> QED BY <1>1, <2>1, <2>2
  <1>8. ASSUME NEW k \in Keys, DoUnpin(k) PROVE Goal
    <2>1. slots[k].entry = None /\ slots' = [slots EXCEPT ![k] = slots[k]]
      BY <1>8 DEF DoUnpin, Unpin, Reply, NoReply
    <2>2. OnlyLoses(slots[k], slots[k])
      BY DEF OnlyLoses
    <2> QED BY <1>1, <2>1, <2>2
  <1>9. ASSUME NEW k \in Keys, NEW def, DoDefine(k, def) PROVE Goal
    <2>1. slots' = [slots EXCEPT ![k] = Define(slots[k], def).slot]
      BY <1>9 DEF DoDefine
    <2>2. OnlyLoses(slots[k], Define(slots[k], def).slot)
      BY <1>2 DEF Define, Result, Slots, OnlyLoses
    <2> QED BY <1>1, <2>1, <2>2
  <1>10. ASSUME NEW k \in Keys, NEW run \in Option(Values), NEW auth \in BOOLEAN,
                NEW t1 \in Later, DoRegenerate(k, run, auth, t1) \/ DoGetOrRegenerate(k, run, auth, t1)
         PROVE  Goal
    <2>1. PICK r : /\ \/ r = Regenerate(slots[k], run, auth, now, t1)
                      \/ r = GetOrRegenerate(slots[k], run, auth, now, t1)
                   /\ r.out # "Ok" /\ slots' = [slots EXCEPT ![k] = r.slot]
      BY <1>10 DEF DoRegenerate, DoGetOrRegenerate, Upstream, Reply, NoReply
    <2>2. OnlyLoses(slots[k], r.slot)
      BY <1>2, <2>1, LaterIsLater, FetchRefused
    <2> QED BY <1>1, <2>1, <2>2
  <1>11. Goal
    BY <1>3, <1>4, <1>5, <1>6, <1>7, <1>8, <1>9, <1>10 DEF Next
  <1> QED BY <1>11 DEF Goal

(***************************************************************************)
(* No key is ever more readable after a call that was refused than before  *)
(* it, at the time the call ends.  (store.rs: an error leaves the store    *)
(* unchanged)                                                              *)
(***************************************************************************)
THEOREM Harmlessness == Spec => RefusalGrantsNothing
  <1>1. ASSUME IInv, Next, reply'.out # "Ok"
        PROVE  \A k \in Keys : Rank(slots'[k], now') <= Rank(slots[k], now')
    <2>1. PICK k \in Keys : \E s1 :
              slots' = [slots EXCEPT ![k] = s1] /\ OnlyLoses(slots[k], s1)
      BY <1>1, RefusedOnlyLoses
    <2>2. PICK s1 : slots' = [slots EXCEPT ![k] = s1] /\ OnlyLoses(slots[k], s1)
      BY <2>1
    <2>3. ASSUME NEW j \in Keys PROVE OnlyLoses(slots[j], slots'[j])
      <3>1. slots'[j] = IF j = k THEN s1 ELSE slots[j]
        BY <1>1, <2>2 DEF IInv, TypeOK
      <3> QED BY <2>2, <3>1 DEF OnlyLoses
    <2> QED BY <2>3, LossGrantsNothing
  <1>2. IInv /\ [Next]_vars =>
          [reply'.out # "Ok" =>
              \A k \in Keys : Rank(slots'[k], now') <= Rank(slots[k], now')]_vars
    BY <1>1
  <1> QED BY <1>2, Invariance, PTL DEF Spec, RefusalGrantsNothing

=============================================================================
