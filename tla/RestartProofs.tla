---------------------------- MODULE RestartProofs ----------------------------
(***************************************************************************)
(* Theorems about Restart, for any number of keys, clients, restarts and   *)
(* faults, any clocks and any configuration.                               *)
(***************************************************************************)
EXTENDS Restart, StoreOpsProofs, TLAPS

-----------------------------------------------------------------------------
(* The inductive invariant *)

(***************************************************************************)
(* The lifetimes clients and configurations give; those a clock of the new *)
(* process reaches back over are short.                                    *)
(***************************************************************************)
Given ==
    {w.ttl : w \in Writes} \cup {d.ttl : d \in OnlineDefs}
      \cup {ttl \in Ttl : \E c \in Configs, k \in Keys : c[k] # None /\ c[k].ttl = ttl}

Short(ttl) == ttl.hard # None => ttl.hard <= Headroom

ShortLived == \A ttl \in Given : Short(ttl)

Limited(s) ==
    /\ s.entry # None => s.entry.ttl \in Given
    /\ s.def # None => s.def.ttl \in Given

Live(s) == s.entry # None /\ s.entry.value # None

(***************************************************************************)
(* What real time says of a key agrees with its slot, whose times count    *)
(* from org: a value lasts at least until `soon' and at most until `late', *)
(* unless that is over, and its pin likewise.                              *)
(***************************************************************************)
HardTimely(e, l, org, t) ==
    IF e.ttl.hard = None THEN l.late >= Never
    ELSE /\ l.soon <= org + e.loaded_at + e.ttl.hard
         /\ \/ ~Short(e.ttl)
            \/ org + e.loaded_at + e.ttl.hard <= l.late
            \/ org + e.loaded_at + e.ttl.hard <= t

PinTimely(e, l, org, t) ==
    IF e.pin = None THEN l.pinSoon <= t
    ELSE /\ l.pinSoon <= org + e.pin
         /\ org + e.pin <= l.pinLate \/ org + e.pin <= t

Timely(s, l, org, t) ==
    IF Live(s) THEN /\ org + s.entry.loaded_at <= t
                    /\ HardTimely(s.entry, l, org, t) /\ PinTimely(s.entry, l, org, t)
    ELSE l.soon <= t /\ l.pinSoon <= t

Patient(s, l, org, t) ==
    l.quiet > t =>
        /\ s.backoff # None /\ s.backoff.retry_after > 0
        /\ l.quiet <= org + s.backoff.failed_at + s.backoff.retry_after

Faithful(s, l, org, t) == Limited(s) /\ Timely(s, l, org, t) /\ Patient(s, l, org, t)

\* A key the snapshot does not mention arrives empty.
Carried(x) == IF x = None THEN EmptySlot ELSE x

FaithfulSnapshot(snap, t) ==
    snap # None => \A k \in Keys : Faithful(Carried(snap.store[k]), snap.life[k], 0, t)

Typed ==
    /\ TypeOK
    /\ now \in 0..MaxTime /\ origin \in Int

(***************************************************************************)
(* Only a prepared restart drains, and a process that starts over has an   *)
(* empty memory.                                                           *)
(***************************************************************************)
Phased ==
    /\ proc = "Draining" => restart.st = "prepared"
    /\ proc \in {"Down", "Receiving"} =>
          slots = ColdSlots /\ life = [k \in Keys |-> NoLife] /\ restart = Idle
    /\ proc \in {"Down", "Receiving", "Starting"} => ready = FALSE
    /\ proc \in {"Up", "Draining"} => ready = PersistDefinitions

(***************************************************************************)
(* What is owed to a key arrives with its slot.                            *)
(***************************************************************************)
Carries(x, o) ==
    /\ x.def = o.def
    /\ o.value # None => /\ x.entry # None /\ x.entry.value = o.value
                         /\ x.guard = o.guard /\ x.owner = o.owner /\ x.version = o.version

Promised ==
    \A k \in Keys : kept[k] # None =>
        /\ proc # "Down"
        /\ proc \in {"Up", "Draining"} /\ restart.st # "idle" =>
              /\ Carries(Carried(restart.snap.store[k]), kept[k])
              /\ slots[k].def = kept[k].def
        /\ proc = "Receiving" /\ holder.st = "sending" =>
              Carries(Carried(holder.snap.store[k]), kept[k])
        /\ proc = "Starting" => Carries(slots[k], kept[k]) /\ restart.st = "idle"
        /\ proc \in {"Receiving", "Starting"} /\ PersistDefinitions =>
              registry[k] \in {None, kept[k].def}

Registered ==
    /\ \A k \in Keys : registry[k] # None => registry[k].ttl \in Given
    /\ ready => registry = Online(slots)

(***************************************************************************)
(* A value in a reply is one that can still be read.                       *)
(***************************************************************************)
Replied ==
    reply.value # None =>
        /\ reply.key \in Keys
        /\ Readable(slots[reply.key], Mono)

Faithfully ==
    /\ \A k \in Keys : Faithful(slots[k], life[k], origin, now)
    /\ FaithfulSnapshot(restart.snap, now) /\ FaithfulSnapshot(holder.snap, now)

IInv == Typed /\ Phased /\ Faithfully /\ Promised /\ Registered /\ Replied

-----------------------------------------------------------------------------
(* What real time says of a slot *)

(***************************************************************************)
(* Every lifetime that is given is one.                                    *)
(***************************************************************************)
LEMMA GivenTtls ==
    /\ Given \subseteq Ttl
    /\ \A w \in Writes : w.ttl \in Given
    /\ \A d \in OnlineDefs : d.ttl \in Given
    /\ \A c \in Configs, k \in Keys : c[k] # None => c[k] \in Definitions /\ c[k].ttl \in Given
  <1>1. \A c \in Configs, k \in Keys : c[k] # None => c[k] \in Definitions /\ c[k].ttl \in Ttl
    BY RestartConstants DEF Option, Definitions
  <1>2. \A w \in Writes : w.ttl \in Ttl
    BY RestartConstants
  <1>3. \A d \in OnlineDefs : d.ttl \in Ttl
    BY RestartConstants DEF Definitions
  <1> QED BY <1>1, <1>2, <1>3 DEF Given

(***************************************************************************)
(* What never ends ends after the last tick.                               *)
(***************************************************************************)
LEMMA NeverIsLater ==
    /\ Never \in Nat /\ MaxTime < Never
    /\ \A t \in 0..MaxTime : t < Never
  <1>1. MaxTime \in Nat /\ MaxSkew \in Nat /\ MaxRestarts \in Nat
    BY RestartConstants
  <1>2. 2 * MaxSkew \in Nat
    BY <1>1
  <1>3. 2 * MaxSkew * MaxRestarts \in Nat
    BY <1>1, <1>2
  <1> HIDE DEF Never
  <1>4. Never \in Nat /\ MaxTime < Never
    BY <1>1, <1>3 DEF Never
  <1> QED BY <1>1, <1>4

(***************************************************************************)
(* A value that was just obtained is good for its lifetime.                *)
(***************************************************************************)
LEMMA FreshFaithful ==
    ASSUME NEW s \in Slots, NEW l, NEW org \in Int, now \in Nat, NEW src, NEW ttl \in Given,
           NEW v, v # None, s.entry = NewEntry(src, v, ttl, now - org), s.entry # None,
           s.def # None => s.def.ttl \in Given, Patient(s, l, org, now),
           l.soon = Lifetime(ttl), l.late = Lifetime(ttl), l.pinSoon = 0
    PROVE  Faithful(s, l, org, now)
  <1>1. /\ s.entry.ttl = ttl /\ s.entry.loaded_at = now - org /\ s.entry.pin = None
        /\ s.entry.value = v /\ ttl \in Ttl
    BY GivenTtls DEF NewEntry
  <1>2. org + s.entry.loaded_at = now
    BY <1>1
  <1>3. HardTimely(s.entry, l, org, now)
    <2>1. CASE ttl.hard = None
      BY <1>1, <2>1, NeverIsLater DEF HardTimely, Lifetime
    <2>2. CASE ttl.hard # None
      <3>1. ttl.hard \in Nat /\ l.soon = now + ttl.hard /\ l.late = now + ttl.hard
        BY <1>1, <2>2 DEF Ttl, Option, Lifetime
      <3> QED BY <1>1, <1>2, <2>2, <3>1 DEF HardTimely
    <2> QED BY <2>1, <2>2
  <1>4. PinTimely(s.entry, l, org, now) /\ Limited(s)
    BY <1>1 DEF PinTimely, Limited
  <1> QED BY <1>1, <1>2, <1>3, <1>4 DEF Faithful, Timely, Live

(***************************************************************************)
(* Nothing is promised of a key without a value but the wait after a       *)
(* failure.                                                                *)
(***************************************************************************)
LEMMA GoneFaithful ==
    ASSUME NEW s, NEW l, NEW org, ~Live(s), Limited(s), Patient(s, l, org, now),
           l.soon <= now, l.pinSoon <= now
    PROVE  Faithful(s, l, org, now)
  BY DEF Faithful, Timely

(***************************************************************************)
(* Definitions, guards, owners, versions and the soft limit are beside the *)
(* point.                                                                  *)
(***************************************************************************)
LEMMA StillFaithful ==
    ASSUME NEW s, NEW n, NEW l, NEW m, NEW org, Faithful(s, l, org, now), n.backoff = s.backoff,
           m.soon = l.soon, m.late = l.late, m.pinSoon = l.pinSoon, m.pinLate = l.pinLate,
           m.quiet = l.quiet,
           n.def # None => n.def.ttl \in Given,
           \/ n.entry = s.entry
           \/ /\ n.entry # None /\ s.entry # None
              /\ n.entry.ttl = s.entry.ttl /\ n.entry.value = s.entry.value
              /\ n.entry.loaded_at = s.entry.loaded_at /\ n.entry.pin = s.entry.pin
    PROVE  Faithful(n, m, org, now)
  <1>1. Limited(n)
    BY DEF Faithful, Limited
  <1>2. Patient(n, m, org, now)
    BY DEF Faithful, Patient
  <1>3. Timely(n, m, org, now)
    BY DEF Faithful, Timely, Live, HardTimely, PinTimely
  <1> QED BY <1>1, <1>2, <1>3 DEF Faithful

(***************************************************************************)
(* A command is only due when the value, and its pin, are over.            *)
(***************************************************************************)
LEMMA OverMeansDue ==
    ASSUME NEW s \in Slots, NEW l \in Lives, NEW org \in Int, now \in Nat, now - org \in Nat,
           Faithful(s, l, org, now), StateOf(s, now - org) \notin {"Active", "SoftExpired"}
    PROVE  l.soon <= now /\ l.pinSoon <= now
  <1>1. CASE ~Live(s)
    BY <1>1 DEF Faithful, Timely
  <1>2. CASE Live(s)
    <2> DEFINE e == s.entry
    <2>1. e \in CacheEntries
      BY <1>2 DEF Live, Slots, Option
    <2>2. Dead(e, now - org) /\ e.value # None
      BY <1>2 DEF StateOf, State, Live
    <2>3. ~PinActive(e, now - org) /\ HardElapsed(e, now - org)
      BY <2>2 DEF Dead
    <2>4. e.ttl.hard \in Nat /\ e.loaded_at \in Nat /\ (e.pin # None => e.pin \in Nat)
      BY <2>1, <2>3 DEF HardElapsed, CacheEntries, Ttl, Option, Time
    <2>5. org + e.loaded_at <= now /\ HardTimely(e, l, org, now) /\ PinTimely(e, l, org, now)
      BY <1>2 DEF Faithful, Timely
    <2>6. l.soon \in Int /\ l.pinSoon \in Int
      BY DEF Lives
    <2>7. now - org - e.loaded_at >= e.ttl.hard
      BY <2>3, <2>4, <2>5 DEF HardElapsed, Age
    <2>8. e.ttl.hard # None
      BY <2>3 DEF HardElapsed
    <2>9. l.soon <= now
      <3>1. l.soon <= org + e.loaded_at + e.ttl.hard
        BY <2>5, <2>8 DEF HardTimely
      <3> HIDE DEF e
      <3> QED BY <2>4, <2>6, <2>7, <3>1
    <2>10. l.pinSoon <= now
      <3>1. CASE e.pin = None
        BY <2>5, <3>1 DEF PinTimely
      <3>2. CASE e.pin # None
        <4>1. l.pinSoon <= org + e.pin /\ e.pin <= now - org
          BY <2>3, <2>4, <2>5, <3>2 DEF PinTimely, PinActive
        <4> HIDE DEF e
        <4> QED BY <2>4, <2>6, <3>2, <4>1
      <3> QED BY <3>1, <3>2
    <2> QED BY <2>9, <2>10
  <1> QED BY <1>1, <1>2

(***************************************************************************)
(* A command that is not held back by a failure is not to be.              *)
(***************************************************************************)
LEMMA WaitIsOver ==
    ASSUME NEW s \in Slots, NEW l \in Lives, NEW org \in Int, now \in Nat, now - org \in Nat,
           Patient(s, l, org, now), ~InBackoff(s, now - org)
    PROVE  l.quiet <= now
  <1>1. SUFFICES ASSUME l.quiet > now PROVE FALSE
    BY DEF Lives
  <1> DEFINE b == s.backoff
  <1>2. b # None /\ b.retry_after > 0 /\ l.quiet <= org + b.failed_at + b.retry_after
    BY <1>1 DEF Patient
  <1>3. b.failed_at \in Nat /\ b.retry_after \in Nat /\ l.quiet \in Int
    BY <1>2 DEF Slots, Option, FailureRecords, Lives, Time
  <1>4. Age(b.failed_at, now - org) >= b.retry_after
    BY <1>2, <1>3 DEF InBackoff, Age
  <1> HIDE DEF b
  <1>5. b.retry_after > now - org - b.failed_at
    BY <1>1, <1>2, <1>3
  <1> QED BY <1>1, <1>2, <1>3, <1>4, <1>5 DEF Age

(***************************************************************************)
(* A value that can be read has not outlived its limit, or is pinned.      *)
(***************************************************************************)
LEMMA ReadableInTime ==
    ASSUME ShortLived, NEW s \in Slots, NEW l \in Lives, NEW org \in Int, now \in 0..MaxTime,
           now - org \in Nat, Faithful(s, l, org, now), Readable(s, now - org)
    PROVE  now < Latest(l.late, l.pinLate)
  <1> DEFINE e == s.entry
  <1>1. s.entry # None /\ State(e, now - org) = "Active"
    BY DEF Readable, StateOf
  <1>2. e \in CacheEntries /\ Live(s) /\ ~Dead(e, now - org)
    BY <1>1 DEF Slots, Option, State, Dead, Live
  <1>3. /\ e.loaded_at \in Nat /\ (e.ttl.hard # None => e.ttl.hard \in Nat)
        /\ (e.pin # None => e.pin \in Nat) /\ Short(e.ttl)
    BY <1>1, <1>2 DEF CacheEntries, Ttl, Option, Time, ShortLived, Faithful, Limited
  <1>4. org + e.loaded_at <= now /\ HardTimely(e, l, org, now) /\ PinTimely(e, l, org, now)
    BY <1>2 DEF Faithful, Timely
  <1>5. l.late \in Int /\ l.pinLate \in Int /\ now \in Nat
    BY RestartConstants DEF Lives
  <1>6. CASE PinActive(e, now - org)
    <2>1. e.pin \in Nat /\ now - org < e.pin /\ (org + e.pin <= l.pinLate \/ org + e.pin <= now)
      BY <1>3, <1>4, <1>6 DEF PinActive, PinTimely
    <2> HIDE DEF e
    <2> QED BY <1>5, <2>1 DEF Latest
  <1>7. CASE ~PinActive(e, now - org)
    <2>1. ~HardElapsed(e, now - org)
      BY <1>2, <1>7 DEF Dead
    <2>2. CASE e.ttl.hard = None
      <3>1. l.late >= Never
        BY <1>4, <2>2 DEF HardTimely
      <3> QED BY <1>5, <3>1, NeverIsLater DEF Latest
    <2>3. CASE e.ttl.hard # None
      <3>1. now - org - e.loaded_at < e.ttl.hard
        BY <1>3, <1>4, <1>5, <2>1, <2>3 DEF HardElapsed, Age
      <3>2. \/ org + e.loaded_at + e.ttl.hard <= l.late
            \/ org + e.loaded_at + e.ttl.hard <= now
        BY <1>3, <1>4, <2>3 DEF HardTimely
      <3>3. e.ttl.hard \in Nat
        BY <1>3, <2>3
      <3> HIDE DEF e
      <3> QED BY <1>3, <1>5, <3>1, <3>2, <3>3 DEF Latest
    <2> QED BY <2>2, <2>3
  <1> QED BY <1>6, <1>7

-----------------------------------------------------------------------------
(* Requests *)

(***************************************************************************)
(* A slot with the same value, pin, failure and definition.                *)
(***************************************************************************)
SameValue(n, s) ==
    /\ n.backoff = s.backoff /\ n.def = s.def
    /\ \/ n.entry = s.entry
       \/ /\ n.entry # None /\ s.entry # None
          /\ n.entry.ttl = s.entry.ttl /\ n.entry.value = s.entry.value
          /\ n.entry.loaded_at = s.entry.loaded_at /\ n.entry.pin = s.entry.pin

Over(s, t) == StateOf(s, t) \notin {"Active", "SoftExpired"}

(***************************************************************************)
(* A look at a value that is over destroys it and changes nothing else.    *)
(***************************************************************************)
LEMMA EvaluatedOver ==
    ASSUME NEW s \in Slots, NEW t \in Nat, Over(s, t)
    PROVE  LET n == Evaluated(s, t) IN
           /\ n \in Slots /\ ~Live(n) /\ n.def = s.def /\ n.backoff = s.backoff
           /\ n.entry # None => s.entry # None /\ n.entry.ttl = s.entry.ttl
  <1>1. CASE s.entry = None
    BY <1>1 DEF Evaluated, Live
  <1>2. CASE s.entry # None
    <2>1. s.entry \in CacheEntries /\ State(s.entry, t) = "HardExpired"
      BY <1>2 DEF Slots, Option, Over, StateOf, State
    <2>2. Evaluate(s.entry, t) = [s.entry EXCEPT !.value = None]
      BY <2>1 DEF Evaluate, Zeroize
    <2> DEFINE e == [s.entry EXCEPT !.value = None]
    <2>3. e \in CacheEntries /\ e.value = None /\ e.ttl = s.entry.ttl
      BY <2>1 DEF CacheEntries, Option
    <2> HIDE DEF e
    <2>4. Evaluated(s, t) = [s EXCEPT !.entry = e]
      BY <1>2, <2>2 DEF Evaluated, e
    <2> QED BY <1>2, <2>3, <2>4 DEF Slots, Option, Live
  <1> QED BY <1>1, <1>2

(***************************************************************************)
(* An extended value has the same value, hard limit and pin.               *)
(***************************************************************************)
LEMMA ExtendedSame ==
    ASSUME NEW s \in Slots, NEW t \in Nat, ~Over(s, t)
    PROVE  /\ Extend(s, t).slot \in Slots /\ SameValue(Extend(s, t).slot, s)
           /\ Extend(s, t).out = "Ok"
  <1>1. s.entry \in CacheEntries /\ s.entry # None /\ State(s.entry, t) # "HardExpired"
    BY DEF Over, StateOf, Slots, Option
  <1> DEFINE e == [s.entry EXCEPT !.extended_at = t]
  <1>2. /\ e \in CacheEntries /\ e.ttl = s.entry.ttl /\ e.value = s.entry.value
        /\ e.loaded_at = s.entry.loaded_at /\ e.pin = s.entry.pin
    BY <1>1 DEF CacheEntries, Time
  <1>3. Extend(s, t) = [slot |-> [s EXCEPT !.entry = e], out |-> "Ok"]
    BY <1>1 DEF Extend, StateOf, ExtendEntry, Result
  <1>4. e # None
    BY <1>2, NoneIsNoRecord
  <1> HIDE DEF e
  <1> QED BY <1>1, <1>2, <1>3, <1>4 DEF Slots, Option, SameValue

(***************************************************************************)
(* What a run of a command leaves behind.                                  *)
(***************************************************************************)
FetchedBy(s, r, run, t) ==
    /\ ~InBackoff(s, t)
    /\ \/ /\ r.out = "Ok" /\ run # None /\ r.slot.entry # None
          /\ \E src, ttl : /\ r.slot.entry = NewEntry(src, run, ttl, t)
                           /\ \/ s.def # None /\ ttl = s.def.ttl
                              \/ s.entry # None /\ ttl = s.entry.ttl
       \/ r.out = "RunFailed" /\ r.slot = RunFailed(Evaluated(s, t), t)

Ran(s, r) == Over(s, Mono) /\ r.out \in {"Ok", "RunFailed"}

Retrieved(s, r, run) ==
    /\ r.slot \in Slots /\ r.slot.def = s.def
    /\ \/ ~Ran(s, r) /\ SameValue(r.slot, s)
       \/ ~Ran(s, r) /\ Over(s, Mono) /\ r.slot = Evaluated(s, Mono)
       \/ Ran(s, r) /\ FetchedBy(s, r, run, Mono)

(***************************************************************************)
(* regenerate refuses, or runs the command the entry came from.            *)
(***************************************************************************)
LEMMA RegenerateOutcomes ==
    ASSUME NEW s, NEW run, NEW t, NEW r, r = Regenerate(s, run, TRUE, t, t)
    PROVE  \/ r.slot = s /\ r.out \in {"Backoff", "NotFound", "NotRegenerable", "NotHardExpired"}
           \/ /\ s.entry # None /\ ~InBackoff(s, t)
              /\ r = FetchAndInstall(Evaluated(s, t), s.entry.source, s.entry.ttl, run, TRUE, t)
  <1>1. CASE InBackoff(s, t)
    BY <1>1 DEF Regenerate, Result
  <1>2. CASE ~InBackoff(s, t) /\ s.entry = None
    BY <1>2 DEF Regenerate, Result
  <1>3. CASE ~InBackoff(s, t) /\ s.entry # None /\ s.entry.source = Static
    BY <1>3 DEF Regenerate, Result
  <1>4. CASE ~InBackoff(s, t) /\ s.entry # None /\ s.entry.source # Static
    <2>1. CASE StateOf(s, t) # "HardExpired"
      BY <1>4, <2>1 DEF Regenerate, Result
    <2>2. CASE StateOf(s, t) = "HardExpired"
      BY <1>4, <2>2 DEF Regenerate
    <2> QED BY <2>1, <2>2
  <1> QED BY <1>1, <1>2, <1>3, <1>4

(***************************************************************************)
(* The retrieval chain of kv.get (handler.rs handle_get): the value stays  *)
(* as it is, or is found to be over, or a command runs.                    *)
(***************************************************************************)
LEMMA RetrieveOutcomes ==
    ASSUME NEW s \in Slots, NEW run \in Option(Values), Mono \in Nat
    PROVE  Retrieved(s, Retrieve(s, run), run)
  <1> SUFFICES ASSUME NEW r, r = Retrieve(s, run) PROVE Retrieved(s, r, run)
    OBVIOUS
  <1>1. CASE Readable(s, Mono)
    <2>1. r.slot = s /\ ~Over(s, Mono)
      BY <1>1 DEF Retrieve, Readable, Over, Result
    <2> QED BY <2>1 DEF SameValue, Retrieved, Ran
  <1>2. CASE ~Readable(s, Mono) /\ StateOf(s, Mono) = "SoftExpired"
    <2>1. s.entry # None /\ ~Over(s, Mono)
      BY <1>2 DEF StateOf, Over
    <2>2. r = Extend(s, Mono)
      BY <1>2, <2>1 DEF Retrieve, ExtendAuthenticated
    <2>3. r.slot \in Slots /\ SameValue(r.slot, s)
      BY <2>1, <2>2, ExtendedSame
    <2> QED BY <2>1, <2>3 DEF SameValue, Retrieved, Ran
  <1>3. CASE Over(s, Mono)
    <2>1. r = IF s.def # None THEN GetOrRegenerate(s, run, TRUE, Mono, Mono)
              ELSE Regenerate(s, run, TRUE, Mono, Mono)
      BY <1>3 DEF Retrieve, Over, Readable
    <2> DEFINE n == Evaluated(s, Mono)
    <2>2. /\ n \in Slots /\ ~Live(n) /\ n.def = s.def /\ n.backoff = s.backoff
          /\ n.entry # None => s.entry # None /\ n.entry.ttl = s.entry.ttl
      BY <1>3, EvaluatedOver
    <2>10. n = Evaluated(s, Mono)
      OBVIOUS
    <2> HIDE DEF n
    <2>3. r.slot \in Slots
      <3>1. /\ GetOrRegenerate(s, run, TRUE, Mono, Mono) \in Results
            /\ Regenerate(s, run, TRUE, Mono, Mono) \in Results
        BY UpstreamOpsClosed DEF Time
      <3> QED BY <2>1, <3>1 DEF Results
    <2>4. ASSUME NEW src, NEW ttl, src \in Sources \cup {Static}, ttl \in Ttl,
                 ~InBackoff(s, Mono),
                 \/ s.def # None /\ ttl = s.def.ttl
                 \/ s.entry # None /\ ttl = s.entry.ttl,
                 r = FetchAndInstall(n, src, ttl, run, TRUE, Mono)
          PROVE  /\ r.out \in {"Ok", "RunFailed"} /\ r.slot.def = s.def
                 /\ FetchedBy(s, r, run, Mono)
      <3>1. CASE run = None
        <4>1. r.slot = RunFailed(n, Mono) /\ r.out = "RunFailed"
          BY <2>4, <3>1 DEF FetchAndInstall, Result
        <4>2. RunFailed(n, Mono).def = n.def
          BY <2>2 DEF RunFailed, Slots
        <4> QED BY <2>2, <2>10, <2>4, <4>1, <4>2 DEF FetchedBy
      <3>2. CASE run # None
        <4>1. r.slot = Install(n, src, ttl, run, Mono) /\ r.out = "Ok"
          BY <2>4, <3>2 DEF FetchAndInstall, Result
        <4>2. NewEntry(src, run, ttl, Mono) \in CacheEntries
          BY <2>4, <3>2, NewEntryType DEF Option, Time
        <4>3. NewEntry(src, run, ttl, Mono) # None
          BY <4>2, NoneIsNoRecord
        <4>4. /\ Install(n, src, ttl, run, Mono).def = n.def
              /\ Install(n, src, ttl, run, Mono).entry = NewEntry(src, run, ttl, Mono)
          BY <2>2 DEF Install, Slots
        <4> QED BY <2>2, <2>4, <3>2, <4>1, <4>3, <4>4 DEF FetchedBy
      <3> QED BY <3>1, <3>2
    <2>5. CASE s.def # None
      <3>1. r = IF InBackoff(s, Mono) THEN Result(n, "Backoff")
                ELSE FetchAndInstall(n, s.def.source, s.def.ttl, run, TRUE, Mono)
        BY <1>3, <2>1, <2>10, <2>5 DEF GetOrRegenerate, Over
      <3>2. s.def.source \in Sources \cup {Static} /\ s.def.ttl \in Ttl
        BY <2>5 DEF Slots, Option, Definitions
      <3>3. CASE InBackoff(s, Mono)
        <4>1. r.slot = n /\ r.out = "Backoff"
          BY <3>1, <3>3 DEF Result
        <4> QED BY <1>3, <2>2, <2>10, <2>3, <4>1 DEF Retrieved, Ran
      <3>4. CASE ~InBackoff(s, Mono)
        BY <1>3, <2>3, <2>4, <2>5, <3>1, <3>2, <3>4 DEF Retrieved, Ran
      <3> QED BY <3>3, <3>4
    <2>6. CASE s.def = None
      <3>1. \/ r.slot = s /\ r.out \in {"Backoff", "NotFound", "NotRegenerable", "NotHardExpired"}
            \/ /\ s.entry # None /\ ~InBackoff(s, Mono)
               /\ r = FetchAndInstall(n, s.entry.source, s.entry.ttl, run, TRUE, Mono)
        BY <2>1, <2>6, <2>10, RegenerateOutcomes
      <3>2. CASE r.slot = s /\ r.out \in {"Backoff", "NotFound", "NotRegenerable", "NotHardExpired"}
        BY <2>3, <3>2 DEF SameValue, Retrieved, Ran
      <3>3. CASE /\ s.entry # None /\ ~InBackoff(s, Mono)
                 /\ r = FetchAndInstall(n, s.entry.source, s.entry.ttl, run, TRUE, Mono)
        <4>1. s.entry.source \in Sources \cup {Static} /\ s.entry.ttl \in Ttl
          BY <3>3 DEF Slots, Option, CacheEntries
        <4> QED BY <1>3, <2>3, <2>4, <3>3, <4>1 DEF Retrieved, Ran
      <3> QED BY <3>1, <3>2, <3>3
    <2> QED BY <2>5, <2>6
  <1> QED BY <1>1, <1>2, <1>3 DEF Over, Readable

-----------------------------------------------------------------------------
(* The snapshot *)

(***************************************************************************)
(* Where an imported time lies in real time: a start of a lifetime.        *)
(***************************************************************************)
LEMMA BasisImported ==
    ASSUME NEW w \in Int, NEW mono \in Nat, now \in Int, skew \in Int
    PROVE  LET real == now - mono + ToTtlBasis(w, mono) IN
           /\ ToTtlBasis(w, mono) \in Nat /\ real <= now
           /\ real = now \/ real >= w - skew
           /\ real <= w - skew \/ real = now - mono
  BY DEF ToTtlBasis, ToMono, Before, wall

(***************************************************************************)
(* The end of a pin.                                                       *)
(***************************************************************************)
LEMMA PinImported ==
    ASSUME NEW w \in Int, NEW mono \in Nat, now \in Int, skew \in Int
    PROVE  LET real == now - mono + ToMono(w, mono) IN
           /\ ToMono(w, mono) \in Nat /\ real >= w - skew
           /\ real <= w - skew \/ real = now - mono
  BY DEF ToMono, Before, wall

(***************************************************************************)
(* A failure.                                                              *)
(***************************************************************************)
LEMMA FailureImported ==
    ASSUME NEW w \in Int, NEW mono \in Nat, now \in Int, skew \in Int
    PROVE  /\ ToFailedAt(w, mono) \in Nat
           /\ now - mono + ToFailedAt(w, mono) >= w - skew
  BY DEF ToFailedAt, ToMono, Before, wall

(***************************************************************************)
(* What a clock that was set does to what real time says.                  *)
(***************************************************************************)
LEMMA ShiftedLives ==
    ASSUME NEW l \in Lives, NEW d \in Int, now \in Int
    PROVE  LET m == Shifted(l, d) IN
           /\ m \in Lives
           /\ m.soon <= l.soon /\ m.soon <= l.soon + d
           /\ m.pinSoon <= l.pinSoon /\ m.pinSoon <= l.pinSoon + d
           /\ m.quiet <= l.quiet /\ m.quiet <= l.quiet + d
           /\ m.late >= l.late /\ m.late >= l.late + d /\ m.late >= now + d
           /\ m.pinLate >= l.pinLate /\ m.pinLate >= l.pinLate + d /\ m.pinLate >= now + d
  <1>1. /\ l.soon \in Int /\ l.late \in Int /\ l.pinSoon \in Int /\ l.pinLate \in Int
        /\ l.quiet \in Int
    BY DEF Lives
  <1>2. ASSUME NEW t \in Int
        PROVE  /\ Least(t, t + d) \in Int /\ Least(t, t + d) <= t /\ Least(t, t + d) <= t + d
               /\ Latest(t, Latest(t, now) + d) \in Int
               /\ Latest(t, Latest(t, now) + d) >= t
               /\ Latest(t, Latest(t, now) + d) >= t + d
               /\ Latest(t, Latest(t, now) + d) >= now + d
    BY DEF Least, Latest
  <1>3. Shifted(l, d) =
           [soon    |-> Least(l.soon, l.soon + d),
            late    |-> Latest(l.late, Latest(l.late, now) + d),
            pinSoon |-> Least(l.pinSoon, l.pinSoon + d),
            pinLate |-> Latest(l.pinLate, Latest(l.pinLate, now) + d),
            quiet   |-> Least(l.quiet, l.quiet + d)]
    BY DEF Shifted
  <1> QED BY <1>1, <1>2, <1>3 DEF Lives

(***************************************************************************)
(* A value in a snapshot lies in real time where it lay in the store.      *)
(***************************************************************************)
LEMMA ValueExported ==
    ASSUME NEW s \in Slots, origin \in Int, now \in Int, Mono \in Nat
    PROVE  LET v == ExportedValue(s) IN
           /\ v \in Option(WallEntries)
           /\ v = None <=> (s.entry = None \/ StateOf(s, Mono) = "HardExpired")
           /\ v # None =>
                /\ v.ttl = s.entry.ttl /\ v.value = s.entry.value /\ v.value # None
                /\ v.loaded_at = origin + s.entry.loaded_at
                /\ v.pin = IF s.entry.pin = None THEN None ELSE origin + s.entry.pin
  <1>1. CASE s.entry = None \/ StateOf(s, Mono) = "HardExpired"
    BY <1>1 DEF ExportedValue, Option
  <1>2. CASE ~(s.entry = None \/ StateOf(s, Mono) = "HardExpired")
    <2> DEFINE e == s.entry
    <2>1. e \in CacheEntries /\ e.value # None
      BY <1>2 DEF Slots, Option, StateOf, State, Dead
    <2>2. /\ e.loaded_at \in Nat /\ e.extended_at \in Nat /\ (e.pin # None => e.pin \in Nat)
      BY <2>1 DEF CacheEntries, Time, Option
    <2>3. \A t \in Nat : ToWall(t) \in Int /\ ToWall(t) = origin + t
      BY DEF ToWall, Mono
    <2> DEFINE a == ToWall(e.loaded_at)
               b == ToWall(e.extended_at)
               p == IF e.pin = None THEN None ELSE ToWall(e.pin)
    <2>4. ExportedValue(s) = [e EXCEPT !.loaded_at = a, !.extended_at = b, !.pin = p]
      BY <1>2 DEF ExportedValue
    <2>5. /\ a \in Int /\ b \in Int /\ p \in Option(Int) /\ a = origin + e.loaded_at
          /\ p = IF e.pin = None THEN None ELSE origin + e.pin
      BY <2>2, <2>3 DEF Option
    <2> DEFINE v == [e EXCEPT !.loaded_at = a, !.extended_at = b, !.pin = p]
    <2> HIDE DEF a, b, p
    <2>6. v \in WallEntries /\ v.ttl = e.ttl /\ v.value = e.value /\ v.loaded_at = a /\ v.pin = p
      BY <2>1, <2>5 DEF CacheEntries, WallEntries
    <2>7. v # None
      BY <2>6, NoneIsNoRecord
    <2> HIDE DEF v
    <2>8. ExportedValue(s) = v
      BY <2>4 DEF v
    <2> QED BY <1>2, <2>1, <2>5, <2>6, <2>7, <2>8 DEF Option
  <1> QED BY <1>1, <1>2

(***************************************************************************)
(* An exported key is the key as it was, its times on the wall clock; with *)
(* no readable value its guard and its claim stay behind.                  *)
(***************************************************************************)
LEMMA SlotExported ==
    ASSUME NEW s \in Slots, NEW l \in Lives, origin \in Int, now \in Nat, Mono \in Nat,
           Faithful(s, l, origin, now)
    PROVE  /\ Exported(s) \in Option(WallSlots)
           /\ Faithful(Carried(Exported(s)), l, 0, now)
           /\ Carries(Carried(Exported(s)), Owed(s))
  <1> DEFINE x == Exported(s)
             v == ExportedValue(s)
             c == Carried(x)
             b == ExportedFailure(s.backoff)
  <1>1. /\ v \in Option(WallEntries)
        /\ v = None <=> (s.entry = None \/ StateOf(s, Mono) = "HardExpired")
        /\ v # None =>
              /\ v.ttl = s.entry.ttl /\ v.value = s.entry.value /\ v.value # None
              /\ v.loaded_at = origin + s.entry.loaded_at
              /\ v.pin = IF s.entry.pin = None THEN None ELSE origin + s.entry.pin
    BY ValueExported
  <1>2. /\ b \in Option(WallFailures) /\ (b = None <=> s.backoff = None)
        /\ b # None => /\ b.failed_at = origin + s.backoff.failed_at
                       /\ b.retry_after = s.backoff.retry_after
    <2>1. CASE s.backoff = None
      BY <2>1 DEF ExportedFailure, Option
    <2>2. CASE s.backoff # None
      <3>1. s.backoff \in FailureRecords
        BY <2>2 DEF Slots, Option
      <3>2. ToWall(s.backoff.failed_at) = origin + s.backoff.failed_at
        BY <3>1 DEF FailureRecords, Time, ToWall, Mono
      <3>3. /\ b \in WallFailures /\ b.failed_at = origin + s.backoff.failed_at
            /\ b.retry_after = s.backoff.retry_after
        BY <2>2, <3>1, <3>2 DEF ExportedFailure, FailureRecords, WallFailures, Time
      <3> QED BY <2>2, <3>3, NoneIsNoRecord DEF Option
    <2> QED BY <2>1, <2>2
  <1> DEFINE g == IF v = None THEN None ELSE s.guard
             m == IF v = None THEN None ELSE s.claim
             y == [s EXCEPT !.entry = v, !.backoff = b, !.guard = g, !.claim = m]
  <1>3. \/ x = None /\ v = None /\ s.def = None /\ s.backoff = None
        \/ x = y
    BY <1>1 DEF Exported
  <1>4. /\ y \in WallSlots /\ y.entry = v /\ y.backoff = b /\ y.guard = g /\ y.claim = m
        /\ y.def = s.def /\ y.owner = s.owner /\ y.version = s.version
    <2>1. g \in Option(Guards) /\ m \in Option(RefreshClaims)
      BY DEF Slots, Option
    <2> HIDE DEF g, m, b, v
    <2> QED BY <1>1, <1>2, <2>1 DEF Slots, WallSlots
  <1>5. x \in Option(WallSlots)
    BY <1>3, <1>4 DEF Option
  <1>6. /\ c.entry = v /\ c.backoff = b /\ c.def = s.def
        /\ v # None => c.guard = s.guard /\ c.owner = s.owner /\ c.version = s.version
    <2>1. CASE x = None
      <3>1. v = None /\ s.def = None /\ s.backoff = None
        <4>1. y # None
          BY <1>4, NoneIsNoRecord
        <4> QED BY <1>3, <2>1, <4>1
      <3> QED BY <2>1, <3>1, <1>2 DEF Carried, EmptySlot
    <2>2. CASE x # None
      <3>1. c = y
        BY <1>3, <2>2 DEF Carried
      <3> QED BY <1>4, <3>1
    <2> QED BY <2>1, <2>2
  <1>11. x = Exported(s) /\ c = Carried(Exported(s))
    OBVIOUS
  <1> HIDE DEF x, y, g, m, b, v, c
  <1>7. Limited(c)
    BY <1>1, <1>6 DEF Limited, Faithful
  <1>8. Patient(c, l, 0, now)
    <2>1. ASSUME l.quiet > now
          PROVE  /\ c.backoff # None /\ c.backoff.retry_after > 0
                 /\ l.quiet <= c.backoff.failed_at + c.backoff.retry_after
      <3>1. /\ s.backoff # None /\ s.backoff.retry_after > 0
            /\ l.quiet <= origin + s.backoff.failed_at + s.backoff.retry_after
        BY <2>1 DEF Faithful, Patient
      <3> QED BY <1>2, <1>6, <3>1
    <2>2. c.backoff # None => c.backoff.failed_at \in Int
      BY <1>2, <1>6 DEF WallFailures, Option
    <2> QED BY <2>1, <2>2 DEF Patient
  <1>9. Timely(c, l, 0, now)
    <2>1. CASE v = None
      <3>1. l.soon <= now /\ l.pinSoon <= now
        <4>1. StateOf(s, Mono) \notin {"Active", "SoftExpired"}
          BY <1>1, <2>1 DEF StateOf
        <4> QED BY <4>1, OverMeansDue DEF Mono
      <3> QED BY <1>6, <2>1, <3>1 DEF Timely, Live
    <2>2. CASE v # None
      <3> DEFINE e == s.entry
      <3>1. Live(s) /\ Live(c) /\ e # None
        BY <1>1, <1>6, <2>2 DEF Live
      <3>2. origin + e.loaded_at <= now /\ HardTimely(e, l, origin, now) /\ PinTimely(e, l, origin, now)
        BY <3>1 DEF Faithful, Timely
      <3>3. e \in CacheEntries
        BY <3>1 DEF Slots, Option
      <3>4. e.loaded_at \in Nat /\ (e.pin # None => e.pin \in Nat)
        BY <3>3 DEF CacheEntries, Option, Time
      <3>5. /\ v.ttl = e.ttl /\ v.loaded_at = origin + e.loaded_at
            /\ v.pin = IF e.pin = None THEN None ELSE origin + e.pin
        BY <1>1, <2>2
      <3> HIDE DEF e
      <3>6. 0 + v.loaded_at = origin + e.loaded_at
        BY <3>4, <3>5
      <3>7. HardTimely(v, l, 0, now)
        BY <3>2, <3>5, <3>6 DEF HardTimely
      <3>8. PinTimely(v, l, 0, now)
        <4>1. CASE e.pin = None
          BY <3>2, <3>5, <4>1 DEF PinTimely
        <4>2. CASE e.pin # None
          <5>1. v.pin = origin + e.pin /\ origin + e.pin \in Int
            BY <3>4, <3>5, <4>2
          <5>2. v.pin # None /\ 0 + v.pin = origin + e.pin
            BY <5>1, NoneIsNoTime
          <5> QED BY <3>2, <4>2, <5>2 DEF PinTimely
        <4> QED BY <4>1, <4>2
      <3> QED BY <1>6, <3>1, <3>2, <3>6, <3>7, <3>8 DEF Timely
    <2> QED BY <2>1, <2>2
  <1>10. Carries(c, Owed(s))
    <2>1. Owed(s).value # None => v # None /\ v.value = Owed(s).value
      BY <1>1 DEF Owed, Readable, StateOf
    <2>2. /\ Owed(s).def = s.def /\ Owed(s).guard = s.guard /\ Owed(s).owner = s.owner
          /\ Owed(s).version = s.version
      BY DEF Owed
    <2> QED BY <1>6, <2>1, <2>2 DEF Carries
  <1> QED BY <1>5, <1>7, <1>8, <1>9, <1>10, <1>11 DEF Faithful

(***************************************************************************)
(* A value that arrives lies in real time where it lay in the snapshot,    *)
(* give or take what the wall clock was set, and no earlier than the clock *)
(* of the new process reaches back.                                        *)
(***************************************************************************)
LEMMA EntryImported ==
    ASSUME NEW e \in WallEntries, NEW mono \in Nat, now \in Int, skew \in Int
    PROVE  LET n == ImportedValue(e, mono) IN
           /\ n \in CacheEntries /\ n.ttl = e.ttl /\ n.value = e.value
           /\ n.loaded_at = ToTtlBasis(e.loaded_at, mono) /\ n.loaded_at \in Nat
           /\ n.pin = IF e.pin = None THEN None ELSE ToMono(e.pin, mono)
           /\ n.pin # None => n.pin \in Nat
  <1> DEFINE a == ToTtlBasis(e.loaded_at, mono)
             b == ToTtlBasis(e.extended_at, mono)
             p == IF e.pin = None THEN None ELSE ToMono(e.pin, mono)
  <1>1. a \in Nat /\ b \in Nat
    BY BasisImported DEF WallEntries
  <1>2. p \in Option(Nat) /\ (p # None => p \in Nat)
    BY PinImported DEF WallEntries, Option
  <1>3. ImportedValue(e, mono) = [e EXCEPT !.loaded_at = a, !.extended_at = b, !.pin = p]
    BY NoneIsNoRecord DEF ImportedValue
  <1>4. p = IF e.pin = None THEN None ELSE ToMono(e.pin, mono)
    OBVIOUS
  <1> HIDE DEF a, b, p
  <1>5. a = ToTtlBasis(e.loaded_at, mono)
    BY DEF a
  <1> QED BY <1>1, <1>2, <1>3, <1>4, <1>5 DEF CacheEntries, WallEntries, Time

(***************************************************************************)
(* The hard limit of a value is where it was, or has passed; a limit the   *)
(* clock of the new process cannot reach back over is not kept.            *)
(***************************************************************************)
LEMMA HardArrives ==
    ASSUME NEW e \in WallEntries, NEW n, NEW l \in Lives, NEW m \in Lives,
           now \in Int, skew \in Int, Headroom \in Nat,
           n.ttl = e.ttl, n.loaded_at = ToTtlBasis(e.loaded_at, Headroom), n.loaded_at \in Nat,
           e.loaded_at <= now, HardTimely(e, l, 0, now),
           m.soon <= l.soon, m.soon <= l.soon - skew,
           m.late >= l.late, m.late >= l.late - skew, m.late >= now - skew
    PROVE  HardTimely(n, m, now - Headroom, now) /\ now - Headroom + n.loaded_at <= now
  <1> DEFINE w == e.loaded_at
             real == now - Headroom + n.loaded_at
  <1>1. /\ w \in Int /\ l.soon \in Int /\ l.late \in Int /\ m.soon \in Int /\ m.late \in Int
        /\ e.ttl \in Ttl /\ 0 + w = w
    BY DEF WallEntries, Lives
  <1>2. /\ real <= now /\ real \in Int
        /\ real = now \/ real >= w - skew
        /\ real <= w - skew \/ real = now - Headroom
    <2>1. real \in Int /\ real = now - Headroom + ToTtlBasis(w, Headroom)
      OBVIOUS
    <2>2. LET r == now - Headroom + ToTtlBasis(w, Headroom) IN
          /\ r <= now
          /\ r = now \/ r >= w - skew
          /\ r <= w - skew \/ r = now - Headroom
      BY <1>1, BasisImported
    <2> HIDE DEF w, real
    <2> QED BY <2>1, <2>2
  <1>3. CASE e.ttl.hard = None
    <2>1. l.late >= Never
      BY <1>3 DEF HardTimely
    <2>2. m.late >= Never
      BY <1>1, <2>1, NeverIsLater
    <2> QED BY <1>2, <1>3, <2>2 DEF HardTimely
  <1>4. CASE e.ttl.hard # None
    <2> DEFINE h == e.ttl.hard
    <2>1. h \in Nat
      BY <1>1, <1>4 DEF Ttl, Option
    <2>2. l.soon <= w + h /\ (~Short(e.ttl) \/ w + h <= l.late \/ w + h <= now)
      BY <1>1, <1>4 DEF HardTimely
    <2>3. Short(e.ttl) => h <= Headroom
      BY <1>4 DEF Short
    <2>4. w <= now
      OBVIOUS
    <2> HIDE DEF w, h, real
    <2>5. m.soon <= real + h
      BY <1>1, <1>2, <2>1, <2>2, <2>4
    <2>6. ~Short(e.ttl) \/ real + h <= m.late \/ real + h <= now
      BY <1>1, <1>2, <2>1, <2>2, <2>3, <2>4
    <2> QED BY <1>2, <1>4, <2>5, <2>6 DEF HardTimely, real, h
  <1> QED BY <1>3, <1>4

(***************************************************************************)
(* So is its pin.                                                          *)
(***************************************************************************)
LEMMA PinArrives ==
    ASSUME NEW e \in WallEntries, NEW n, NEW l \in Lives, NEW m \in Lives,
           now \in Int, skew \in Int, Headroom \in Nat,
           n.pin = IF e.pin = None THEN None ELSE ToMono(e.pin, Headroom),
           PinTimely(e, l, 0, now),
           m.pinSoon <= l.pinSoon, m.pinSoon <= l.pinSoon - skew,
           m.pinLate >= l.pinLate - skew, m.pinLate >= now - skew
    PROVE  PinTimely(n, m, now - Headroom, now)
  <1>1. l.pinSoon \in Int /\ l.pinLate \in Int /\ m.pinSoon \in Int /\ m.pinLate \in Int
    BY DEF Lives
  <1>2. CASE e.pin = None
    BY <1>1, <1>2 DEF PinTimely
  <1>3. CASE e.pin # None
    <2> DEFINE w == e.pin
               real == now - Headroom + n.pin
    <2>1. w \in Int /\ 0 + w = w /\ n.pin = ToMono(w, Headroom)
      BY <1>3 DEF WallEntries, Option
    <2>2. n.pin \in Nat /\ n.pin # None /\ real >= w - skew /\ real \in Int
          /\ (real <= w - skew \/ real = now - Headroom)
      <3>1. ToMono(w, Headroom) \in Nat
        BY <2>1, PinImported
      <3>2. n.pin \in Nat
        BY <2>1, <3>1
      <3>3. real \in Int /\ real = now - Headroom + ToMono(w, Headroom)
        BY <2>1, <3>2
      <3>4. LET r == now - Headroom + ToMono(w, Headroom) IN
            r >= w - skew /\ (r <= w - skew \/ r = now - Headroom)
        BY <2>1, PinImported
      <3> HIDE DEF w, real
      <3> QED BY <3>2, <3>3, <3>4, NoneIsNoTime
    <2>3. l.pinSoon <= w /\ (w <= l.pinLate \/ w <= now)
      BY <1>3, <2>1 DEF PinTimely
    <2> HIDE DEF w, real
    <2>4. m.pinSoon <= real /\ (real <= m.pinLate \/ real <= now)
      BY <1>1, <2>1, <2>2, <2>3
    <2> QED BY <2>2, <2>4 DEF PinTimely, real
  <1> QED BY <1>2, <1>3

(***************************************************************************)
(* A key that arrives is the key that was sent.                            *)
(***************************************************************************)
LEMMA SlotImported ==
    ASSUME NEW x \in Option(WallSlots), NEW l \in Lives, NEW o,
           now \in Nat, skew \in Int, Headroom \in Nat, Faithful(Carried(x), l, 0, now)
    PROVE  /\ Imported(x, Headroom) \in Slots
           /\ Faithful(Imported(x, Headroom), Shifted(l, -skew), now - Headroom, now)
           /\ Carries(Carried(x), o) => Carries(Imported(x, Headroom), o)
  <1> DEFINE n == Imported(x, Headroom)
             c == Carried(x)
             m == Shifted(l, -skew)
             e == ImportedValue(c.entry, Headroom)
             b == ImportedFailure(c.backoff, Headroom)
  <1>1. /\ m \in Lives
        /\ m.soon <= l.soon /\ m.soon <= l.soon - skew
        /\ m.pinSoon <= l.pinSoon /\ m.pinSoon <= l.pinSoon - skew
        /\ m.quiet <= l.quiet /\ m.quiet <= l.quiet - skew
        /\ m.late >= l.late /\ m.late >= l.late - skew /\ m.late >= now - skew
        /\ m.pinLate >= l.pinLate - skew /\ m.pinLate >= now - skew
    <2>1. -skew \in Int /\ now \in Int /\ now + (-skew) = now - skew
      OBVIOUS
    <2>2. /\ m \in Lives
          /\ m.soon <= l.soon /\ m.soon <= l.soon + (-skew)
          /\ m.pinSoon <= l.pinSoon /\ m.pinSoon <= l.pinSoon + (-skew)
          /\ m.quiet <= l.quiet /\ m.quiet <= l.quiet + (-skew)
          /\ m.late >= l.late /\ m.late >= l.late + (-skew) /\ m.late >= now + (-skew)
          /\ m.pinLate >= l.pinLate + (-skew) /\ m.pinLate >= now + (-skew)
      BY <2>1, ShiftedLives
    <2>3. \A t \in Int : t + (-skew) = t - skew
      OBVIOUS
    <2>4. /\ l.soon \in Int /\ l.late \in Int /\ l.pinSoon \in Int /\ l.pinLate \in Int
          /\ l.quiet \in Int
      BY DEF Lives
    <2> HIDE DEF m
    <2> QED BY <2>1, <2>2, <2>3, <2>4
  <1>2. /\ c.entry \in Option(WallEntries) /\ c.backoff \in Option(WallFailures)
        /\ c.def \in Option(Definitions) /\ c.guard \in Option(Guards)
        /\ c.owner \in Option(Principals) /\ c.version \in Nat
        /\ c.claim \in Option(RefreshClaims)
    <2>1. CASE x = None
      BY <2>1 DEF Carried, EmptySlot, Option
    <2>2. CASE x # None
      BY <2>2 DEF Carried, WallSlots, Option
    <2> QED BY <2>1, <2>2
  <1>3. /\ e \in Option(CacheEntries) /\ (e = None <=> c.entry = None)
        /\ e # None =>
              /\ e.ttl = c.entry.ttl /\ e.value = c.entry.value /\ e.loaded_at \in Nat
              /\ e.loaded_at = ToTtlBasis(c.entry.loaded_at, Headroom)
              /\ e.pin = IF c.entry.pin = None THEN None ELSE ToMono(c.entry.pin, Headroom)
    <2>1. CASE c.entry = None
      BY <2>1 DEF ImportedValue, Option
    <2>2. CASE c.entry # None
      <3>1. c.entry \in WallEntries
        BY <1>2, <2>2 DEF Option
      <3> QED BY <2>2, <3>1, EntryImported, NoneIsNoRecord DEF Option
    <2> QED BY <2>1, <2>2
  <1>4. /\ b \in Option(FailureRecords) /\ (b = None <=> c.backoff = None)
        /\ b # None => /\ b.retry_after = c.backoff.retry_after /\ b.failed_at \in Nat
                       /\ now - Headroom + b.failed_at >= c.backoff.failed_at - skew
    <2>1. CASE c.backoff = None
      BY <2>1 DEF ImportedFailure, Option
    <2>2. CASE c.backoff # None
      <3>1. c.backoff \in WallFailures
        BY <1>2, <2>2 DEF Option
      <3>2. /\ b \in FailureRecords /\ b.retry_after = c.backoff.retry_after
            /\ b.failed_at = ToFailedAt(c.backoff.failed_at, Headroom)
        BY <2>2, <3>1, FailureImported
           DEF ImportedFailure, WallFailures, FailureRecords, Time
      <3>3. /\ c.backoff.failed_at \in Int
            /\ now - Headroom + ToFailedAt(c.backoff.failed_at, Headroom)
                 >= c.backoff.failed_at - skew
        <4>1. c.backoff.failed_at \in Int /\ now \in Int
          BY <3>1 DEF WallFailures
        <4> HIDE DEF c
        <4> QED BY <4>1, FailureImported
      <3>4. b # None /\ b.failed_at \in Nat
        BY <3>2, NoneIsNoFailure DEF FailureRecords, Time
      <3>5. b \in Option(FailureRecords)
        BY <3>2 DEF Option
      <3> HIDE DEF b
      <3> QED BY <2>2, <3>2, <3>3, <3>4, <3>5
    <2> QED BY <2>1, <2>2
  <1>5. /\ n \in Slots /\ n.entry = e /\ n.backoff = b /\ n.def = c.def
        /\ n.guard = c.guard /\ n.owner = c.owner /\ n.version = c.version
    <2>1. CASE x = None
      BY <2>1 DEF Imported, ImportedValue, ImportedFailure, Carried, EmptySlot, Slots, Option
    <2>2. CASE x # None
      <3>1. x \in WallSlots /\ c = x
        BY <2>2 DEF Carried, Option
      <3>2. n = [x EXCEPT !.entry = e, !.backoff = b]
        BY <2>2, <3>1 DEF Imported
      <3> HIDE DEF n, e, b, c
      <3> QED BY <1>3, <1>4, <3>1, <3>2 DEF WallSlots, Slots
    <2> QED BY <2>1, <2>2
  <1>6. n = Imported(x, Headroom) /\ c = Carried(x) /\ m = Shifted(l, -skew)
    OBVIOUS
  <1> HIDE DEF n, c, m, e, b
  <1>7. Limited(n)
    BY <1>3, <1>5, <1>6 DEF Faithful, Limited
  <1>8. Patient(n, m, now - Headroom, now)
    <2>1. SUFFICES ASSUME m.quiet > now
                   PROVE  /\ b # None /\ b.retry_after > 0
                          /\ m.quiet <= now - Headroom + b.failed_at + b.retry_after
      BY <1>5 DEF Patient
    <2>2. m.quiet \in Int /\ l.quiet \in Int
      BY <1>1 DEF Lives
    <2>3. l.quiet > now
      BY <1>1, <2>1, <2>2
    <2>4. /\ c.backoff # None /\ c.backoff.retry_after > 0
          /\ l.quiet <= 0 + c.backoff.failed_at + c.backoff.retry_after
      BY <1>6, <2>3 DEF Faithful, Patient
    <2>5. c.backoff.failed_at \in Int /\ c.backoff.retry_after \in Nat
      BY <1>2, <2>4 DEF WallFailures, Option
    <2> QED BY <1>1, <1>4, <2>2, <2>4, <2>5
  <1>9. Timely(n, m, now - Headroom, now)
    <2>1. CASE ~Live(n)
      <3>1. ~Live(c)
        BY <1>3, <1>5, <2>1 DEF Live
      <3>2. l.soon <= now /\ l.pinSoon <= now
        BY <1>6, <3>1 DEF Faithful, Timely
      <3>3. m.soon <= now /\ m.pinSoon <= now
        BY <1>1, <3>2 DEF Lives
      <3> QED BY <2>1, <3>3 DEF Timely
    <2>2. CASE Live(n)
      <3>1. Live(c) /\ e # None /\ c.entry \in WallEntries
        BY <1>2, <1>3, <1>5, <2>2 DEF Live, Option
      <3>2. /\ 0 + c.entry.loaded_at <= now
            /\ HardTimely(c.entry, l, 0, now) /\ PinTimely(c.entry, l, 0, now)
        BY <1>6, <3>1 DEF Faithful, Timely
      <3>3. c.entry.loaded_at <= now
        BY <3>1, <3>2 DEF WallEntries
      <3>4. HardTimely(e, m, now - Headroom, now) /\ now - Headroom + e.loaded_at <= now
        BY <1>1, <1>3, <3>1, <3>2, <3>3, HardArrives
      <3>5. PinTimely(e, m, now - Headroom, now)
        BY <1>1, <1>3, <3>1, <3>2, PinArrives
      <3> QED BY <1>5, <2>2, <3>4, <3>5 DEF Timely
    <2> QED BY <2>1, <2>2
  <1>10. Carries(c, o) => Carries(n, o)
    BY <1>3, <1>5 DEF Carries
  <1> QED BY <1>5, <1>6, <1>7, <1>8, <1>9, <1>10 DEF Faithful

-----------------------------------------------------------------------------
(* Steps that touch no key *)

(***************************************************************************)
(* What the invariant says of the types, one key at a time.                *)
(***************************************************************************)
LEMMA KeyTypes ==
    ASSUME Typed, NEW k \in Keys
    PROVE  /\ slots[k] \in Slots /\ life[k] \in Lives /\ kept[k] \in Option(Debts)
           /\ config \in Configs /\ config[k] \in Option(Definitions)
           /\ registry[k] \in Option(Definitions)
           /\ now \in Nat /\ origin \in Int /\ Mono \in Nat /\ skew \in Int
  BY RestartConstants DEF Typed, TypeOK, Time

(***************************************************************************)
(* The empty store owes nothing.                                           *)
(***************************************************************************)
LEMMA ColdFaithful ==
    ASSUME NEW org, NEW t \in Nat
    PROVE  /\ Faithful(EmptySlot, NoLife, org, t)
           /\ EmptySlot \in Slots /\ NoLife \in Lives
  <1>1. /\ EmptySlot.entry = None /\ EmptySlot.def = None /\ EmptySlot.backoff = None
        /\ EmptySlot \in Slots
    BY DEF EmptySlot, Slots, Option
  <1>2. NoLife.soon = 0 /\ NoLife.pinSoon = 0 /\ NoLife.quiet = 0 /\ NoLife \in Lives
    BY DEF NoLife, Lives
  <1>3. ~Live(EmptySlot) /\ Limited(EmptySlot) /\ Timely(EmptySlot, NoLife, org, t)
    BY <1>1, <1>2 DEF Live, Limited, Timely
  <1>4. Patient(EmptySlot, NoLife, org, t)
    BY <1>2 DEF Patient
  <1> QED BY <1>1, <1>2, <1>3, <1>4 DEF Faithful

(***************************************************************************)
(* The steps that touch neither a key nor a clock.                         *)
(***************************************************************************)
LEMMA Undisturbed ==
    ASSUME IInv, reply' = Silence,
           UNCHANGED <<slots, config, origin, ready, registry, now, history>>
    PROVE  /\ \A k \in Keys : Faithful(slots'[k], life'[k], origin', now')
           /\ Registered' /\ Replied'
  <1>1. \A k \in Keys : Faithful(slots'[k], life'[k], origin', now')
    BY DEF IInv, Faithfully, history
  <1>2. Registered'
    BY DEF IInv, Registered, Online
  <1>3. Replied'
    BY DEF Replied, Silence
  <1> QED BY <1>1, <1>2, <1>3

(***************************************************************************)
(* A step of the connections, and of those who wait for them.              *)
(***************************************************************************)
LEMMA ConnectionsKeep ==
    ASSUME IInv, Drain \/ \E c \in Clients : Accept(c) \/ Close(c)
    PROVE  IInv'
  <1>1. /\ reply' = Silence
        /\ UNCHANGED <<process, registry, handoff, clocks, counts, history>>
    BY DEF Accept, Close, Drain, CheckCount, Listen, DrainDeadline, EndServe, Waits
  <1>2. /\ conns' \subseteq Clients /\ accepting' \in BOOLEAN
        /\ waiter' \in {"off", "checking", "between", "listening", "done"}
    BY DEF IInv, Typed, TypeOK, Accept, Close, Drain, CheckCount, Listen, DrainDeadline,
           EndServe, Waits
  <1>3. Typed'
    BY <1>1, <1>2 DEF IInv, Typed, TypeOK, process, handoff, clocks, history, Mono
  <1>4. Phased'
    BY <1>1 DEF IInv, Phased, process, handoff, history
  <1>5. Promised'
    BY <1>1 DEF IInv, Promised, process, handoff, history
  <1>6. Faithfully' /\ Registered' /\ Replied'
    <2>1. UNCHANGED <<slots, config, origin, ready, registry, now, history>>
      BY <1>1 DEF process, clocks
    <2>2. /\ \A k \in Keys : Faithful(slots'[k], life'[k], origin', now')
          /\ Registered' /\ Replied'
      BY <1>1, <2>1, Undisturbed
    <2>3. FaithfulSnapshot(restart'.snap, now') /\ FaithfulSnapshot(holder'.snap, now')
      BY <1>1 DEF IInv, Faithfully, handoff, clocks
    <2> QED BY <2>2, <2>3 DEF Faithfully
  <1> QED BY <1>3, <1>4, <1>5, <1>6 DEF IInv

(***************************************************************************)
(* A stop signal, or somebody who sets the wall clock.                     *)
(***************************************************************************)
LEMMA SignalsKeep ==
    ASSUME IInv, Signal \/ \E d \in {-1, 1} : SetClock(d)
    PROVE  IInv'
  <1>1. /\ reply' = Silence
        /\ UNCHANGED <<proc, slots, config, origin, ready, registry, serving, handoff, now,
                       history>>
    BY DEF Signal, SetClock, process, clocks
  <1>2. stopping' \in BOOLEAN /\ skew' \in -MaxSkew..MaxSkew
    BY DEF IInv, Typed, TypeOK, Signal, SetClock, process, clocks
  <1>3. Typed'
    BY <1>1, <1>2 DEF IInv, Typed, TypeOK, serving, handoff, history, Mono
  <1>4. Phased'
    BY <1>1 DEF IInv, Phased, handoff, history
  <1>5. Promised'
    BY <1>1 DEF IInv, Promised, handoff, history
  <1>6. Faithfully' /\ Registered' /\ Replied'
    <2>1. /\ \A k \in Keys : Faithful(slots'[k], life'[k], origin', now')
          /\ Registered' /\ Replied'
      BY <1>1, Undisturbed
    <2>2. FaithfulSnapshot(restart'.snap, now') /\ FaithfulSnapshot(holder'.snap, now')
      BY <1>1 DEF IInv, Faithfully, handoff
    <2> QED BY <2>1, <2>2 DEF Faithfully
  <1> QED BY <1>3, <1>4, <1>5, <1>6 DEF IInv

(***************************************************************************)
(* The preparation of a restart, and the drain it leads to.                *)
(***************************************************************************)
LEMMA PreparationKeeps ==
    ASSUME IInv, BeginDrain \/ \E ok \in BOOLEAN : Prepare(ok)
    PROVE  IInv'
  <1>1. /\ reply' = Silence
        /\ UNCHANGED <<stopping, slots, config, origin, ready, registry, conns, accepting,
                       holder, stream, clocks, history>>
    BY DEF BeginDrain, Prepare, process, serving, handoff
  <1>2. /\ \/ restart' = restart
           \/ restart.st = "exported" /\ restart' = [restart EXCEPT !.st = "prepared"]
           \/ restart.st = "exported" /\ restart' = Idle
        /\ \/ proc' = proc /\ waiter' = waiter
           \/ /\ proc = "Up" /\ proc' = "Draining" /\ waiter' = "checking"
              /\ restart.st = "prepared" /\ restart' = restart
    BY DEF BeginDrain, Prepare, process, serving, handoff
  <1>3. /\ restart' \in [st : {"idle", "exported", "prepared"}, snap : Option(Snapshots)]
        /\ restart'.st = "idle" <=> restart'.snap = None
        /\ restart'.snap \in {restart.snap, None}
        /\ restart'.st # "idle" => restart.st # "idle" /\ restart'.snap = restart.snap
        /\ restart.st = "idle" => restart' = restart
        /\ restart.st = "prepared" => restart' = restart
    <2>1. /\ restart \in [st : {"idle", "exported", "prepared"}, snap : Option(Snapshots)]
          /\ restart.st = "idle" <=> restart.snap = None
      BY DEF IInv, Typed, TypeOK
    <2> QED BY <1>2, <2>1 DEF Idle, Option
  <1>4. Typed'
    BY <1>1, <1>2, <1>3 DEF IInv, Typed, TypeOK, clocks, history, Mono, Phases
  <1>5. Phased'
    <2>1. restart = Idle => restart' = Idle
      BY <1>3 DEF Idle
    <2> QED BY <1>1, <1>2, <1>3, <2>1 DEF IInv, Phased, history
  <1>6. Promised'
    BY <1>1, <1>2, <1>3 DEF IInv, Promised, history
  <1>7. Faithfully' /\ Registered' /\ Replied'
    <2>1. /\ \A k \in Keys : Faithful(slots'[k], life'[k], origin', now')
          /\ Registered' /\ Replied'
      BY <1>1, Undisturbed DEF clocks
    <2>2. FaithfulSnapshot(restart'.snap, now') /\ FaithfulSnapshot(holder'.snap, now')
      BY <1>1, <1>3 DEF IInv, Faithfully, clocks, FaithfulSnapshot
    <2> QED BY <2>1, <2>2 DEF Faithfully
  <1> QED BY <1>4, <1>5, <1>6, <1>7 DEF IInv

(***************************************************************************)
(* The end of the holder, however it comes.                                *)
(***************************************************************************)
LEMMA HolderKeeps ==
    ASSUME IInv, Holder \/ HolderFails
    PROVE  IInv'
  <1>1. HolderExits
    BY DEF Holder, HolderAnswered, HolderDeserted, HolderTimesOut, HolderFails
  <1>2. Typed'
    BY <1>1 DEF IInv, Typed, TypeOK, HolderExits, Nobody, process, serving, clocks, history,
                Mono, Option
  <1>3. Phased'
    BY <1>1 DEF IInv, Phased, HolderExits, process, history
  <1>4. Promised'
    BY <1>1 DEF IInv, Promised, HolderExits, Nobody, process, history
  <1>5. Faithfully' /\ Registered' /\ Replied'
    <2>1. /\ \A k \in Keys : Faithful(slots'[k], life'[k], origin', now')
          /\ Registered' /\ Replied'
      BY <1>1, Undisturbed DEF HolderExits, process, clocks
    <2>2. FaithfulSnapshot(restart'.snap, now') /\ FaithfulSnapshot(holder'.snap, now')
      BY <1>1 DEF IInv, Faithfully, HolderExits, Nobody, clocks, FaithfulSnapshot
    <2> QED BY <2>1, <2>2 DEF Faithfully
  <1> QED BY <1>2, <1>3, <1>4, <1>5 DEF IInv

-----------------------------------------------------------------------------
(* Time passes *)

(***************************************************************************)
(* What real time says of a key stays true while it passes.                *)
(***************************************************************************)
LEMMA LaterFaithful ==
    ASSUME NEW s, NEW l \in Lives, NEW org, NEW t \in Int, NEW u \in Int, t <= u,
           Live(s) => s.entry.ttl \in Ttl /\ org + s.entry.loaded_at \in Int
                        /\ (s.entry.pin # None => org + s.entry.pin \in Int),
           Faithful(s, l, org, t)
    PROVE  Faithful(s, l, org, u)
  <1>1. l.soon \in Int /\ l.pinSoon \in Int /\ l.quiet \in Int
    BY DEF Lives
  <1>2. Patient(s, l, org, u)
    <2>1. l.quiet > u => l.quiet > t
      BY <1>1
    <2> QED BY <2>1 DEF Faithful, Patient
  <1>3. Timely(s, l, org, u)
    <2>1. CASE ~Live(s)
      <3>1. l.soon <= t /\ l.pinSoon <= t
        BY <2>1 DEF Faithful, Timely
      <3> QED BY <1>1, <2>1, <3>1 DEF Timely
    <2>2. CASE Live(s)
      <3> DEFINE e == s.entry
                 a == org + e.loaded_at
                 p == org + e.pin
      <3>1. a <= t /\ HardTimely(e, l, org, t) /\ PinTimely(e, l, org, t)
        BY <2>2 DEF Faithful, Timely
      <3>2. a \in Int /\ (e.pin # None => p \in Int) /\ e.ttl \in Ttl
        BY <2>2
      <3>3. HardTimely(e, l, org, u)
        <4>1. CASE e.ttl.hard = None
          BY <3>1, <4>1 DEF HardTimely
        <4>2. CASE e.ttl.hard # None
          <5>1. e.ttl.hard \in Nat
            BY <3>2, <4>2 DEF Ttl, Option
          <5>2. /\ l.soon <= a + e.ttl.hard
                /\ ~Short(e.ttl) \/ a + e.ttl.hard <= l.late \/ a + e.ttl.hard <= t
            BY <3>1, <4>2 DEF HardTimely
          <5>3. a + e.ttl.hard <= t => a + e.ttl.hard <= u
            BY <3>2, <5>1
          <5> QED BY <4>2, <5>2, <5>3 DEF HardTimely
        <4> QED BY <4>1, <4>2
      <3>4. PinTimely(e, l, org, u)
        <4>1. CASE e.pin = None
          <5>1. l.pinSoon <= t
            BY <3>1, <4>1 DEF PinTimely
          <5> QED BY <1>1, <4>1, <5>1 DEF PinTimely
        <4>2. CASE e.pin # None
          <5>1. l.pinSoon <= p /\ (p <= l.pinLate \/ p <= t)
            BY <3>1, <4>2 DEF PinTimely
          <5>2. p <= t => p <= u
            BY <3>2, <4>2
          <5> QED BY <4>2, <5>1, <5>2 DEF PinTimely
        <4> QED BY <4>1, <4>2
      <3>5. a <= u
        BY <3>1, <3>2
      <3> QED BY <2>2, <3>3, <3>4, <3>5 DEF Timely
    <2> QED BY <2>1, <2>2
  <1> QED BY <1>2, <1>3 DEF Faithful

(***************************************************************************)
(* So it does of a snapshot.                                               *)
(***************************************************************************)
LEMMA LaterSnapshot ==
    ASSUME NEW snap \in Option(Snapshots), NEW t \in Int, NEW u \in Int, t <= u,
           FaithfulSnapshot(snap, t)
    PROVE  FaithfulSnapshot(snap, u)
  <1> SUFFICES ASSUME snap # None, NEW k \in Keys
               PROVE  Faithful(Carried(snap.store[k]), snap.life[k], 0, u)
    BY DEF FaithfulSnapshot
  <1> DEFINE s == Carried(snap.store[k])
             l == snap.life[k]
  <1>1. snap.store[k] \in Option(WallSlots) /\ l \in Lives
    BY DEF Snapshots, Option
  <1>2. Faithful(s, l, 0, t)
    BY DEF FaithfulSnapshot
  <1>3. s.entry \in Option(WallEntries)
    BY <1>1 DEF Carried, EmptySlot, WallSlots, Option
  <1>4. ASSUME Live(s)
        PROVE  /\ s.entry.ttl \in Ttl /\ 0 + s.entry.loaded_at \in Int
               /\ s.entry.pin # None => 0 + s.entry.pin \in Int
    <2>1. s.entry \in WallEntries
      BY <1>3, <1>4 DEF Live, Option
    <2> QED BY <2>1 DEF WallEntries, Option
  <1> HIDE DEF s, l
  <1>5. Faithful(s, l, 0, u)
    BY <1>1, <1>2, <1>4, LaterFaithful
  <1> QED BY <1>5 DEF s, l

(***************************************************************************)
(* A tick of the clock.                                                    *)
(***************************************************************************)
LEMMA TickKeeps ==
    ASSUME IInv, Tick
    PROVE  IInv'
  <1>1. /\ now' = now + 1 /\ now < MaxTime /\ reply' = Silence
        /\ UNCHANGED <<process, registry, serving, handoff, skew, counts, history>>
    BY DEF Tick
  <1>2. now \in Nat /\ now \in Int /\ now' \in Int /\ now <= now' /\ now' \in 0..MaxTime
    BY <1>1, RestartConstants DEF IInv, Typed
  <1>3. Typed'
    <2>1. Mono' \in Time
      <3>1. now - origin \in Nat /\ origin \in Int /\ origin' = origin
        BY <1>1 DEF IInv, Typed, TypeOK, Mono, Time, process
      <3>2. now' - origin' \in Nat
        BY <1>1, <1>2, <3>1
      <3> QED BY <3>2 DEF Mono, Time
    <2> QED BY <1>1, <1>2, <2>1
            DEF IInv, Typed, TypeOK, process, serving, handoff, history
  <1>4. Phased' /\ Promised' /\ Registered'
    BY <1>1 DEF IInv, Phased, Promised, Registered, Online, process, handoff, history
  <1>5. Replied'
    BY <1>1 DEF Replied, Silence
  <1>6. ASSUME NEW k \in Keys PROVE Faithful(slots'[k], life'[k], origin', now')
    <2> DEFINE s == slots[k]
               l == life[k]
    <2>1. s \in Slots /\ l \in Lives /\ origin \in Int
      BY KeyTypes DEF IInv
    <2>2. ASSUME Live(s)
          PROVE  /\ s.entry.ttl \in Ttl /\ origin + s.entry.loaded_at \in Int
                 /\ s.entry.pin # None => origin + s.entry.pin \in Int
      <3>1. s.entry \in CacheEntries
        BY <2>1, <2>2 DEF Live, Slots, Option
      <3> QED BY <2>1, <3>1 DEF CacheEntries, Option, Time
    <2>3. Faithful(s, l, origin, now)
      BY DEF IInv, Faithfully
    <2> HIDE DEF s, l
    <2>4. Faithful(s, l, origin, now')
      BY <1>2, <2>1, <2>2, <2>3, LaterFaithful
    <2> QED BY <1>1, <2>4 DEF s, l, process, history
  <1>7. FaithfulSnapshot(restart'.snap, now') /\ FaithfulSnapshot(holder'.snap, now')
    <2>1. restart.snap \in Option(Snapshots) /\ holder.snap \in Option(Snapshots)
      BY DEF IInv, Typed, TypeOK
    <2>2. FaithfulSnapshot(restart.snap, now) /\ FaithfulSnapshot(holder.snap, now)
      BY DEF IInv, Faithfully
    <2>3. FaithfulSnapshot(restart.snap, now') /\ FaithfulSnapshot(holder.snap, now')
      BY <1>2, <2>1, <2>2, LaterSnapshot
    <2> QED BY <1>1, <2>3 DEF handoff
  <1> QED BY <1>3, <1>4, <1>5, <1>6, <1>7 DEF IInv, Faithfully

-----------------------------------------------------------------------------
(* Processes end and start *)

(***************************************************************************)
(* The snapshot is of the store as it is, and everything is owed.          *)
(***************************************************************************)
LEMMA RequestRestartKeeps ==
    ASSUME IInv, NEW c \in Clients, RequestRestart(c)
    PROVE  IInv'
  <1> DEFINE store == [k \in Keys |-> Exported(slots[k])]
             snap == [store |-> store, life |-> life]
  <1>1. /\ restart.st = "idle" /\ proc \in {"Starting", "Up", "Draining"}
        /\ restart' = [st |-> "exported", snap |-> snap] /\ skew' = 0
        /\ kept' = IF proc = "Starting" THEN NothingKept ELSE [k \in Keys |-> Owed(slots[k])]
        /\ reply' = Silence
        /\ UNCHANGED <<process, registry, serving, holder, stream, now, counts, life>>
    BY DEF RequestRestart, Serving
  <1>2. ASSUME NEW k \in Keys
        PROVE  /\ store[k] \in Option(WallSlots)
               /\ Faithful(Carried(store[k]), life[k], 0, now)
               /\ Carries(Carried(store[k]), Owed(slots[k]))
               /\ Owed(slots[k]) \in Debts
    <2>1. /\ slots[k] \in Slots /\ life[k] \in Lives /\ now \in Nat /\ origin \in Int
          /\ Mono \in Nat /\ now \in Int
      BY KeyTypes DEF IInv
    <2>2. Faithful(slots[k], life[k], origin, now)
      BY DEF IInv, Faithfully
    <2>3. Readable(slots[k], Mono) => slots[k].entry.value \in Option(Values)
      BY <2>1 DEF Readable, StateOf, Slots, Option, CacheEntries
    <2>4. Owed(slots[k]) \in Debts
      BY <2>1, <2>3 DEF Owed, Debts, Slots, Option
    <2> QED BY <2>1, <2>2, <2>4, SlotExported
  <1>3. snap \in Snapshots /\ snap.store = store /\ snap.life = life /\ snap # None
    <2>1. store \in [Keys -> Option(WallSlots)] /\ life \in [Keys -> Lives]
      BY <1>2 DEF IInv, Typed, TypeOK
    <2> HIDE DEF store
    <2> QED BY <2>1, NoneIsNoRecord DEF Snapshots
  <1> HIDE DEF store, snap
  <1>4. restart'.st = "exported" /\ restart'.snap = snap
    BY <1>1
  <1>5. Typed'
    <2>1. kept' \in [Keys -> Option(Debts)]
      BY <1>1, <1>2 DEF NothingKept, Option
    <2>2. 0 \in -MaxSkew..MaxSkew
      BY RestartConstants
    <2>3. restart' \in [st : {"idle", "exported", "prepared"}, snap : Option(Snapshots)]
      BY <1>1, <1>3 DEF Option
    <2> QED BY <1>1, <1>3, <1>4, <2>1, <2>2, <2>3
            DEF IInv, Typed, TypeOK, process, serving, Mono
  <1>6. Phased'
    BY <1>1 DEF IInv, Phased, process
  <1>7. Faithfully'
    <2>1. \A k \in Keys : Faithful(slots'[k], life'[k], origin', now')
      BY <1>1 DEF IInv, Faithfully, process
    <2>2. FaithfulSnapshot(restart'.snap, now')
      BY <1>1, <1>2, <1>3, <1>4 DEF FaithfulSnapshot
    <2>3. FaithfulSnapshot(holder'.snap, now')
      BY <1>1 DEF IInv, Faithfully
    <2> QED BY <2>1, <2>2, <2>3 DEF Faithfully
  <1>8. Promised'
    <2> SUFFICES ASSUME NEW k \in Keys, kept'[k] # None
                 PROVE  /\ proc' # "Down"
                        /\ proc' \in {"Up", "Draining"} /\ restart'.st # "idle" =>
                              /\ Carries(Carried(restart'.snap.store[k]), kept'[k])
                              /\ slots'[k].def = kept'[k].def
                        /\ proc' = "Receiving" /\ holder'.st = "sending" =>
                              Carries(Carried(holder'.snap.store[k]), kept'[k])
                        /\ proc' = "Starting" => Carries(slots'[k], kept'[k]) /\ restart'.st = "idle"
                        /\ proc' \in {"Receiving", "Starting"} /\ PersistDefinitions =>
                              registry'[k] \in {None, kept'[k].def}
      BY DEF Promised
    <2>1. proc # "Starting" /\ proc' = proc /\ slots' = slots
      BY <1>1 DEF NothingKept, process
    <2>2. kept'[k] = Owed(slots[k])
      BY <1>1, <2>1
    <2>3. proc' \in {"Up", "Draining"}
      BY <1>1, <2>1
    <2>4. slots[k].def = Owed(slots[k]).def
      BY DEF Owed
    <2> QED BY <1>2, <1>3, <1>4, <2>1, <2>2, <2>3, <2>4
  <1>9. Registered' /\ Replied'
    BY <1>1 DEF IInv, Registered, Online, Replied, Silence, process
  <1> QED BY <1>5, <1>6, <1>7, <1>8, <1>9 DEF IInv

(***************************************************************************)
(* A process that ends leaves an empty memory, and at most a holder with   *)
(* the snapshot it had.                                                    *)
(***************************************************************************)
LEMMA EndsKeep ==
    ASSUME IInv, proc' \in {"Down", "Receiving"}, MemoryGone, now' = now,
           skew' = skew \/ skew' = 0, registry' = registry, stream' \in {stream, "open", "closed"},
           \/ holder' = holder
           \/ restart.st = "prepared" /\ holder' = [st |-> "sending", snap |-> restart.snap],
           config' \in Configs, origin' = origin \/ origin' = now,
           \/ kept' = NothingKept
           \/ /\ kept' = kept /\ proc \in {"Up", "Draining"} /\ restart.st = "prepared"
              /\ holder' = [st |-> "sending", snap |-> restart.snap]
              /\ proc' = "Receiving"
    PROVE  IInv'
  <1>1. /\ stopping' = FALSE /\ slots' = ColdSlots /\ ready' = FALSE
        /\ conns' = {} /\ accepting' = FALSE /\ waiter' = "off" /\ restart' = Idle
        /\ life' = [k \in Keys |-> NoLife] /\ reply' = Silence
    BY DEF MemoryGone
  <1>2. now \in Nat /\ now \in 0..MaxTime /\ origin \in Int /\ Mono \in Nat
    BY RestartConstants DEF IInv, Typed, TypeOK, Time
  <1>3. \A k \in Keys : /\ Faithful(slots'[k], life'[k], origin', now')
                        /\ slots'[k] \in Slots /\ life'[k] \in Lives
    BY <1>1, <1>2, ColdFaithful DEF ColdSlots
  <1>4. /\ restart'.st = "idle" /\ restart'.snap = None
        /\ restart' \in [st : {"idle", "exported", "prepared"}, snap : Option(Snapshots)]
    BY <1>1 DEF Idle, Option
  <1>5. /\ holder' \in [st : {"none", "sending", "waiting"}, snap : Option(Snapshots)]
        /\ holder'.st = "none" <=> holder'.snap = None
        /\ FaithfulSnapshot(holder'.snap, now')
    <2>1. CASE holder' = holder
      BY <2>1 DEF IInv, Typed, TypeOK, Faithfully
    <2>2. CASE restart.st = "prepared" /\ holder' = [st |-> "sending", snap |-> restart.snap]
      <3>1. /\ restart.snap \in Option(Snapshots) /\ restart.snap # None
            /\ FaithfulSnapshot(restart.snap, now)
        BY <2>2 DEF IInv, Typed, TypeOK, Faithfully
      <3> QED BY <2>2, <3>1
    <2> QED BY <2>1, <2>2
  <1>6. Typed'
    <2>1. Mono' \in Time /\ origin' \in Int
      <3>1. CASE origin' = origin
        BY <1>2, <3>1 DEF Mono, Time
      <3>2. CASE origin' = now
        BY <1>2, <3>2 DEF Mono, Time
      <3> QED BY <3>1, <3>2
    <2>2. kept' \in [Keys -> Option(Debts)]
      BY DEF IInv, Typed, TypeOK, NothingKept, Option
    <2>3. skew' \in -MaxSkew..MaxSkew
      BY RestartConstants DEF IInv, Typed, TypeOK
    <2>4. slots' \in [Keys -> Slots] /\ life' \in [Keys -> Lives]
      BY <1>1, <1>3 DEF ColdSlots
    <2>5. registry' \in [Keys -> Option(Definitions)] /\ stream' \in {"none", "open", "committed", "closed"}
      BY DEF IInv, Typed, TypeOK
    <2>6. now' \in 0..MaxTime /\ proc' \in Phases /\ conns' \subseteq Clients
      BY <1>1, <1>2 DEF Phases
    <2> QED BY <1>1, <1>4, <1>5, <2>1, <2>2, <2>3, <2>4, <2>5, <2>6 DEF Typed, TypeOK
  <1>7. Phased'
    BY <1>1 DEF Phased
  <1>8. Faithfully'
    BY <1>3, <1>4, <1>5 DEF Faithfully, FaithfulSnapshot
  <1>9. Promised'
    <2>1. CASE kept' = NothingKept
      BY <2>1 DEF Promised, NothingKept
    <2>2. CASE /\ kept' = kept /\ proc \in {"Up", "Draining"} /\ restart.st = "prepared"
               /\ holder' = [st |-> "sending", snap |-> restart.snap] /\ proc' = "Receiving"
      <3>1. ASSUME NEW k \in Keys, kept[k] # None
            PROVE  /\ Carries(Carried(holder'.snap.store[k]), kept[k])
                   /\ PersistDefinitions => registry[k] \in {None, kept[k].def}
        <4>1. Carries(Carried(restart.snap.store[k]), kept[k]) /\ slots[k].def = kept[k].def
          BY <2>2, <3>1 DEF IInv, Promised
        <4>2. holder'.snap = restart.snap
          BY <2>2
        <4>3. PersistDefinitions => registry = Online(slots)
          BY <2>2 DEF IInv, Phased, Registered
        <4> QED BY <4>1, <4>2, <4>3 DEF Online
      <3> QED BY <2>2, <3>1 DEF Promised
    <2> QED BY <2>1, <2>2
  <1>10. Registered' /\ Replied'
    BY <1>1 DEF IInv, Registered, Replied, Silence
  <1> QED BY <1>6, <1>7, <1>8, <1>9, <1>10 DEF IInv

(***************************************************************************)
(* The exec of the restart, its failures, a stop and a crash.              *)
(***************************************************************************)
LEMMA EndingsKeep ==
    ASSUME IInv, Exec \/ (\E forked \in BOOLEAN : ExecFails(forked)) \/ Stop \/ Crash
    PROVE  IInv'
  <1>1. config \in Configs /\ (proc = "Draining" => restart.st = "prepared")
        /\ stream \in {"none", "open", "committed", "closed"}
    BY DEF IInv, Typed, TypeOK, Phased
  <1>2. CASE Exec
    BY <1>1, <1>2, EndsKeep DEF Exec, CanExec, clocks
  <1>3. CASE \E forked \in BOOLEAN : ExecFails(forked)
    BY <1>1, <1>3, EndsKeep DEF ExecFails, CanExec
  <1>4. CASE Stop \/ Crash
    BY <1>1, <1>4, EndsKeep DEF Stop, Crash, Dies
  <1> QED BY <1>2, <1>3, <1>4

(***************************************************************************)
(* A start without a snapshot.                                             *)
(***************************************************************************)
LEMMA ColdStartsKeep ==
    ASSUME IInv, ColdStart \/ ReceiveFails
    PROVE  IInv'
  <1>1. /\ proc \in {"Down", "Receiving"} /\ proc' = "Starting" /\ accepting' = TRUE
        /\ origin' = now /\ config' \in Configs /\ reply' = Silence
        /\ UNCHANGED <<stopping, slots, ready, registry, conns, waiter, restart, holder, now,
                       life>>
        /\ stream' \in {stream, "closed"} /\ skew' \in {skew, 0}
        /\ kept' = NothingKept \/ (kept' = kept /\ proc = "Down")
    <2>1. CASE ColdStart
      BY <2>1 DEF ColdStart, handoff, clocks, history
    <2>2. CASE ReceiveFails
      <3>1. config \in Configs
        BY DEF IInv, Typed, TypeOK
      <3>2. skew' = 0 /\ kept' = NothingKept /\ config' = config
        BY <2>2 DEF ReceiveFails
      <3>3. stream' \in {stream, "closed"}
        BY <2>2 DEF ReceiveFails
      <3>4. /\ proc = "Receiving" /\ proc' = "Starting" /\ accepting' = TRUE
            /\ origin' = now /\ reply' = Silence
            /\ UNCHANGED <<stopping, slots, ready, registry, conns, waiter, restart, holder,
                           now, life>>
        BY <2>2 DEF ReceiveFails
      <3> QED BY <3>1, <3>2, <3>3, <3>4
    <2> QED BY <2>1, <2>2
  <1>2. /\ ready = FALSE /\ slots = ColdSlots /\ life = [k \in Keys |-> NoLife]
        /\ restart = Idle
    BY <1>1 DEF IInv, Phased
  <1>3. now \in Nat /\ now \in Int /\ Mono' \in Nat
    <2>1. now \in Nat
      BY RestartConstants DEF IInv, Typed
    <2> QED BY <1>1, <2>1 DEF Mono
  <1>4. Typed'
    <2>1. skew' \in -MaxSkew..MaxSkew
      BY <1>1, RestartConstants DEF IInv, Typed, TypeOK
    <2>2. kept' \in [Keys -> Option(Debts)]
      BY <1>1 DEF IInv, Typed, TypeOK, NothingKept, Option
    <2> QED BY <1>1, <1>3, <2>1, <2>2 DEF IInv, Typed, TypeOK, Phases, Time
  <1>5. Phased'
    BY <1>1, <1>2 DEF Phased
  <1>6. Faithfully'
    <2>1. \A k \in Keys : Faithful(slots'[k], life'[k], origin', now')
      BY <1>1, <1>2, <1>3, ColdFaithful DEF ColdSlots
    <2> QED BY <1>1, <2>1 DEF IInv, Faithfully
  <1>7. Promised'
    <2>1. kept' = NothingKept \/ (kept' = kept /\ \A k \in Keys : kept[k] = None)
      BY <1>1 DEF IInv, Promised
    <2> QED BY <2>1 DEF Promised, NothingKept
  <1>8. Registered' /\ Replied'
    BY <1>1, <1>2 DEF IInv, Registered, Replied, Silence
  <1> QED BY <1>4, <1>5, <1>6, <1>7, <1>8 DEF IInv

(***************************************************************************)
(* A start with a snapshot: what was owed is there.                        *)
(***************************************************************************)
LEMMA ReceiveKeeps ==
    ASSUME IInv, Receive
    PROVE  IInv'
  <1>1. /\ proc = "Receiving" /\ holder.st = "sending" /\ proc' = "Starting"
        /\ accepting' = TRUE /\ origin' = now - Headroom /\ skew' = 0 /\ reply' = Silence
        /\ slots' = [k \in Keys |-> Imported(holder.snap.store[k], Headroom)]
        /\ life' = [k \in Keys |-> Shifted(holder.snap.life[k], -skew)]
        /\ holder' = [holder EXCEPT !.st = "waiting"]
        /\ UNCHANGED <<stopping, config, ready, registry, conns, waiter, restart, stream, now,
                       kept>>
    BY DEF Receive
  <1>2. now \in Nat /\ now \in Int /\ skew \in Int /\ Headroom \in Nat
    <2>1. MaxSkew \in Nat
      BY RestartConstants
    <2> QED BY <2>1, RestartConstants DEF IInv, Typed, TypeOK
  <1>3. /\ holder \in [st : {"none", "sending", "waiting"}, snap : Option(Snapshots)]
        /\ holder.snap # None /\ holder.snap \in Snapshots
        /\ FaithfulSnapshot(holder.snap, now)
        /\ holder'.snap = holder.snap /\ holder'.st = "waiting"
        /\ holder' \in [st : {"none", "sending", "waiting"}, snap : Option(Snapshots)]
    <2>1. holder \in [st : {"none", "sending", "waiting"}, snap : Option(Snapshots)]
          /\ (holder.st = "none" <=> holder.snap = None) /\ FaithfulSnapshot(holder.snap, now)
      BY DEF IInv, Typed, TypeOK, Faithfully
    <2> QED BY <1>1, <2>1 DEF Option
  <1>4. ASSUME NEW k \in Keys
        PROVE  /\ slots'[k] \in Slots /\ life'[k] \in Lives
               /\ Faithful(slots'[k], life'[k], now - Headroom, now)
               /\ Carries(Carried(holder.snap.store[k]), kept[k]) => Carries(slots'[k], kept[k])
    <2> DEFINE x == holder.snap.store[k]
               l == holder.snap.life[k]
    <2>1. x \in Option(WallSlots) /\ l \in Lives /\ Faithful(Carried(x), l, 0, now)
      BY <1>3 DEF Snapshots, FaithfulSnapshot
    <2>2. Shifted(l, -skew) \in Lives
      <3>1. -skew \in Int
        BY <1>2
      <3> HIDE DEF l
      <3> QED BY <1>2, <2>1, <3>1, ShiftedLives
    <2>3. slots'[k] = Imported(x, Headroom) /\ life'[k] = Shifted(l, -skew)
      BY <1>1
    <2> HIDE DEF x, l
    <2>4. /\ Imported(x, Headroom) \in Slots
          /\ Faithful(Imported(x, Headroom), Shifted(l, -skew), now - Headroom, now)
          /\ Carries(Carried(x), kept[k]) => Carries(Imported(x, Headroom), kept[k])
      BY <1>2, <2>1, SlotImported
    <2> QED BY <2>2, <2>3, <2>4 DEF x
  <1>5. Typed'
    <2>1. Mono' \in Time /\ origin' \in Int
      BY <1>1, <1>2 DEF Mono, Time
    <2>2. slots' \in [Keys -> Slots] /\ life' \in [Keys -> Lives]
      BY <1>1, <1>4
    <2>3. 0 \in -MaxSkew..MaxSkew
      BY RestartConstants
    <2> QED BY <1>1, <1>3, <2>1, <2>2, <2>3 DEF IInv, Typed, TypeOK, Phases
  <1>6. restart = Idle /\ ready = FALSE
    BY <1>1 DEF IInv, Phased
  <1>7. Phased'
    BY <1>1, <1>6 DEF Phased
  <1>8. Faithfully'
    BY <1>1, <1>3, <1>4 DEF IInv, Faithfully
  <1>9. Promised'
    <2>1. ASSUME NEW k \in Keys, kept[k] # None
          PROVE  /\ Carries(Carried(holder.snap.store[k]), kept[k])
                 /\ PersistDefinitions => registry[k] \in {None, kept[k].def}
      BY <1>1, <2>1 DEF IInv, Promised
    <2>2. restart'.st = "idle"
      BY <1>1, <1>6 DEF Idle
    <2> QED BY <1>1, <1>4, <2>1, <2>2 DEF Promised
  <1>10. Registered' /\ Replied'
    BY <1>1, <1>6 DEF IInv, Registered, Replied, Silence
  <1> QED BY <1>5, <1>7, <1>8, <1>9, <1>10 DEF IInv

-----------------------------------------------------------------------------
(* Requests change one key *)

(***************************************************************************)
(* A request that leaves a key as real time says keeps the invariant: what *)
(* it changes is no longer owed.                                           *)
(***************************************************************************)
LEMMA ServeKeeps ==
    ASSUME IInv, NEW c \in Clients, NEW k \in Keys, NEW s \in Slots, NEW l \in Lives, NEW answer,
           Serve(c, k, s, l, answer), Faithful(s, l, origin, now),
           \/ registry' = registry /\ s.def = slots[k].def
           \/ SaveDefinitions,
           answer.value # None => answer.key = k /\ Readable(s, Mono)
    PROVE  IInv'
  <1>1. /\ proc \in {"Starting", "Up", "Draining"}
        /\ slots' = [slots EXCEPT ![k] = s] /\ life' = [life EXCEPT ![k] = l]
        /\ \/ s = slots[k] /\ kept' = kept
           \/ kept' = [kept EXCEPT ![k] = None]
        /\ reply' = answer
        /\ UNCHANGED <<proc, stopping, config, origin, ready, serving, handoff, clocks, faults,
                       restarts>>
    BY DEF Serve, Serving
  <1>2. /\ slots \in [Keys -> Slots] /\ life \in [Keys -> Lives]
        /\ kept \in [Keys -> Option(Debts)] /\ registry \in [Keys -> Option(Definitions)]
    BY DEF IInv, Typed, TypeOK
  <1>3. /\ slots' \in [Keys -> Slots] /\ life' \in [Keys -> Lives]
        /\ kept' \in [Keys -> Option(Debts)]
        /\ slots'[k] = s /\ life'[k] = l
        /\ \A j \in Keys \ {k} : slots'[j] = slots[j] /\ life'[j] = life[j]
        /\ \A j \in Keys : kept'[j] # None => kept'[j] = kept[j] /\ slots'[j] = slots[j]
    BY <1>1, <1>2 DEF Option
  <1>4. \A j \in Keys : Faithful(slots'[j], life'[j], origin', now')
    BY <1>1, <1>3 DEF IInv, Faithfully, clocks
  <1>5. /\ registry' \in [Keys -> Option(Definitions)]
        /\ \A j \in Keys : registry'[j] # None => registry'[j].ttl \in Given
        /\ ready' => registry' = Online(slots')
        /\ ~ready => registry' = registry
    <2>1. \A j \in Keys : slots'[j].def \in Option(Definitions)
      BY <1>3 DEF Slots
    <2>2. \A j \in Keys : slots'[j].def # None => slots'[j].def.ttl \in Given
      BY <1>4 DEF Faithful, Limited
    <2>3. /\ Online(slots') \in [Keys -> Option(Definitions)]
          /\ \A j \in Keys : Online(slots')[j] # None => Online(slots')[j].ttl \in Given
      BY <2>1, <2>2 DEF Online, Option
    <2>4. CASE registry' = registry /\ s.def = slots[k].def
      <3>1. \A j \in Keys : slots'[j].def = slots[j].def
        BY <1>3, <2>4
      <3>2. Online(slots') = Online(slots)
        BY <3>1 DEF Online
      <3> QED BY <1>1, <1>2, <2>4, <3>2 DEF IInv, Registered
    <2>5. CASE SaveDefinitions
      BY <1>1, <1>2, <2>3, <2>5 DEF IInv, Registered, SaveDefinitions
    <2> QED BY <2>4, <2>5
  <1>6. Typed'
    BY <1>1, <1>3, <1>5 DEF IInv, Typed, TypeOK, serving, handoff, clocks, Mono
  <1>7. Phased'
    BY <1>1 DEF IInv, Phased, handoff
  <1>8. Faithfully'
    BY <1>1, <1>4 DEF IInv, Faithfully, handoff, clocks
  <1>9. Promised'
    <2>1. proc \in {"Receiving", "Starting"} => registry' = registry
      BY <1>5 DEF IInv, Phased
    <2> QED BY <1>1, <1>3, <2>1 DEF IInv, Promised, handoff
  <1>10. Registered'
    <2>1. Online(slots)' = Online(slots')
      BY <1>1 DEF Online
    <2> QED BY <1>1, <1>5, <2>1 DEF Registered
  <1>11. Replied'
    BY <1>1, <1>3 DEF Replied, Mono, clocks
  <1> QED BY <1>6, <1>7, <1>8, <1>9, <1>10, <1>11 DEF IInv

(***************************************************************************)
(* The lifetime of what is obtained now.                                   *)
(***************************************************************************)
LEMMA ObtainedLives ==
    ASSUME NEW ttl \in Ttl, NEW q \in Int, now \in Nat
    PROVE  LET l == [Obtained(ttl) EXCEPT !.quiet = q] IN
           /\ l \in Lives /\ Obtained(ttl) \in Lives /\ l.quiet = q /\ Obtained(ttl).quiet = 0
           /\ l.soon = Lifetime(ttl) /\ l.late = Lifetime(ttl) /\ l.pinSoon = 0
           /\ Obtained(ttl).soon = Lifetime(ttl) /\ Obtained(ttl).late = Lifetime(ttl)
           /\ Obtained(ttl).pinSoon = 0
  <1>1. Lifetime(ttl) \in Int
    BY NeverIsLater DEF Lifetime, Ttl, Option
  <1> DEFINE t == Lifetime(ttl)
             z == NoLife
             m == [z EXCEPT !.soon = t, !.late = t]
             l == [m EXCEPT !.quiet = q]
  <1>2. z \in Lives /\ z.quiet = 0 /\ z.pinSoon = 0
    BY DEF NoLife, Lives
  <1>3. Obtained(ttl) = m
    BY DEF Obtained
  <1>4. t = Lifetime(ttl) /\ [Obtained(ttl) EXCEPT !.quiet = q] = l
    BY <1>3
  <1> HIDE DEF t, z
  <1>5. m \in Lives /\ m.soon = t /\ m.late = t /\ m.pinSoon = 0 /\ m.quiet = 0
    BY <1>1, <1>2, <1>4 DEF Lives
  <1> HIDE DEF m
  <1>6. l \in Lives /\ l.soon = t /\ l.late = t /\ l.pinSoon = 0 /\ l.quiet = q
    BY <1>5 DEF Lives
  <1> QED BY <1>3, <1>4, <1>5, <1>6

(***************************************************************************)
(* kv.set.                                                                 *)
(***************************************************************************)
LEMMA KvSetKeeps ==
    ASSUME IInv, NEW c \in Clients, NEW k \in Keys, NEW w \in Writes, KvSet(c, k, w)
    PROVE  IInv'
  <1> DEFINE e == NewEntry(Static, w.value, w.ttl, Mono)
             o == IF w.owner = None THEN slots[k].owner ELSE w.owner
             u == [slots[k] EXCEPT !.entry = e]
             v == [u EXCEPT !.guard = w.guard, !.claim = None, !.owner = o]
             s == [v EXCEPT !.version = @ + 1]
             l == [Obtained(w.ttl) EXCEPT !.quiet = life[k].quiet]
  <1>1. /\ slots[k] \in Slots /\ life[k] \in Lives /\ life[k].quiet \in Int
        /\ now \in Nat /\ origin \in Int /\ Mono \in Nat
    BY KeyTypes DEF IInv, Lives
  <1>2. /\ w.value \in Values /\ w.value # None /\ w.ttl \in Ttl /\ w.ttl \in Given
        /\ w.guard \in Option(Guards) /\ w.owner \in Option(Principals)
    BY RestartConstants, NoneIsNoValue, GivenTtls
  <1>3. e \in CacheEntries /\ e # None
    BY <1>1, <1>2, NewEntryType, NoneIsNoRecord DEF Time
  <1>4. o \in Option(Principals)
    BY <1>1, <1>2 DEF Slots
  <1>5. e = NewEntry(Static, w.value, w.ttl, now - origin)
    BY DEF Mono
  <1>6. KvSet(c, k, w) => Serve(c, k, s, l, Silence) /\ registry' = registry
    BY DEF KvSet, BumpVersion, Set
  <1> HIDE DEF e, o
  <1>7. /\ s \in Slots /\ s.entry = e /\ s.def = slots[k].def /\ s.backoff = slots[k].backoff
    <2>1. /\ u \in Slots /\ u.entry = e /\ u.def = slots[k].def
          /\ u.backoff = slots[k].backoff
      BY <1>1, <1>3 DEF Slots, Option
    <2> HIDE DEF u
    <2>2. v \in Slots /\ v.entry = u.entry /\ v.def = u.def /\ v.backoff = u.backoff
      BY <1>2, <1>4, <2>1 DEF Slots, Option
    <2> HIDE DEF v
    <2>3. s \in Slots /\ s.entry = v.entry /\ s.def = v.def /\ s.backoff = v.backoff
      BY <2>2 DEF Slots
    <2> QED BY <2>1, <2>2, <2>3
  <1>8. /\ l \in Lives /\ l.quiet = life[k].quiet /\ l.soon = Lifetime(w.ttl)
        /\ l.late = Lifetime(w.ttl) /\ l.pinSoon = 0
    BY <1>1, <1>2, ObtainedLives
  <1> HIDE DEF s, l
  <1>9. Faithful(slots[k], life[k], origin, now)
    BY DEF IInv, Faithfully
  <1>10. Patient(s, l, origin, now)
    BY <1>7, <1>8, <1>9 DEF Faithful, Patient
  <1>11. s.def # None => s.def.ttl \in Given
    BY <1>7, <1>9 DEF Faithful, Limited
  <1>12. Faithful(s, l, origin, now)
    BY <1>1, <1>2, <1>3, <1>5, <1>7, <1>8, <1>10, <1>11, FreshFaithful
  <1> QED BY <1>6, <1>7, <1>8, <1>12, ServeKeeps DEF Silence

(***************************************************************************)
(* kv.define.                                                              *)
(***************************************************************************)
LEMMA KvDefineKeeps ==
    ASSUME IInv, NEW c \in Clients, NEW k \in Keys, NEW def \in OnlineDefs, KvDefine(c, k, def)
    PROVE  IInv'
  <1> DEFINE s == Define(slots[k], def).slot
  <1>1. slots[k] \in Slots /\ life[k] \in Lives
    BY KeyTypes DEF IInv
  <1>2. def \in Definitions /\ def.ttl \in Given
    BY RestartConstants, GivenTtls
  <1>3. Serve(c, k, s, life[k], Silence) /\ SaveDefinitions
    BY DEF KvDefine
  <1>4. s \in Slots
    BY <1>1, <1>2, DefineClosed DEF Results
  <1>5. s.entry = slots[k].entry /\ s.backoff = slots[k].backoff /\ s.def \in {slots[k].def, def}
    BY <1>1 DEF Define, Result, Slots
  <1>6. Faithful(slots[k], life[k], origin, now)
    BY DEF IInv, Faithfully
  <1> HIDE DEF s
  <1>7. s.def # None => s.def.ttl \in Given
    BY <1>2, <1>5, <1>6 DEF Faithful, Limited
  <1>8. Faithful(s, life[k], origin, now)
    BY <1>5, <1>6, <1>7, StillFaithful
  <1> QED BY <1>1, <1>3, <1>4, <1>8, ServeKeeps DEF Silence

(***************************************************************************)
(* kv.del, with and without the definition.                                *)
(***************************************************************************)
LEMMA KvDelKeeps ==
    ASSUME IInv, NEW c \in Clients, NEW k \in Keys, NEW with_define \in BOOLEAN,
           KvDel(c, k, with_define)
    PROVE  IInv'
  <1>1. slots[k] \in Slots /\ life[k] \in Lives /\ now \in Nat /\ life[k].quiet \in Int
    BY KeyTypes DEF IInv, Lives
  <1>2. CASE with_define
    <2>1. Serve(c, k, EmptySlot, NoLife, Silence) /\ SaveDefinitions
      BY <1>2 DEF KvDel, DeleteWithDefinition
    <2>2. /\ Faithful(EmptySlot, NoLife, origin, now) /\ EmptySlot \in Slots /\ NoLife \in Lives
      BY <1>1, ColdFaithful
    <2> QED BY <2>1, <2>2, ServeKeeps DEF Silence
  <1>3. CASE ~with_define
    <2> DEFINE s == Delete(slots[k])
               l == [NoLife EXCEPT !.quiet = life[k].quiet]
    <2>1. Serve(c, k, s, l, Silence) /\ registry' = registry
      BY <1>3 DEF KvDel
    <2>2. s.entry = None /\ s.def = slots[k].def /\ s.backoff = slots[k].backoff /\ s \in Slots
      BY <1>1 DEF Delete, Slots, Option
    <2>3. l \in Lives /\ l.soon = 0 /\ l.pinSoon = 0 /\ l.quiet = life[k].quiet
      BY <1>1 DEF NoLife, Lives
    <2>4. Faithful(slots[k], life[k], origin, now)
      BY DEF IInv, Faithfully
    <2> HIDE DEF s, l
    <2>5. ~Live(s) /\ Limited(s) /\ Patient(s, l, origin, now)
      BY <2>2, <2>3, <2>4 DEF Live, Limited, Faithful, Patient
    <2>6. Faithful(s, l, origin, now)
      BY <1>1, <2>3, <2>5, GoneFaithful
    <2> QED BY <2>1, <2>2, <2>3, <2>6, ServeKeeps DEF Silence
  <1> QED BY <1>2, <1>3

(***************************************************************************)
(* kv.pin.                                                                 *)
(***************************************************************************)
LEMMA KvPinKeeps ==
    ASSUME IInv, NEW c \in Clients, NEW k \in Keys, NEW length \in PinLengths,
           KvPin(c, k, length)
    PROVE  IInv'
  <1> DEFINE old == slots[k].entry
             e == [old EXCEPT !.pin = Mono + length]
             s == [slots[k] EXCEPT !.entry = e]
             l == [life[k] EXCEPT !.pinSoon = now + length, !.pinLate = now + length]
             r == PinAuthenticated(slots[k], Mono + length, TRUE, Mono, Mono)
  <1>1. /\ slots[k] \in Slots /\ life[k] \in Lives /\ now \in Nat /\ origin \in Int
        /\ Mono \in Nat /\ length \in Nat
    BY KeyTypes, RestartConstants DEF IInv
  <1>2. r.out = "Ok" /\ Serve(c, k, r.slot, l, Silence) /\ registry' = registry
    BY DEF KvPin
  <1>3. old # None /\ StateOf(slots[k], Mono) # "HardExpired"
    BY <1>2 DEF PinAuthenticated, Result
  <1>4. old \in CacheEntries /\ State(old, Mono) # "HardExpired" /\ old.value # None
    BY <1>1, <1>3 DEF StateOf, State, Dead, Slots, Option
  <1>5. r.slot = s
    BY <1>3, <1>4 DEF PinAuthenticated, PinUntil, Result
  <1>6. /\ e \in CacheEntries /\ e.ttl = old.ttl /\ e.value = old.value
        /\ e.loaded_at = old.loaded_at /\ e.pin = Mono + length /\ e # None
    <2>1. Mono + length \in Nat
      BY <1>1
    <2>2. e \in CacheEntries /\ e.ttl = old.ttl /\ e.value = old.value
          /\ e.loaded_at = old.loaded_at /\ e.pin = Mono + length
      BY <1>4, <2>1 DEF CacheEntries, Option, Time
    <2> HIDE DEF e
    <2> QED BY <2>2, NoneIsNoRecord
  <1>7. origin + e.pin = now + length /\ e.pin # None
    <2>1. Mono + length \in Nat /\ origin + (Mono + length) = now + length
      BY <1>1 DEF Mono
    <2> HIDE DEF e
    <2> QED BY <1>6, <2>1, NoneIsNoTime
  <1>8. /\ l \in Lives /\ l.soon = life[k].soon /\ l.late = life[k].late
        /\ l.quiet = life[k].quiet /\ l.pinSoon = now + length /\ l.pinLate = now + length
    <2> DEFINE p == now + length
               m == life[k]
    <2>1. p \in Int /\ m \in Lives
      BY <1>1
    <2>2. l = [m EXCEPT !.pinSoon = p, !.pinLate = p]
      OBVIOUS
    <2> HIDE DEF p, m, l
    <2>3. /\ l \in Lives /\ l.soon = m.soon /\ l.late = m.late /\ l.quiet = m.quiet
          /\ l.pinSoon = p /\ l.pinLate = p
      BY <2>1, <2>2 DEF Lives
    <2> QED BY <2>3 DEF p, m
  <1> HIDE DEF e
  <1>9. /\ s \in Slots /\ s.entry = e /\ s.def = slots[k].def /\ s.backoff = slots[k].backoff
    BY <1>1, <1>6 DEF Slots, Option
  <1>10. Faithful(slots[k], life[k], origin, now)
    BY DEF IInv, Faithfully
  <1>11. s.entry # None /\ Live(s) /\ Live(slots[k])
    BY <1>3, <1>4, <1>6, <1>9 DEF Live
  <1> HIDE DEF s, l
  <1>12. Limited(s) /\ Patient(s, l, origin, now)
    <2>1. Limited(s)
      BY <1>3, <1>6, <1>9, <1>10 DEF Faithful, Limited
    <2>2. Patient(s, l, origin, now)
      BY <1>8, <1>9, <1>10 DEF Faithful, Patient
    <2> QED BY <2>1, <2>2
  <1>13. Timely(s, l, origin, now)
    <2>1. origin + old.loaded_at <= now /\ HardTimely(old, life[k], origin, now)
      BY <1>10, <1>11 DEF Faithful, Timely
    <2>2. HardTimely(e, l, origin, now)
      BY <1>6, <1>8, <2>1 DEF HardTimely
    <2>3. PinTimely(e, l, origin, now)
      BY <1>1, <1>7, <1>8 DEF PinTimely
    <2> QED BY <1>6, <1>9, <1>11, <2>1, <2>2, <2>3 DEF Timely
  <1>14. Faithful(s, l, origin, now)
    BY <1>12, <1>13 DEF Faithful
  <1> QED BY <1>2, <1>5, <1>8, <1>9, <1>14, ServeKeeps DEF Silence

(***************************************************************************)
(* A command that ran: a fresh value, or a wait.                           *)
(***************************************************************************)
LEMMA RanFaithful ==
    ASSUME NEW s \in Slots, NEW r, NEW run \in Option(Values), NEW org \in Int, now \in Nat,
           NEW t \in Nat, t = now - org, Over(s, t), r.slot \in Slots, r.slot.def = s.def,
           FetchedBy(s, r, run, t), Limited(s)
    PROVE  /\ r.out = "Ok" => /\ Obtained(r.slot.entry.ttl) \in Lives
                              /\ Faithful(r.slot, Obtained(r.slot.entry.ttl), org, now)
           /\ r.out = "RunFailed" /\ FailureBackoff > 0 =>
                 LET l == [NoLife EXCEPT !.quiet = now + FailureBackoff] IN
                 l \in Lives /\ Faithful(r.slot, l, org, now)
           /\ r.out = "RunFailed" /\ ~(FailureBackoff > 0) => r.slot = Evaluated(s, t)
  <1>1. r.slot.def # None => r.slot.def.ttl \in Given
    BY DEF Limited
  <1>2. ASSUME r.out = "Ok"
        PROVE  /\ Obtained(r.slot.entry.ttl) \in Lives
               /\ Faithful(r.slot, Obtained(r.slot.entry.ttl), org, now)
    <2>1. PICK src, ttl : /\ run # None /\ r.slot.entry # None
                          /\ r.slot.entry = NewEntry(src, run, ttl, t)
                          /\ \/ s.def # None /\ ttl = s.def.ttl
                             \/ s.entry # None /\ ttl = s.entry.ttl
      BY <1>2 DEF FetchedBy
    <2>2. ttl \in Given /\ ttl \in Ttl
      BY <2>1, GivenTtls DEF Limited
    <2>3. r.slot.entry.ttl = ttl
      BY <2>1 DEF NewEntry
    <2> DEFINE l == Obtained(ttl)
    <2>4. /\ l \in Lives /\ l.soon = Lifetime(ttl) /\ l.late = Lifetime(ttl)
          /\ l.pinSoon = 0 /\ l.quiet = 0
      <3>1. 0 \in Int
        OBVIOUS
      <3> QED BY <2>2, <3>1, ObtainedLives
    <2>5. l = Obtained(r.slot.entry.ttl)
      BY <2>3
    <2> HIDE DEF l
    <2>6. Patient(r.slot, l, org, now)
      BY <2>4 DEF Patient
    <2>7. r.slot.entry = NewEntry(src, run, ttl, now - org)
      BY <2>1
    <2>8. Faithful(r.slot, l, org, now)
      BY <1>1, <2>1, <2>2, <2>4, <2>6, <2>7, FreshFaithful
    <2> QED BY <2>4, <2>5, <2>8
  <1>3. ASSUME r.out = "RunFailed"
        PROVE  r.slot = RunFailed(Evaluated(s, t), t)
    BY <1>3 DEF FetchedBy
  <1> DEFINE n == Evaluated(s, t)
  <1>4. /\ n \in Slots /\ ~Live(n) /\ n.def = s.def
        /\ n.entry # None => s.entry # None /\ n.entry.ttl = s.entry.ttl
    BY EvaluatedOver
  <1>5. ASSUME r.out = "RunFailed", FailureBackoff > 0
        PROVE  LET l == [NoLife EXCEPT !.quiet = now + FailureBackoff] IN
               l \in Lives /\ Faithful(r.slot, l, org, now)
    <2> DEFINE z == NoLife
               q == now + FailureBackoff
               l == [z EXCEPT !.quiet = q]
               b == [failed_at |-> t, retry_after |-> FailureBackoff]
    <2>1. z \in Lives /\ z.soon = 0 /\ z.pinSoon = 0
      BY DEF NoLife, Lives
    <2>2. q \in Int
      BY BackoffIsDuration
    <2>3. l = [NoLife EXCEPT !.quiet = now + FailureBackoff]
      OBVIOUS
    <2>4. b.failed_at = t /\ b.retry_after = FailureBackoff /\ b \in FailureRecords
      BY BackoffIsDuration DEF FailureRecords, Time
    <2>5. b # None
      BY <2>4, NoneIsNoFailure
    <2>6. r.slot = [n EXCEPT !.backoff = b]
      BY <1>3, <1>5 DEF RunFailed
    <2>7. q <= org + b.failed_at + b.retry_after
      BY <2>4, BackoffIsDuration
    <2> HIDE DEF z, q, b, n
    <2>8. l \in Lives /\ l.soon = 0 /\ l.pinSoon = 0 /\ l.quiet = q
      BY <2>1, <2>2 DEF Lives
    <2>9. r.slot.backoff = b /\ r.slot.entry = n.entry /\ r.slot.def = n.def
      BY <1>4, <2>6 DEF Slots
    <2> HIDE DEF l
    <2>10. Patient(r.slot, l, org, now)
      BY <1>5, <2>4, <2>5, <2>7, <2>8, <2>9 DEF Patient
    <2>11. ~Live(r.slot) /\ Limited(r.slot)
      BY <1>4, <2>9 DEF Live, Limited
    <2>12. Faithful(r.slot, l, org, now)
      BY <2>8, <2>10, <2>11, GoneFaithful
    <2> QED BY <2>3, <2>8, <2>12
  <1>6. ASSUME r.out = "RunFailed", ~(FailureBackoff > 0)
        PROVE  r.slot = Evaluated(s, t)
    BY <1>3, <1>6 DEF RunFailed
  <1> QED BY <1>2, <1>5, <1>6

(***************************************************************************)
(* A value found to be over leaves the wait after a failure.               *)
(***************************************************************************)
LEMMA GoneKeeps ==
    ASSUME NEW s \in Slots, NEW l \in Lives, NEW org \in Int, now \in Nat, NEW t \in Nat,
           t = now - org, Over(s, t), Faithful(s, l, org, now)
    PROVE  Faithful(Evaluated(s, t), l, org, now)
  <1> DEFINE n == Evaluated(s, t)
  <1>1. /\ n \in Slots /\ ~Live(n) /\ n.def = s.def /\ n.backoff = s.backoff
        /\ n.entry # None => s.entry # None /\ n.entry.ttl = s.entry.ttl
    BY EvaluatedOver
  <1>2. l.soon <= now /\ l.pinSoon <= now
    BY OverMeansDue DEF Over
  <1> HIDE DEF n
  <1>3. Limited(n) /\ Patient(n, l, org, now)
    BY <1>1 DEF Faithful, Limited, Patient
  <1>4. Faithful(n, l, org, now)
    BY <1>1, <1>2, <1>3, GoneFaithful
  <1> QED BY <1>4 DEF n

(***************************************************************************)
(* kv.get.                                                                 *)
(***************************************************************************)
LEMMA KvGetKeeps ==
    ASSUME IInv, NEW c \in Clients, NEW k \in Keys, NEW run \in Option(Fetched),
           KvGet(c, k, run)
    PROVE  IInv'
  <1> DEFINE s == slots[k]
             r == Retrieve(s, run)
             fetched == r.out \in {"Ok", "RunFailed"} /\ ~Readable(s, Mono)
                          /\ StateOf(s, Mono) # "SoftExpired"
             value == IF Readable(r.slot, Mono) THEN r.slot.entry.value ELSE None
             l == CASE fetched /\ r.out = "Ok" -> Obtained(r.slot.entry.ttl)
                    [] fetched /\ r.out = "RunFailed" /\ FailureBackoff > 0 ->
                          [NoLife EXCEPT !.quiet = now + FailureBackoff]
                    [] OTHER -> life[k]
             answer == [op |-> "get", key |-> k, value |-> value,
                        ran |-> IF fetched THEN {k} ELSE {}]
  <1>1. Serve(c, k, r.slot, l, answer) /\ registry' = registry
    BY DEF KvGet
  <1>2. /\ s \in Slots /\ life[k] \in Lives /\ now \in Nat /\ origin \in Int /\ Mono \in Nat
        /\ Mono = now - origin /\ run \in Option(Values)
    BY KeyTypes, RestartConstants DEF IInv, Mono, Option
  <1>3. Faithful(s, life[k], origin, now)
    BY DEF IInv, Faithfully
  <1>4. Retrieved(s, r, run)
    BY <1>2, RetrieveOutcomes
  <1>5. fetched <=> Ran(s, r)
    BY DEF Ran, Over, Readable
  <1>6. answer.value # None => answer.key = k /\ Readable(r.slot, Mono)
    OBVIOUS
  <1>7. /\ Ran(s, r) /\ r.out = "Ok" => l = Obtained(r.slot.entry.ttl)
        /\ Ran(s, r) /\ r.out = "RunFailed" /\ FailureBackoff > 0 =>
              l = [NoLife EXCEPT !.quiet = now + FailureBackoff]
        /\ ~Ran(s, r) => l = life[k]
        /\ Ran(s, r) /\ r.out = "RunFailed" /\ ~(FailureBackoff > 0) => l = life[k]
    <2>1. CASE Ran(s, r) /\ r.out = "Ok"
      BY <1>5, <2>1
    <2>2. CASE Ran(s, r) /\ r.out = "RunFailed"
      BY <1>5, <2>2
    <2>3. CASE ~Ran(s, r)
      BY <1>5, <2>3
    <2>4. Ran(s, r) => r.out \in {"Ok", "RunFailed"}
      BY DEF Ran
    <2> QED BY <2>1, <2>2, <2>3, <2>4
  <1> HIDE DEF l, fetched, value, r, answer
  <1>8. l \in Lives /\ Faithful(r.slot, l, origin, now)
    <2>1. CASE ~Ran(s, r) /\ SameValue(r.slot, s)
      <3>1. l = life[k]
        BY <1>7, <2>1
      <3>2. r.slot.def # None => r.slot.def.ttl \in Given
        BY <1>3, <2>1 DEF SameValue, Faithful, Limited
      <3>3. Faithful(r.slot, life[k], origin, now)
        BY <1>3, <2>1, <3>2, StillFaithful DEF SameValue
      <3> QED BY <1>2, <3>1, <3>3
    <2>2. CASE ~Ran(s, r) /\ Over(s, Mono) /\ r.slot = Evaluated(s, Mono)
      <3>1. l = life[k]
        BY <1>7, <2>2
      <3> QED BY <1>2, <1>3, <2>2, <3>1, GoneKeeps
    <2>3. CASE Ran(s, r) /\ FetchedBy(s, r, run, Mono)
      <3>1. Over(s, Mono) /\ r.out \in {"Ok", "RunFailed"} /\ r.slot \in Slots
            /\ r.slot.def = s.def /\ Limited(s)
        BY <1>3, <1>4, <2>3 DEF Ran, Retrieved, Faithful
      <3>2. /\ r.out = "Ok" => /\ Obtained(r.slot.entry.ttl) \in Lives
                               /\ Faithful(r.slot, Obtained(r.slot.entry.ttl), origin, now)
            /\ r.out = "RunFailed" /\ FailureBackoff > 0 =>
                  LET m == [NoLife EXCEPT !.quiet = now + FailureBackoff] IN
                  m \in Lives /\ Faithful(r.slot, m, origin, now)
            /\ r.out = "RunFailed" /\ ~(FailureBackoff > 0) => r.slot = Evaluated(s, Mono)
        BY <1>2, <2>3, <3>1, RanFaithful
      <3>3. CASE r.out = "Ok"
        BY <1>7, <2>3, <3>2, <3>3
      <3>4. CASE r.out = "RunFailed" /\ FailureBackoff > 0
        BY <1>7, <2>3, <3>2, <3>4
      <3>5. CASE r.out = "RunFailed" /\ ~(FailureBackoff > 0)
        BY <1>2, <1>3, <1>7, <2>3, <3>1, <3>2, <3>5, GoneKeeps
      <3> QED BY <3>1, <3>3, <3>4, <3>5
    <2> QED BY <1>4, <2>1, <2>2, <2>3 DEF Retrieved
  <1>9. r.slot \in Slots /\ r.slot.def = slots[k].def
    BY <1>4 DEF Retrieved
  <1> QED BY <1>1, <1>6, <1>8, <1>9, ServeKeeps

-----------------------------------------------------------------------------
(* The startup task *)

(***************************************************************************)
(* What the startup task makes of a key: the value stays, or was missing   *)
(* and is loaded; the definition is the configuration's or, where that is  *)
(* silent, the one the file knows.                                         *)
(***************************************************************************)
StartedFrom(n, s, k, loads, run) ==
    /\ n.backoff = s.backoff /\ n.owner = s.owner /\ n.version = s.version
    /\ IF k \in loads /\ run # None
       THEN /\ s.entry = None /\ config[k] # None
            /\ n.entry = NewEntry(config[k].source, run, config[k].ttl, Mono)
       ELSE n.entry = s.entry
    /\ config[k] # None => n.def = config[k]
    /\ config[k] = None /\ ~PersistDefinitions => n.def = s.def /\ n.guard = s.guard
    /\ config[k] = None /\ PersistDefinitions /\ registry[k] # None =>
          n.def = (IF s.def = None THEN registry[k] ELSE s.def) /\ n.guard = s.guard
    /\ config[k] = None /\ PersistDefinitions /\ registry[k] = None =>
          n.def = None /\ (s.def = None => n.guard = s.guard)

LEMMA StartedKey ==
    ASSUME Typed, NEW k \in Keys, NEW run \in Option(Fetched), NEW loads,
           loads = Loads(ClearConfigOwned(slots))
    PROVE  /\ Started(slots, loads, run)[k] \in Slots
           /\ StartedFrom(Started(slots, loads, run)[k], slots[k], k, loads, run)
  <1> DEFINE s  == slots[k]
             aa == ClearConfigOwned(slots)
             bb == Register(aa, loads, run)
             cc == Restore(bb)
             dd == Purge(cc)
             n  == Started(slots, loads, run)[k]
  <1>1. /\ s \in Slots /\ config[k] \in Option(Definitions)
        /\ registry[k] \in Option(Definitions) /\ Mono \in Nat
    BY KeyTypes
  <1>2. /\ k \in Keys /\ n = IF PersistDefinitions THEN dd[k] ELSE bb[k]
    BY DEF Started
  <1>3. /\ aa[k] = IF config[k] = None THEN s ELSE Undefine(s)
        /\ bb[k] = IF config[k] = None THEN aa[k]
                   ELSE LET u == Define(aa[k], config[k]).slot IN
                        IF k \in loads /\ run # None
                        THEN Set(u, config[k].source, run, config[k].ttl, Mono) ELSE u
        /\ cc[k] = IF config[k] = None /\ registry[k] # None
                   THEN Define(bb[k], registry[k]).slot ELSE bb[k]
        /\ dd[k] = IF cc[k].def # None /\ config[k] = None /\ registry[k] = None
                   THEN Undefine(cc[k]) ELSE cc[k]
    BY DEF ClearConfigOwned, Register, Restore, Purge
  <1>4. k \in loads => config[k] # None /\ aa[k].entry = None
    BY DEF Loads
  <1> HIDE DEF aa, bb, cc, dd, n
  <1>5. CASE config[k] # None
    <2> DEFINE d == config[k]
               u == Undefine(s)
               v == [u EXCEPT !.def = d]
    <2>1. d \in Definitions
      BY <1>1, <1>5 DEF Option
    <2>2. /\ u \in Slots /\ u.def = None /\ u.entry = s.entry /\ u.backoff = s.backoff
          /\ u.owner = s.owner /\ u.version = s.version
      BY <1>1 DEF Undefine, Slots, Option
    <2>8. aa[k] = u
      BY <1>3, <1>5
    <2> HIDE DEF u
    <2>3. Define(u, d).slot = v
      BY <1>5, <2>2 DEF Define, Result
    <2>4. /\ v \in Slots /\ v.def = d /\ v.entry = s.entry /\ v.backoff = s.backoff
          /\ v.owner = s.owner /\ v.version = s.version
      BY <2>1, <2>2 DEF Slots, Option
    <2>5. /\ n = bb[k] /\ aa[k] = u
          /\ bb[k] = IF k \in loads /\ run # None THEN Set(v, d.source, run, d.ttl, Mono) ELSE v
      BY <1>2, <1>3, <1>5, <2>3, <2>8
    <2> HIDE DEF v
    <2>6. CASE k \in loads /\ run # None
      <3>1. run \in Values /\ d.source \in Sources \cup {Static} /\ d.ttl \in Ttl
        BY <2>1, <2>6, RestartConstants DEF Option, Definitions
      <3>2. Set(v, d.source, run, d.ttl, Mono) \in Slots
        BY <1>1, <2>4, <3>1, InstallType DEF Time
      <3>3. s.entry = None
        BY <1>4, <2>2, <2>5, <2>6
      <3>4. n = [v EXCEPT !.entry = NewEntry(d.source, run, d.ttl, Mono)]
        BY <2>5, <2>6 DEF Set
      <3>5. /\ n.entry = NewEntry(d.source, run, d.ttl, Mono) /\ n.def = d
            /\ n.backoff = v.backoff /\ n.owner = v.owner /\ n.version = v.version
        BY <2>4, <3>4 DEF Slots
      <3>6. n \in Slots
        BY <2>5, <2>6, <3>2
      <3>7. StartedFrom(n, s, k, loads, run)
        BY <1>5, <2>4, <2>6, <3>3, <3>5 DEF StartedFrom
      <3> QED BY <3>6, <3>7 DEF n
    <2>7. CASE ~(k \in loads /\ run # None)
      <3>1. n = v
        BY <2>5, <2>7
      <3>2. StartedFrom(n, s, k, loads, run)
        BY <1>5, <2>4, <2>7, <3>1 DEF StartedFrom
      <3> QED BY <2>4, <3>1, <3>2 DEF n
    <2> QED BY <2>6, <2>7
  <1>6. CASE config[k] = None
    <2>1. bb[k] = s /\ k \notin loads
      BY <1>3, <1>4, <1>6
    <2>2. CASE ~PersistDefinitions
      <3>1. n = s
        BY <1>2, <2>1, <2>2
      <3>2. StartedFrom(n, s, k, loads, run)
        BY <1>6, <2>1, <2>2, <3>1 DEF StartedFrom
      <3> QED BY <1>1, <3>1, <3>2 DEF n
    <2>3. CASE PersistDefinitions /\ registry[k] # None
      <3> DEFINE d == registry[k]
                 v == Define(s, d).slot
      <3>1. d \in Definitions
        BY <1>1, <2>3 DEF Option
      <3>2. v \in Slots
        BY <1>1, <3>1, DefineClosed DEF Results
      <3>3. /\ v.entry = s.entry /\ v.backoff = s.backoff /\ v.owner = s.owner
            /\ v.version = s.version /\ v.guard = s.guard
            /\ v.def = IF s.def = None THEN d ELSE s.def
        BY <1>1 DEF Define, Result, Slots
      <3>4. n = v
        BY <1>2, <1>3, <1>6, <2>1, <2>3
      <3> HIDE DEF v
      <3>5. StartedFrom(n, s, k, loads, run)
        BY <1>6, <2>1, <2>3, <3>3, <3>4 DEF StartedFrom
      <3> QED BY <3>2, <3>4, <3>5 DEF n
    <2>4. CASE PersistDefinitions /\ registry[k] = None
      <3> DEFINE v == Undefine(s)
      <3>1. n = IF s.def # None THEN v ELSE s
        BY <1>2, <1>3, <1>6, <2>1, <2>4
      <3>2. /\ v \in Slots /\ v.def = None /\ v.entry = s.entry /\ v.backoff = s.backoff
            /\ v.owner = s.owner /\ v.version = s.version
        BY <1>1 DEF Undefine, Slots, Option
      <3> HIDE DEF v
      <3>3. StartedFrom(n, s, k, loads, run)
        BY <1>6, <2>1, <2>4, <3>1, <3>2 DEF StartedFrom
      <3> QED BY <1>1, <3>1, <3>2, <3>3 DEF n
    <2> QED BY <2>2, <2>3, <2>4
  <1> QED BY <1>5, <1>6

(***************************************************************************)
(* The startup task: what was owed has arrived, and nothing is any more.   *)
(***************************************************************************)
LEMMA StartupKeeps ==
    ASSUME IInv, Startup
    PROVE  IInv'
  <1>1. PICK run \in Option(Fetched) : FinishStartup(run)
    BY DEF Startup
  <1> DEFINE loads == Loads(ClearConfigOwned(slots))
  <1>2. /\ proc = "Starting" /\ proc' = "Up" /\ ready' = PersistDefinitions
        /\ slots' = Started(slots, loads, run)
        /\ registry' = IF PersistDefinitions THEN Online(slots') ELSE registry
        /\ stream' = IF stream = "open" THEN "committed" ELSE stream
        /\ life' = [k \in Keys |-> IF k \in loads /\ run # None
                                   THEN [Obtained(config[k].ttl) EXCEPT !.quiet = life[k].quiet]
                                   ELSE life[k]]
        /\ kept' = IF restart.st = "idle" THEN NothingKept ELSE kept
        /\ reply' = [Silence EXCEPT !.op = "startup", !.ran = loads]
        /\ UNCHANGED <<stopping, config, origin, serving, restart, holder, clocks, counts>>
    BY <1>1 DEF FinishStartup
  <1>3. loads = Loads(ClearConfigOwned(slots))
    OBVIOUS
  <1> HIDE DEF loads
  <1>4. ASSUME NEW k \in Keys
        PROVE  slots'[k] \in Slots /\ StartedFrom(slots'[k], slots[k], k, loads, run)
    BY <1>2, <1>3, StartedKey DEF IInv
  <1>5. ASSUME NEW k \in Keys
        PROVE  life'[k] \in Lives /\ Faithful(slots'[k], life'[k], origin', now')
    <2> DEFINE s == slots[k]
               n == slots'[k]
               l == life[k]
    <2>1. /\ s \in Slots /\ l \in Lives /\ now \in Nat /\ origin \in Int /\ Mono \in Nat
          /\ config \in Configs /\ config[k] \in Option(Definitions)
          /\ registry[k] \in Option(Definitions) /\ l.quiet \in Int
      BY KeyTypes DEF IInv, Lives
    <2>2. n \in Slots /\ StartedFrom(n, s, k, loads, run)
      BY <1>4
    <2>3. Faithful(s, l, origin, now)
      BY DEF IInv, Faithfully
    <2>4. n.def # None => n.def.ttl \in Given
      <3>1. config[k] # None => config[k].ttl \in Given
        BY <2>1, GivenTtls
      <3>2. registry[k] # None => registry[k].ttl \in Given
        BY DEF IInv, Registered
      <3>3. n.def \in {config[k], registry[k], s.def, None} /\ (n.def = config[k] \/ config[k] = None)
        BY <2>2 DEF StartedFrom
      <3>4. s.def # None => s.def.ttl \in Given
        BY <2>3 DEF Faithful, Limited
      <3> QED BY <3>1, <3>2, <3>3, <3>4
    <2>5. now' = now /\ origin' = origin
      BY <1>2 DEF clocks
    <2>6. CASE k \in loads /\ run # None
      <3> DEFINE d == config[k]
                 m == [Obtained(d.ttl) EXCEPT !.quiet = l.quiet]
      <3>1. life'[k] = m
        BY <1>2, <2>6
      <3>2. d # None /\ n.entry = NewEntry(d.source, run, d.ttl, Mono) /\ n.backoff = s.backoff
        BY <2>2, <2>6 DEF StartedFrom
      <3>3. d \in Definitions /\ d.ttl \in Given /\ d.ttl \in Ttl /\ d.source \in Sources \cup {Static}
        BY <2>1, <3>2, GivenTtls DEF Definitions
      <3>4. /\ m \in Lives /\ m.quiet = l.quiet /\ m.soon = Lifetime(d.ttl)
            /\ m.late = Lifetime(d.ttl) /\ m.pinSoon = 0
        BY <2>1, <3>3, ObtainedLives
      <3>5. run \in Values /\ n.entry \in CacheEntries
        BY <2>1, <2>6, <3>2, <3>3, RestartConstants, NewEntryType DEF Option, Time
      <3>6. n.entry # None
        BY <3>5, NoneIsNoRecord
      <3> HIDE DEF m, n
      <3>7. Patient(n, m, origin, now)
        BY <2>3, <3>2, <3>4 DEF Faithful, Patient
      <3>8. n.entry = NewEntry(d.source, run, d.ttl, now - origin)
        BY <3>2 DEF Mono
      <3>9. Faithful(n, m, origin, now)
        BY <2>1, <2>2, <2>4, <2>6, <3>3, <3>4, <3>6, <3>7, <3>8, FreshFaithful
      <3> QED BY <2>5, <3>1, <3>4, <3>9 DEF n
    <2>7. CASE ~(k \in loads /\ run # None)
      <3>1. life'[k] = l
        BY <1>2, <2>7
      <3>2. n.entry = s.entry /\ n.backoff = s.backoff
        BY <2>2, <2>7 DEF StartedFrom
      <3> HIDE DEF n, l
      <3>3. Faithful(n, l, origin, now)
        BY <2>3, <2>4, <3>2, StillFaithful
      <3> QED BY <2>1, <2>5, <3>1, <3>3 DEF n
    <2> QED BY <2>6, <2>7
  <1>6. slots' \in [Keys -> Slots] /\ life' \in [Keys -> Lives]
    <2>1. slots' = [k \in Keys |-> slots'[k]]
      BY <1>2 DEF Started, Purge, Restore, Register
    <2>2. life' = [k \in Keys |-> life'[k]]
      BY <1>2
    <2>3. \A k \in Keys : slots'[k] \in Slots /\ life'[k] \in Lives
      BY <1>4, <1>5
    <2> QED BY <2>1, <2>2, <2>3
  <1>7. /\ registry' \in [Keys -> Option(Definitions)]
        /\ \A k \in Keys : registry'[k] # None => registry'[k].ttl \in Given
        /\ ready' => registry' = Online(slots')
    <2>1. CASE PersistDefinitions
      <3>1. \A k \in Keys : /\ slots'[k].def \in Option(Definitions)
                            /\ slots'[k].def # None => slots'[k].def.ttl \in Given
        BY <1>4, <1>5 DEF Slots, Faithful, Limited
      <3> QED BY <1>2, <2>1, <3>1 DEF Online, Option
    <2>2. CASE ~PersistDefinitions
      BY <1>2, <2>2 DEF IInv, Typed, TypeOK, Registered
    <2> QED BY <2>1, <2>2
  <1>8. kept' \in [Keys -> Option(Debts)] /\ \A k \in Keys : kept'[k] = None
    BY <1>2 DEF IInv, Typed, TypeOK, Promised, NothingKept, Option
  <1>9. Typed'
    <2>1. ready' \in BOOLEAN
      BY <1>2, RestartConstants
    <2> QED BY <1>2, <1>6, <1>7, <1>8, <2>1
            DEF IInv, Typed, TypeOK, Phases, serving, clocks, Mono
  <1>10. Phased'
    BY <1>2 DEF Phased
  <1>11. Faithfully'
    BY <1>2, <1>5 DEF IInv, Faithfully, clocks
  <1>12. Promised'
    BY <1>8 DEF Promised
  <1>13. Registered'
    <2>1. Online(slots)' = Online(slots')
      BY <1>2 DEF Online
    <2> QED BY <1>7, <2>1 DEF Registered
  <1>14. Replied'
    BY <1>2 DEF Replied, Silence
  <1> QED BY <1>9, <1>10, <1>11, <1>12, <1>13, <1>14 DEF IInv

-----------------------------------------------------------------------------
(* Theorems *)

(***************************************************************************)
(* The program is not running yet: it has promised nothing.                *)
(***************************************************************************)
LEMMA Initially ==
    ASSUME Init
    PROVE  IInv
  <1>1. \A k \in Keys : slots[k] = EmptySlot /\ life[k] = NoLife /\ kept[k] = None
    BY DEF Init, ColdSlots, NothingKept
  <1>2. \A k \in Keys : /\ Faithful(slots[k], life[k], origin, now)
                        /\ slots[k] \in Slots /\ life[k] \in Lives
    <2>1. now \in Nat
      BY DEF Init
    <2> QED BY <1>1, <2>1, ColdFaithful
  <1>3. /\ restart.st = "idle" /\ restart.snap = None /\ restart = Idle
        /\ holder.st = "none" /\ holder.snap = None
        /\ restart \in [st : {"idle", "exported", "prepared"}, snap : Option(Snapshots)]
        /\ holder \in [st : {"none", "sending", "waiting"}, snap : Option(Snapshots)]
    BY DEF Init, Idle, Nobody, Option
  <1>4. Typed
    <2>1. slots \in [Keys -> Slots] /\ life \in [Keys -> Lives]
      BY <1>2 DEF Init, ColdSlots
    <2>2. kept \in [Keys -> Option(Debts)] /\ registry \in [Keys -> Option(Definitions)]
      BY DEF Init, NothingKept, Option
    <2>3. Mono \in Time /\ skew \in -MaxSkew..MaxSkew /\ now \in 0..MaxTime /\ origin \in Int
      BY RestartConstants DEF Init, Mono, Time
    <2> QED BY <1>3, <2>1, <2>2, <2>3 DEF Init, Typed, TypeOK, Phases
  <1>5. Phased /\ Promised /\ Registered /\ Replied
    BY <1>1, <1>3 DEF Init, Phased, Promised, Registered, Replied, Silence
  <1>6. Faithfully
    BY <1>2, <1>3 DEF Faithfully, FaithfulSnapshot
  <1> QED BY <1>4, <1>5, <1>6 DEF IInv

(***************************************************************************)
(* Every step keeps the invariant.                                         *)
(***************************************************************************)
LEMMA Inductive ==
    ASSUME IInv, [Next]_vars
    PROVE  IInv'
  <1>1. CASE Tick
    BY <1>1, TickKeeps
  <1>2. CASE Signal \/ \E d \in {-1, 1} : SetClock(d)
    BY <1>2, SignalsKeep
  <1>3. CASE Stop \/ Crash \/ Exec \/ \E forked \in BOOLEAN : ExecFails(forked)
    BY <1>3, EndingsKeep
  <1>4. CASE HolderFails \/ Holder
    BY <1>4, HolderKeeps
  <1>5. ASSUME NEW c \in Clients, Accept(c) \/ Close(c) PROVE IInv'
    BY <1>5, ConnectionsKeep
  <1>6. ASSUME NEW c \in Clients, Request(c) PROVE IInv'
    <2>1. CASE RequestRestart(c)
      BY <2>1, RequestRestartKeeps
    <2>2. CASE \E k \in Keys, w \in Writes : KvSet(c, k, w)
      BY <2>2, KvSetKeeps
    <2>3. CASE \E k \in Keys, run \in Option(Fetched) : KvGet(c, k, run)
      BY <2>3, KvGetKeeps
    <2>4. CASE \E k \in Keys, length \in PinLengths : KvPin(c, k, length)
      BY <2>4, KvPinKeeps
    <2>5. CASE \E k \in Keys, def \in OnlineDefs : KvDefine(c, k, def)
      BY <2>5, KvDefineKeeps
    <2>6. CASE \E k \in Keys, with_define \in BOOLEAN : KvDel(c, k, with_define)
      BY <2>6, KvDelKeeps
    <2> QED BY <1>6, <2>1, <2>2, <2>3, <2>4, <2>5, <2>6 DEF Request
  <1>7. CASE BeginDrain \/ \E ok \in BOOLEAN : Prepare(ok)
    BY <1>7, PreparationKeeps
  <1>8. CASE Drain
    BY <1>8, ConnectionsKeep
  <1>9. CASE ColdStart \/ ReceiveFails
    BY <1>9, ColdStartsKeep
  <1>10. CASE Receive
    BY <1>10, ReceiveKeeps
  <1>11. CASE Startup
    BY <1>11, StartupKeeps
  <1>12. CASE UNCHANGED vars
    <2>1. UNCHANGED <<proc, stopping, slots, config, origin, ready, registry, conns, accepting,
                      waiter, restart, holder, stream, now, skew, reply, life, kept>>
      BY <1>12 DEF vars, process, serving, handoff, clocks, history
    <2>2. Typed' /\ Phased'
      BY <2>1 DEF IInv, Typed, TypeOK, Phased, Mono
    <2>3. Faithfully' /\ Promised'
      BY <2>1 DEF IInv, Faithfully, Promised
    <2>4. Registered' /\ Replied'
      BY <2>1 DEF IInv, Registered, Online, Replied, Mono
    <2> QED BY <2>2, <2>3, <2>4 DEF IInv
  <1> QED BY <1>1, <1>2, <1>3, <1>4, <1>5, <1>6, <1>7, <1>8, <1>9, <1>10, <1>11, <1>12 DEF Next

(***************************************************************************)
(* The invariant of the restart, for any keys, clients, configurations,    *)
(* clocks, faults and number of handoffs.                                  *)
(***************************************************************************)
THEOREM RestartInvariant == Spec => []IInv
  BY Initially, Inductive, PTL DEF Spec

(***************************************************************************)
(* Slots, snapshots, what the holder carries and the histories keep their  *)
(* types, and no clock runs before its origin.  (snapshot.rs, clock.rs     *)
(* Monotonic)                                                              *)
(***************************************************************************)
THEOREM RestartTypes == Spec => []TypeOK
  <1>1. IInv => TypeOK
    BY DEF IInv, Typed
  <1> QED BY <1>1, RestartInvariant, PTL

(***************************************************************************)
(* No value is served past its hard limit or its pin by real time, however *)
(* many processes it was handed through, when no given lifetime is longer  *)
(* than a new process's clock reaches back.  (clock.rs                     *)
(* epoch_ms_to_monotonic_ttl_basis, server.rs                              *)
(* GRACEFUL_RESTART_CLOCK_HEADROOM)                                        *)
(***************************************************************************)
THEOREM NothingServedLate ==
    ASSUME ShortLived
    PROVE  Spec => []ServedInTime
  <1>1. IInv => ServedInTime
    <2> SUFFICES ASSUME IInv, reply.value # None
                 PROVE  now < Latest(life[reply.key].late, life[reply.key].pinLate)
      BY DEF ServedInTime
    <2> DEFINE k == reply.key
    <2>1. k \in Keys /\ Readable(slots[k], now - origin)
      BY DEF IInv, Replied, Mono
    <2> HIDE DEF k
    <2>2. /\ slots[k] \in Slots /\ life[k] \in Lives /\ origin \in Int /\ now \in 0..MaxTime
          /\ now - origin \in Nat /\ Faithful(slots[k], life[k], origin, now)
      BY <2>1, KeyTypes DEF IInv, Typed, Faithfully, Mono
    <2>3. now < Latest(life[k].late, life[k].pinLate)
      BY <2>1, <2>2, ReadableInTime
    <2> QED BY <2>3 DEF k
  <1> QED BY <1>1, RestartInvariant, PTL

(***************************************************************************)
(* Only kv.get and the startup task report commands.                       *)
(***************************************************************************)
LEMMA WhoRuns ==
    ASSUME Next
    PROVE  \/ reply' = Silence
           \/ \E c \in Clients, k \in Keys, run \in Option(Fetched) : KvGet(c, k, run)
           \/ Startup
  <1>1. ASSUME NEW c \in Clients, Request(c)
        PROVE  \/ reply' = Silence
               \/ \E k \in Keys, run \in Option(Fetched) : KvGet(c, k, run)
    BY <1>1 DEF Request, RequestRestart, KvSet, KvPin, KvDefine, KvDel, Serve
  <1>2. CASE Tick \/ Signal \/ Stop \/ Crash \/ HolderFails \/ Holder
    BY <1>2 DEF Tick, Signal, Stop, Crash, Dies, MemoryGone, HolderFails, Holder, HolderExits,
                HolderAnswered, HolderDeserted, HolderTimesOut
  <1>3. CASE \/ \E d \in {-1, 1} : SetClock(d)
             \/ \E c \in Clients : Accept(c) \/ Close(c)
             \/ Drain \/ BeginDrain \/ \E ok \in BOOLEAN : Prepare(ok)
    BY <1>3 DEF SetClock, Accept, Close, Drain, CheckCount, Listen, DrainDeadline, EndServe,
                Waits, BeginDrain, Prepare
  <1>4. CASE \/ Exec \/ \E forked \in BOOLEAN : ExecFails(forked)
             \/ ColdStart \/ Receive \/ ReceiveFails
    BY <1>4 DEF Exec, ExecFails, MemoryGone, ColdStart, Receive, ReceiveFails
  <1> QED BY <1>1, <1>2, <1>3, <1>4 DEF Next

(***************************************************************************)
(* A restart costs no fetch, for any configuration, clocks and number of   *)
(* handoffs: no command runs for a key whose value is still good, and no   *)
(* request runs one that failed a moment ago.  (server.rs                  *)
(* register_definitions already_loaded, clock.rs                           *)
(* epoch_ms_to_monotonic_for_failure)                                      *)
(***************************************************************************)
THEOREM RestartCostsNoFetch == Spec => NoStorm
  <1> DEFINE Due(k) == /\ now >= life[k].soon /\ now >= life[k].pinSoon
                       /\ reply'.op = "get" => now >= life[k].quiet
  <1>1. ASSUME IInv, [Next]_vars
        PROVE  [\A k \in reply'.ran : Due(k)]_vars
    <2>1. ASSUME Next, NEW k \in reply'.ran PROVE Due(k)
      <3>1. CASE reply' = Silence
        BY <2>1, <3>1 DEF Silence
      <3>2. ASSUME NEW c \in Clients, NEW j \in Keys, NEW run \in Option(Fetched),
                   KvGet(c, j, run)
            PROVE  Due(k)
        <4> DEFINE s == slots[j]
        <4>1. /\ k = j /\ ~Readable(s, Mono) /\ StateOf(s, Mono) # "SoftExpired"
              /\ Retrieve(s, run).out \in {"Ok", "RunFailed"}
          BY <2>1, <3>2 DEF KvGet, Serve
        <4>2. /\ s \in Slots /\ life[j] \in Lives /\ now \in Nat /\ origin \in Int
              /\ Mono \in Nat /\ Mono = now - origin /\ run \in Option(Values)
          BY <1>1, KeyTypes, RestartConstants DEF IInv, Mono, Option
        <4>3. Over(s, Mono) /\ Ran(s, Retrieve(s, run))
          BY <4>1 DEF Over, Readable, Ran
        <4>4. Retrieved(s, Retrieve(s, run), run)
          BY <4>2, RetrieveOutcomes
        <4>5. ~InBackoff(s, Mono)
          BY <4>3, <4>4 DEF Retrieved, FetchedBy
        <4>6. Faithful(s, life[j], origin, now)
          BY <1>1 DEF IInv, Faithfully
        <4> HIDE DEF s
        <4>7. life[j].soon <= now /\ life[j].pinSoon <= now
          BY <4>2, <4>3, <4>6, OverMeansDue DEF Over
        <4>8. life[j].quiet <= now
          BY <4>2, <4>5, <4>6, WaitIsOver DEF Faithful
        <4>9. life[j].soon \in Int /\ life[j].pinSoon \in Int /\ life[j].quiet \in Int
          BY <4>2 DEF Lives
        <4> QED BY <4>1, <4>2, <4>7, <4>8, <4>9
      <3>3. CASE Startup
        <4>1. /\ reply'.op = "startup" /\ reply'.ran = Loads(ClearConfigOwned(slots))
          BY <3>3 DEF Startup, FinishStartup, Silence
        <4>2. /\ k \in Eager /\ config[k] # None /\ ClearConfigOwned(slots)[k].entry = None
          BY <2>1, <4>1 DEF Loads
        <4>3. k \in Keys
          BY <4>2, RestartConstants
        <4>4. /\ slots[k] \in Slots /\ life[k] \in Lives /\ now \in Nat
          BY <1>1, <4>3, KeyTypes DEF IInv
        <4>5. slots[k].entry = None
          BY <4>2, <4>3, <4>4 DEF ClearConfigOwned, Undefine, Slots
        <4>6. Faithful(slots[k], life[k], origin, now)
          BY <1>1, <4>3 DEF IInv, Faithfully
        <4>7. life[k].soon <= now /\ life[k].pinSoon <= now
          BY <4>5, <4>6 DEF Faithful, Timely, Live
        <4>8. life[k].soon \in Int /\ life[k].pinSoon \in Int
          BY <4>4 DEF Lives
        <4> QED BY <4>1, <4>4, <4>7, <4>8
      <3> QED BY <2>1, <3>1, <3>2, <3>3, WhoRuns
    <2> QED BY <1>1, <2>1
  <1> QED BY <1>1, RestartInvariant, PTL DEF Spec, NoStorm

(***************************************************************************)
(* The step that ends a startup.                                           *)
(***************************************************************************)
LEMMA OnlyStartupEnds ==
    ASSUME [Next]_vars, proc = "Starting", proc' = "Up"
    PROVE  Startup
  <1>1. ASSUME NEW c \in Clients, Accept(c) \/ Close(c) \/ Request(c) PROVE proc' = proc
    BY <1>1 DEF Accept, Close, Request, RequestRestart, KvSet, KvGet, KvPin, KvDefine, KvDel,
                Serve, process
  <1>2. CASE Tick \/ Signal \/ Stop \/ Crash \/ HolderFails \/ Holder
    BY <1>2 DEF Tick, Signal, Stop, Crash, Dies, HolderFails, Holder, HolderExits,
                HolderAnswered, HolderDeserted, HolderTimesOut, process
  <1>3. CASE \/ \E d \in {-1, 1} : SetClock(d)
             \/ Drain \/ BeginDrain \/ \E ok \in BOOLEAN : Prepare(ok)
    BY <1>3 DEF SetClock, Drain, CheckCount, Listen, DrainDeadline, EndServe,
                Waits, BeginDrain, Prepare, process
  <1>4. CASE \/ Exec \/ \E forked \in BOOLEAN : ExecFails(forked)
             \/ ColdStart \/ Receive \/ ReceiveFails
    BY <1>4 DEF Exec, ExecFails, ColdStart, Receive, ReceiveFails
  <1>5. CASE UNCHANGED vars
    BY <1>5 DEF vars, process
  <1> QED BY <1>1, <1>2, <1>3, <1>4, <1>5 DEF Next

(***************************************************************************)
(* What nobody changed behind the snapshot's back arrives: a value that    *)
(* was readable when the old process went, with its owner, its version and *)
(* its guard.  (store.rs export_snapshot, import_snapshot)                 *)
(***************************************************************************)
THEOREM SuccessorKeepsWhatIsOwed == Spec => SuccessorKeeps
  <1> DEFINE Kept(k) ==
               LET new == slots'[k] IN
               Readable(new, Mono) =>
                  /\ [Owed(new) EXCEPT !.guard = None, !.def = None]
                       = [kept[k] EXCEPT !.guard = None, !.def = None]
                  /\ (config[k] = None /\ registry[k] = kept[k].def)
                        => new.guard = kept[k].guard
             Arrived == (proc = "Starting" /\ proc' = "Up" /\ restart.st = "idle") =>
                           \A k \in Keys : (kept[k] # None /\ kept[k].value # None) => Kept(k)
  <1>1. ASSUME IInv, [Next]_vars
        PROVE  [Arrived]_vars
    <2>1. ASSUME proc = "Starting", proc' = "Up", NEW k \in Keys, kept[k] # None,
                 kept[k].value # None, Readable(slots'[k], Mono)
          PROVE  /\ [Owed(slots'[k]) EXCEPT !.guard = None, !.def = None]
                      = [kept[k] EXCEPT !.guard = None, !.def = None]
                 /\ (config[k] = None /\ registry[k] = kept[k].def)
                       => slots'[k].guard = kept[k].guard
      <3> DEFINE s == slots[k]
                 n == slots'[k]
                 o == kept[k]
      <3>1. PICK run \in Option(Fetched) : FinishStartup(run)
        BY <1>1, <2>1, OnlyStartupEnds DEF Startup
      <3>2. slots' = Started(slots, Loads(ClearConfigOwned(slots)), run)
        BY <3>1 DEF FinishStartup
      <3>3. StartedFrom(n, s, k, Loads(ClearConfigOwned(slots)), run)
        BY <1>1, <3>2, StartedKey DEF IInv
      <3>4. Carries(s, o)
        BY <1>1, <2>1 DEF IInv, Promised
      <3>5. /\ s.def = o.def /\ s.entry # None /\ s.entry.value = o.value /\ s.guard = o.guard
            /\ s.owner = o.owner /\ s.version = o.version
        BY <2>1, <3>4 DEF Carries
      <3>6. n.entry = s.entry /\ n.owner = s.owner /\ n.version = s.version
        BY <3>3, <3>5 DEF StartedFrom
      <3>7. o \in Debts
        BY <1>1, <2>1, KeyTypes DEF IInv, Option
      <3>8. (config[k] = None /\ registry[k] = o.def) => n.guard = o.guard
        BY <3>3, <3>5 DEF StartedFrom
      <3>9. Owed(n) = [value |-> o.value, guard |-> n.guard, owner |-> o.owner,
                       version |-> o.version, def |-> n.def]
        BY <2>1, <3>5, <3>6 DEF Owed
      <3>11. n.guard \in Option(Guards) /\ n.def \in Option(Definitions)
        BY <1>1, <3>2, StartedKey DEF IInv, Slots
      <3> HIDE DEF n, o
      <3>10. [Owed(n) EXCEPT !.guard = None, !.def = None]
               = [o EXCEPT !.guard = None, !.def = None]
        <4> DEFINE x == Owed(n)
                   a == [x EXCEPT !.guard = None, !.def = None]
                   b == [o EXCEPT !.guard = None, !.def = None]
        <4>1. /\ x.value = o.value /\ x.owner = o.owner /\ x.version = o.version
              /\ x \in Debts
          BY <3>7, <3>9, <3>11 DEF Debts
        <4> HIDE DEF x
        <4>2. /\ a \in Debts /\ a.value = o.value /\ a.owner = o.owner
              /\ a.version = o.version /\ a.guard = None /\ a.def = None
          BY <4>1 DEF Debts, Option
        <4>3. /\ b \in Debts /\ b.value = o.value /\ b.owner = o.owner
              /\ b.version = o.version /\ b.guard = None /\ b.def = None
          BY <3>7 DEF Debts, Option
        <4>4. a = b
          <5> HIDE DEF a, b
          <5> QED BY <4>2, <4>3 DEF Debts
        <4> QED BY <4>4 DEF x
      <3> QED BY <3>8, <3>10 DEF n, o
    <2> QED BY <2>1
  <1> QED BY <1>1, RestartInvariant, PTL DEF Spec, SuccessorKeeps

(***************************************************************************)
(* A graceful restart ends with the definitions a cold start would have    *)
(* found, for every key no request changed behind the snapshot's back.     *)
(* (server.rs clear_config_owned_definitions,                              *)
(* purge_stale_import_definitions)                                         *)
(***************************************************************************)
THEOREM RestartDefinesAsCold == Spec => DefinitionsAsCold
  <1> DEFINE AsCold ==
               (proc = "Starting" /\ proc' = "Up" /\ PersistDefinitions) =>
                  \A k \in Keys : (kept[k] # None \/ slots[k].def = None) =>
                     slots'[k].def = IF config[k] # None THEN config[k] ELSE registry[k]
  <1>1. ASSUME IInv, [Next]_vars
        PROVE  [AsCold]_vars
    <2>1. ASSUME proc = "Starting", proc' = "Up", PersistDefinitions, NEW k \in Keys,
                 kept[k] # None \/ slots[k].def = None
          PROVE  slots'[k].def = IF config[k] # None THEN config[k] ELSE registry[k]
      <3>1. PICK run \in Option(Fetched) : FinishStartup(run)
        BY <1>1, <2>1, OnlyStartupEnds DEF Startup
      <3>2. slots' = Started(slots, Loads(ClearConfigOwned(slots)), run)
        BY <3>1 DEF FinishStartup
      <3>3. StartedFrom(slots'[k], slots[k], k, Loads(ClearConfigOwned(slots)), run)
        BY <1>1, <3>2, StartedKey DEF IInv
      <3>4. kept[k] # None => slots[k].def = kept[k].def /\ registry[k] \in {None, kept[k].def}
        BY <1>1, <2>1 DEF IInv, Promised, Carries
      <3> QED BY <2>1, <3>3, <3>4 DEF StartedFrom
    <2> QED BY <2>1
  <1> QED BY <1>1, RestartInvariant, PTL DEF Spec, DefinitionsAsCold

=============================================================================
