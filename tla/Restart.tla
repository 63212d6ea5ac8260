------------------------------- MODULE Restart -------------------------------
(***************************************************************************)
(* The life of the daemon process: startup, the drain of its connections,  *)
(* stop signals, crashes, and the graceful restart that hands the store to *)
(* a fresh copy of the program (crates/cache-warden-cli/src/daemon/        *)
(* graceful_restart.rs with its submodules, server.rs run, and             *)
(* Store::export_snapshot, Store::import_snapshot).                        *)
(*                                                                         *)
(* Three actors share the restart.  The old process exports a snapshot     *)
(* while it still serves, drains and then execs itself.  A forked child,   *)
(* the holder, keeps the snapshot over the exec and sends it through a     *)
(* socket.  The new process reads it, starts up and sends COMMIT.  All     *)
(* three can fail, and whatever fails ends in a cold start.                *)
(*                                                                         *)
(* now is real time.  A monotonic clock counts from its process's own      *)
(* origin, so a snapshot carries wall clock times.  The wall clock runs    *)
(* with now, from an arbitrary epoch, but may be set: skew is how far it   *)
(* has been set since the snapshot was taken.                              *)
(***************************************************************************)
EXTENDS StoreOps, FiniteSets

CONSTANTS
    Keys, Clients,
    Writes,              \* what clients set: a value, its ttl, guard and owner
    Fetched,             \* values upstream commands produce
    OnlineDefs,          \* the definitions clients register
    Configs,             \* the [kv.*] sections the program may find on a start
    Eager,               \* keys with preload, or named by an ssh socket
    PersistDefinitions,  \* daemon.persist-definitions
    PinLengths,
    Headroom,            \* GRACEFUL_RESTART_CLOCK_HEADROOM
    MaxTime,
    MaxSkew,             \* the wall clock is set at most this far off
    MaxFaults,           \* things that go wrong in one behaviour
    MaxRequests,         \* requests that change the store, in one behaviour
    MaxRestarts

ASSUME RestartConstants ==
    /\ Writes \subseteq [value : Values \ Fetched, ttl : Ttl, guard : Option(Guards),
                         owner : Option(Principals)]
    /\ Configs \subseteq [Keys -> Option(Definitions)]
    /\ OnlineDefs \subseteq Definitions
    /\ Eager \subseteq Keys /\ PersistDefinitions \in BOOLEAN
    /\ Headroom \in Nat /\ Fetched \subseteq Values /\ PinLengths \subseteq Nat
    /\ {MaxTime, MaxSkew, MaxRestarts} \subseteq Nat

VARIABLES
    proc,       \* how far the process is
    stopping,   \* a stop signal has been dequeued
    slots, config, origin,
    ready,      \* startup has installed the settings persist_if_enabled needs
    registry,   \* the definitions file
    conns, accepting, waiter,     \* the connections, and who waits for them
    restart,    \* RestartCoordinator
    holder, stream,               \* the holder, the new process's end of the socket
    now, skew,
    faults, requests, restarts,
    reply,
    life, kept                    \* history

process == <<proc, stopping, slots, config, origin, ready>>
serving == <<conns, accepting, waiter>>
handoff == <<restart, holder, stream>>
clocks  == <<now, skew>>
counts  == <<faults, requests, restarts>>
history == <<life, kept>>
vars    == <<process, registry, serving, handoff, clocks, counts, reply, history>>

Phases == {"Down", "Receiving", "Starting", "Up", "Draining"}

Mono == now - origin

(***************************************************************************)
(* What real time says of a key, whatever the clocks of the processes say: *)
(* no command need run before `soon' or while the pin lasts, the value may *)
(* not be served from `late' on unless it is pinned, and no command may be *)
(* tried again before `quiet'.                                             *)
(***************************************************************************)
Lives  == [soon : Int, late : Int, pinSoon : Int, pinLate : Int, quiet : Int]
NoLife == [soon |-> 0, late |-> 0, pinSoon |-> 0, pinLate |-> 0, quiet |-> 0]
Never  == MaxTime + 2 * MaxSkew * MaxRestarts + 1

(***************************************************************************)
(* What a restart owes its callers: the keys as they were when it was      *)
(* asked for, for as long as no request changes them.                      *)
(***************************************************************************)
Owed(s) == [value |-> IF Readable(s, Mono) THEN s.entry.value ELSE None, guard |-> s.guard,
            owner |-> s.owner, version |-> s.version, def |-> s.def]

Debts == [value : Option(Values), guard : Option(Guards), owner : Option(Principals),
          version : Nat, def : Option(Definitions)]

NothingKept == [k \in Keys |-> None]

Silence == [op |-> "none", key |-> None, value |-> None, ran |-> {}]

(***************************************************************************)
(* A snapshot holds the slots with their times on the wall clock.          *)
(***************************************************************************)
WallEntries ==
    [source : Sources \cup {Static}, ttl : Ttl, value : Option(Values),
     loaded_at : Int, extended_at : Int, pin : Option(Int)]

WallFailures == [failed_at : Int, retry_after : Nat]

WallSlots ==
    [entry : Option(WallEntries), def : Option(Definitions), backoff : Option(WallFailures),
     guard : Option(Guards), owner : Option(Principals), version : Nat,
     claim : Option(RefreshClaims)]

Snapshots == [store : [Keys -> Option(WallSlots)], life : [Keys -> Lives]]

ASSUME NoneIsNoRecord ==
    None \notin CacheEntries \cup WallEntries \cup WallFailures \cup WallSlots
                   \cup Snapshots \cup Definitions \cup Debts

Idle   == [st |-> "idle", snap |-> None]
Nobody == [st |-> "none", snap |-> None]

TypeOK ==
    /\ proc \in Phases /\ stopping \in BOOLEAN /\ ready \in BOOLEAN
    /\ slots \in [Keys -> Slots]
    /\ config \in Configs /\ registry \in [Keys -> Option(Definitions)]
    /\ Mono \in Time /\ skew \in -MaxSkew..MaxSkew
    /\ conns \subseteq Clients /\ accepting \in BOOLEAN
    /\ waiter \in {"off", "checking", "between", "listening", "done"}
    /\ restart \in [st : {"idle", "exported", "prepared"}, snap : Option(Snapshots)]
    /\ (restart.st = "idle" <=> restart.snap = None)
    /\ holder \in [st : {"none", "sending", "waiting"}, snap : Option(Snapshots)]
    /\ (holder.st = "none" <=> holder.snap = None)
    /\ life \in [Keys -> Lives] /\ kept \in [Keys -> Option(Debts)]
    /\ stream \in {"none", "open", "committed", "closed"}

ColdSlots == [k \in Keys |-> EmptySlot]

Init ==
    /\ proc = "Down" /\ stopping = FALSE /\ ready = FALSE
    /\ slots = ColdSlots /\ config \in Configs /\ origin = 0
    /\ registry = [k \in Keys |-> None]
    /\ conns = {} /\ accepting = FALSE /\ waiter = "off"
    /\ restart = Idle /\ holder = Nobody /\ stream = "none"
    /\ now = 0 /\ skew = 0 /\ faults = 0 /\ requests = 0 /\ restarts = 0
    /\ reply = Silence
    /\ life = [k \in Keys |-> NoLife] /\ kept = NothingKept

Goes(n) == faults + n <= MaxFaults /\ faults' = faults + n

-----------------------------------------------------------------------------
(* Clocks *)

Tick ==
    /\ now < MaxTime
    /\ now' = now + 1
    /\ reply' = Silence
    /\ UNCHANGED <<process, registry, serving, handoff, skew, counts, history>>

wall == now + skew

(***************************************************************************)
(* Somebody, or NTP, sets the wall clock; it is only read to take a        *)
(* snapshot and to install it.                                             *)
(***************************************************************************)
SetClock(d) ==
    /\ restart.st # "idle" \/ proc = "Receiving"
    /\ skew + d \in -MaxSkew..MaxSkew
    /\ Goes(1)
    /\ skew' = skew + d
    /\ reply' = Silence
    /\ UNCHANGED <<process, registry, serving, handoff, now, requests, restarts, history>>

\* monotonic_to_epoch_ms
ToWall(t) == now - (Mono - t)

\* Monotonic::saturating_sub
Before(mono, behind) == IF behind > mono THEN 0 ELSE mono - behind

(***************************************************************************)
(* epoch_ms_to_monotonic, and its two conservative variants: a lifetime    *)
(* never starts in the future, a failure too old to be placed is placed    *)
(* now.  mono is the reading of the importing process.                     *)
(***************************************************************************)
ToMono(w, mono) == IF w >= wall THEN mono + (w - wall) ELSE Before(mono, wall - w)

ToTtlBasis(w, mono) == IF w > wall THEN mono ELSE ToMono(w, mono)

ToFailedAt(w, mono) ==
    IF w < wall /\ wall - w > mono THEN mono ELSE ToMono(w, mono)

-----------------------------------------------------------------------------
(* The snapshot *)

(***************************************************************************)
(* A value past its hard limit does not travel, destroyed or not.          *)
(***************************************************************************)
ExportedValue(s) ==
    IF s.entry = None \/ StateOf(s, Mono) = "HardExpired" THEN None
    ELSE [s.entry EXCEPT !.loaded_at = ToWall(@), !.extended_at = ToWall(@),
                         !.pin = IF @ = None THEN None ELSE ToWall(@)]

ExportedFailure(b) == IF b = None THEN None ELSE [b EXCEPT !.failed_at = ToWall(@)]

\* Slip: the guard is taken for a part of the definition.
ExportedUnguarded(s) ==
    LET value == ExportedValue(s) IN
    IF value = None /\ s.def = None THEN None
    ELSE [s EXCEPT !.entry = value, !.guard = None,
                   !.backoff = ExportedFailure(@),
                   !.claim = IF value = None THEN None ELSE @]

(***************************************************************************)
(* Store::export_snapshot, for one key: None if it is not visited (only an *)
(* entry, a definition or a failure brings it up) or has nothing to say.   *)
(* Guard and claim go with a value, owner and version with the key.        *)
(***************************************************************************)
Exported(s) ==
    LET value == ExportedValue(s)
        visited == s.entry # None \/ s.def # None \/ s.backoff # None
        empty == value = None /\ s.def = None /\ s.backoff = None /\ s.version = 0
    IN
    IF ~visited \/ empty THEN None
    ELSE [s EXCEPT !.entry = value,
                   !.backoff = ExportedFailure(@),
                   !.guard = IF value = None THEN None ELSE @,
                   !.claim = IF value = None THEN None ELSE @]

ImportedValue(e, mono) ==
    IF e = None THEN None
    ELSE [e EXCEPT !.loaded_at = ToTtlBasis(@, mono), !.extended_at = ToTtlBasis(@, mono),
                   !.pin = IF @ = None THEN None ELSE ToMono(@, mono)]

ImportedFailure(b, mono) ==
    IF b = None THEN None ELSE [b EXCEPT !.failed_at = ToFailedAt(@, mono)]

(***************************************************************************)
(* Store::import_snapshot, for one key.  What it refuses never comes from  *)
(* export_snapshot, except a version the new program does not know: see    *)
(* ReceiveFails.                                                           *)
(***************************************************************************)
Imported(x, mono) ==
    IF x = None THEN EmptySlot
    ELSE [x EXCEPT !.entry = ImportedValue(@, mono), !.backoff = ImportedFailure(@, mono)]

-----------------------------------------------------------------------------
(* Requests *)

Serving(c) == c \in conns /\ proc \in {"Starting", "Up", "Draining"}

(***************************************************************************)
(* A request that changes key k, and what real time says of k afterwards.  *)
(* It escapes the snapshot if that has been taken, and the startup task if *)
(* that has not run yet.                                                   *)
(***************************************************************************)
Serve(c, k, s, l, answer) ==
    /\ Serving(c)
    /\ slots' = [slots EXCEPT ![k] = s]
    /\ life' = [life EXCEPT ![k] = l]
    /\ IF s = slots[k] THEN UNCHANGED <<requests, kept>>
       ELSE /\ requests < MaxRequests /\ requests' = requests + 1
            /\ kept' = [kept EXCEPT ![k] = None]
    /\ reply' = answer
    /\ UNCHANGED <<proc, stopping, config, origin, ready, serving, handoff, clocks, faults, restarts>>

Lifetime(ttl) == IF ttl.hard = None THEN Never ELSE now + ttl.hard

Obtained(ttl) == [NoLife EXCEPT !.soon = Lifetime(ttl), !.late = Lifetime(ttl)]

(***************************************************************************)
(* kv.set, its owner and claim checks passed.                              *)
(***************************************************************************)
KvSet(c, k, w) ==
    LET s == [Set(slots[k], Static, w.value, w.ttl, Mono) EXCEPT
                 !.guard = w.guard, !.claim = None,
                 !.owner = IF w.owner = None THEN @ ELSE w.owner]
    IN
    /\ Serve(c, k, BumpVersion(s), [Obtained(w.ttl) EXCEPT !.quiet = life[k].quiet], Silence)
    /\ UNCHANGED registry

(***************************************************************************)
(* kv.get: the retrieval chain of handle_get, every prompt answered.       *)
(***************************************************************************)
Retrieve(s, run) ==
    CASE Readable(s, Mono)               -> Result(s, "Cached")
      [] StateOf(s, Mono) = "SoftExpired" -> ExtendAuthenticated(s, TRUE, Mono, Mono)
      [] OTHER -> IF s.def # None THEN GetOrRegenerate(s, run, TRUE, Mono, Mono)
                  ELSE Regenerate(s, run, TRUE, Mono, Mono)

KvGet(c, k, run) ==
    LET r == Retrieve(slots[k], run)
        fetched == r.out \in {"Ok", "RunFailed"} /\ ~Readable(slots[k], Mono)
                     /\ StateOf(slots[k], Mono) # "SoftExpired"
        value == IF Readable(r.slot, Mono) THEN r.slot.entry.value ELSE None
    IN
    /\ Serve(c, k, r.slot,
             CASE fetched /\ r.out = "Ok" -> Obtained(r.slot.entry.ttl)
               [] fetched /\ r.out = "RunFailed" /\ FailureBackoff > 0 ->
                      [NoLife EXCEPT !.quiet = now + FailureBackoff]
               [] OTHER -> life[k],
             [op |-> "get", key |-> k, value |-> value, ran |-> IF fetched THEN {k} ELSE {}])
    /\ UNCHANGED registry

(***************************************************************************)
(* kv.pin, answered at once.                                               *)
(***************************************************************************)
KvPin(c, k, length) ==
    LET r == PinAuthenticated(slots[k], Mono + length, TRUE, Mono, Mono) IN
    /\ r.out = "Ok"
    /\ Serve(c, k, r.slot,
             [life[k] EXCEPT !.pinSoon = now + length, !.pinLate = now + length], Silence)
    /\ UNCHANGED registry

\* online_definitions
Online(ss) == [k \in Keys |-> IF config[k] = None THEN ss[k].def ELSE None]

(***************************************************************************)
(* persist_if_enabled: before the startup task has installed the settings  *)
(* it succeeds and writes nothing.                                         *)
(***************************************************************************)
SaveDefinitions == registry' = IF ready THEN Online(slots') ELSE registry

KvDefine(c, k, def) ==
    LET r == Define(slots[k], def) IN
    /\ r.out = "Ok"
    /\ Serve(c, k, r.slot, life[k], Silence)
    /\ SaveDefinitions

KvDel(c, k, with_define) ==
    /\ Serve(c, k,
             IF with_define THEN DeleteWithDefinition(slots[k]) ELSE Delete(slots[k]),
             IF with_define THEN NoLife ELSE [NoLife EXCEPT !.quiet = life[k].quiet],
             Silence)
    /\ IF with_define THEN SaveDefinitions ELSE UNCHANGED registry

-----------------------------------------------------------------------------
(* Connections *)

(***************************************************************************)
(* serve and ConnectionTracker::inc.                                       *)
(***************************************************************************)
Accept(c) ==
    /\ accepting /\ c \notin conns
    /\ conns' = conns \cup {c}
    /\ reply' = Silence
    /\ UNCHANGED <<process, registry, accepting, waiter, handoff, clocks, counts, history>>

(***************************************************************************)
(* ConnectionTracker::dec wakes whoever is listening at that moment.       *)
(***************************************************************************)
Close(c) ==
    /\ c \in conns
    /\ conns' = conns \ {c}
    /\ waiter' = IF conns' = {} /\ waiter = "listening" THEN "checking" ELSE waiter
    /\ reply' = Silence
    /\ UNCHANGED <<process, registry, accepting, handoff, clocks, counts, history>>

Waits(w) ==
    /\ waiter' = w
    /\ reply' = Silence
    /\ UNCHANGED <<process, registry, conns, accepting, handoff, clocks, counts, history>>

(***************************************************************************)
(* ConnectionTracker::wait_drained: look at the count, then create the     *)
(* Notified; and the deadline over both.                                   *)
(***************************************************************************)
CheckCount == waiter = "checking" /\ Waits(IF conns = {} THEN "done" ELSE "between")
Listen     == waiter = "between" /\ Waits("listening")
DrainDeadline == waiter \in {"checking", "between", "listening"} /\ Waits("done")

(***************************************************************************)
(* The accept loop sees the shutdown flag; until then it may also accept.  *)
(***************************************************************************)
EndServe ==
    /\ proc = "Draining" /\ accepting
    /\ accepting' = FALSE
    /\ reply' = Silence
    /\ UNCHANGED <<process, registry, conns, waiter, handoff, clocks, counts, history>>

-----------------------------------------------------------------------------
(* The old process *)

(***************************************************************************)
(* handle_request: the slot is claimed and the snapshot taken under the    *)
(* store's lock; preparing it takes a while, and may fail.  Bounds: one    *)
(* holder at a time, MaxRestarts.                                          *)
(***************************************************************************)
RequestRestart(c) ==
    /\ Serving(c) /\ restart.st = "idle"
    /\ holder = Nobody /\ restarts < MaxRestarts
    /\ restart' = [st |-> "exported",
                   snap |-> [store |-> [k \in Keys |-> Exported(slots[k])],
                             life |-> life]]
    /\ skew' = 0
    /\ kept' = IF proc = "Starting" THEN NothingKept ELSE [k \in Keys |-> Owed(slots[k])]
    /\ reply' = Silence
    /\ UNCHANGED <<process, registry, serving, holder, stream, now, counts, life>>

\* Slip: a failure drops the snapshot and does not free the slot.
PrepareLeavingSlot(ok) ==
    /\ restart.st = "exported"
    /\ IF ok THEN restart' = [restart EXCEPT !.st = "prepared"] /\ UNCHANGED counts
       ELSE restart' = [restart EXCEPT !.snap = None] /\ Goes(1) /\ UNCHANGED <<requests, restarts>>
    /\ reply' = Silence
    /\ UNCHANGED <<process, registry, serving, holder, stream, clocks, history>>

Prepare(ok) ==
    /\ restart.st = "exported"
    /\ IF ok THEN restart' = [restart EXCEPT !.st = "prepared"] /\ UNCHANGED counts
       ELSE restart' = Idle /\ Goes(1) /\ UNCHANGED <<requests, restarts>>
    /\ reply' = Silence
    /\ UNCHANGED <<process, registry, serving, holder, stream, clocks, history>>

\* Slip: the restart waits for the clients before it stops accepting them.
BeginDrainIdle ==
    /\ proc = "Up" /\ restart.st = "prepared" /\ conns = {}
    /\ proc' = "Draining" /\ waiter' = "checking"
    /\ reply' = Silence
    /\ UNCHANGED <<stopping, slots, config, origin, ready, registry, conns, accepting,
                   handoff, clocks, counts, history>>

(***************************************************************************)
(* The select of run picks the restart: its permit is kept by Notify.      *)
(***************************************************************************)
BeginDrain ==
    /\ proc = "Up" /\ restart.st = "prepared"
    /\ proc' = "Draining" /\ waiter' = "checking"
    /\ reply' = Silence
    /\ UNCHANGED <<stopping, slots, config, origin, ready, registry, conns, accepting,
                   handoff, clocks, counts, history>>

(***************************************************************************)
(* The memory of a process that ends, one way or the other.                *)
(***************************************************************************)
MemoryGone ==
    /\ stopping' = FALSE /\ slots' = ColdSlots /\ ready' = FALSE
    /\ conns' = {} /\ accepting' = FALSE /\ waiter' = "off"
    /\ restart' = Idle
    /\ life' = [k \in Keys |-> NoLife]
    /\ reply' = Silence

Dies ==
    /\ proc' = "Down" /\ MemoryGone
    /\ stream' = IF stream = "open" THEN "closed" ELSE stream
    /\ kept' = NothingKept /\ skew' = 0
    /\ UNCHANGED <<config, origin, registry, now, requests, restarts>>

(***************************************************************************)
(* execute: fork the holder, exec.  Every failure ends the process; one    *)
(* after the fork leaves the holder with nobody at the other end.          *)
(***************************************************************************)
CanExec == proc = "Draining" /\ waiter = "done" /\ ~accepting

Exec ==
    /\ CanExec
    /\ proc' = "Receiving" /\ MemoryGone
    /\ config' \in Configs /\ origin' = now
    /\ holder' = [st |-> "sending", snap |-> restart.snap]
    /\ stream' = "open" /\ restarts' = restarts + 1
    /\ UNCHANGED <<registry, clocks, faults, requests, kept>>

ExecFails(forked) ==
    /\ CanExec /\ Goes(1)
    /\ proc' = "Down" /\ MemoryGone
    /\ holder' = IF forked THEN [st |-> "sending", snap |-> restart.snap]
                 ELSE holder
    /\ stream' = IF forked THEN "closed" ELSE stream
    /\ kept' = NothingKept /\ skew' = 0
    /\ UNCHANGED <<config, origin, registry, now, requests, restarts>>

(***************************************************************************)
(* A stop signal is dequeued at once.  The select may pick it; if nothing  *)
(* else ends the process, the watchdog does.                               *)
(***************************************************************************)
Signal ==
    /\ proc # "Down" /\ ~stopping /\ Goes(1)
    /\ stopping' = TRUE
    /\ reply' = Silence
    /\ UNCHANGED <<proc, slots, config, origin, ready, registry, serving, handoff, clocks,
                   requests, restarts, history>>

Stop == proc # "Down" /\ stopping /\ Dies /\ UNCHANGED <<holder, faults>>

Crash == proc # "Down" /\ Goes(1) /\ Dies /\ UNCHANGED holder

-----------------------------------------------------------------------------
(* The new process *)

(***************************************************************************)
(* KeepAlive starts the program again.                                     *)
(***************************************************************************)
ColdStart ==
    /\ proc = "Down"
    /\ proc' = "Starting" /\ config' \in Configs /\ origin' = now
    /\ accepting' = TRUE
    /\ reply' = Silence
    /\ UNCHANGED <<stopping, slots, ready, registry, conns, waiter, handoff, clocks, counts,
                   history>>

Least(a, b)  == IF a < b THEN a ELSE b
Latest(a, b) == IF a > b THEN a ELSE b

(***************************************************************************)
(* A clock set back by d while the store was on its way may prolong what   *)
(* it holds by d, also what is over by now; one set forward may shorten it.*)
(***************************************************************************)
Shifted(l, d) ==
    LET sooner(t) == Least(t, t + d)
        later(t)  == Latest(t, Latest(t, now) + d)
    IN [soon    |-> sooner(l.soon),    late    |-> later(l.late),
        pinSoon |-> sooner(l.pinSoon), pinLate |-> later(l.pinLate),
        quiet   |-> sooner(l.quiet)]

\* Slip: the clock of a new process reaches no further back than the process.
ReceiveWithoutHeadroom ==
    /\ proc = "Receiving" /\ holder.st = "sending"
    /\ proc' = "Starting" /\ accepting' = TRUE
    /\ origin' = now
    /\ slots' = [k \in Keys |-> Imported(holder.snap.store[k], 0)]
    /\ life' = [k \in Keys |-> Shifted(holder.snap.life[k], -skew)]
    /\ skew' = 0
    /\ holder' = [holder EXCEPT !.st = "waiting"]
    /\ reply' = Silence
    /\ UNCHANGED <<stopping, config, ready, registry, conns, waiter, restart, stream, now,
                   counts, kept>>

(***************************************************************************)
(* try_receive and import_snapshot, read by a clock that counts from       *)
(* before the snapshot's oldest entry.                                     *)
(***************************************************************************)
Receive ==
    /\ proc = "Receiving" /\ holder.st = "sending"
    /\ proc' = "Starting" /\ accepting' = TRUE
    /\ origin' = now - Headroom
    /\ slots' = [k \in Keys |-> Imported(holder.snap.store[k], Headroom)]
    /\ life' = [k \in Keys |-> Shifted(holder.snap.life[k], -skew)]
    /\ skew' = 0
    /\ holder' = [holder EXCEPT !.st = "waiting"]
    /\ reply' = Silence
    /\ UNCHANGED <<stopping, config, ready, registry, conns, waiter, restart, stream, now,
                   counts, kept>>

(***************************************************************************)
(* The snapshot does not arrive, or is of a version this program does not  *)
(* know: the start is a cold one, and the socket is closed.                *)
(***************************************************************************)
ReceiveFails ==
    /\ proc = "Receiving"
    /\ IF holder.st = "sending" THEN Goes(1) ELSE UNCHANGED faults
    /\ proc' = "Starting" /\ accepting' = TRUE
    /\ origin' = now
    /\ stream' = IF stream = "open" THEN "closed" ELSE stream
    /\ kept' = NothingKept /\ skew' = 0
    /\ reply' = Silence
    /\ UNCHANGED <<stopping, slots, config, ready, registry, conns, waiter, restart, holder,
                   now, requests, restarts, life>>

\* clear_config_owned_definitions
ClearConfigOwned(ss) ==
    [k \in Keys |-> IF config[k] = None THEN ss[k] ELSE Undefine(ss[k])]

\* Slip: what the snapshot brought is not looked at.
LoadsAgain(ss) ==
    {k \in Eager : config[k] # None /\ Define(ss[k], config[k]).out = "Ok"}

(***************************************************************************)
(* register_definitions.  An eager key without a value is loaded: the      *)
(* command runs whatever its record of failures says.                      *)
(***************************************************************************)
Loads(ss) ==
    {k \in Eager : /\ config[k] # None /\ ss[k].entry = None
                   /\ Define(ss[k], config[k]).out = "Ok"}

Register(ss, loads, run) ==
    [k \in Keys |->
        IF config[k] = None THEN ss[k]
        ELSE LET s == Define(ss[k], config[k]).slot IN
             IF k \in loads /\ run # None
             THEN Set(s, config[k].source, run, config[k].ttl, Mono) ELSE s]

\* restore_persisted_definitions
Restore(ss) ==
    [k \in Keys |-> IF config[k] = None /\ registry[k] # None
                    THEN Define(ss[k], registry[k]).slot ELSE ss[k]]

\* purge_stale_import_definitions
Purge(ss) ==
    [k \in Keys |-> IF ss[k].def # None /\ config[k] = None /\ registry[k] = None
                    THEN Undefine(ss[k]) ELSE ss[k]]

\* Slip: what the configuration dropped stays defined.
StartedUnpurged(ss, loads, run) ==
    LET registered == Register(ClearConfigOwned(ss), loads, run)
    IN IF PersistDefinitions THEN Restore(registered) ELSE registered

(***************************************************************************)
(* The startup task, with the store locked throughout.                     *)
(***************************************************************************)
Started(ss, loads, run) ==
    LET registered == Register(ClearConfigOwned(ss), loads, run)
    IN IF PersistDefinitions THEN Purge(Restore(registered)) ELSE registered

FinishStartup(run) ==
    LET loads == Loads(ClearConfigOwned(slots)) IN
    /\ proc = "Starting"
    /\ proc' = "Up" /\ ready' = PersistDefinitions
    /\ slots' = Started(slots, loads, run)
    /\ registry' = IF PersistDefinitions THEN Online(slots') ELSE registry
    /\ stream' = IF stream = "open" THEN "committed" ELSE stream
    /\ life' = [k \in Keys |-> IF k \in loads /\ run # None
                               THEN [Obtained(config[k].ttl) EXCEPT !.quiet = life[k].quiet]
                               ELSE life[k]]
    /\ kept' = IF restart.st = "idle" THEN NothingKept ELSE kept
    /\ reply' = [Silence EXCEPT !.op = "startup", !.ran = loads]
    /\ UNCHANGED <<stopping, config, origin, serving, restart, holder, clocks, counts>>

-----------------------------------------------------------------------------
(* The holder *)

(***************************************************************************)
(* Its exit code (0, 2, 3, or 4 and 5) is only logged; a COMMIT written    *)
(* after it has gone is lost.                                              *)
(***************************************************************************)
HolderExits ==
    /\ holder' = Nobody /\ stream' = "none"
    /\ reply' = Silence
    /\ UNCHANGED <<process, registry, serving, restart, clocks, requests, restarts, history>>

(***************************************************************************)
(* holder_send_and_wait_commit: the other end answers, closes, or does     *)
(* neither for too long.                                                   *)
(***************************************************************************)
HolderAnswered ==
    /\ holder.st = "waiting" /\ stream = "committed"
    /\ HolderExits /\ UNCHANGED faults

\* Slip: a broken pipe is only looked for once the snapshot is through.
HolderDesertedLate ==
    /\ holder.st = "waiting" /\ stream = "closed"
    /\ HolderExits /\ UNCHANGED faults

HolderDeserted ==
    /\ holder.st \in {"sending", "waiting"} /\ stream = "closed"
    /\ HolderExits /\ UNCHANGED faults

HolderTimesOut ==
    /\ holder.st \in {"sending", "waiting"} /\ stream = "open"
    /\ HolderExits /\ UNCHANGED faults

(***************************************************************************)
(* It refuses to hold secrets it cannot protect, or is killed.             *)
(***************************************************************************)
HolderFails ==
    /\ holder.st \in {"sending", "waiting"}
    /\ HolderExits /\ Goes(1)

-----------------------------------------------------------------------------

Request(c) ==
    \/ RequestRestart(c)
    \/ \E k \in Keys :
        \/ \E w \in Writes : KvSet(c, k, w)
        \/ \E run \in Option(Fetched) : KvGet(c, k, run)
        \/ \E length \in PinLengths : KvPin(c, k, length)
        \/ \E def \in OnlineDefs : KvDefine(c, k, def)
        \/ \E with_define \in BOOLEAN : KvDel(c, k, with_define)

Drain == CheckCount \/ Listen \/ DrainDeadline \/ EndServe

Startup == \E run \in Option(Fetched) : FinishStartup(run)

Holder == HolderAnswered \/ HolderDeserted \/ HolderTimesOut

Next ==
    \/ Tick \/ Signal \/ Stop \/ Crash \/ HolderFails
    \/ \E d \in {-1, 1} : SetClock(d)
    \/ \E c \in Clients : Accept(c) \/ Close(c) \/ Request(c)
    \/ \E ok \in BOOLEAN : Prepare(ok)
    \/ BeginDrain \/ Drain
    \/ Exec \/ \E forked \in BOOLEAN : ExecFails(forked)
    \/ ColdStart \/ Receive \/ ReceiveFails \/ Startup
    \/ Holder

(***************************************************************************)
(* The program's own steps are taken eventually: the runtime schedules     *)
(* them, a timer bounds them, or KeepAlive repeats them.  The clients, the *)
(* clocks and the faults owe nothing.                                      *)
(***************************************************************************)
Fairness ==
    /\ WF_vars(\E ok \in BOOLEAN : Prepare(ok)) /\ WF_vars(BeginDrain)
    /\ WF_vars(CheckCount) /\ WF_vars(Listen) /\ WF_vars(DrainDeadline) /\ WF_vars(EndServe)
    /\ WF_vars(Stop) /\ WF_vars(Exec) /\ WF_vars(ColdStart)
    /\ WF_vars(Receive \/ ReceiveFails) /\ WF_vars(Startup) /\ WF_vars(Holder)

Spec == Init /\ [][Next]_vars /\ Fairness

-----------------------------------------------------------------------------
(* Properties *)

(***************************************************************************)
(* No value is served past its hard limit or its pin by real time, however *)
(* many processes it was handed through; a wall clock set back during a    *)
(* handoff prolongs it by at most that much.  (clock.rs                    *)
(* epoch_ms_to_monotonic_ttl_basis, server.rs                              *)
(* GRACEFUL_RESTART_CLOCK_HEADROOM)                                        *)
(***************************************************************************)
ServedInTime ==
    reply.value # None => now < Latest(life[reply.key].late, life[reply.key].pinLate)

(***************************************************************************)
(* A restart costs no fetch: no command runs for a key whose value is      *)
(* still good, and no request runs one that failed a moment ago, across    *)
(* handoffs too.  (server.rs register_definitions already_loaded, clock.rs *)
(* epoch_ms_to_monotonic_for_failure)                                      *)
(***************************************************************************)
NoStorm ==
    [][\A k \in reply'.ran :
          /\ now >= life[k].soon /\ now >= life[k].pinSoon
          /\ reply'.op = "get" => now >= life[k].quiet]_vars

(***************************************************************************)
(* What nobody changed behind the snapshot's back arrives: a value that    *)
(* was readable when the old process went, with its owner and its version, *)
(* and with its guard unless its definition was withdrawn or replaced by   *)
(* the configuration.  (store.rs export_snapshot, import_snapshot)         *)
(***************************************************************************)
SuccessorKeeps ==
    [][(proc = "Starting" /\ proc' = "Up" /\ restart.st = "idle") =>
          \A k \in Keys : (kept[k] # None /\ kept[k].value # None) =>
             LET new == slots'[k] IN
             Readable(new, Mono) =>
                /\ [Owed(new) EXCEPT !.guard = None, !.def = None]
                     = [kept[k] EXCEPT !.guard = None, !.def = None]
                /\ (config[k] = None /\ registry[k] = kept[k].def)
                      => new.guard = kept[k].guard]_vars

(***************************************************************************)
(* A graceful restart ends with the definitions a cold start would have    *)
(* found: the configuration's, and where it is silent the file's, for      *)
(* every key no request changed behind the snapshot's back.  (server.rs    *)
(* clear_config_owned_definitions, purge_stale_import_definitions)         *)
(***************************************************************************)
DefinitionsAsCold ==
    [][(proc = "Starting" /\ proc' = "Up" /\ PersistDefinitions) =>
          \A k \in Keys : (kept[k] # None \/ slots[k].def = None) =>
             slots'[k].def = IF config[k] # None THEN config[k] ELSE registry[k]]_vars

(***************************************************************************)
(* A restart that was acknowledged ends with a new process serving,        *)
(* whatever fails and whoever keeps a connection open, and no holder keeps *)
(* the secrets for good.  (server.rs RESTART_DRAIN_DEADLINE, handoff.rs    *)
(* holder_send_and_wait_commit; DR-0029 section 5, every failure degrades  *)
(* to a cold start)                                                        *)
(***************************************************************************)
RestartEnds ==
    /\ restart.st = "prepared" ~> (proc = "Up" /\ restart.st = "idle")
    /\ holder.st \in {"sending", "waiting"} ~> holder = Nobody

(***************************************************************************)
(* What comments promise and the code does not keep.                       *)
(***************************************************************************)

(***************************************************************************)
(* A value keeps the guard it was set with for as long as it is in the     *)
(* store.  (store.rs access_guards "mirrors the value set instance";       *)
(* server.rs clear_config_owned_definitions "touches only the definition") *)
(***************************************************************************)
GuardStaysWithValue ==
    [][\A k \in Keys :
          (/\ slots[k].entry # None /\ slots'[k].entry = slots[k].entry
           /\ reply'.op = "startup")
              => slots'[k].guard = slots[k].guard]_vars

(***************************************************************************)
(* What is handed over is the store as its clients last saw it: no value   *)
(* they could still read is missing.  (DR-0029-graceful-restart.md:        *)
(* accepting stops, requests drain, and then the state is serialized)      *)
(***************************************************************************)
SerializedAfterDrain ==
    [][(proc = "Draining" /\ proc' = "Receiving") =>
          \A k \in Keys : Readable(slots[k], Mono) =>
             /\ holder'.snap.store[k] # None
             /\ holder'.snap.store[k].entry # None
             /\ holder'.snap.store[k].entry.value = slots[k].entry.value]_vars

=============================================================================
