----------------------------- MODULE CacheEntry -----------------------------
(***************************************************************************)
(* One cached secret: its two-stage lifetime (soft and hard TTL), its pin  *)
(* and the destruction of its value.  Pure operators on the record that    *)
(* stands for struct CacheEntry of crates/cache-warden/src/entry.rs.       *)
(*                                                                         *)
(* Times are ticks of the monotonic clock.  The field hard_expired of the  *)
(* struct is not kept: zeroize_value takes the value and sets the flag in  *)
(* one go, and the two constructors do the opposite, so the flag is TRUE   *)
(* exactly when `value' is None.                                           *)
(***************************************************************************)
EXTENDS Integers

CONSTANTS
    None,      \* Rust's Option::None
    Sources,   \* the upstream commands a value can come from
    Static,    \* ValueSource::Static, a value given directly by a caller
    Values     \* the secrets themselves, opaque

ASSUME NoneIsNoTime   == None \notin Int
ASSUME NoneIsNoValue  == None \notin Values
ASSUME NoneIsNoSource == None \notin Sources \cup {Static}
ASSUME StaticIsNoCommand == Static \notin Sources

Time == Nat

Option(S) == S \cup {None}

(***************************************************************************)
(* Ttl::new: an absent bound is no limit; with both, soft <= hard.         *)
(***************************************************************************)
TtlIsValid(ttl) ==
    (ttl.soft # None /\ ttl.hard # None) => ttl.soft <= ttl.hard

Ttl == [soft : Option(Nat), hard : Option(Nat)]

CacheEntries ==
    [source      : Sources \cup {Static},
     ttl         : Ttl,
     value       : Option(Values),
     loaded_at   : Time,
     extended_at : Time,
     pin         : Option(Time)]

EntryStates == {"Active", "SoftExpired", "HardExpired"}

NewEntry(source, value, ttl, now) ==
    [source |-> source, ttl |-> ttl, value |-> value,
     loaded_at |-> now, extended_at |-> now, pin |-> None]

(***************************************************************************)
(* The age saturates at zero (saturating_duration_since).                  *)
(***************************************************************************)
Age(since, now) == IF now >= since THEN now - since ELSE 0

PinActive(e, now)   == e.pin # None /\ now < e.pin
HardElapsed(e, now) == e.ttl.hard # None /\ Age(e.loaded_at, now) >= e.ttl.hard
SoftElapsed(e, now) == e.ttl.soft # None /\ Age(e.extended_at, now) >= e.ttl.soft

(***************************************************************************)
(* CacheEntry::state.  A live pin hides both limits; a destroyed value     *)
(* hides the pin.                                                          *)
(***************************************************************************)
Dead(e, now) == e.value = None \/ (~PinActive(e, now) /\ HardElapsed(e, now))

State(e, now) ==
    IF Dead(e, now) THEN "HardExpired"
    ELSE IF ~PinActive(e, now) /\ SoftElapsed(e, now) THEN "SoftExpired"
    ELSE "Active"

Zeroize(e) == [e EXCEPT !.value = None]

(***************************************************************************)
(* CacheEntry::evaluate: reading the state destroys a value whose hard     *)
(* limit has passed.                                                       *)
(***************************************************************************)
Evaluate(e, now) == IF State(e, now) = "HardExpired" THEN Zeroize(e) ELSE e

\* Slip: an extend that restarts the hard lifetime too.
ExtendEntryRestartsLife(e, now) ==
    IF State(e, now) = "HardExpired" THEN Zeroize(e)
    ELSE [e EXCEPT !.extended_at = now, !.loaded_at = now]

\* Slip: a pin that does not look at the state again after the prompt.
PinUntilUnchecked(e, deadline, now) == [e EXCEPT !.pin = deadline]

(***************************************************************************)
(* CacheEntry::extend and CacheEntry::pin_until re-read the clock: called  *)
(* after a prompt, they see the time at which it was answered.             *)
(***************************************************************************)
ExtendEntry(e, now) ==
    IF State(e, now) = "HardExpired" THEN Zeroize(e)
    ELSE [e EXCEPT !.extended_at = now]

PinUntil(e, deadline, now) ==
    IF State(e, now) = "HardExpired" THEN Zeroize(e)
    ELSE [e EXCEPT !.pin = deadline]

UnpinEntry(e) == [e EXCEPT !.pin = None]

=============================================================================
