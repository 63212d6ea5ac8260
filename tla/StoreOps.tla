------------------------------ MODULE StoreOps ------------------------------
(***************************************************************************)
(* The methods of crates/cache-warden/src/store.rs as functions.  Store    *)
(* keeps one map per concern (entries, definitions, failure_backoffs,      *)
(* access_guards, owners, versions, refresh_claims) and every method       *)
(* touches one key of each, so a key's share of all maps is one record, a  *)
(* slot, and a method maps a slot to a slot.  A method that can refuse     *)
(* returns [slot, out], `out' naming the Result variant.                   *)
(*                                                                         *)
(* A method that runs an upstream command or asks the user for approval    *)
(* takes two clock readings: t0 when it is entered and t1 when the command *)
(* or the prompt has finished.  `run' is what the command produced, a      *)
(* value or None for a failure; `auth' is the user's answer.               *)
(*                                                                         *)
(* Capability checks (check_cap) always succeed here: the daemon is the    *)
(* only holder of the one capability StoreBuilder::build hands out.        *)
(***************************************************************************)
EXTENDS CacheEntry

CONSTANTS
    Guards,          \* access guard records a caller can declare
    Principals,      \* owner principals
    Tokens,          \* refresh claim tokens
    FailureBackoff   \* failure_backoff_duration; 0 switches the feature off

ASSUME BackoffIsDuration == FailureBackoff \in Nat

Definitions    == [source : Sources, ttl : Ttl]
FailureRecords == [failed_at : Time, retry_after : Nat]
ASSUME NoneIsNoFailure == None \notin FailureRecords

RefreshClaims  == [token : Tokens, expires_at : Time]

Slots ==
    [entry   : Option(CacheEntries),
     def     : Option(Definitions),
     backoff : Option(FailureRecords),
     guard   : Option(Guards),
     owner   : Option(Principals),
     version : Nat,
     claim   : Option(RefreshClaims)]

EmptySlot ==
    [entry |-> None, def |-> None, backoff |-> None, guard |-> None,
     owner |-> None, version |-> 0, claim |-> None]

Result(slot, out) == [slot |-> slot, out |-> out]

-----------------------------------------------------------------------------
(* Reading *)

InBackoff(s, now) ==
    /\ s.backoff # None
    /\ Age(s.backoff.failed_at, now) < s.backoff.retry_after

StateOf(s, now) == IF s.entry = None THEN "Absent" ELSE State(s.entry, now)

Evaluated(s, now) ==
    IF s.entry = None THEN s ELSE [s EXCEPT !.entry = Evaluate(@, now)]

Readable(s, now) == StateOf(s, now) = "Active"

-----------------------------------------------------------------------------
(* Values *)

\* Slip: a set that keeps the pin of the value it replaces.
SetKeepsPin(s, source, value, ttl, now) ==
    [s EXCEPT !.entry = [NewEntry(source, value, ttl, now) EXCEPT
                            !.pin = IF s.entry = None THEN None ELSE s.entry.pin]]

(***************************************************************************)
(* Store::set replaces the entry and nothing else.                         *)
(***************************************************************************)
Set(s, source, value, ttl, now) ==
    [s EXCEPT !.entry = NewEntry(source, value, ttl, now)]

(***************************************************************************)
(* Store::extend, for an adapter that has authenticated by other means.    *)
(***************************************************************************)
Extend(s, now) ==
    CASE s.entry = None                     -> Result(s, "NotFound")
      [] StateOf(s, now) = "HardExpired"    -> Result(Evaluated(s, now), "HardExpired")
      [] OTHER -> Result([s EXCEPT !.entry = ExtendEntry(@, now)], "Ok")

(***************************************************************************)
(* Store::extend_authenticated: no prompt while Active, a prompt while     *)
(* SoftExpired.  The value can reach its hard limit during the prompt.     *)
(***************************************************************************)
ExtendAuthenticated(s, auth, t0, t1) ==
    CASE s.entry = None                  -> Result(s, "NotFound")
      [] StateOf(s, t0) = "HardExpired"  -> Result(Evaluated(s, t0), "HardExpired")
      [] StateOf(s, t0) = "Active"       -> Extend(s, t0)
      [] OTHER -> IF auth THEN Extend(s, t1) ELSE Result(s, "AuthFailed")

(***************************************************************************)
(* Store::pin_authenticated: the state is looked at before the prompt and  *)
(* again, by pin_until, after it.                                          *)
(***************************************************************************)
PinAuthenticated(s, deadline, auth, t0, t1) ==
    CASE s.entry = None                  -> Result(s, "NotFound")
      [] StateOf(s, t0) = "HardExpired"  -> Result(s, "HardExpired")
      [] OTHER ->
           IF ~auth THEN Result(s, "AuthFailed")
           ELSE Result([s EXCEPT !.entry = PinUntil(@, deadline, t1)],
                       IF StateOf(s, t1) = "HardExpired" THEN "HardExpired" ELSE "Ok")

Unpin(s) == IF s.entry = None THEN s ELSE [s EXCEPT !.entry = UnpinEntry(@)]

(***************************************************************************)
(* Store::delete drops the value with its guard and its claim; the         *)
(* definition, the backoff, the owner and the version stay.                *)
(***************************************************************************)
Delete(s) == [s EXCEPT !.entry = None, !.guard = None, !.claim = None]

DeleteWithDefinition(s) == EmptySlot

-----------------------------------------------------------------------------
(* Upstream values *)

\* Slip: the time already passed is taken off the record.
RunFailedRemaining(s, t1) ==
    [s EXCEPT !.backoff = [failed_at |-> t1, retry_after |-> FailureBackoff - t1]]

(***************************************************************************)
(* A failed run leaves a backoff record, unless the feature is off.        *)
(***************************************************************************)
RunFailed(s, t1) ==
    IF FailureBackoff > 0
    THEN [s EXCEPT !.backoff = [failed_at |-> t1, retry_after |-> FailureBackoff]]
    ELSE s

(***************************************************************************)
(* A value obtained upstream starts a new instance: the guard and the      *)
(* claim of the previous one go, and so does the backoff.                  *)
(***************************************************************************)
Install(s, source, ttl, value, t1) ==
    [s EXCEPT !.entry = NewEntry(source, value, ttl, t1),
              !.backoff = None, !.guard = None, !.claim = None]

\* Slip: the fetched value is installed before the user is asked.
FetchInstallsFirst(s, source, ttl, run, auth, t1) ==
    CASE run = None -> Result(RunFailed(s, t1), "RunFailed")
      [] run # None /\ ~auth -> Result(Install(s, source, ttl, run, t1), "AuthFailed")
      [] OTHER -> Result(Install(s, source, ttl, run, t1), "Ok")

FetchAndInstall(s, source, ttl, run, auth, t1) ==
    CASE run = None -> Result(RunFailed(s, t1), "RunFailed")
      [] run # None /\ ~auth -> Result(s, "AuthFailed")
      [] OTHER -> Result(Install(s, source, ttl, run, t1), "Ok")

(***************************************************************************)
(* Store::regenerate re-runs the command an entry was loaded from.         *)
(***************************************************************************)
Regenerate(s, run, auth, t0, t1) ==
    CASE InBackoff(s, t0)                   -> Result(s, "Backoff")
      [] ~InBackoff(s, t0) /\ s.entry = None -> Result(s, "NotFound")
      [] ~InBackoff(s, t0) /\ s.entry # None /\ s.entry.source = Static
                                            -> Result(s, "NotRegenerable")
      [] OTHER ->
           IF StateOf(s, t0) # "HardExpired" THEN Result(s, "NotHardExpired")
           ELSE FetchAndInstall(Evaluated(s, t0), s.entry.source, s.entry.ttl,
                                run, auth, t1)

\* Slip: only an Active value counts as resident.
GetOrRegenerateEagerly(s, run, auth, t0, t1) ==
    CASE s.def = None -> Result(s, "Undefined")
      [] s.def # None /\ StateOf(s, t0) = "Active" -> Result(s, "ValueResident")
      [] OTHER ->
           IF InBackoff(s, t0) THEN Result(Evaluated(s, t0), "Backoff")
           ELSE FetchAndInstall(Evaluated(s, t0), s.def.source, s.def.ttl, run, auth, t1)

(***************************************************************************)
(* Store::get_or_regenerate runs the command of the key's definition,      *)
(* unless a usable value is resident.                                      *)
(***************************************************************************)
GetOrRegenerate(s, run, auth, t0, t1) ==
    CASE s.def = None -> Result(s, "Undefined")
      [] s.def # None /\ StateOf(s, t0) \in {"Active", "SoftExpired"}
                      -> Result(s, "ValueResident")
      [] OTHER ->
           IF InBackoff(s, t0) THEN Result(Evaluated(s, t0), "Backoff")
           ELSE FetchAndInstall(Evaluated(s, t0), s.def.source, s.def.ttl, run, auth, t1)

-----------------------------------------------------------------------------
(* Definitions and the per-key side maps *)

(***************************************************************************)
(* Store::define_with_meta: the same definition again is accepted and      *)
(* changes nothing, a different one is refused.                            *)
(***************************************************************************)
Define(s, def) ==
    CASE s.def = None             -> Result([s EXCEPT !.def = def], "Ok")
      [] s.def = def              -> Result(s, "Ok")
      [] OTHER                    -> Result(s, "Conflict")

\* Slip: dropping the definition forgets its failures.
UndefineForgets(s) ==
    [s EXCEPT !.def = None, !.guard = None, !.claim = None, !.backoff = None]

(***************************************************************************)
(* Store::undefine also drops the guard and the claim, but not the value.  *)
(***************************************************************************)
Undefine(s) == [s EXCEPT !.def = None, !.guard = None, !.claim = None]

SetGuard(s, guard)        == [s EXCEPT !.guard = guard]
ClearGuard(s)             == [s EXCEPT !.guard = None]
SetOwner(s, owner)        == [s EXCEPT !.owner = owner]
ClearOwner(s)             == [s EXCEPT !.owner = None]
SetRefreshClaim(s, claim) == [s EXCEPT !.claim = claim]
ClearRefreshClaim(s)      == [s EXCEPT !.claim = None]

(***************************************************************************)
(* Versions are u64 and bump_version saturates; no run or proof comes near *)
(* 2^64 writes of one key, so the counter is a natural number.             *)
(***************************************************************************)
BumpVersion(s) == [s EXCEPT !.version = @ + 1]

RestoreVersion(s, version) ==
    [s EXCEPT !.version = IF version > @ THEN version ELSE @]

(***************************************************************************)
(* RefreshClaim::is_active_at, judged by the caller on the wall clock.     *)
(***************************************************************************)
ClaimActive(s, now) == s.claim # None /\ now < s.claim.expires_at

=============================================================================
