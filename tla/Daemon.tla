------------------------------- MODULE Daemon -------------------------------
(***************************************************************************)
(* The request handlers of the daemon (crates/cache-warden-cli/src/daemon/ *)
(* handler.rs): the in-memory store in front of the encrypted vault, and   *)
(* the gates a request passes on its way.  A handler runs with the store   *)
(* locked from the first check to the reply, and takes the vault's lock    *)
(* inside it, so a request is one step; only the clock moves inside, while *)
(* a command or a prompt is waited for.                                    *)
(*                                                                         *)
(* A peer is a connected process.  An access guard, an owner principal and *)
(* a process policy are each the set of peers that satisfy it.  The vault  *)
(* file is only its entries here: keys, recipients and torn files are in   *)
(* Vault.  Reserved keys, malformed requests and value types (OTP) are     *)
(* left out; a dry run is a get whose value is not looked at.  So is the   *)
(* read that releases the store while the approver app is asked            *)
(* (run_request_async).                                                    *)
(*                                                                         *)
(* last, top, holder and owned are history variables: what the replies     *)
(* told the callers.                                                       *)
(***************************************************************************)
EXTENDS VaultOps

CONSTANTS
    Keys,
    PersistedKeys,       \* declared persist = true in the configuration
    ConfigDefs,          \* the definitions of the configuration
    PersistDefinitions,  \* daemon.persist-definitions
    Peers,
    Admitted,            \* kv_process_policies: whom a key may be read by
    Fetched,             \* values upstream commands produce
    Audience,            \* the guard each value is set with
    PersistFlags,        \* values of the persist flag callers send
    Ttls, PinLengths, ClaimTtls,
    Commits,             \* how a write of the vault file can end
    MaxTime, MaxDelay, MaxVersion, MaxFaults

ASSUME KeyConstants ==
    /\ None \notin Keys /\ PersistedKeys \subseteq Keys
    /\ ConfigDefs \in [Keys -> Option(Definitions)]
    /\ Admitted \in [Keys -> SUBSET Peers]
    /\ PersistDefinitions \in BOOLEAN /\ PersistFlags \subseteq BOOLEAN
    /\ Ttls \subseteq Ttl /\ \A ttl \in Ttls : TtlIsValid(ttl)
ASSUME PeerSets ==
    Guards \subseteq SUBSET Peers /\ Principals \subseteq SUBSET Peers
ASSUME ValueConstants ==
    /\ Fetched \subseteq Values /\ Audience \in [Values -> Option(Guards)]
    /\ \A v \in Fetched : Audience[v] = None
ASSUME DurationConstants == PinLengths \subseteq Nat /\ ClaimTtls \subseteq Nat
ASSUME CommitConstants ==
    Commits \subseteq {"ok", "untouched", "renamed", "died", "unsaved"}

VARIABLES
    slots,      \* the store
    registry,   \* the definitions file
    disk, open, \* the entries in the vault file, and in the open vault
    now, faults,
    reply,
    last,       \* the values a read may return: the last write, and later
                \* ones whose fate their callers were not told
    top,        \* the highest version acknowledged
    holder,     \* the claim last granted
    owned       \* the owner in force

files   == <<registry, disk, open>>
history == <<last, top, holder, owned>>
vars    == <<slots, registry, disk, open, now, faults, reply, last, top, holder, owned>>

Entries == [Keys -> Option(VaultEntries)]

ASSUME NoneIsNoEntry ==
    None \notin CacheEntries /\ None \notin VaultEntries /\ None \notin Slots
ASSUME NoneIsNoContent == None \notin Entries

Silence ==
    [op |-> "none", key |-> None, peer |-> None, out |-> "Ok", value |-> None,
     wrote |-> None, fetched |-> FALSE, version |-> 0, token |-> None, owner |-> None]

Answer(op, p, k, out) ==
    [Silence EXCEPT !.op = op, !.peer = p, !.key = k, !.out = out]

TypeOK ==
    /\ slots \in [Keys -> Slots]
    /\ registry \in [Keys -> Option(Definitions)]
    /\ disk \in Option(Entries) /\ open \in Option(Entries)
    /\ (open # None => disk # None)
    /\ now \in Time /\ faults \in Nat
    /\ last \in [Keys -> SUBSET Values] /\ top \in [Keys -> Nat]
    /\ owned \in [Keys -> Option(Principals)]

(***************************************************************************)
(* Startup: no values; the definitions come from the configuration and,    *)
(* where it is silent, from the definitions file (register_definitions,    *)
(* restore_persisted_definitions).                                         *)
(***************************************************************************)
Cold(defs) ==
    [k \in Keys |-> [EmptySlot EXCEPT
        !.def = IF ConfigDefs[k] # None THEN ConfigDefs[k] ELSE defs[k]]]

Init ==
    /\ registry = [k \in Keys |-> None] /\ slots = Cold(registry)
    /\ disk = None /\ open = None
    /\ now = 0 /\ faults = 0
    /\ reply = Silence
    /\ last = [k \in Keys |-> {}] /\ top = [k \in Keys |-> 0]
    /\ holder = [k \in Keys |-> None] /\ owned = [k \in Keys |-> None]

-----------------------------------------------------------------------------
(* Gates *)

(***************************************************************************)
(* require_owner                                                           *)
(***************************************************************************)
SatisfiesOwner(p, k) == slots[k].owner # None => p \in slots[k].owner

SatisfiesGuard(p, k) == slots[k].guard # None => p \in slots[k].guard

(***************************************************************************)
(* vault_ownership: while the vault is closed only the declared keys are   *)
(* known to be behind it.                                                  *)
(***************************************************************************)
Owned(k) == open # None /\ open[k] # None

\* Slip: a closed vault has nothing to say about any key.
NeverUnavailable(k) == FALSE

Unavailable(k) == open = None /\ k \in PersistedKeys

VaultEntry(k) == IF open = None THEN None ELSE open[k]

Refuse(op, p, k, out) ==
    /\ reply' = Answer(op, p, k, out)
    /\ UNCHANGED <<slots, files, now, faults>>

-----------------------------------------------------------------------------
(* Files *)

Counts(c) ==
    IF c = "ok" THEN UNCHANGED faults
    ELSE faults < MaxFaults /\ faults' = faults + 1

OutOf(c) == CASE c = "ok" -> "Ok" [] c = "died" -> "NoReply" [] OTHER -> "IoError"

(***************************************************************************)
(* A write of the vault file (UnlockedVault::commit; see Vault).           *)
(* "unsaved" is a failure to write the definitions file instead.           *)
(***************************************************************************)
CommitVault(entries, c) ==
    /\ Counts(c)
    /\ disk' = IF c = "untouched" THEN disk ELSE entries
    /\ open' = CASE c \in {"ok", "unsaved"} -> entries
                 [] c = "died" -> None
                 [] OTHER -> open

(***************************************************************************)
(* persist_if_enabled rewrites the definitions file: all definitions but   *)
(* the configuration's.                                                    *)
(***************************************************************************)
OnlineDefs(ss) ==
    [k \in Keys |-> IF ConfigDefs[k] = None THEN ss[k].def ELSE None]

SaveDefinitions(c) ==
    registry' = IF PersistDefinitions /\ c = "ok" THEN OnlineDefs(slots') ELSE registry

(***************************************************************************)
(* The store after a handler that wanted it to become ss: gone, if the     *)
(* process died.                                                           *)
(***************************************************************************)
StoreAfter(c, ss) == slots' = IF c = "died" THEN Cold(registry) ELSE ss

-----------------------------------------------------------------------------
(* kv.set *)

(***************************************************************************)
(* Owner, then the vault's state, then compare-and-swap, then the claim:   *)
(* a caller without authorization learns nothing of the version.           *)
(***************************************************************************)
SetRefusal(p, k, ttl, persist, expected, token) ==
    IF ~SatisfiesOwner(p, k) THEN "AuthFailed"
    ELSE IF persist /\ ttl.hard # None THEN "BadRequest"
    ELSE IF persist /\ open = None THEN "VaultClosed"
    ELSE IF expected # None /\ expected # slots[k].version THEN "CasMismatch"
    ELSE IF ~ClaimAllows(slots[k], token, now) THEN "ClaimRefused"
    ELSE "Ok"

(***************************************************************************)
(* handle_set and the owner declaration.                                   *)
(***************************************************************************)
SlotAfterSet(s, v, ttl, guard, owner) ==
    LET t == IF guard = None THEN ClearGuard(Set(s, Static, v, ttl, now))
             ELSE SetGuard(Set(s, Static, v, ttl, now), guard)
        u == ClearRefreshClaim(BumpVersion(t))
    IN IF owner = None THEN u ELSE SetOwner(u, owner)

\* Slip: the vault gets the value without its guard.
WriteThroughUnguarded(e, s, token) ==
    Upsert(e, [value |-> s.entry.value, guard |-> None, owner |-> s.owner], token, now)

(***************************************************************************)
(* write_through_to_vault: the value goes to the disk with its guard and   *)
(* its owner.  The version set on the entry is not the one written: upsert *)
(* counts from the vault's own.                                            *)
(***************************************************************************)
WriteThrough(e, s, token) ==
    Upsert(e, [value |-> s.entry.value, guard |-> s.guard, owner |-> s.owner], token, now)

KvSet(p, k, v, ttl, flag, expected, token, owner, c) ==
    LET persist == flag \/ k \in PersistedKeys
        refusal == SetRefusal(p, k, ttl, persist, expected, token)
        s == SlotAfterSet(slots[k], v, ttl, Audience[v], owner)
        r == WriteThrough(VaultEntry(k), s, token)
        ack(out) == [Answer("set", p, k, out) EXCEPT !.wrote = v, !.owner = s.owner,
                        !.version = s.version, !.token = token]
    IN
    /\ slots[k].version < MaxVersion /\ CurrentVersion(VaultEntry(k)) < MaxVersion
    /\ \/ /\ refusal # "Ok" /\ c = "ok"
          /\ Refuse("set", p, k, refusal)
       \/ /\ refusal = "Ok" /\ (persist => r.out # "Ok") /\ c = "ok"
          /\ slots' = [slots EXCEPT ![k] = s]
          /\ reply' = ack(IF persist THEN "IoError" ELSE "Ok")
          /\ UNCHANGED <<files, now, faults>>
       \/ /\ refusal = "Ok" /\ persist /\ r.out = "Ok" /\ c # "unsaved"
          /\ CommitVault([open EXCEPT ![k] = r.entry], c)
          /\ StoreAfter(c, [slots EXCEPT ![k] = s])
          /\ reply' = ack(OutOf(c))
          /\ UNCHANGED <<registry, now>>

-----------------------------------------------------------------------------
(* kv.get *)

Later == {t \in now..MaxTime : t <= now + MaxDelay}

(***************************************************************************)
(* lazy_generate, or Store::regenerate for a key without a definition.     *)
(***************************************************************************)
Fetch(s, run, auth, t1) ==
    IF s.def # None THEN GetOrRegenerate(s, run, auth, now, t1)
    ELSE Regenerate(s, run, auth, now, t1)

(***************************************************************************)
(* The retrieval chain of handle_get: what becomes of the slot, whether a  *)
(* command or a prompt was waited for, and how it went.                    *)
(***************************************************************************)
Chain(k, run, auth, t1) ==
    LET s == Evaluated(slots[k], now)
        done(r, waited, fetched) ==
            [slot |-> Evaluated(r.slot, IF waited THEN t1 ELSE now), out |-> r.out,
             waited |-> waited, fetched |-> fetched]
        fetch == LET r == Fetch(s, run, auth, t1)
                     ran == r.out \in {"Ok", "RunFailed", "AuthFailed"}
                 IN done(r, ran, ran /\ r.out = "Ok")
    IN
    CASE StateOf(s, now) = "Active"      -> done(Result(s, "Ok"), FALSE, FALSE)
      [] StateOf(s, now) = "SoftExpired" ->
             done(ExtendAuthenticated(s, auth, now, t1), TRUE, FALSE)
      [] StateOf(s, now) = "HardExpired" -> fetch
      [] OTHER ->
             IF Unavailable(k) THEN done(Result(s, "VaultClosed"), FALSE, FALSE)
             ELSE IF s.def # None THEN fetch
             ELSE done(Result(s, IF k \in PersistedKeys THEN "NotRegenerable"
                                 ELSE "NotFound"), FALSE, FALSE)

KvGet(p, k, run, auth, t1) ==
    LET r == Chain(k, run, auth, t1)
        t == IF r.waited THEN t1 ELSE now
    IN
    IF ~SatisfiesOwner(p, k) \/ p \notin Admitted[k] \/ ~SatisfiesGuard(p, k)
    THEN Refuse("get", p, k, "AuthFailed")
    ELSE /\ now' = t
         /\ slots' = [slots EXCEPT ![k] = r.slot]
         /\ reply' = [Answer("get", p, k, r.out) EXCEPT
                         !.fetched = r.fetched,
                         !.value = IF r.out = "Ok" /\ Readable(r.slot, t)
                                   THEN r.slot.entry.value ELSE None]
         /\ UNCHANGED <<files, faults>>

-----------------------------------------------------------------------------
(* kv.del *)

(***************************************************************************)
(* An entry of the vault goes from the disk first, and takes its           *)
(* definition with it; the definitions file is rewritten only when the     *)
(* request asked for with_define (run_request).                            *)
(***************************************************************************)
KvDel(p, k, with_define, c) ==
    \/ /\ c = "ok"
       /\ ~SatisfiesOwner(p, k) \/ Unavailable(k)
       /\ Refuse("del", p, k, IF SatisfiesOwner(p, k) THEN "VaultClosed" ELSE "AuthFailed")
    \/ /\ SatisfiesOwner(p, k) /\ ~Unavailable(k) /\ ~Owned(k)
       /\ slots' = [slots EXCEPT ![k] = IF with_define THEN DeleteWithDefinition(@)
                                        ELSE Delete(@)]
       /\ Counts(c)
       /\ IF with_define THEN c \in {"ok", "unsaved"} /\ SaveDefinitions(c)
          ELSE c = "ok" /\ UNCHANGED registry
       /\ reply' = Answer("del", p, k, OutOf(c))
       /\ UNCHANGED <<disk, open, now>>
    \/ /\ SatisfiesOwner(p, k) /\ Owned(k) /\ (c = "unsaved" => with_define)
       /\ CommitVault([open EXCEPT ![k] = DeleteEntry(@).entry], c)
       /\ StoreAfter(c, IF c \in {"ok", "unsaved"}
                        THEN [slots EXCEPT ![k] = DeleteWithDefinition(@)] ELSE slots)
       /\ IF with_define THEN SaveDefinitions(c) ELSE UNCHANGED registry
       /\ reply' = Answer("del", p, k, OutOf(c))
       /\ UNCHANGED now

-----------------------------------------------------------------------------
(* kv.claim, kv.unclaim *)

FreshToken(token) ==
    \A k \in Keys : /\ slots[k].claim # None => slots[k].claim.token # token
                    /\ Owned(k) /\ open[k].claim # None => open[k].claim.token # token
                    /\ holder[k] # None => holder[k].token # token

ClaimRefusal(p, k, expected) ==
    IF ~SatisfiesOwner(p, k) THEN "AuthFailed"
    ELSE IF Unavailable(k) THEN "VaultClosed"
    ELSE IF slots[k].entry = None THEN "NotFound"
    ELSE IF expected # slots[k].version THEN "CasMismatch"
    ELSE IF ClaimActive(slots[k], now) THEN "AlreadyClaimed"
    ELSE "Ok"

\* Slip: the claim of a vault entry is taken in memory only.
TakeClaimInMemory(e, expected, token, expires_at) == Outcome(e, "Noop")

(***************************************************************************)
(* take_claim_in_vault: the vault issues the token for an entry it has.    *)
(***************************************************************************)
TakeClaim(e, expected, token, expires_at) ==
    IF e = None THEN Outcome(e, "Noop")
    ELSE ClaimRefresh(e, expected, token, expires_at, now)

KvClaim(p, k, expected, token, ttl, c) ==
    LET refusal == ClaimRefusal(p, k, expected)
        claim == [token |-> token, expires_at |-> now + ttl]
        r == TakeClaim(VaultEntry(k), expected, token, now + ttl)
        ss == [slots EXCEPT ![k] = IF c = "ok" THEN SetRefreshClaim(@, claim) ELSE @]
        ack(out) == [Answer("claim", p, k, out) EXCEPT
                        !.token = token, !.version = slots[k].version]
    IN
    /\ FreshToken(token)
    /\ \/ /\ refusal # "Ok" /\ c = "ok"
          /\ Refuse("claim", p, k, refusal)
       \/ /\ refusal = "Ok" /\ r.out \notin {"Ok", "Noop"} /\ c = "ok"
          /\ Refuse("claim", p, k, r.out)
       \/ /\ refusal = "Ok" /\ r.out = "Noop" /\ c = "ok"
          /\ slots' = ss
          /\ reply' = ack("Ok")
          /\ UNCHANGED <<files, now, faults>>
       \/ /\ refusal = "Ok" /\ r.out = "Ok" /\ c # "unsaved"
          /\ CommitVault([open EXCEPT ![k] = r.entry], c)
          /\ StoreAfter(c, ss)
          /\ reply' = ack(OutOf(c))
          /\ UNCHANGED <<registry, now>>

UnclaimRefusal(p, k, token) ==
    IF ~SatisfiesOwner(p, k) THEN "AuthFailed"
    ELSE IF Unavailable(k) THEN "VaultClosed"
    ELSE IF ~ClaimAllows(slots[k], token, now) THEN "ClaimRefused"
    ELSE "Ok"

(***************************************************************************)
(* release_claim_in_vault, then the store's copy.                          *)
(***************************************************************************)
GiveUpClaim(e, token) ==
    IF e = None THEN Outcome(e, "Noop") ELSE ReleaseClaim(e, token, now)

KvUnclaim(p, k, token, c) ==
    LET refusal == UnclaimRefusal(p, k, token)
        r == GiveUpClaim(VaultEntry(k), token)
        ss == [slots EXCEPT ![k] = IF c = "ok" THEN ClearRefreshClaim(@) ELSE @]
    IN
    \/ /\ refusal # "Ok" /\ c = "ok"
       /\ Refuse("unclaim", p, k, refusal)
    \/ /\ refusal = "Ok" /\ r.out \notin {"Ok", "Noop"} /\ c = "ok"
       /\ Refuse("unclaim", p, k, "IoError")
    \/ /\ refusal = "Ok" /\ r.out = "Noop" /\ c = "ok"
       /\ slots' = ss
       /\ reply' = Answer("unclaim", p, k, "Ok")
       /\ UNCHANGED <<files, now, faults>>
    \/ /\ refusal = "Ok" /\ r.out = "Ok" /\ c # "unsaved"
       /\ CommitVault([open EXCEPT ![k] = r.entry], c)
       /\ StoreAfter(c, ss)
       /\ reply' = Answer("unclaim", p, k, OutOf(c))
       /\ UNCHANGED <<registry, now>>

-----------------------------------------------------------------------------
(* The other requests on a key: they never reach the vault. *)

KvDefine(p, k, def, c) ==
    LET r == Define(slots[k], def) IN
    IF ~SatisfiesOwner(p, k) \/ r.out = "Conflict"
    THEN /\ c = "ok"
         /\ Refuse("define", p, k, IF SatisfiesOwner(p, k) THEN "Conflict" ELSE "AuthFailed")
    ELSE /\ c \in {"ok", "unsaved"} /\ Counts(c)
         /\ slots' = [slots EXCEPT ![k] = r.slot]
         /\ SaveDefinitions(c)
         /\ reply' = Answer("define", p, k, OutOf(c))
         /\ UNCHANGED <<disk, open, now>>

KvPin(p, k, length, auth, t1) ==
    LET r == PinAuthenticated(slots[k], now + length, auth, now, t1) IN
    IF ~SatisfiesOwner(p, k) THEN Refuse("pin", p, k, "AuthFailed")
    ELSE /\ now' = IF StateOf(slots[k], now) \in {"Active", "SoftExpired"} THEN t1 ELSE now
         /\ slots' = [slots EXCEPT ![k] = r.slot]
         /\ reply' = Answer("pin", p, k, r.out)
         /\ UNCHANGED <<files, faults>>

KvUnpin(p, k) ==
    IF ~SatisfiesOwner(p, k) \/ slots[k].entry = None
    THEN Refuse("unpin", p, k, IF SatisfiesOwner(p, k) THEN "NotFound" ELSE "AuthFailed")
    ELSE /\ slots' = [slots EXCEPT ![k] = Unpin(@)]
         /\ reply' = Answer("unpin", p, k, "Ok")
         /\ UNCHANGED <<files, now, faults>>

KvOwnerClear(p, k) ==
    IF ~SatisfiesOwner(p, k) \/ slots[k].owner = None
    THEN Refuse("owner_clear", p, k, IF SatisfiesOwner(p, k) THEN "NotFound" ELSE "AuthFailed")
    ELSE /\ slots' = [slots EXCEPT ![k] = ClearOwner(@)]
         /\ reply' = Answer("owner_clear", p, k, "Ok")
         /\ UNCHANGED <<files, now, faults>>

-----------------------------------------------------------------------------
(* The vault *)

VaultInit(c) ==
    /\ disk = None /\ c \notin {"renamed", "unsaved"}
    /\ CommitVault([k \in Keys |-> None], c)
    /\ StoreAfter(c, slots)
    /\ reply' = Answer("init", None, None, OutOf(c))
    /\ UNCHANGED <<registry, now>>

\* Slip: the claim stays behind in the vault.
InstallUnclaimed(s, e) ==
    LET t == RestoreVersion(Set(s, Static, e.value, [soft |-> None, hard |-> None], now),
                            e.version)
    IN [t EXCEPT !.guard = IF e.guard = None THEN @ ELSE e.guard,
                 !.owner = IF e.owner = None THEN @ ELSE e.owner]

\* Slip: the version stays behind in the vault.
InstallUnversioned(s, e) ==
    LET t == Set(s, Static, e.value, [soft |-> None, hard |-> None], now)
    IN [t EXCEPT !.guard = IF e.guard = None THEN @ ELSE e.guard,
                 !.owner = IF e.owner = None THEN @ ELSE e.owner,
                 !.claim = IF ClaimActive(e, now) THEN e.claim ELSE @]

\* Slip: the owner stays behind in the vault.
InstallUnowned(s, e) ==
    LET t == RestoreVersion(Set(s, Static, e.value, [soft |-> None, hard |-> None], now),
                            e.version)
    IN [t EXCEPT !.guard = IF e.guard = None THEN @ ELSE e.guard,
                 !.claim = IF ClaimActive(e, now) THEN e.claim ELSE @]

(***************************************************************************)
(* install_vault_entries: what the vault has replaces what the store has.  *)
(* A side map is written only if the vault has something for it; a         *)
(* restored value has no lifetime, for no write stores one.                *)
(***************************************************************************)
InstallEntry(s, e) ==
    LET t == RestoreVersion(Set(s, Static, e.value, [soft |-> None, hard |-> None], now),
                            e.version)
    IN [t EXCEPT !.guard = IF e.guard = None THEN @ ELSE e.guard,
                 !.owner = IF e.owner = None THEN @ ELSE e.owner,
                 !.claim = IF ClaimActive(e, now) THEN e.claim ELSE @]

(***************************************************************************)
(* Unlocking an open vault installs its entries again.  valid: the         *)
(* recovery code, or the passkey, opens the file.                          *)
(***************************************************************************)
VaultUnlock(valid) ==
    LET entries == IF open = None THEN disk ELSE open IN
    IF disk = None \/ (open = None /\ ~valid)
    THEN Refuse("unlock", None, None, "AuthFailed")
    ELSE /\ open' = entries
         /\ slots' = [k \in Keys |-> IF entries[k] = None THEN slots[k]
                                     ELSE InstallEntry(slots[k], entries[k])]
         /\ reply' = Answer("unlock", None, None, "Ok")
         /\ UNCHANGED <<registry, disk, now, faults>>

\* Slip: the values stay in the store.
EvictedNothing == slots

(***************************************************************************)
(* handle_vault_lock takes the values of the vault's entries along.        *)
(***************************************************************************)
Evicted == [k \in Keys |-> IF Owned(k) THEN Delete(slots[k]) ELSE slots[k]]

VaultLock ==
    /\ slots' = Evicted /\ open' = None
    /\ reply' = Answer("lock", None, None, "Ok")
    /\ UNCHANGED <<registry, disk, now, faults>>

-----------------------------------------------------------------------------

Crash ==
    /\ slots' = Cold(registry) /\ open' = None
    /\ reply' = Answer("crash", None, None, "NoReply")
    /\ UNCHANGED <<registry, disk, now, faults>>

Tick ==
    /\ now < MaxTime /\ now' = now + 1
    /\ reply' = Silence
    /\ UNCHANGED <<slots, files, faults>>

Step ==
    \/ Tick \/ Crash \/ VaultLock
    \/ \E valid \in BOOLEAN : VaultUnlock(valid)
    \/ \E c \in Commits : VaultInit(c)
    \/ \E p \in Peers, k \in Keys :
        \/ \E v \in Values \ Fetched, ttl \in Ttls, flag \in PersistFlags,
              expected \in Option(0..MaxVersion), token \in Option(Tokens),
              owner \in Option(Principals), c \in Commits :
               KvSet(p, k, v, ttl, flag, expected, token, owner, c)
        \/ \E run \in Option(Fetched), auth \in BOOLEAN, t1 \in Later :
               KvGet(p, k, run, auth, t1)
        \/ \E with_define \in BOOLEAN, c \in Commits : KvDel(p, k, with_define, c)
        \/ \E expected \in 0..MaxVersion, token \in Tokens, ttl \in ClaimTtls, c \in Commits :
               KvClaim(p, k, expected, token, ttl, c)
        \/ \E token \in Tokens, c \in Commits : KvUnclaim(p, k, token, c)
        \/ \E source \in Sources, ttl \in Ttls, c \in Commits :
               KvDefine(p, k, [source |-> source, ttl |-> ttl], c)
        \/ \E length \in PinLengths, auth \in BOOLEAN, t1 \in Later :
               KvPin(p, k, length, auth, t1)
        \/ KvUnpin(p, k)
        \/ KvOwnerClear(p, k)

-----------------------------------------------------------------------------
(* History *)

(***************************************************************************)
(* A key is forgotten when it is deleted with its definition, and when the *)
(* process ends without the vault holding it.                              *)
(***************************************************************************)
OnDisk(k) == disk' # None /\ disk'[k] # None

Told(op, k)    == reply'.op = op /\ reply'.key = k /\ reply'.out = "Ok"
Untold(op, k)  == reply'.op = op /\ reply'.key = k /\ reply'.out \in {"IoError", "NoReply"}
Refetched(k)   == reply'.key = k /\ reply'.fetched

Forgotten(k) ==
    \/ reply'.out = "NoReply" /\ ~OnDisk(k)
    \/ (Told("del", k) \/ Untold("del", k)) /\ slots'[k] = EmptySlot

Remember ==
    /\ last' = [k \in Keys |->
          IF Forgotten(k) \/ Told("del", k) THEN {}
          ELSE IF Told("set", k) THEN {reply'.wrote}
          ELSE IF Untold("set", k) THEN last[k] \cup {reply'.wrote}
          ELSE IF Refetched(k) THEN {slots'[k].entry.value} \ {None}
          ELSE last[k]]
    /\ top' = [k \in Keys |->
          IF Forgotten(k) THEN 0 ELSE IF Told("set", k) THEN reply'.version ELSE top[k]]
    /\ holder' = [k \in Keys |->
          IF \/ Forgotten(k) \/ Told("del", k) \/ Refetched(k)
             \/ Told("set", k) \/ Untold("set", k)
             \/ Told("unclaim", k) \/ Untold("unclaim", k) THEN None
          ELSE IF Told("claim", k) THEN slots'[k].claim ELSE holder[k]]
    /\ owned' = [k \in Keys |->
          IF Forgotten(k) \/ Told("owner_clear", k) THEN None
          ELSE IF Told("set", k) \/ Untold("set", k) THEN reply'.owner ELSE owned[k]]

Next == Step /\ Remember

Spec == Init /\ [][Next]_vars

-----------------------------------------------------------------------------
(* Properties *)

(***************************************************************************)
(* A read returns the last value written, or a later one whose fate its    *)
(* writer was not told: never an older one, nor a freshly fetched stand-in *)
(* for a stored one, however often the vault was locked, the daemon        *)
(* restarted or a write failed in between.  (handler.rs handle_get,        *)
(* write_through_to_vault, install_vault_entries)                          *)
(***************************************************************************)
ReadsLatest ==
    [][reply'.value # None /\ ~reply'.fetched => reply'.value \in last[reply'.key]]_vars

(***************************************************************************)
(* While the vault is closed no value it holds for a declared key is in    *)
(* memory.  (handler.rs handle_vault_lock, vault_ownership)                *)
(***************************************************************************)
LockedHidesValues ==
    open = None =>
        \A k \in PersistedKeys : disk # None /\ disk[k] # None => slots[k].entry = None

(***************************************************************************)
(* A value set with a guard is never handed to a peer outside it, whatever *)
(* was overwritten, fetched, locked and restored around it.  (handler.rs   *)
(* handle_set "last declaration wins", write_through_to_vault "a credential*)
(* that silently lost its protection", install_vault_entries)              *)
(***************************************************************************)
GuardTravels ==
    (reply.value # None /\ Audience[reply.value] # None)
        => reply.peer \in Audience[reply.value]

(***************************************************************************)
(* Versions told to writers only grow while the entry lives, so a          *)
(* compare-and-swap never succeeds against a write it has not seen, even   *)
(* one of a previous process.  (handler.rs kv.set, install_vault_entries;  *)
(* DR-0034 section 4)                                                      *)
(***************************************************************************)
VersionsAdvance ==
    [][reply'.op = "set" /\ reply'.out = "Ok" => reply'.version > top[reply'.key]]_vars

(***************************************************************************)
(* While a granted claim runs, only its token writes the entry or claims   *)
(* it, through locking and restarts.  (handler.rs check_claim_fence,       *)
(* handle_claim, take_claim_in_vault, install_vault_entries)               *)
(***************************************************************************)
ClaimFenced ==
    [][\A k \in Keys :
          ((Told("set", k) \/ Told("claim", k)) /\ holder[k] # None /\ now < holder[k].expires_at)
              => reply'.token = holder[k].token]_vars

(***************************************************************************)
(* As long as an owner is in force, nobody else reads the entry or changes *)
(* it, through locking, restarts and unanswered writes.  (handler.rs       *)
(* require_owner)                                                          *)
(***************************************************************************)
OwnerInForce ==
    [][\A k \in Keys :
          (/\ reply'.key = k /\ owned[k] # None
           /\ reply'.value # None \/ (reply'.out = "Ok" /\ slots'[k] # slots[k]))
              => reply'.peer \in owned[k]]_vars

RunningClaim(x) == IF ClaimActive(x, now) THEN x.claim ELSE None

(***************************************************************************)
(* The two copies of a declared entry, in memory and in the open vault,    *)
(* agree: value, guard, version and running claim.  (handler.rs            *)
(* write_through_to_vault "keeps the two copies of the counter in step",   *)
(* handle_claim, handle_unclaim)                                           *)
(***************************************************************************)
CopiesAgree ==
    \A k \in PersistedKeys : Owned(k) =>
        /\ slots[k].entry # None /\ slots[k].entry.value = open[k].value
        /\ slots[k].guard = open[k].guard
        /\ slots[k].version = open[k].version
        /\ RunningClaim(slots[k]) = RunningClaim(open[k])

(***************************************************************************)
(* What comments promise and the code does not keep; each is checked by a  *)
(* run of its own.                                                         *)
(***************************************************************************)

(***************************************************************************)
(* Once locked, the vault leaves no declared key readable, as after a cold *)
(* start.  (handler.rs handle_vault_lock "so "locked" means the same thing *)
(* after an explicit lock as it does on a cold start")                     *)
(***************************************************************************)
LockedMeansCold ==
    [][reply'.op = "lock" => \A k \in PersistedKeys : slots'[k].entry = None]_vars

(***************************************************************************)
(* A value whose deletion was acknowledged is not read again until the key *)
(* is written anew.  (handler.rs handle_del "an acknowledged delete that a *)
(* restart undoes would resurrect a credential its owner believes they     *)
(* discarded")                                                             *)
(***************************************************************************)
DeletedIsGone ==
    [][reply'.value # None /\ ~reply'.fetched => last[reply'.key] # {}]_vars

(***************************************************************************)
(* A restored entry is at least at the version its last writer was told.   *)
(* (handler.rs write_through_to_vault "carrying it into the vault keeps    *)
(* the two copies of the counter in step across a restart")                *)
(***************************************************************************)
VersionSurvives ==
    [][reply'.op = "unlock" /\ reply'.out = "Ok" =>
          \A k \in Keys : open'[k] # None => slots'[k].version >= top[k]]_vars

(***************************************************************************)
(* Clearing the owner of an entry the open vault holds reaches the vault.  *)
(* (handler.rs VaultOwnership::Owned "any change to it has to reach the    *)
(* disk")                                                                  *)
(***************************************************************************)
OwnerChangeReachesDisk ==
    [][\A k \in Keys : Told("owner_clear", k) /\ Owned(k) => disk'[k].owner = None]_vars

=============================================================================
