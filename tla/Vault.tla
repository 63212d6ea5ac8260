-------------------------------- MODULE Vault -------------------------------
(***************************************************************************)
(* The encrypted vault: the file, the process that holds it open, and what *)
(* crashes and failing writes do to the two                                *)
(* (crates/cache-warden-vault/src/{vault,storage}.rs and VaultState of     *)
(* crates/cache-warden-cli/src/daemon/vault_state.rs).                     *)
(*                                                                         *)
(* The file is one value: the data key its body is sealed with, that key   *)
(* wrapped for each recipient (a slot in the code), and the entries.       *)
(* Encryption is symbolic: a recipient opens the body iff its wrap holds   *)
(* the key of the body.                                                    *)
(*                                                                         *)
(* survivors holds every content a power loss may leave behind: a rename   *)
(* is only certain once the directory is synced.                           *)
(***************************************************************************)
EXTENDS VaultOps

CONSTANTS
    Keys,
    Recipients,  \* slot ids, each drawn at random and so used once
    Deks,        \* data keys, likewise
    ClaimTtls,   \* durations callers claim an entry for
    Torn,        \* a file whose creation was interrupted
    MaxTime,     \* the clock stops here
    MaxVersion,  \* entries are not written beyond this version
    MaxFaults    \* commits that fail and power losses, in one behaviour

VARIABLES
    file, survivors,   \* the disk
    proc, open,        \* the daemon: VaultState, and the open vault
    now,
    faults,            \* commits failed and power lost so far
    reply,
    acked, tried,      \* history: acknowledged and attempted entries
    holder,            \* history: acknowledged claims
    seen,              \* history: what a client last read
    knows, revoked     \* history: data keys each recipient could unwrap

disk    == <<file, survivors>>
daemon  == <<proc, open>>
history == <<acked, tried, holder, seen, knows, revoked>>
vars    == <<file, survivors, proc, open, now, faults, reply,
             acked, tried, holder, seen, knows, revoked>>

Contents ==
    [dek     : Deks,
     wraps   : UNION {[S -> Deks] : S \in SUBSET Recipients},
     entries : [Keys -> Option(VaultEntries)]]

ASSUME VaultConstants ==
    /\ None \notin Contents /\ Torn \notin Contents /\ None # Torn
    /\ None \notin VaultEntries
    /\ ClaimTtls \subseteq Nat

Drafts == [value : Values, guard : Option(Guards), owner : Option(Principals)]

Commits == {"ok", "untouched", "renamed", "died"}

Outs == {"Ok", "Noop", "NotFound", "CasMismatch", "AlreadyClaimed", "ClaimRefused",
         "IoError", "NoReply", "NoMatchingSlot", "DecryptFailed", "LastSlot"}

Reply(op, k, out, token) == [op |-> op, key |-> k, out |-> out, token |-> token]

Silence == Reply("none", None, "Ok", None)

TypeOK ==
    /\ file \in Contents \cup {None, Torn}
    /\ survivors \subseteq Contents \cup {None, Torn} /\ file \in survivors
    /\ proc \in {"Down", "NotInitialized", "Locked", "Open"}
    /\ open \in Option(Contents) /\ (open # None <=> proc = "Open")
    /\ now \in Time /\ faults \in Nat
    /\ reply.out \in Outs
    /\ acked \in [Keys -> Option(VaultEntries)]
    /\ tried \in [Keys -> SUBSET Option(VaultEntries)]

Init ==
    /\ file = None /\ survivors = {None}
    /\ proc = "Down" /\ open = None
    /\ now = 0 /\ faults = 0
    /\ reply = Silence
    /\ acked = [k \in Keys |-> None] /\ tried = [k \in Keys |-> {}]
    /\ holder = [k \in Keys |-> None]
    /\ seen = [k \in Keys |-> None]
    /\ knows = [r \in Recipients |-> {}] /\ revoked = {}

-----------------------------------------------------------------------------
(* The process *)

Tick ==
    /\ now < MaxTime
    /\ now' = now + 1
    /\ reply' = Silence
    /\ UNCHANGED <<disk, daemon, faults, history>>

(***************************************************************************)
(* VaultState::open_at: no file is a state of its own, a file that does    *)
(* not parse keeps the daemon from starting.                               *)
(***************************************************************************)
Start ==
    /\ proc = "Down" /\ file # Torn
    /\ proc' = IF file = None THEN "NotInitialized" ELSE "Locked"
    /\ reply' = Silence
    /\ UNCHANGED <<disk, open, now, faults, history>>

Crash ==
    /\ proc # "Down"
    /\ proc' = "Down" /\ open' = None
    /\ reply' = Silence
    /\ UNCHANGED <<disk, now, faults, history>>

(***************************************************************************)
(* The machine goes down, its clients with it.                             *)
(***************************************************************************)
PowerLoss ==
    /\ faults < MaxFaults /\ faults' = faults + 1
    /\ \E f \in survivors : file' = f /\ survivors' = {f}
    /\ proc' = "Down" /\ open' = None
    /\ seen' = [k \in Keys |-> None]
    /\ reply' = Silence
    /\ UNCHANGED <<now, acked, tried, holder, knows, revoked>>

Opens(r) == r \in DOMAIN file.wraps

(***************************************************************************)
(* A version means something as long as its entry exists.                  *)
(***************************************************************************)
StillThere(contents) ==
    [k \in Keys |-> IF contents.entries[k] = None THEN None ELSE seen[k]]

(***************************************************************************)
(* VaultState::unlock re-reads the file; a credential that fails leaves    *)
(* the state as it was.                                                    *)
(***************************************************************************)
Unlock(r) ==
    /\ proc = "Locked"
    /\ IF Opens(r) /\ file.wraps[r] = file.dek
       THEN /\ proc' = "Open" /\ open' = file /\ seen' = StillThere(file)
            /\ reply' = Reply("unlock", None, "Ok", None)
       ELSE /\ reply' = Reply("unlock", None,
                              IF Opens(r) THEN "DecryptFailed" ELSE "NoMatchingSlot", None)
            /\ UNCHANGED <<daemon, seen>>
    /\ UNCHANGED <<disk, now, faults, acked, tried, holder, knows, revoked>>

Lock ==
    /\ proc = "Open"
    /\ proc' = "Locked" /\ open' = None
    /\ reply' = Reply("lock", None, "Ok", None)
    /\ UNCHANGED <<disk, now, faults, history>>

(***************************************************************************)
(* A graceful restart hands the data key over; the successor opens the     *)
(* file with it, or stays locked (unlock_with_dek).                        *)
(***************************************************************************)
HandOver ==
    /\ proc = "Open"
    /\ IF file.dek = open.dek
       THEN open' = file /\ proc' = "Open" /\ seen' = StillThere(file)
       ELSE open' = None /\ proc' = "Locked" /\ UNCHANGED seen
    /\ reply' = Reply("unlock_with_dek", None, "Ok", None)
    /\ UNCHANGED <<disk, now, faults, acked, tried, holder, knows, revoked>>

-----------------------------------------------------------------------------
(* Writing *)

\* Slip: the directory is not synced.
CommitUnsynced(c, new) ==
    /\ file' = IF c = "untouched" THEN file ELSE new
    /\ survivors' = IF c = "untouched" THEN survivors ELSE survivors \cup {new}
    /\ open' = CASE c = "ok" -> new
                 [] c = "died" -> None
                 [] OTHER -> open
    /\ proc' = IF c = "died" THEN "Down" ELSE "Open"

\* Slip: the open vault is changed before the write is known to have worked.
CommitInstallsFirst(c, new) ==
    /\ file' = IF c = "untouched" THEN file ELSE new
    /\ survivors' = CASE c = "ok" -> {new}
                      [] c = "untouched" -> survivors
                      [] OTHER -> survivors \cup {new}
    /\ open' = IF c = "died" THEN None ELSE new
    /\ proc' = IF c = "died" THEN "Down" ELSE "Open"

(***************************************************************************)
(* commit: write a temporary file, rename it over the vault, sync the      *)
(* directory; only then is the open vault replaced.  It may fail before    *)
(* the rename or after it, and the process may die after it; dying before  *)
(* it is Crash.                                                            *)
(***************************************************************************)
Commit(c, new) ==
    /\ file' = IF c = "untouched" THEN file ELSE new
    /\ survivors' = CASE c = "ok" -> {new}
                      [] c = "untouched" -> survivors
                      [] OTHER -> survivors \cup {new}
    /\ open' = CASE c = "ok" -> new
                 [] c = "died" -> None
                 [] OTHER -> open
    /\ proc' = IF c = "died" THEN "Down" ELSE "Open"

(***************************************************************************)
(* The bound on what goes wrong; c is how this commit ends.                *)
(***************************************************************************)
Counts(c) ==
    IF c = "ok" THEN UNCHANGED faults
    ELSE faults < MaxFaults /\ faults' = faults + 1

OutOf(c) == CASE c = "ok" -> "Ok" [] c = "died" -> "NoReply" [] OTHER -> "IoError"

Fresh(d) == \A r \in Recipients : d \notin knows[r]

Learn(new) ==
    knows' = [r \in Recipients |->
                 IF r \in DOMAIN new.wraps THEN knows[r] \cup {new.wraps[r]} ELSE knows[r]]

(***************************************************************************)
(* initialize and create_new: the file is created exclusively and removed  *)
(* again if writing it fails; a crash in between can leave half a file.    *)
(***************************************************************************)
Initialize(r, d, c) ==
    LET new == [dek |-> d, wraps |-> [x \in {r} |-> d], entries |-> [k \in Keys |-> None]]
    IN
    /\ proc = "NotInitialized" /\ c # "renamed"
    /\ Counts(c)
    /\ CASE c = "ok" ->
              /\ file' = new /\ survivors' = {new} /\ proc' = "Open" /\ open' = new
              /\ Learn(new)
         [] c = "died" ->
              /\ file' \in {Torn, new} /\ survivors' = {None, Torn, new}
              /\ proc' = "Down" /\ Learn(new) /\ UNCHANGED open
         [] OTHER -> UNCHANGED <<disk, daemon, knows>>
    /\ reply' = Reply("initialize", None, OutOf(c), None)
    /\ UNCHANGED <<now, acked, tried, holder, seen, revoked>>

(***************************************************************************)
(* Every mutation of an entry: the result r is committed, and acknowledged *)
(* if the commit returned.                                                 *)
(***************************************************************************)
Mutate(op, k, r, token, c) ==
    /\ proc = "Open"
    /\ Counts(c)
    /\ IF r.out = "Ok"
       THEN /\ Commit(c, [open EXCEPT !.entries[k] = r.entry])
            /\ reply' = Reply(op, k, OutOf(c), token)
            /\ acked' = IF c = "ok" THEN [acked EXCEPT ![k] = r.entry] ELSE acked
            /\ tried' = CASE c = "ok" -> [tried EXCEPT ![k] = {}]
                          [] c = "untouched" -> tried
                          [] OTHER -> [tried EXCEPT ![k] = @ \cup {r.entry}]
       ELSE /\ c = "ok"
            /\ reply' = Reply(op, k, r.out, token)
            /\ UNCHANGED <<disk, daemon, acked, tried>>
    /\ UNCHANGED <<now, knows, revoked>>

EndsClaim(k, r) ==
    holder' = IF r.out = "Ok" THEN [holder EXCEPT ![k] = None] ELSE holder

CanWrite(k) == proc = "Open" /\ CurrentVersion(open.entries[k]) < MaxVersion

DoUpsert(k, new, token, c) ==
    LET r == Upsert(open.entries[k], new, token, now) IN
    /\ CanWrite(k)
    /\ Mutate("upsert", k, r, token, c)
    /\ EndsClaim(k, r)
    /\ UNCHANGED seen

DoUpsertCas(k, new, expected, token, c) ==
    LET r == UpsertCas(open.entries[k], new, expected, token, now) IN
    /\ CanWrite(k)
    /\ Mutate("upsert_cas", k, r, token, c)
    /\ EndsClaim(k, r)
    /\ UNCHANGED seen

DoClaimRefresh(k, expected, token, ttl, c) ==
    LET r == ClaimRefresh(open.entries[k], expected, token, now + ttl, now) IN
    /\ proc = "Open"
    /\ \A j \in Keys : open.entries[j] # None /\ open.entries[j].claim # None
                          => open.entries[j].claim.token # token
    /\ Mutate("claim_refresh", k, r, token, c)
    /\ holder' = IF r.out = "Ok" /\ c = "ok"
                 THEN [holder EXCEPT ![k] = [token |-> token, expires_at |-> now + ttl]]
                 ELSE holder
    /\ UNCHANGED seen

DoReleaseClaim(k, token, c) ==
    LET r == ReleaseClaim(open.entries[k], token, now) IN
    /\ proc = "Open"
    /\ Mutate("release_claim", k, r, token, c)
    /\ EndsClaim(k, r)
    /\ UNCHANGED seen

DoDelete(k, c) ==
    LET r == DeleteEntry(open.entries[k]) IN
    /\ proc = "Open"
    /\ Mutate("delete", k, r, None, c)
    /\ EndsClaim(k, r)
    /\ seen' = IF r.out = "Ok" /\ c # "untouched" THEN [seen EXCEPT ![k] = None] ELSE seen

(***************************************************************************)
(* entry: a client reads the value and its version.                        *)
(***************************************************************************)
Read(k) ==
    /\ proc = "Open"
    /\ seen' = [seen EXCEPT ![k] = IF open.entries[k] = None THEN None
                                   ELSE [value   |-> open.entries[k].value,
                                         version |-> open.entries[k].version]]
    /\ reply' = Reply("entry", k, "Ok", None)
    /\ UNCHANGED <<disk, daemon, now, faults, acked, tried, holder, knows, revoked>>

-----------------------------------------------------------------------------
(* Recipients *)

CommitKeys(op, new, c) ==
    /\ Counts(c)
    /\ Commit(c, new)
    /\ IF c = "untouched" THEN UNCHANGED knows ELSE Learn(new)
    /\ reply' = Reply(op, None, OutOf(c), None)
    /\ UNCHANGED <<now, acked, tried, holder, seen>>

(***************************************************************************)
(* add_recovery_slot, add_passkey_slot: the current key is wrapped for one *)
(* more recipient.                                                         *)
(***************************************************************************)
AddSlot(r, c) ==
    /\ proc = "Open" /\ knows[r] = {}
    /\ CommitKeys("add_slot",
                  [open EXCEPT !.wraps = [x \in DOMAIN @ \cup {r} |->
                                             IF x = r THEN open.dek ELSE @[x]]], c)
    /\ UNCHANGED revoked

\* Slip: the body keeps its key and the recipient is only dropped.
RotateNothing(members, d) ==
    [open EXCEPT !.wraps = [x \in members |-> open.dek]]

\* Slip: a new key for the body, the old wraps kept.
RotateUnwrapped(members, d) ==
    [open EXCEPT !.dek = d, !.wraps = [x \in members |-> @[x]]]

(***************************************************************************)
(* rotate_onto: a new data key, wrapped for exactly the given recipients.  *)
(***************************************************************************)
RotateOnto(members, d) ==
    [open EXCEPT !.dek = d, !.wraps = [x \in members |-> d]]

RotateDek(d, c) ==
    /\ proc = "Open" /\ Fresh(d)
    /\ CommitKeys("rotate_dek", RotateOnto(DOMAIN open.wraps, d), c)
    /\ UNCHANGED revoked

RemoveSlot(r, d, c) ==
    /\ proc = "Open" /\ Fresh(d) /\ r \in DOMAIN open.wraps
    /\ IF DOMAIN open.wraps = {r}
       THEN /\ c = "ok"
            /\ reply' = Reply("remove_slot", None, "LastSlot", None)
            /\ UNCHANGED <<disk, daemon, now, faults, history>>
       ELSE /\ CommitKeys("remove_slot", RotateOnto(DOMAIN open.wraps \ {r}, d), c)
            /\ revoked' = IF c = "ok" THEN revoked \cup {r} ELSE revoked

-----------------------------------------------------------------------------

Next ==
    \/ Tick \/ Start \/ Crash \/ PowerLoss \/ Lock \/ HandOver
    \/ \E r \in Recipients : Unlock(r)
    \/ \E c \in Commits :
        \/ \E r \in Recipients, d \in Deks : Fresh(d) /\ Initialize(r, d, c)
        \/ \E r \in Recipients : AddSlot(r, c)
        \/ \E d \in Deks : RotateDek(d, c)
        \/ \E r \in Recipients, d \in Deks : RemoveSlot(r, d, c)
        \/ \E k \in Keys :
            \/ \E new \in Drafts, token \in Option(Tokens) : DoUpsert(k, new, token, c)
            \/ \E new \in Drafts, expected \in 0..MaxVersion, token \in Option(Tokens) :
                   DoUpsertCas(k, new, expected, token, c)
            \/ \E expected \in 0..MaxVersion, token \in Tokens, ttl \in ClaimTtls :
                   DoClaimRefresh(k, expected, token, ttl, c)
            \/ \E token \in Tokens : DoReleaseClaim(k, token, c)
            \/ DoDelete(k, c)
    \/ \E k \in Keys : Read(k)

Spec == Init /\ [][Next]_vars

-----------------------------------------------------------------------------
(* Properties *)

Parses(f) == f # None /\ f # Torn

(***************************************************************************)
(* What was acknowledged is on disk, whatever crashes, power losses and    *)
(* failing writes came since: of every key a reopened vault shows the last *)
(* acknowledged entry, or one a later call tried to write without getting  *)
(* an answer it could trust.  (vault.rs "Every mutation commits"; storage  *)
(* .rs commit)                                                             *)
(***************************************************************************)
AcknowledgedSurvives ==
    \A f \in survivors, k \in Keys :
        IF Parses(f) THEN f.entries[k] \in {acked[k]} \cup tried[k] ELSE acked[k] = None

(***************************************************************************)
(* A compare-and-swap that succeeds replaces the very value its caller     *)
(* read, even when writes failed, the daemon died or the vault was closed  *)
(* and reopened since the read.  (vault.rs upsert_cas, write_entry; commit *)
(* before install)                                                         *)
(***************************************************************************)
NoLostUpdate ==
    [][\A k \in Keys :
          (/\ reply'.op = "upsert_cas" /\ reply'.key = k /\ reply'.out = "Ok"
           /\ seen[k] # None /\ acked'[k].version = seen[k].version + 1)
             => open.entries[k] # None /\ open.entries[k].value = seen[k].value]_vars

(***************************************************************************)
(* Until an acknowledged claim lapses, or its holder writes or gives it    *)
(* up, nobody else writes the entry or claims it, across restarts too.     *)
(* (vault.rs check_claim, claim_refresh)                                   *)
(***************************************************************************)
ClaimFenced ==
    [][\A k \in Keys :
          (/\ reply'.op \in {"upsert", "upsert_cas", "claim_refresh"}
           /\ reply'.key = k /\ reply'.out = "Ok"
           /\ holder[k] # None /\ now < holder[k].expires_at)
             => reply'.token = holder[k].token]_vars

(***************************************************************************)
(* Every file a crash can leave opens for every recipient it lists.        *)
(* (vault.rs rotate_onto, remove_slot LastSlot)                            *)
(***************************************************************************)
EveryRecipientOpens ==
    \A f \in survivors :
        Parses(f) => /\ DOMAIN f.wraps # {}
                        /\ \A r \in DOMAIN f.wraps : f.wraps[r] = f.dek

(***************************************************************************)
(* Once a removal is acknowledged, no file is ever sealed again with a key *)
(* the removed recipient could have unwrapped, whatever failed before.     *)
(* (vault.rs remove_slot "Removal always rotates")                         *)
(***************************************************************************)
RemovalIsFinal ==
    \A f \in survivors, r \in revoked : Parses(f) => f.dek \notin knows[r]

=============================================================================
