------------------------------ MODULE VaultOps ------------------------------
(***************************************************************************)
(* What the methods of UnlockedVault (crates/cache-warden-vault/src/       *)
(* vault.rs) do to one entry, before anything is written.  An operator     *)
(* maps the entry a key has, or None, to [entry, out]: out is "Ok" when    *)
(* the new entry has to be committed, "Noop" when the method succeeds      *)
(* without writing, and the error otherwise.                               *)
(*                                                                         *)
(* An entry shares its value, guard, owner, version and claim with a slot  *)
(* of the store.  Its soft TTL (definition.soft_ttl_ms) is read on restore *)
(* and written nowhere, so it is always absent.                            *)
(***************************************************************************)
EXTENDS StoreOps

VaultEntries ==
    [value   : Values,
     version : Nat,
     guard   : Option(Guards),
     owner   : Option(Principals),
     claim   : Option(RefreshClaims)]

Outcome(entry, out) == [entry |-> entry, out |-> out]

(***************************************************************************)
(* A missing entry counts as version 0.                                    *)
(***************************************************************************)
CurrentVersion(e) == IF e = None THEN 0 ELSE e.version

\* Slip: the fence looks at the version only.
ClaimAllowsAll(e, token, now) == TRUE

(***************************************************************************)
(* check_claim: an active claim demands its own token, a lapsed one        *)
(* demands nothing.                                                        *)
(***************************************************************************)
ClaimAllows(e, token, now) ==
    (e # None /\ ClaimActive(e, now)) => token = e.claim.token

(***************************************************************************)
(* write_entry: the one place that assigns a version; a write ends the     *)
(* claim.  new holds the value, guard and owner to write.                  *)
(***************************************************************************)
WriteEntry(e, new) ==
    [value |-> new.value, guard |-> new.guard, owner |-> new.owner,
     version |-> CurrentVersion(e) + 1, claim |-> None]

Upsert(e, new, token, now) ==
    IF ClaimAllows(e, token, now) THEN Outcome(WriteEntry(e, new), "Ok")
    ELSE Outcome(e, "ClaimRefused")

UpsertCas(e, new, expected, token, now) ==
    IF CurrentVersion(e) # expected THEN Outcome(e, "CasMismatch")
    ELSE Upsert(e, new, token, now)

ClaimRefresh(e, expected, token, expires_at, now) ==
    CASE e = None -> Outcome(e, "NotFound")
      [] e # None /\ e.version # expected -> Outcome(e, "CasMismatch")
      [] OTHER -> IF ClaimActive(e, now) THEN Outcome(e, "AlreadyClaimed")
                  ELSE Outcome([e EXCEPT !.claim = [token |-> token, expires_at |-> expires_at]],
                               "Ok")

ReleaseClaim(e, token, now) ==
    CASE e = None -> Outcome(e, "NotFound")
      [] e # None /\ ClaimActive(e, now) /\ token # e.claim.token
                  -> Outcome(e, "ClaimRefused")
      [] OTHER -> IF e.claim = None THEN Outcome(e, "Noop")
                  ELSE Outcome([e EXCEPT !.claim = None], "Ok")

\* Slip: a delete that keeps the entry and empties it.
DeleteEntryHusk(e) ==
    IF e = None THEN Outcome(e, "Noop") ELSE Outcome([e EXCEPT !.value = None], "Ok")

DeleteEntry(e) == IF e = None THEN Outcome(e, "Noop") ELSE Outcome(None, "Ok")

=============================================================================
