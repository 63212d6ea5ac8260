-------------------------------- MODULE Store -------------------------------
(***************************************************************************)
(* The secret store of crates/cache-warden/src/store.rs as a state         *)
(* machine: any sequence of calls of its lifecycle methods, on a clock     *)
(* that also moves while a call waits for an upstream command or for the   *)
(* user's approval.  A call has exclusive use of the store (&mut self), so *)
(* it is one step.  The calls that only write a side map (guards, owners,  *)
(* versions, claims) are composed into request handlers in Daemon.         *)
(*                                                                         *)
(* life and failed are history variables: what the caller of the load was  *)
(* promised, and when the last upstream run failed.  No method reads them. *)
(***************************************************************************)
EXTENDS StoreOps

CONSTANTS
    Keys,
    Ttls,        \* lifetimes callers ask for
    PinLengths,  \* pin durations callers ask for
    MaxTime,     \* the clock stops here
    MaxDelay     \* the longest a prompt or a command takes

ASSUME TtlsAreValid    == Ttls \subseteq Ttl /\ \A ttl \in Ttls : TtlIsValid(ttl)
ASSUME PinLengthsAreDurations == PinLengths \subseteq Nat
ASSUME BoundsAreTimes  == MaxTime \in Nat /\ MaxDelay \in Nat
ASSUME NoneIsNoKey     == None \notin Keys

VARIABLES
    slots,    \* the store, key by key
    now,      \* the monotonic clock
    reply,    \* what the last call returned and did
    life,     \* history: the promise made for the resident value
    failed    \* history: when the last upstream run of the key failed

vars == <<slots, now, reply, life, failed>>

Ops == {"none", "set", "get", "state_of", "extend", "extend_authenticated",
        "pin_authenticated", "unpin", "regenerate", "get_or_regenerate",
        "define", "undefine", "delete", "delete_with_definition"}

Outs == {"Ok", "NotFound", "HardExpired", "AuthFailed", "Backoff", "Undefined",
         "NotRegenerable", "NotHardExpired", "ValueResident", "RunFailed",
         "Conflict"}

Replies ==
    [op : Ops, key : Option(Keys), out : Outs, value : Option(Values), ran : BOOLEAN]

NoReply == [op |-> "none", key |-> None, out |-> "Ok", value |-> None, ran |-> FALSE]

Reply(op, k, out) == [NoReply EXCEPT !.op = op, !.key = k, !.out = out]

Lives ==
    [ttl : Ttl, birth : Time, approved : Time, granted : Option(Time)]

NewLife(ttl, t) == [ttl |-> ttl, birth |-> t, approved |-> t, granted |-> None]

TypeOK ==
    /\ slots \in [Keys -> Slots]
    /\ now \in Time
    /\ reply \in Replies
    /\ life \in [Keys -> Option(Lives)]
    /\ failed \in [Keys -> Option(Time)]

Init ==
    /\ slots = [k \in Keys |-> EmptySlot]
    /\ now = 0
    /\ reply = NoReply
    /\ life = [k \in Keys |-> None]
    /\ failed = [k \in Keys |-> None]

-----------------------------------------------------------------------------

(***************************************************************************)
(* The clock readings at which a call entered now can come to its end.     *)
(***************************************************************************)
Later == {t \in now..MaxTime : t <= now + MaxDelay}

Tick ==
    /\ now < MaxTime
    /\ now' = now + 1
    /\ reply' = NoReply
    /\ UNCHANGED <<slots, life, failed>>

DoSet(k, source, value, ttl) ==
    /\ slots' = [slots EXCEPT ![k] = Set(@, source, value, ttl, now)]
    /\ life' = [life EXCEPT ![k] = NewLife(ttl, now)]
    /\ reply' = Reply("set", k, "Ok")
    /\ UNCHANGED <<now, failed>>

(***************************************************************************)
(* Store::get hands out the value of an Active entry, and only that.       *)
(***************************************************************************)
DoGet(k) ==
    /\ slots' = [slots EXCEPT ![k] = Evaluated(@, now)]
    /\ reply' = [Reply("get", k, "Ok") EXCEPT
                    !.value = IF Readable(slots[k], now) THEN slots[k].entry.value ELSE None]
    /\ UNCHANGED <<now, life, failed>>

DoStateOf(k) ==
    /\ slots' = [slots EXCEPT ![k] = Evaluated(@, now)]
    /\ reply' = Reply("state_of", k, "Ok")
    /\ UNCHANGED <<now, life, failed>>

DoExtend(k) ==
    LET r == Extend(slots[k], now) IN
    /\ slots' = [slots EXCEPT ![k] = r.slot]
    /\ life' = IF r.out = "Ok" THEN [life EXCEPT ![k].approved = now] ELSE life
    /\ reply' = Reply("extend", k, r.out)
    /\ UNCHANGED <<now, failed>>

DoExtendAuthenticated(k, auth, t1) ==
    LET prompted == StateOf(slots[k], now) = "SoftExpired"
        r == ExtendAuthenticated(slots[k], auth, now, t1)
    IN
    /\ now' = IF prompted THEN t1 ELSE now
    /\ slots' = [slots EXCEPT ![k] = r.slot]
    /\ life' = IF r.out = "Ok" THEN [life EXCEPT ![k].approved = now'] ELSE life
    /\ reply' = Reply("extend_authenticated", k, r.out)
    /\ UNCHANGED failed

(***************************************************************************)
(* The deadline is fixed by the caller before the prompt (handle_pin).     *)
(***************************************************************************)
DoPinAuthenticated(k, length, auth, t1) ==
    LET prompted == StateOf(slots[k], now) \in {"Active", "SoftExpired"}
        r == PinAuthenticated(slots[k], now + length, auth, now, t1)
    IN
    /\ now' = IF prompted THEN t1 ELSE now
    /\ slots' = [slots EXCEPT ![k] = r.slot]
    /\ life' = IF r.out = "Ok" THEN [life EXCEPT ![k].granted = now + length] ELSE life
    /\ reply' = Reply("pin_authenticated", k, r.out)
    /\ UNCHANGED failed

DoUnpin(k) ==
    /\ slots' = [slots EXCEPT ![k] = Unpin(@)]
    /\ life' = IF slots[k].entry = None THEN life ELSE [life EXCEPT ![k].granted = None]
    /\ reply' = Reply("unpin", k, IF slots[k].entry = None THEN "NotFound" ELSE "Ok")
    /\ UNCHANGED <<now, failed>>

DoDelete(k) ==
    /\ slots' = [slots EXCEPT ![k] = Delete(@)]
    /\ life' = [life EXCEPT ![k] = None]
    /\ reply' = Reply("delete", k, "Ok")
    /\ UNCHANGED <<now, failed>>

DoDeleteWithDefinition(k) ==
    /\ slots' = [slots EXCEPT ![k] = DeleteWithDefinition(@)]
    /\ life' = [life EXCEPT ![k] = None]
    /\ failed' = [failed EXCEPT ![k] = None]
    /\ reply' = Reply("delete_with_definition", k, "Ok")
    /\ UNCHANGED now

DoDefine(k, def) ==
    LET r == Define(slots[k], def) IN
    /\ slots' = [slots EXCEPT ![k] = r.slot]
    /\ reply' = Reply("define", k, r.out)
    /\ UNCHANGED <<now, life, failed>>

DoUndefine(k) ==
    /\ slots' = [slots EXCEPT ![k] = Undefine(@)]
    /\ reply' = Reply("undefine", k, "Ok")
    /\ UNCHANGED <<now, life, failed>>

(***************************************************************************)
(* What the two upstream paths share: r is the method's result, ttl the    *)
(* lifetime it gave a fresh value.  The command ran if the method got as   *)
(* far as its result.                                                      *)
(***************************************************************************)
UpstreamRan(r) == r.out \in {"Ok", "RunFailed", "AuthFailed"}

Upstream(op, k, r, ttl, t1) ==
    /\ now' = IF UpstreamRan(r) THEN t1 ELSE now
    /\ slots' = [slots EXCEPT ![k] = r.slot]
    /\ life' = IF r.out = "Ok" THEN [life EXCEPT ![k] = NewLife(ttl, t1)] ELSE life
    /\ failed' = IF r.out = "RunFailed" THEN [failed EXCEPT ![k] = t1] ELSE failed
    /\ reply' = [Reply(op, k, r.out) EXCEPT !.ran = UpstreamRan(r)]

DoRegenerate(k, run, auth, t1) ==
    Upstream("regenerate", k, Regenerate(slots[k], run, auth, now, t1),
             slots[k].entry.ttl, t1)

DoGetOrRegenerate(k, run, auth, t1) ==
    Upstream("get_or_regenerate", k, GetOrRegenerate(slots[k], run, auth, now, t1),
             slots[k].def.ttl, t1)

Next ==
    \/ Tick
    \/ \E k \in Keys :
        \/ \E src \in Sources \cup {Static}, v \in Values, ttl \in Ttls : DoSet(k, src, v, ttl)
        \/ DoGet(k)
        \/ DoStateOf(k)
        \/ DoExtend(k)
        \/ \E auth \in BOOLEAN, t1 \in Later : DoExtendAuthenticated(k, auth, t1)
        \/ \E len \in PinLengths, auth \in BOOLEAN, t1 \in Later :
               DoPinAuthenticated(k, len, auth, t1)
        \/ DoUnpin(k)
        \/ DoDelete(k)
        \/ DoDeleteWithDefinition(k)
        \/ \E src \in Sources, ttl \in Ttls : DoDefine(k, [source |-> src, ttl |-> ttl])
        \/ DoUndefine(k)
        \/ \E run \in Option(Values), auth \in BOOLEAN, t1 \in Later :
               DoRegenerate(k, run, auth, t1)
        \/ \E run \in Option(Values), auth \in BOOLEAN, t1 \in Later :
               DoGetOrRegenerate(k, run, auth, t1)

Spec == Init /\ [][Next]_vars

(***************************************************************************)
(* Time passes whether or not anybody calls the store.                     *)
(***************************************************************************)
FairSpec == Spec /\ WF_vars(Tick)

-----------------------------------------------------------------------------
(* Properties *)

(***************************************************************************)
(* Until when the resident value of k may be handed out: through its hard  *)
(* life counted from the load, as long as the last approval is no older    *)
(* than the soft life, or under a pin the user granted.                    *)
(***************************************************************************)
Promised(l, t) ==
    \/ l.granted # None /\ t < l.granted
    \/ /\ l.ttl.hard # None => t < l.birth + l.ttl.hard
       /\ l.ttl.soft # None => t < l.approved + l.ttl.soft

(***************************************************************************)
(* A secret is never handed out beyond what its load, the user's approvals *)
(* and the pins granted for this very value allow, whatever was extended,  *)
(* pinned, unpinned, deleted, redefined or regenerated in between.         *)
(* (store.rs get, entry.rs state/extend/pin_until)                         *)
(***************************************************************************)
ReleasedAsPromised ==
    reply.value # None => life[reply.key] \in Lives /\ Promised(life[reply.key], now)

LoadOps == {"set", "regenerate", "get_or_regenerate"}

Loaded(k) == reply'.key = k /\ reply'.op \in LoadOps /\ reply'.out = "Ok"

(***************************************************************************)
(* Hard expiry is final: a value that has reached its hard limit, even one *)
(* that reached it while the user was looking at a prompt and even one     *)
(* nobody has read since, never becomes usable again; only a new load can  *)
(* make the key usable.  (entry.rs evaluate, extend, pin_until)            *)
(***************************************************************************)
ExpiryIsFinal ==
    [][\A k \in Keys :
          (StateOf(slots[k], now') = "HardExpired" /\ ~Loaded(k))
             => StateOf(slots'[k], now') \in {"HardExpired", "Absent"}]_vars

Rank(s, t) == CASE StateOf(s, t) = "Active"      -> 2
                [] StateOf(s, t) = "SoftExpired" -> 1
                [] OTHER                         -> 0

(***************************************************************************)
(* A call that is refused, by the user, by a failing command or by the     *)
(* store itself, never leaves any key more readable than it found it.      *)
(* (store.rs regenerate, get_or_regenerate, pin_authenticated,             *)
(* extend_authenticated: "leaves the store unchanged" on an error)         *)
(***************************************************************************)
RefusalGrantsNothing ==
    [][reply'.out # "Ok" =>
          \A k \in Keys : Rank(slots'[k], now') <= Rank(slots[k], now')]_vars

(***************************************************************************)
(* No upstream command runs within FailureBackoff of the key's last failed *)
(* run, unless the key was forgotten altogether in between: neither a new  *)
(* value, nor deleting it, nor dropping and re-entering the definition     *)
(* reopens the door.  (store.rs failure_backoff_remaining)                 *)
(***************************************************************************)
BackoffHonoured ==
    [][reply'.ran => \/ failed[reply'.key] = None
                     \/ now >= failed[reply'.key] + FailureBackoff]_vars

(***************************************************************************)
(* An upstream command runs only for a key without a usable value: a value *)
(* that merely needs re-approval is never thrown away or fetched again.    *)
(* (store.rs get_or_regenerate ValueResident, regenerate NotHardExpired)   *)
(***************************************************************************)
UpstreamOnlyWhenNeeded ==
    [][reply'.ran =>
          StateOf(slots[reply'.key], now) \in {"Absent", "HardExpired"}]_vars

Overdue(k) == StateOf(slots[k], now) = "HardExpired" /\ slots[k].entry.value # None

(***************************************************************************)
(* The documents' promise that a value past its hard limit is destroyed on *)
(* its schedule, read or not.  (docs/DESIGN.md:28; entry.rs evaluate       *)
(* destroys it when the entry is next looked at)                           *)
(***************************************************************************)
DestroyedOnSchedule == \A k \in Keys : Overdue(k) ~> ~Overdue(k)

-----------------------------------------------------------------------------
(* The inductive invariant *)

(***************************************************************************)
(* A slot's entry carries exactly the promise recorded for it ...          *)
(***************************************************************************)
Tracks(s, l) ==
    s.entry # None =>
        /\ l \in Lives
        /\ s.entry.ttl = l.ttl
        /\ s.entry.loaded_at = l.birth
        /\ s.entry.extended_at = l.approved
        /\ s.entry.pin = l.granted

(***************************************************************************)
(* ... and a failed run is remembered until its backoff is over.           *)
(***************************************************************************)
Remembers(s, f, t) ==
    f # None =>
        /\ f <= t
        /\ \/ t >= f + FailureBackoff
           \/ s.backoff = [failed_at |-> f, retry_after |-> FailureBackoff]

(***************************************************************************)
(* The store's bookkeeping agrees with its history: the fields the expiry  *)
(* rules read are the times of the load, of the last approval and of the   *)
(* last granted pin of the value they sit beside, through husks, redefined *)
(* keys and overwritten values; and the one backoff record stands for the  *)
(* last failure.  (store.rs set, regenerate, get_or_regenerate, delete)    *)
(***************************************************************************)
Bookkeeping ==
    \A k \in Keys : Tracks(slots[k], life[k]) /\ Remembers(slots[k], failed[k], now)

IInv == TypeOK /\ Bookkeeping

=============================================================================
