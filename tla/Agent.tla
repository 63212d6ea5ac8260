-------------------------------- MODULE Agent --------------------------------
(***************************************************************************)
(* The ssh-agent adapter (crates/cache-warden-cli/src/daemon/authsock.rs): *)
(* sockets that sign with keys 1Password holds and with keys of the        *)
(* configuration.                                                          *)
(*                                                                         *)
(* A socket serves at once what the cache on disk knew, while a background *)
(* task lists what 1Password holds, source by source, saves the cache and  *)
(* swaps the registries.  Beside it guards change through the control      *)
(* socket, and a connection the process gate let in signs in steps: a      *)
(* guarded key waits for a dialog.  The sockets have no filter and no      *)
(* upstream agent.                                                         *)
(***************************************************************************)
EXTENDS Naturals, FiniteSets

CONSTANTS
    Blobs,         \* public keys
    Items,         \* items of 1Password; an item is also its key in the store
    Sources,       \* [authsock.sources.*]
    Covers,        \* Covers[s]: the items in the account and vaults of source s
    Sockets,       \* [authsock.sockets.*] with a source
    SourceOf,      \* SourceOf[k]: the source of socket k
    Locals,        \* the keys of the configuration
    LocalOf,       \* LocalOf[k]: the public keys of those of socket k, by public key
    Conns,         \* connections
    SocketOf,      \* SocketOf[c]: the socket connection c came in on
    Held,          \* what 1Password holds at first
    MaxMoves,      \* changes in 1Password in one behaviour
    MaxGuards,     \* changes of guards in one behaviour
    MaxFaults,     \* crashes and failed writes in one behaviour
    MaxRequests,   \* requests to sign in one behaviour
    None

Keys == Items \cup Locals

Registries == [Blobs -> Keys \cup {None}]

ASSUME AgentConstants ==
    /\ Covers \in [Sources -> SUBSET Items] /\ SourceOf \in [Sockets -> Sources]
    /\ LocalOf \in [Sockets -> Registries]
    /\ SocketOf \in [Conns -> Sockets] /\ Held \in [Items -> Blobs \cup {None}]
    /\ None \notin Keys \cup Blobs

VARIABLES
    held,          \* what 1Password holds: the public key of each item
    up,            \* the sources for which `op` answers
    cache,         \* op_map.json
    base, live,    \* SocketState.registry, and the part of it that never changes
    task, applied, \* op_discovery_refresh
    guard,         \* the guards in the store, as the peer meets them
    conn,          \* what each connection is doing
    count,         \* how much of each bound is used up
    seen           \* history: since the approval, the socket served the approved key

world    == <<held, up>>
sockets  == <<base, live>>
tasks    == <<cache, task, applied>>
vars     == <<world, tasks, sockets, guard, conn, count, seen>>

Spend(what, bound) == count[what] < bound /\ count' = [count EXCEPT ![what] = @ + 1]

-----------------------------------------------------------------------------
(* op_discovery.rs, registry.rs *)

Entries == [item : Items, blob : Blobs]

\* Keys are de-duplicated by fingerprint: one item for each public key.
OnePerBlob(es) ==
    {l \in SUBSET es : \A e \in es : Cardinality({f \in l : f.blob = e.blob}) = 1}

\* discover_keys: what a list of source s may return.
Listings(s) ==
    OnePerBlob({e \in Entries : e.item \in Covers[s] /\ held[e.item] = e.blob})

\* seed_from_cache.
Seeds(s) == OnePerBlob({e \in cache : e.item \in Covers[s]})

\* Slip: the cache of one source replaces the file.
MergeOnly(merged, s, listing) == listing

\* merge_source_cache.
Merge(merged, s, listing) == {e \in merged : e.item \notin Covers[s]} \cup listing

OpRegistryFrom(local, listing) ==
    [b \in Blobs |-> IF \E e \in listing : e.blob = b
                     THEN (CHOOSE e \in listing : e.blob = b).item ELSE local[b]]

-----------------------------------------------------------------------------

Idle == [at |-> "idle", blob |-> None, key |-> None]

NothingFound == [s \in Sources |-> {}]

\* Starting a pass: the sources not yet resolved, and the cache as it is on disk.
Pass(done) ==
    [st |-> "list", todo |-> Sources \ done, merged |-> cache, found |-> NothingFound,
     fresh |-> {}, swaps |-> {}]

(***************************************************************************)
(* A start: the keys of the configuration that are loaded, and the seed.   *)
(***************************************************************************)
Bases ==
    {[k \in Sockets |-> [b \in Blobs |-> IF LocalOf[k][b] \in loaded THEN LocalOf[k][b]
                                         ELSE None]] : loaded \in SUBSET Locals}

Seeded(local) ==
    {[k \in Sockets |-> OpRegistryFrom(local[k], seed[SourceOf[k]])] :
        seed \in {f \in [Sources -> SUBSET cache] : \A s \in Sources : f[s] \in Seeds(s)}}

Init ==
    /\ held = Held /\ up \in SUBSET Sources
    /\ cache \in {{}, {e \in Entries : held[e.item] = e.blob}}
    /\ base \in Bases /\ live \in Seeded(base)
    /\ task = Pass({}) /\ applied = {}
    /\ guard = [k \in Keys |-> "none"]
    /\ conn = [c \in Conns |-> Idle]
    /\ count = [what \in {"moves", "guards", "faults", "requests"} |-> 0]
    /\ seen = [c \in Conns |-> FALSE]

-----------------------------------------------------------------------------
(* The outside: 1Password, its command line, requests that set a guard *)

\* A key is made, replaced, removed or moved to another item.
Move(i) ==
    /\ Spend("moves", MaxMoves)
    /\ \/ \E b \in (Blobs \cup {None}) \ {held[i]} : held' = [held EXCEPT ![i] = b]
       \/ \E j \in Items : /\ held[i] # None /\ held[j] = None
                           /\ held' = [held EXCEPT ![i] = None, ![j] = held[i]]
    /\ UNCHANGED <<up, tasks, sockets, guard, conn>>

\* The user signs in, the network comes back.
OpAnswers(s) ==
    /\ s \notin up /\ up' = up \cup {s}
    /\ UNCHANGED <<held, tasks, sockets, guard, conn, count>>

\* kv.set refuses the namespace of the items.
SetGuard(key) ==
    /\ Spend("guards", MaxGuards)
    /\ \E g \in {"none", "admits", "denies"} \ {guard[key]} : guard' = [guard EXCEPT ![key] = g]
    /\ UNCHANGED <<world, tasks, sockets, conn>>

-----------------------------------------------------------------------------
(* op_discovery_refresh *)

Pending == {SourceOf[k] : k \in Sockets}

(***************************************************************************)
(* discover_all_sources, one source: listed, or `op` does not answer and   *)
(* nothing of it is kept.                                                  *)
(***************************************************************************)
List(s) ==
    /\ task.st = "list" /\ s \in task.todo
    /\ IF s \in up
       THEN \E listing \in Listings(s) :
               task' = [task EXCEPT !.todo = @ \ {s}, !.fresh = @ \cup {s},
                                    !.found[s] = listing,
                                    !.merged = Merge(@, s, listing)]
       ELSE task' = [task EXCEPT !.todo = @ \ {s}]
    /\ UNCHANGED <<world, cache, applied, sockets, guard, conn, count>>

Goes(st) == [task EXCEPT !.st = st]

\* Slip: nothing is applied before every source has answered.
NewlyFreshWhole == IF Pending \subseteq task.fresh \cup applied THEN task.fresh \cap Pending ELSE {}

NewlyFresh == (task.fresh \cap Pending) \ applied

Applies == {k \in Sockets : SourceOf[k] \in NewlyFresh}

(***************************************************************************)
(* The merged cache is written over the old one, if any source answered.   *)
(* Writing empties the file first; it may fail before that or after.       *)
(***************************************************************************)
Listed ==
    /\ task.st = "list" /\ task.todo = {}
    /\ task' = Goes(IF task.fresh = {} THEN "wait" ELSE "save")
    /\ UNCHANGED <<world, cache, applied, sockets, guard, conn, count>>

Save ==
    /\ task.st = "save"
    /\ \/ cache' = {} /\ task' = Goes("write") /\ UNCHANGED count
       \/ Spend("faults", MaxFaults) /\ UNCHANGED cache
          /\ task' = [task EXCEPT !.st = "apply", !.swaps = Applies]
    /\ UNCHANGED <<world, applied, sockets, guard, conn>>

Write ==
    /\ task.st = "write"
    /\ task' = [task EXCEPT !.st = "apply", !.swaps = Applies]
    /\ \/ cache' = task.merged /\ UNCHANGED count
       \/ Spend("faults", MaxFaults) /\ UNCHANGED cache
    /\ UNCHANGED <<world, applied, sockets, guard, conn>>

(***************************************************************************)
(* apply_discovery.                                                        *)
(***************************************************************************)
Apply(k) ==
    /\ task.st = "apply" /\ k \in task.swaps
    /\ live' = [live EXCEPT ![k] = OpRegistryFrom(base[k], task.found[SourceOf[k]])]
    /\ task' = [task EXCEPT !.swaps = @ \ {k}]
    /\ UNCHANGED <<world, cache, applied, base, guard, conn, count>>

Applied ==
    /\ task.st = "apply" /\ task.swaps = {}
    /\ applied' = applied \cup NewlyFresh
    /\ task' = Goes(IF Pending \subseteq applied' THEN "done" ELSE "wait")
    /\ UNCHANGED <<world, cache, sockets, guard, conn, count>>

\* The backoff is over.
Wake ==
    /\ task.st = "wait" /\ task' = Pass(applied)
    /\ UNCHANGED <<world, cache, applied, sockets, guard, conn, count>>

Discovers ==
    \/ \E s \in Sources : List(s)
    \/ Listed \/ Save \/ Write \/ Applied \/ Wake
    \/ \E k \in Sockets : Apply(k)

-----------------------------------------------------------------------------
(* A connection: sign_request *)

Serves(c) == {b \in Blobs : live[SocketOf[c]][b] # None}

Step(c, at) == conn' = [conn EXCEPT ![c].at = at]

Fails(c) == conn' = [conn EXCEPT ![c] = Idle]

\* A blob the socket does not serve is refused at once.
Ask(c, b) ==
    /\ conn[c].at = "idle" /\ b \in Serves(c) /\ Spend("requests", MaxRequests)
    /\ conn' = [conn EXCEPT ![c] = [at |-> "resolve", blob |-> b, key |-> None]]
    /\ UNCHANGED <<world, tasks, sockets, guard>>

Still == UNCHANGED <<world, tasks, sockets, guard, count>>

\* signable_key.
Resolves(c) ==
    IF conn[c].blob = None THEN None ELSE live[SocketOf[c]][conn[c].blob]

(***************************************************************************)
(* local_sign_first_pass: the key is resolved, and then the store locked.  *)
(* A key may have a process policy the peer does not satisfy.              *)
(***************************************************************************)
Resolve(c) ==
    /\ conn[c].at = "resolve"
    /\ \/ Resolves(c) # None
          /\ conn' = [conn EXCEPT ![c].at = "first", ![c].key = Resolves(c)]
       \/ Fails(c)
    /\ Still

\* sign_body_after_guard: the key is loaded and signs, or it cannot be loaded.
SignBody(c) == Step(c, "signed") \/ Fails(c)

FirstPass(c) ==
    /\ conn[c].at = "first"
    /\ \/ guard[conn[c].key] = "none" /\ SignBody(c)
       \/ guard[conn[c].key] = "admits" /\ Step(c, "dialog")
       \/ guard[conn[c].key] = "denies" /\ Fails(c)
    /\ Still

Answer(c) ==
    /\ conn[c].at = "dialog"
    /\ Step(c, "approved") \/ Fails(c)
    /\ Still

\* Slip: the key of the first pass is used as it is.
RecheckNothing(c) == conn[c].at = "approved" /\ Step(c, "last") /\ Still

\* local_sign_finalize_after_approval, the registry and then the store.
Recheck(c) ==
    /\ conn[c].at = "approved"
    /\ IF Resolves(c) = conn[c].key THEN Step(c, "last") ELSE Fails(c)
    /\ Still

Finalize(c) ==
    /\ conn[c].at = "last"
    /\ IF guard[conn[c].key] = "denies" THEN Fails(c) ELSE SignBody(c)
    /\ Still

Reply(c) == conn[c].at = "signed" /\ Fails(c) /\ Still

Requests(c) ==
    \/ Resolve(c) \/ FirstPass(c) \/ Answer(c) \/ Recheck(c) \/ Finalize(c) \/ Reply(c)
    \/ \E b \in Blobs : Ask(c, b)

-----------------------------------------------------------------------------

(***************************************************************************)
(* The process ends and starts again; a file that was being written is     *)
(* found empty, and `op` may not answer in the new session.                *)
(***************************************************************************)
Crash ==
    /\ Spend("faults", MaxFaults)
    /\ task' = Pass({}) /\ applied' = {}
    /\ base' \in Bases /\ live' \in Seeded(base')
    /\ guard' = [k \in Keys |-> "none"]
    /\ conn' = [c \in Conns |-> Idle]
    /\ up' \in SUBSET Sources
    /\ UNCHANGED <<held, cache>>

(***************************************************************************)
(* From the approval on, whether the socket resolved the blob to the key   *)
(* that was approved in any state.                                         *)
(***************************************************************************)
Remember ==
    seen' = [c \in Conns |->
                /\ conn'[c].at \in {"approved", "last"}
                /\ (conn[c].at \in {"approved", "last"} /\ seen[c]) \/ Resolves(c)' = conn'[c].key]

Next ==
    /\ \/ \E i \in Items : Move(i)
       \/ \E s \in Sources : OpAnswers(s)
       \/ \E key \in Locals : SetGuard(key)
       \/ Discovers
       \/ \E c \in Conns : Requests(c)
       \/ Crash
    /\ Remember

(***************************************************************************)
(* The runtime runs the background task, its backoff ends, and every call  *)
(* of `op` returns, if only to fail: the pass is one sequence of calls.    *)
(* 1Password, users and clients owe nothing.                               *)
(***************************************************************************)
Spec == Init /\ [][Next]_vars /\ WF_vars(Discovers /\ Remember)

-----------------------------------------------------------------------------
(* Properties *)

(***************************************************************************)
(* What is known outlasts an outage.  A socket stops serving a key only if *)
(* 1Password was just listed without it, and a key of the configuration    *)
(* not even then; and a save leaves the entries of every source alone that *)
(* was not listed.  (discover_all_sources, "a transient op outage must     *)
(* never discard the known-good mapping"; DiscoveryTarget base)            *)
(***************************************************************************)
OutageKeepsKeys ==
    [][/\ \A k \in Sockets, b \in Blobs : base'[k][b] # None => live'[k][b] # None
       /\ \A k \in Sockets, b \in Blobs :
             (live[k][b] # None /\ live'[k][b] = None /\ count'["faults"] = count["faults"]) =>
                /\ SourceOf[k] \in task.fresh
                /\ \A e \in task.found[SourceOf[k]] : e.blob # b
       /\ (task.st = "list" /\ task'.st = "list") =>
             {e \in task'.merged : \A s \in task'.fresh : e.item \notin Covers[s]}
                = {e \in cache : \A s \in task'.fresh : e.item \notin Covers[s]}]_vars

(***************************************************************************)
(* A source that answers is served, also while another never does.         *)
(* (op_discovery_refresh, "a permanently-unreachable source must not       *)
(* withhold a healthy source's freshly discovered keys")                   *)
(***************************************************************************)
HealthyServed == \A s \in Pending : <>[](s \in up) => <>[](s \in applied)

(***************************************************************************)
(* Whatever is swapped during the dialog, a signature is made with the key *)
(* the user approved, and only if the socket still served it under that    *)
(* public key after the answer.  (local_sign_finalize_after_approval,      *)
(* "Signing against the stale snapshot")                                   *)
(***************************************************************************)
SignsApprovedKey ==
    [][\A c \in Conns : (conn[c].at = "last" /\ conn'[c].at = "signed") => seen[c]]_vars

=============================================================================
