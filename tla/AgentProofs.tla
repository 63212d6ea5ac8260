---------------------------- MODULE AgentProofs ----------------------------
(***************************************************************************)
(* Theorems about Agent, for any number of sources, sockets, connections,  *)
(* items and keys, and for every bound.                                    *)
(***************************************************************************)
EXTENDS Agent, TLAPS

-----------------------------------------------------------------------------
(* The inductive invariant *)

Counts == {"moves", "guards", "faults", "requests"}

Tasks ==
    [st : {"list", "save", "write", "apply", "wait", "done"}, todo : SUBSET Sources,
     merged : SUBSET Entries, found : [Sources -> SUBSET Entries],
     fresh : SUBSET Sources, swaps : SUBSET Sockets]

Requested ==
    [at : {"idle", "resolve", "first", "dialog", "approved", "last", "signed"},
     blob : Blobs \cup {None}, key : Keys \cup {None}]

(***************************************************************************)
(* The types of what the theorems speak of.                                *)
(***************************************************************************)
Typed ==
    /\ cache \in SUBSET Entries /\ task \in Tasks
    /\ base \in [Sockets -> Registries] /\ live \in [Sockets -> Registries]
    /\ conn \in [Conns -> Requested] /\ count \in [Counts -> Nat]
    /\ seen \in [Conns -> BOOLEAN]

\* What a cache says of the sources that were not listed in this pass.
Outside(es, fresh) == {e \in es : \A s \in fresh : e.item \notin Covers[s]}

(***************************************************************************)
(* A registry is never without the keys of the configuration; only a       *)
(* socket whose source was listed in this pass is about to be swapped;     *)
(* and the cache in the making agrees with the one on disk on every source *)
(* not listed.                                                             *)
(***************************************************************************)
Preserved ==
    /\ \A k \in Sockets, b \in Blobs : base[k][b] # None => live[k][b] # None
    /\ \A k \in task.swaps : SourceOf[k] \in task.fresh
    /\ task.st = "list" => Outside(task.merged, task.fresh) = Outside(cache, task.fresh)

(***************************************************************************)
(* A connection that is about to sign after a dialog has seen the socket   *)
(* serve the approved key.                                                 *)
(***************************************************************************)
Confirmed == \A c \in Conns : conn[c].at = "last" => seen[c]

IInv == Typed /\ Preserved /\ Confirmed

-----------------------------------------------------------------------------
(* The helpers *)

(***************************************************************************)
(* De-duplicating entries adds none (registry.rs, op_discovery.rs).        *)
(***************************************************************************)
LEMMA OnePerBlobIsSubset ==
    ASSUME NEW es, NEW l \in OnePerBlob(es)
    PROVE  l \subseteq es
  BY DEF OnePerBlob

(***************************************************************************)
(* A registry built from a base and a list serves what the base serves and *)
(* what the list holds (authsock.rs op_registry_from).                     *)
(***************************************************************************)
LEMMA RegistryServesBoth ==
    ASSUME NEW local \in Registries, NEW listing \in SUBSET Entries
    PROVE  /\ OpRegistryFrom(local, listing) \in Registries
           /\ \A b \in Blobs : /\ local[b] # None => OpRegistryFrom(local, listing)[b] # None
                               /\ OpRegistryFrom(local, listing)[b] = None
                                     => \A e \in listing : e.blob # b
  <1>1. ASSUME NEW b \in Blobs, NEW e \in listing, e.blob = b
        PROVE  /\ (CHOOSE f \in listing : f.blob = b) \in listing
               /\ (CHOOSE f \in listing : f.blob = b).item \in Items
    BY <1>1 DEF Entries
  <1>2. ASSUME NEW i \in Items PROVE i \in Keys /\ i # None
    BY AgentConstants DEF Keys
  <1>3. ASSUME NEW b \in Blobs
        PROVE  /\ OpRegistryFrom(local, listing)[b] \in Keys \cup {None}
               /\ local[b] # None => OpRegistryFrom(local, listing)[b] # None
               /\ OpRegistryFrom(local, listing)[b] = None
                     => \A e \in listing : e.blob # b
    <2>1. CASE \E e \in listing : e.blob = b
      <3>1. OpRegistryFrom(local, listing)[b] \in Items
        BY <1>1, <2>1 DEF OpRegistryFrom
      <3> QED BY <1>2, <3>1
    <2>2. CASE ~\E e \in listing : e.blob = b
      <3>1. OpRegistryFrom(local, listing)[b] = local[b]
        BY <2>2 DEF OpRegistryFrom
      <3> QED BY <2>2, <3>1 DEF Registries
    <2> QED BY <2>1, <2>2
  <1>4. OpRegistryFrom(local, listing) \in Registries
    <2>1. OpRegistryFrom(local, listing)
             = [b \in Blobs |-> OpRegistryFrom(local, listing)[b]]
      BY DEF OpRegistryFrom
    <2> QED BY <1>3, <2>1 DEF Registries
  <1> QED BY <1>3, <1>4

(***************************************************************************)
(* At a start every socket serves its loaded keys of the configuration,    *)
(* whatever the seed adds (authsock.rs build_registry, seed_all_sources_from_cache).                 *)
(***************************************************************************)
LEMMA StartsServing ==
    ASSUME cache \in SUBSET Entries, NEW local \in Bases, NEW lives \in Seeded(local)
    PROVE  /\ local \in [Sockets -> Registries] /\ lives \in [Sockets -> Registries]
           /\ \A k \in Sockets, b \in Blobs : local[k][b] # None => lives[k][b] # None
  <1>1. local \in [Sockets -> Registries]
    <2>1. PICK loaded \in SUBSET Locals :
             local = [k \in Sockets |-> [b \in Blobs |-> IF LocalOf[k][b] \in loaded
                                                         THEN LocalOf[k][b] ELSE None]]
      BY DEF Bases
    <2> QED BY <2>1 DEF Registries, Keys
  <1>2. PICK seed \in [Sources -> SUBSET cache] :
           lives = [k \in Sockets |-> OpRegistryFrom(local[k], seed[SourceOf[k]])]
    BY DEF Seeded
  <1>3. ASSUME NEW k \in Sockets
        PROVE  /\ lives[k] = OpRegistryFrom(local[k], seed[SourceOf[k]])
               /\ local[k] \in Registries /\ seed[SourceOf[k]] \in SUBSET Entries
    <2>1. SourceOf[k] \in Sources
      BY AgentConstants
    <2> QED BY <1>1, <1>2, <2>1
  <1>4. lives \in [Sockets -> Registries]
    BY <1>2, <1>3, RegistryServesBoth
  <1> QED BY <1>1, <1>3, <1>4, RegistryServesBoth

-----------------------------------------------------------------------------
(* The invariant is inductive *)

(***************************************************************************)
(* A pass begins with what is on disk and nothing listed.                  *)
(***************************************************************************)
LEMMA PassBegins ==
    ASSUME cache \in SUBSET Entries, NEW done
    PROVE  /\ Pass(done) \in Tasks
           /\ Pass(done).st = "list" /\ Pass(done).swaps = {}
           /\ Outside(Pass(done).merged, Pass(done).fresh) = Outside(cache, Pass(done).fresh)
  <1>1. NothingFound \in [Sources -> SUBSET Entries]
    BY DEF NothingFound
  <1>2. Pass(done) \in Tasks
    BY <1>1 DEF Pass, Tasks
  <1> QED BY <1>2 DEF Pass

(***************************************************************************)
(* Initially the sockets serve what the cache on disk lists, and no        *)
(* signature has been asked for.                                           *)
(***************************************************************************)
LEMMA Initially == Init => IInv
  <1> SUFFICES ASSUME Init PROVE IInv
    OBVIOUS
  <1>1. cache \in SUBSET Entries
    BY DEF Init
  <1>2. /\ base \in [Sockets -> Registries] /\ live \in [Sockets -> Registries]
        /\ \A k \in Sockets, b \in Blobs : base[k][b] # None => live[k][b] # None
    BY <1>1, StartsServing DEF Init
  <1>3. /\ task \in Tasks /\ task.swaps = {}
        /\ Outside(task.merged, task.fresh) = Outside(cache, task.fresh)
    BY <1>1, PassBegins DEF Init
  <1>4. conn \in [Conns -> Requested] /\ \A c \in Conns : conn[c].at = "idle"
    BY DEF Init, Idle, Requested
  <1>5. count \in [Counts -> Nat] /\ seen \in [Conns -> BOOLEAN]
    BY DEF Init, Counts
  <1>6. Typed
    BY <1>1, <1>2, <1>3, <1>4, <1>5 DEF Typed
  <1>7. Preserved
    BY <1>2, <1>3 DEF Preserved
  <1>8. Confirmed
    BY <1>4 DEF Confirmed
  <1> QED BY <1>6, <1>7, <1>8 DEF IInv

(***************************************************************************)
(* What a bound has left changes nothing but the counter.                  *)
(***************************************************************************)
LEMMA SpendCounts ==
    ASSUME count \in [Counts -> Nat], NEW what \in Counts, NEW bound, Spend(what, bound)
    PROVE  count' \in [Counts -> Nat] /\ count'[what] # count[what]
  BY DEF Spend

(***************************************************************************)
(* What one step of the background task keeps, and what it may take from a *)
(* registry (authsock.rs op_discovery_refresh).                            *)
(***************************************************************************)
Stays ==
    \A k \in Sockets, b \in Blobs :
        (live[k][b] # None /\ live'[k][b] = None) =>
            /\ SourceOf[k] \in task.fresh
            /\ \A e \in task.found[SourceOf[k]] : e.blob # b

(***************************************************************************)
(* A step of the discovery task lists, keeps or forgets entries of the     *)
(* cache as the sources answered, and never drops those of a source that   *)
(* did not answer.                                                         *)
(***************************************************************************)
LEMMA Discovery ==
    ASSUME Typed, Preserved, Discovers
    PROVE  /\ cache' \in SUBSET Entries /\ task' \in Tasks
           /\ base' = base /\ live' \in [Sockets -> Registries]
           /\ conn' = conn /\ count' \in [Counts -> Nat]
           /\ Preserved' /\ Stays
           /\ (task.st = "list" /\ task'.st = "list") => cache' = cache
  <1> DEFINE Goal == /\ cache' \in SUBSET Entries /\ task' \in Tasks
                     /\ base' = base /\ live' \in [Sockets -> Registries]
                     /\ conn' = conn /\ count' \in [Counts -> Nat]
                     /\ Preserved' /\ Stays
                     /\ (task.st = "list" /\ task'.st = "list") => cache' = cache
  <1> USE DEF Typed
  <1>a. "faults" \in Counts
    BY DEF Counts
  <1>1. ASSUME NEW s \in Sources, List(s) PROVE Goal
    <2>1. CASE s \in up
      <3>1. PICK listing \in Listings(s) :
               task' = [task EXCEPT !.todo = @ \ {s}, !.fresh = @ \cup {s},
                                    !.found[s] = listing, !.merged = Merge(@, s, listing)]
        BY <1>1, <2>1 DEF List
      <3>2. listing \in SUBSET Entries /\ \A e \in listing : e.item \in Covers[s]
        BY OnePerBlobIsSubset DEF Listings
      <3>3. Merge(task.merged, s, listing) \in SUBSET Entries
        BY <3>2 DEF Merge, Tasks
      <3>4. /\ task' \in Tasks /\ task'.fresh = task.fresh \cup {s}
            /\ task'.merged = Merge(task.merged, s, listing)
            /\ task'.swaps = task.swaps
        BY <3>1, <3>2, <3>3 DEF Tasks
      <3>5. /\ task.st = "list" /\ cache' = cache /\ base' = base /\ live' = live
            /\ conn' = conn /\ count' = count
        BY <1>1 DEF List, sockets
      <3>6. Outside(cache, task.fresh \cup {s})
               = Outside(Merge(task.merged, s, listing), task.fresh \cup {s})
        <4>1. Outside(task.merged, task.fresh) = Outside(cache, task.fresh)
          BY <3>5 DEF Preserved
        <4>2. ASSUME NEW es
              PROVE  Outside(es, task.fresh \cup {s})
                        = {e \in Outside(es, task.fresh) : e.item \notin Covers[s]}
          BY DEF Outside
        <4>3. Outside(Merge(task.merged, s, listing), task.fresh \cup {s})
                 = Outside(task.merged, task.fresh \cup {s})
          BY <3>2 DEF Outside, Merge
        <4> QED BY <4>1, <4>2, <4>3
      <3>7. Preserved'
        BY <3>4, <3>5, <3>6 DEF Preserved
      <3>8. Stays
        BY <3>5 DEF Stays
      <3> QED BY <3>4, <3>5, <3>7, <3>8
    <2>2. CASE s \notin up
      <3>1. /\ task' = [task EXCEPT !.todo = @ \ {s}]
            /\ task.st = "list" /\ cache' = cache /\ base' = base /\ live' = live
            /\ conn' = conn /\ count' = count
        BY <1>1, <2>2 DEF List, sockets
      <3>2. /\ task' \in Tasks /\ task'.fresh = task.fresh /\ task'.merged = task.merged
            /\ task'.swaps = task.swaps
        BY <3>1 DEF Tasks
      <3>3. Preserved'
        BY <3>1, <3>2 DEF Preserved
      <3>4. Stays
        BY <3>1 DEF Stays
      <3> QED BY <3>1, <3>2, <3>3, <3>4
    <2> QED BY <2>1, <2>2
  <1>2. ASSUME NEW k \in Sockets, Apply(k) PROVE Goal
    <2>1. /\ task.st = "apply" /\ k \in task.swaps /\ cache' = cache /\ base' = base
          /\ conn' = conn /\ count' = count
          /\ task' = [task EXCEPT !.swaps = @ \ {k}]
          /\ live' = [live EXCEPT ![k] = OpRegistryFrom(base[k], task.found[SourceOf[k]])]
      BY <1>2 DEF Apply
    <2>2. task.found[SourceOf[k]] \in SUBSET Entries /\ base[k] \in Registries
      BY AgentConstants DEF Tasks
    <2>3. /\ task' \in Tasks /\ task'.st = "apply" /\ task'.fresh = task.fresh
          /\ task'.swaps \subseteq task.swaps
      BY <2>1 DEF Tasks
    <2>4. live' \in [Sockets -> Registries]
      BY <2>1, <2>2, RegistryServesBoth
    <2>5. live'[k] = OpRegistryFrom(base[k], task.found[SourceOf[k]])
      BY <2>1
    <2>6. \A j \in Sockets : j # k => live'[j] = live[j]
      BY <2>1
    <2>7. \A j \in Sockets, b \in Blobs : base'[j][b] # None => live'[j][b] # None
      BY <2>1, <2>2, <2>5, <2>6, RegistryServesBoth DEF Preserved
    <2>8. Preserved'
      BY <2>1, <2>3, <2>7 DEF Preserved
    <2>9. Stays
      BY <2>1, <2>2, <2>5, <2>6, RegistryServesBoth DEF Stays, Preserved
    <2> QED BY <2>1, <2>3, <2>4, <2>8, <2>9
  <1>3. ASSUME Listed \/ Applied PROVE Goal
    <2>1. /\ cache' = cache /\ base' = base /\ live' = live /\ conn' = conn /\ count' = count
      BY <1>3 DEF Listed, Applied, sockets
    <2>2. PICK st \in {"save", "wait", "done"} : task' = [task EXCEPT !.st = st]
      BY <1>3 DEF Listed, Applied, Goes
    <2>3. task' \in Tasks /\ task'.st # "list" /\ task'.swaps = task.swaps
          /\ task'.fresh = task.fresh
      BY <2>2 DEF Tasks
    <2>4. Preserved'
      BY <2>1, <2>3 DEF Preserved
    <2>5. Stays
      BY <2>1 DEF Stays
    <2> QED BY <2>1, <2>3, <2>4, <2>5
  <1>4. ASSUME Save \/ Write PROVE Goal
    <2>1. base' = base /\ live' = live /\ conn' = conn
      BY <1>4 DEF Save, Write, sockets
    <2>2. count' \in [Counts -> Nat]
      BY <1>4, <1>a, SpendCounts DEF Save, Write
    <2>3. cache' \in SUBSET Entries
      BY <1>4 DEF Save, Write, Tasks
    <2>4. task' = [task EXCEPT !.st = "write"]
            \/ task' = [task EXCEPT !.st = "apply", !.swaps = Applies]
      BY <1>4 DEF Save, Write, Goes
    <2>5. Applies \subseteq Sockets /\ \A k \in Applies : SourceOf[k] \in task.fresh
      BY DEF Applies, NewlyFresh
    <2>6. /\ task' \in Tasks /\ task'.st # "list" /\ task'.fresh = task.fresh
          /\ \A k \in task'.swaps : SourceOf[k] \in task.fresh
      BY <2>4, <2>5 DEF Tasks, Preserved
    <2>7. Preserved'
      BY <2>1, <2>6 DEF Preserved
    <2>8. Stays
      BY <2>1 DEF Stays
    <2> QED BY <2>1, <2>2, <2>3, <2>6, <2>7, <2>8
  <1>5. ASSUME Wake PROVE Goal
    <2>1. /\ cache' = cache /\ base' = base /\ live' = live /\ conn' = conn /\ count' = count
          /\ task.st = "wait" /\ task' = Pass(applied)
      BY <1>5 DEF Wake, sockets
    <2>2. /\ task' \in Tasks /\ task'.swaps = {}
          /\ Outside(task'.merged, task'.fresh) = Outside(cache, task'.fresh)
      BY <2>1, PassBegins
    <2>3. Preserved'
      BY <2>1, <2>2 DEF Preserved
    <2>4. Stays
      BY <2>1 DEF Stays
    <2> QED BY <2>1, <2>2, <2>3, <2>4
  <1> QED BY <1>1, <1>2, <1>3, <1>4, <1>5 DEF Discovers

(***************************************************************************)
(* A step of a connection touches that connection only, and it is about to *)
(* sign after a dialog only if the socket resolves its public key to its   *)
(* key (authsock.rs sign_request).                                         *)
(***************************************************************************)
LEMMA Connections ==
    ASSUME Typed, NEW c \in Conns, Requests(c)
    PROVE  /\ UNCHANGED <<cache, task, base, live>> /\ count' \in [Counts -> Nat]
           /\ conn' \in [Conns -> Requested]
           /\ \A d \in Conns \ {c} : conn'[d] = conn[d]
           /\ conn'[c].at = "last" => /\ conn[c].at = "approved" /\ conn'[c] = [conn[c] EXCEPT !.at = "last"]
                                      /\ Resolves(c) = conn[c].key
           /\ conn'[c].at = "signed" => conn[c].at \in {"first", "last"}
  <1> DEFINE Goal == /\ UNCHANGED <<cache, task, base, live>> /\ count' \in [Counts -> Nat]
                     /\ conn' \in [Conns -> Requested]
                     /\ \A d \in Conns \ {c} : conn'[d] = conn[d]
                     /\ conn'[c].at = "last" => /\ conn[c].at = "approved"
                                                /\ conn'[c] = [conn[c] EXCEPT !.at = "last"]
                                                /\ Resolves(c) = conn[c].key
                     /\ conn'[c].at = "signed" => conn[c].at \in {"first", "last"}
  <1> USE DEF Typed
  <1>a. Idle \in Requested /\ Idle.at = "idle"
    BY DEF Idle, Requested
  <1>b. ASSUME NEW at \in {"dialog", "approved", "last", "signed"}, Step(c, at)
        PROVE  /\ conn' \in [Conns -> Requested] /\ conn'[c].at = at
               /\ conn'[c] = [conn[c] EXCEPT !.at = at]
               /\ \A d \in Conns \ {c} : conn'[d] = conn[d]
    BY <1>b DEF Step, Requested
  <1>c. ASSUME Fails(c)
        PROVE  /\ conn' \in [Conns -> Requested] /\ conn'[c].at = "idle"
               /\ \A d \in Conns \ {c} : conn'[d] = conn[d]
    BY <1>a, <1>c DEF Fails
  <1>d. Still => UNCHANGED <<cache, task, base, live, count>>
    BY DEF Still, tasks, sockets
  <1>1. ASSUME NEW b \in Blobs, Ask(c, b) PROVE Goal
    <2>1. count' \in [Counts -> Nat]
      BY <1>1, SpendCounts DEF Ask, Counts
    <2>2. UNCHANGED <<cache, task, base, live>>
      BY <1>1 DEF Ask, tasks, sockets
    <2>3. /\ conn' \in [Conns -> Requested] /\ conn'[c].at = "resolve"
          /\ \A d \in Conns \ {c} : conn'[d] = conn[d]
      BY <1>1 DEF Ask, Requested
    <2> QED BY <2>1, <2>2, <2>3
  <1>2. ASSUME Resolve(c) PROVE Goal
    <2>1. UNCHANGED <<cache, task, base, live, count>>
      BY <1>2, <1>d DEF Resolve
    <2>2. CASE Fails(c)
      BY <1>c, <2>1, <2>2
    <2>3. CASE Resolves(c) # None /\ conn' = [conn EXCEPT ![c].at = "first", ![c].key = Resolves(c)]
      <3>1. Resolves(c) \in Keys \cup {None}
        BY AgentConstants DEF Resolves, Requested, Registries
      <3>2. /\ conn' \in [Conns -> Requested] /\ conn'[c].at = "first"
            /\ \A d \in Conns \ {c} : conn'[d] = conn[d]
        BY <2>3, <3>1 DEF Requested
      <3> QED BY <2>1, <3>2
    <2> QED BY <1>2, <2>2, <2>3 DEF Resolve
  <1>3. ASSUME FirstPass(c) PROVE Goal
    <2>1. UNCHANGED <<cache, task, base, live, count>> /\ conn[c].at = "first"
      BY <1>3, <1>d DEF FirstPass
    <2>2. Fails(c) \/ Step(c, "signed") \/ Step(c, "dialog")
      BY <1>3 DEF FirstPass, SignBody
    <2> QED BY <1>b, <1>c, <2>1, <2>2
  <1>4. ASSUME Answer(c) PROVE Goal
    <2>1. UNCHANGED <<cache, task, base, live, count>>
      BY <1>4, <1>d DEF Answer
    <2>2. Fails(c) \/ Step(c, "approved")
      BY <1>4 DEF Answer
    <2> QED BY <1>b, <1>c, <2>1, <2>2
  <1>5. ASSUME Recheck(c) PROVE Goal
    <2>1. UNCHANGED <<cache, task, base, live, count>> /\ conn[c].at = "approved"
      BY <1>5, <1>d DEF Recheck
    <2>2. Fails(c) \/ (Step(c, "last") /\ Resolves(c) = conn[c].key)
      BY <1>5 DEF Recheck
    <2> QED BY <1>b, <1>c, <2>1, <2>2
  <1>6. ASSUME Finalize(c) PROVE Goal
    <2>1. UNCHANGED <<cache, task, base, live, count>> /\ conn[c].at = "last"
      BY <1>6, <1>d DEF Finalize
    <2>2. Fails(c) \/ Step(c, "signed")
      BY <1>6 DEF Finalize, SignBody
    <2> QED BY <1>b, <1>c, <2>1, <2>2
  <1>7. ASSUME Reply(c) PROVE Goal
    <2>1. UNCHANGED <<cache, task, base, live, count>>
      BY <1>7, <1>d DEF Reply
    <2> QED BY <1>7, <1>c, <2>1 DEF Reply
  <1> QED BY <1>1, <1>2, <1>3, <1>4, <1>5, <1>6, <1>7 DEF Requests

(***************************************************************************)
(* What the steps of the outside leave alone.                              *)
(***************************************************************************)
LEMMA Outsiders ==
    ASSUME Typed,
           \/ \E i \in Items : Move(i)
           \/ \E s \in Sources : OpAnswers(s)
           \/ \E key \in Locals : SetGuard(key)
    PROVE  UNCHANGED <<cache, task, base, live, conn>> /\ count' \in [Counts -> Nat]
  <1>1. UNCHANGED <<cache, task, base, live, conn>>
    BY DEF Move, OpAnswers, SetGuard, tasks, sockets
  <1>2. {"moves", "guards"} \subseteq Counts
    BY DEF Counts
  <1>3. count' \in [Counts -> Nat]
    BY <1>2, SpendCounts DEF Typed, Move, OpAnswers, SetGuard
  <1> QED BY <1>1, <1>3

(***************************************************************************)
(* A crash finds the file as it is, and costs a fault.                     *)
(***************************************************************************)
LEMMA Crashes ==
    ASSUME Typed, Crash
    PROVE  /\ cache' = cache /\ task' \in Tasks
           /\ base' \in [Sockets -> Registries] /\ live' \in [Sockets -> Registries]
           /\ conn' \in [Conns -> Requested] /\ \A c \in Conns : conn'[c].at = "idle"
           /\ count' \in [Counts -> Nat] /\ count'["faults"] # count["faults"]
           /\ Preserved'
  <1>1. /\ cache' = cache /\ task' \in Tasks /\ task'.swaps = {}
        /\ Outside(task'.merged, task'.fresh) = Outside(cache, task'.fresh)
    BY PassBegins DEF Crash, Typed
  <1>2. /\ base' \in [Sockets -> Registries] /\ live' \in [Sockets -> Registries]
        /\ \A k \in Sockets, b \in Blobs : base'[k][b] # None => live'[k][b] # None
    BY StartsServing DEF Crash, Typed
  <1>3. conn' \in [Conns -> Requested] /\ \A c \in Conns : conn'[c].at = "idle"
    BY DEF Crash, Idle, Requested
  <1>4. count' \in [Counts -> Nat] /\ count'["faults"] # count["faults"]
    BY SpendCounts DEF Crash, Typed, Counts
  <1>5. Preserved'
    BY <1>1, <1>2 DEF Preserved
  <1> QED BY <1>1, <1>2, <1>3, <1>4, <1>5

(***************************************************************************)
(* A connection that is about to sign either just was confirmed, or was    *)
(* before and is remembered.                                               *)
(***************************************************************************)
LEMMA Remembers ==
    ASSUME Typed, Confirmed, Remember, conn' \in [Conns -> Requested],
           \A c \in Conns : conn'[c].at = "last" =>
                \/ conn[c].at = "last"
                \/ Resolves(c)' = conn'[c].key
    PROVE  Confirmed' /\ seen' \in [Conns -> BOOLEAN]
  <1>1. seen' \in [Conns -> BOOLEAN]
    BY DEF Remember
  <1>2. ASSUME NEW c \in Conns, conn'[c].at = "last" PROVE seen'[c]
    BY <1>2 DEF Remember, Confirmed
  <1> QED BY <1>1, <1>2 DEF Confirmed

(***************************************************************************)
(* Every step keeps the invariant, and so does a stutter.                  *)
(***************************************************************************)
LEMMA Inductive == IInv /\ [Next]_vars => IInv'
  <1> SUFFICES ASSUME IInv, [Next]_vars PROVE IInv'
    OBVIOUS
  <1> USE DEF IInv
  <1>1. ASSUME Next, Discovers PROVE IInv'
    <2>1. conn' = conn /\ Preserved'
      BY <1>1, Discovery
    <2>2. Confirmed' /\ seen' \in [Conns -> BOOLEAN]
      BY <1>1, <2>1, Remembers DEF Typed, Next
    <2>3. Typed'
      BY <1>1, <2>1, <2>2, Discovery DEF Typed
    <2> QED BY <2>1, <2>2, <2>3
  <1>2. ASSUME Next, NEW c \in Conns, Requests(c) PROVE IInv'
    <2>1. /\ UNCHANGED <<cache, task, base, live>> /\ conn' \in [Conns -> Requested]
          /\ count' \in [Counts -> Nat]
      BY <1>2, Connections
    <2>2. ASSUME NEW d \in Conns, conn'[d].at = "last"
          PROVE  conn[d].at = "last" \/ Resolves(d)' = conn'[d].key
      <3>1. CASE d # c
        BY <1>2, <2>2, <3>1, Connections
      <3>2. CASE d = c
        <4>1. /\ conn'[c] = [conn[c] EXCEPT !.at = "last"] /\ Resolves(c) = conn[c].key
          BY <1>2, <2>2, <3>2, Connections
        <4>2. conn'[c].blob = conn[c].blob /\ conn'[c].key = conn[c].key
          BY <4>1 DEF Typed, Requested
        <4> QED BY <2>1, <3>2, <4>1, <4>2 DEF Resolves
      <3> QED BY <3>1, <3>2
    <2>3. Confirmed' /\ seen' \in [Conns -> BOOLEAN]
      BY <1>2, <2>1, <2>2, Remembers DEF Next
    <2>4. Typed' /\ Preserved'
      BY <2>1, <2>3 DEF Typed, Preserved
    <2> QED BY <2>3, <2>4
  <1>3. ASSUME Next,
               \/ \E i \in Items : Move(i)
               \/ \E s \in Sources : OpAnswers(s)
               \/ \E key \in Locals : SetGuard(key)
        PROVE  IInv'
    <2>1. UNCHANGED <<cache, task, base, live, conn>> /\ count' \in [Counts -> Nat]
      BY <1>3, Outsiders
    <2>2. Confirmed' /\ seen' \in [Conns -> BOOLEAN]
      BY <1>3, <2>1, Remembers DEF Typed, Next
    <2> QED BY <2>1, <2>2 DEF Typed, Preserved
  <1>4. ASSUME Next, Crash PROVE IInv'
    <2>1. conn' \in [Conns -> Requested] /\ \A c \in Conns : conn'[c].at = "idle"
      BY <1>4, Crashes
    <2>2. Confirmed' /\ seen' \in [Conns -> BOOLEAN]
      BY <1>4, <2>1, Remembers DEF Next
    <2> QED BY <1>4, <2>1, <2>2, Crashes DEF Typed
  <1>5. CASE UNCHANGED vars
    <2>1. UNCHANGED <<cache, task, base, live, conn, count, seen>>
      BY <1>5 DEF vars, tasks, sockets
    <2> QED BY <2>1 DEF Typed, Preserved, Confirmed
  <1> QED BY <1>1, <1>2, <1>3, <1>4, <1>5 DEF Next

(***************************************************************************)
(* The invariant holds of every reachable state, for any constants.        *)
(***************************************************************************)
THEOREM AgentInvariance == Spec => []IInv
  BY Initially, Inductive, PTL DEF Spec

-----------------------------------------------------------------------------
(* The properties *)

(***************************************************************************)
(* A signature made after a dialog is made with the key the user approved, *)
(* which the socket still served after the answer                          *)
(* (authsock.rs local_sign_finalize_after_approval).                       *)
(***************************************************************************)
THEOREM SignedAsApproved == Spec => SignsApprovedKey
  <1>1. IInv /\ [Next]_vars =>
          [\A c \in Conns : (conn[c].at = "last" /\ conn'[c].at = "signed") => seen[c]]_vars
    BY DEF IInv, Confirmed
  <1> QED BY <1>1, AgentInvariance, PTL DEF Spec, SignsApprovedKey

(***************************************************************************)
(* An outage takes no key from a socket and no entry from the cache: what  *)
(* is dropped was just listed as gone (authsock.rs discover_all_sources,   *)
(* apply_discovery).                                                       *)
(***************************************************************************)
THEOREM KeysSurviveOutages == Spec => OutageKeepsKeys
  <1> DEFINE Goal ==
         /\ \A k \in Sockets, b \in Blobs : base'[k][b] # None => live'[k][b] # None
         /\ \A k \in Sockets, b \in Blobs :
               (live[k][b] # None /\ live'[k][b] = None /\ count'["faults"] = count["faults"]) =>
                  /\ SourceOf[k] \in task.fresh
                  /\ \A e \in task.found[SourceOf[k]] : e.blob # b
         /\ (task.st = "list" /\ task'.st = "list") =>
               {e \in task'.merged : \A s \in task'.fresh : e.item \notin Covers[s]}
                  = {e \in cache : \A s \in task'.fresh : e.item \notin Covers[s]}
  <1>1. ASSUME IInv, Next PROVE Goal
    <2>1. IInv'
      BY <1>1, Inductive
    <2>2. \A k \in Sockets, b \in Blobs : base'[k][b] # None => live'[k][b] # None
      BY <2>1 DEF IInv, Preserved
    <2>3. (task.st = "list" /\ task'.st = "list") => cache' = cache
      BY <1>1, Discovery, Connections, Outsiders, Crashes DEF Next, IInv
    <2>4. (task.st = "list" /\ task'.st = "list") =>
             Outside(task'.merged, task'.fresh) = Outside(cache, task'.fresh)
      BY <2>1, <2>3 DEF IInv, Preserved
    <2>5. count'["faults"] # count["faults"] \/ live' = live \/ Stays
      BY <1>1, Discovery, Connections, Outsiders, Crashes DEF Next, IInv
    <2>6. live' = live => Stays
      BY DEF Stays
    <2> QED BY <2>2, <2>4, <2>5, <2>6 DEF Stays, Outside
  <1>2. IInv /\ [Next]_vars => [Goal]_vars
    BY <1>1
  <1> QED BY <1>2, AgentInvariance, PTL DEF Spec, OutageKeepsKeys

=============================================================================
