----------------------------- MODULE VaultProofs -----------------------------
(***************************************************************************)
(* Theorems about Vault, for any keys, recipients, data keys and claims,   *)
(* any number of failing commits, crashes and power losses.                *)
(***************************************************************************)
EXTENDS Vault, TLAPS

-----------------------------------------------------------------------------
(* The inductive invariant *)

(***************************************************************************)
(* TypeOK, and the types of the other histories.                           *)
(***************************************************************************)
Typed ==
    /\ file \in Contents \cup {None, Torn}
    /\ survivors \subseteq Contents \cup {None, Torn} /\ file \in survivors
    /\ proc \in {"Down", "NotInitialized", "Locked", "Open"}
    /\ open \in Option(Contents) /\ (open # None <=> proc = "Open")
    /\ now \in Time /\ faults \in Nat /\ reply.out \in Outs
    /\ acked \in [Keys -> Option(VaultEntries)]
    /\ tried \in [Keys -> SUBSET Option(VaultEntries)]
    /\ holder \in [Keys -> Option(RefreshClaims)]
    /\ seen \in [Keys -> Option([value : Values, version : Nat])]
    /\ knows \in [Recipients -> SUBSET Deks] /\ revoked \subseteq Recipients

(***************************************************************************)
(* What is open is a content the disk may have, and a file once made stays *)
(* one: only before that can there be no file or half a file.              *)
(***************************************************************************)
Settled ==
    /\ proc \in {"Locked", "Open"} => Parses(file)
    /\ proc = "NotInitialized" => file = None
    /\ file = None => survivors = {None}
    /\ open # None => open \in survivors

(***************************************************************************)
(* A recipient knows the keys wrapped for it, in whatever file survives,   *)
(* and one that was removed knew a key.                                    *)
(***************************************************************************)
Knowing ==
    /\ \A f \in survivors : Parses(f) => \A r \in DOMAIN f.wraps : f.wraps[r] \in knows[r]
    /\ \A r \in revoked : knows[r] # {}
    /\ revoked # {} => \A f \in survivors : Parses(f)

(***************************************************************************)
(* An acknowledged claim that has not lapsed is in every file that may     *)
(* survive.                                                                *)
(***************************************************************************)
Fencing ==
    \A k \in Keys : (holder[k] # None /\ now < holder[k].expires_at) =>
        \A f \in survivors : /\ Parses(f) /\ f.entries[k] # None
                             /\ f.entries[k].claim = holder[k]

\* Entry e is what d was, or has gone beyond it.
Beyond(e, d) ==
    (e # None /\ d # None) =>
        /\ e.version >= d.version
        /\ e.version = d.version => e.value = d.value

Follows(g, k) == Beyond(g.entries[k], seen[k])

(***************************************************************************)
(* The open vault and the file have not fallen behind what was read, nor   *)
(* the file behind the open vault.                                         *)
(***************************************************************************)
Reading ==
    \A k \in Keys :
        /\ file = None => seen[k] = None
        /\ Parses(file) => Follows(file, k)
        /\ open # None => /\ Follows(open, k) /\ (seen[k] # None => open.entries[k] # None)
                          /\ Beyond(file.entries[k], open.entries[k])

IInv ==
    /\ Typed /\ Settled /\ EveryRecipientOpens /\ Knowing /\ RemovalIsFinal
    /\ AcknowledgedSurvives /\ Fencing /\ Reading

-----------------------------------------------------------------------------
(* Contents *)

(***************************************************************************)
(* A content is a file that parses, and has the fields of one.             *)
(***************************************************************************)
LEMMA ContentParses ==
    ASSUME NEW f \in Contents
    PROVE  /\ Parses(f) /\ f # None /\ f.dek \in Deks
           /\ f.entries \in [Keys -> Option(VaultEntries)]
           /\ DOMAIN f.wraps \subseteq Recipients
           /\ \A x \in DOMAIN f.wraps : f.wraps[x] \in Deks
  <1>1. f # None /\ f # Torn
    BY VaultConstants
  <1>2. f.dek \in Deks /\ f.entries \in [Keys -> Option(VaultEntries)]
        /\ f.wraps \in UNION {[S -> Deks] : S \in SUBSET Recipients}
    BY DEF Contents
  <1>3. PICK S \in SUBSET Recipients : f.wraps \in [S -> Deks]
    BY <1>2
  <1> QED BY <1>1, <1>2, <1>3 DEF Parses

(***************************************************************************)
(* A mutation of an entry leaves the keys and the other entries alone.     *)
(***************************************************************************)
LEMMA EntryWritten ==
    ASSUME NEW f \in Contents, NEW k \in Keys, NEW e \in Option(VaultEntries)
    PROVE  LET new == [f EXCEPT !.entries[k] = e] IN
           /\ new \in Contents /\ new.dek = f.dek /\ new.wraps = f.wraps
           /\ new.entries[k] = e
           /\ \A j \in Keys \ {k} : new.entries[j] = f.entries[j]
  BY DEF Contents

(***************************************************************************)
(* One more recipient for the key in use.                                  *)
(***************************************************************************)
LEMMA SlotAdded ==
    ASSUME NEW f \in Contents, NEW r \in Recipients,
           NEW w, w = [x \in DOMAIN f.wraps \cup {r} |-> IF x = r THEN f.dek ELSE f.wraps[x]]
    PROVE  LET new == [f EXCEPT !.wraps = w] IN
           new \in Contents /\ new.dek = f.dek /\ new.wraps = w /\ new.entries = f.entries
  <1>1. w \in [DOMAIN f.wraps \cup {r} -> Deks] /\ DOMAIN f.wraps \cup {r} \in SUBSET Recipients
    BY ContentParses
  <1>2. w \in UNION {[S -> Deks] : S \in SUBSET Recipients}
    BY <1>1
  <1> QED BY <1>2 DEF Contents

(***************************************************************************)
(* A new key for the given recipients.                                     *)
(***************************************************************************)
LEMMA Rotated ==
    ASSUME open \in Contents, NEW members \in SUBSET Recipients, NEW d \in Deks
    PROVE  LET new == RotateOnto(members, d) IN
           /\ new \in Contents /\ new.dek = d /\ new.entries = open.entries
           /\ DOMAIN new.wraps = members /\ \A x \in members : new.wraps[x] = d
  <1> DEFINE w == [x \in members |-> d]
  <1>1. w \in UNION {[S -> Deks] : S \in SUBSET Recipients}
    <2>1. w \in [members -> Deks]
      OBVIOUS
    <2> QED BY <2>1
  <1>2. RotateOnto(members, d) = [open EXCEPT !.dek = d, !.wraps = w]
    BY DEF RotateOnto
  <1> HIDE DEF w
  <1>3. /\ RotateOnto(members, d) \in Contents /\ RotateOnto(members, d).dek = d
        /\ RotateOnto(members, d).entries = open.entries /\ RotateOnto(members, d).wraps = w
    BY <1>1, <1>2 DEF Contents
  <1> QED BY <1>3 DEF w

(***************************************************************************)
(* The first content of a vault.                                           *)
(***************************************************************************)
LEMMA FirstContent ==
    ASSUME NEW r \in Recipients, NEW d \in Deks
    PROVE  LET new == [dek |-> d, wraps |-> [x \in {r} |-> d],
                       entries |-> [k \in Keys |-> None]] IN
           /\ new \in Contents /\ new.dek = d /\ DOMAIN new.wraps = {r} /\ new.wraps[r] = d
           /\ \A k \in Keys : new.entries[k] = None
  <1> DEFINE w == [x \in {r} |-> d]
             e == [k \in Keys |-> None]
  <1>1. w \in UNION {[S -> Deks] : S \in SUBSET Recipients} /\ e \in [Keys -> Option(VaultEntries)]
    <2>1. w \in [{r} -> Deks] /\ {r} \in SUBSET Recipients
      OBVIOUS
    <2> QED BY <2>1 DEF Option
  <1> HIDE DEF w, e
  <1>2. [dek |-> d, wraps |-> w, entries |-> e] \in Contents
    BY <1>1 DEF Contents
  <1> QED BY <1>2 DEF w, e

-----------------------------------------------------------------------------
(* Commits *)

(***************************************************************************)
(* However a commit ends, the file is the old one or the new one, and the  *)
(* vault is open with a content that is among those that may survive.      *)
(***************************************************************************)
LEMMA CommitEnds ==
    ASSUME Typed, Settled, proc = "Open", NEW new \in Contents, NEW c \in Commits, Commit(c, new)
    PROVE  /\ file' \in Contents /\ survivors' \subseteq Contents \cup {None, Torn}
           /\ file' \in survivors' /\ proc' \in {"Down", "Open"}
           /\ open' \in Option(Contents) /\ (open' # None <=> proc' = "Open")
           /\ Settled'
           /\ survivors' \subseteq survivors \cup {new}
           /\ c = "ok" => survivors' = {new} /\ file' = new /\ open' = new
           /\ c = "untouched" => survivors' = survivors /\ file' = file
           /\ file' \in {file, new} /\ (c # "ok" => open' \in {open, None})
  <1>1. file \in Contents /\ open \in Contents /\ open # None
    BY DEF Typed, Settled, Parses, Option
  <1>2. Parses(new) /\ new # None /\ Parses(file) /\ Parses(open)
    BY <1>1, ContentParses
  <1>3. CASE c = "ok"
    BY <1>1, <1>2, <1>3 DEF Commit, Typed, Settled, Parses, Option
  <1>4. CASE c = "untouched"
    BY <1>1, <1>2, <1>4 DEF Commit, Typed, Settled, Parses, Option
  <1>5. CASE c = "renamed"
    BY <1>1, <1>2, <1>5 DEF Commit, Typed, Settled, Parses, Option
  <1>6. CASE c = "died"
    BY <1>1, <1>2, <1>6 DEF Commit, Typed, Settled, Parses, Option
  <1> QED BY <1>3, <1>4, <1>5, <1>6 DEF Commits

-----------------------------------------------------------------------------
(* What steps change of keys and of entries *)

(***************************************************************************)
(* Files sealed and wrapped as before keep every promise about keys.       *)
(***************************************************************************)
LEMMA KeysSame ==
    ASSUME EveryRecipientOpens, Knowing, RemovalIsFinal, UNCHANGED <<knows, revoked>>,
           \A f \in survivors' : f \in survivors \/
               \E g \in survivors : Parses(g) /\ Parses(f) /\ f.dek = g.dek /\ f.wraps = g.wraps
    PROVE  EveryRecipientOpens' /\ Knowing' /\ RemovalIsFinal'
  <1>1. ASSUME NEW f \in survivors', Parses(f)
        PROVE  \E g \in survivors : Parses(g) /\ f.dek = g.dek /\ f.wraps = g.wraps
    BY <1>1
  <1>2. EveryRecipientOpens'
    BY <1>1 DEF EveryRecipientOpens
  <1>3. Knowing'
    <2>1. \A f \in survivors' : Parses(f) => \A r \in DOMAIN f.wraps : f.wraps[r] \in knows[r]
      BY <1>1 DEF Knowing
    <2>2. revoked # {} => \A f \in survivors' : Parses(f)
      BY DEF Knowing
    <2> QED BY <2>1, <2>2 DEF Knowing
  <1>4. RemovalIsFinal'
    BY <1>1 DEF RemovalIsFinal
  <1> QED BY <1>2, <1>3, <1>4

(***************************************************************************)
(* Files with entries as before keep what was acknowledged and claimed.    *)
(***************************************************************************)
LEMMA EntriesSame ==
    ASSUME Typed, AcknowledgedSurvives, Fencing, UNCHANGED <<acked, tried, holder>>,
           now' \in Nat, now' >= now,
           \A f \in survivors' : f \in survivors \/
               \E g \in survivors : Parses(g) /\ Parses(f) /\ f.entries = g.entries
    PROVE  AcknowledgedSurvives' /\ Fencing'
  <1>1. AcknowledgedSurvives'
    BY DEF AcknowledgedSurvives
  <1>2. Fencing'
    <2> SUFFICES ASSUME NEW k \in Keys, holder[k] # None, now' < holder[k].expires_at,
                        NEW f \in survivors'
                 PROVE  Parses(f) /\ f.entries[k] # None /\ f.entries[k].claim = holder[k]
      BY DEF Fencing
    <2>1. now < holder[k].expires_at
      BY DEF Typed, Time, RefreshClaims, Option
    <2>2. \A g \in survivors : Parses(g) /\ g.entries[k] # None /\ g.entries[k].claim = holder[k]
      BY <2>1 DEF Fencing
    <2> QED BY <2>2
  <1> QED BY <1>1, <1>2

(***************************************************************************)
(* What is written in place of a file: a key that the current members, and *)
(* nobody removed before, can unwrap.                                      *)
(***************************************************************************)
LEMMA KeysCommitted ==
    ASSUME Typed, Settled, EveryRecipientOpens, Knowing, RemovalIsFinal, proc = "Open",
           NEW new \in Contents, NEW c \in Commits, NEW op, CommitKeys(op, new, c),
           DOMAIN new.wraps # {}, \A x \in DOMAIN new.wraps : new.wraps[x] = new.dek,
           \A x \in revoked : x \notin DOMAIN new.wraps /\ new.dek \notin knows[x],
           \/ revoked' = revoked
           \/ c = "ok" /\ \E r \in Recipients :
                  /\ revoked' = revoked \cup {r}
                  /\ r \notin DOMAIN new.wraps /\ new.dek \notin knows[r] /\ knows[r] # {}
    PROVE  EveryRecipientOpens' /\ Knowing' /\ RemovalIsFinal' /\ revoked' \subseteq Recipients
  <1>1. /\ survivors' \subseteq survivors \cup {new}
        /\ c = "ok" => survivors' = {new}
        /\ c = "untouched" => survivors' = survivors
    BY CommitEnds DEF CommitKeys
  <1>2. Parses(new) /\ DOMAIN new.wraps \subseteq Recipients
    BY ContentParses
  <1>3. revoked' \subseteq Recipients
    BY DEF Typed
  <1>4. EveryRecipientOpens'
    BY <1>1, <1>2 DEF EveryRecipientOpens
  <1>5. /\ \A x \in Recipients : knows[x] \subseteq knows'[x]
        /\ \A x \in Recipients : x \notin DOMAIN new.wraps => knows'[x] = knows[x]
        /\ c # "untouched" => \A x \in DOMAIN new.wraps : new.wraps[x] \in knows'[x]
    BY <1>2 DEF CommitKeys, Learn, Typed
  <1>6. \A x \in revoked' : x \in Recipients /\ knows'[x] = knows[x] /\ knows[x] # {}
    BY <1>3, <1>5 DEF Knowing, Typed
  <1>7. ASSUME NEW f \in survivors', Parses(f)
        PROVE  \A x \in DOMAIN f.wraps : f.wraps[x] \in knows'[x]
    <2>1. CASE f \in survivors
      <3>1. f \in Contents /\ DOMAIN f.wraps \subseteq Recipients
        BY <1>7, <2>1, ContentParses DEF Typed, Parses
      <3> QED BY <1>5, <1>7, <2>1, <3>1 DEF Knowing
    <2>2. CASE f \notin survivors
      BY <1>1, <1>5, <2>2
    <2> QED BY <2>1, <2>2
  <1>8. revoked' # {} => \A f \in survivors' : Parses(f)
    BY <1>1, <1>2 DEF Knowing
  <1>9. Knowing'
    BY <1>6, <1>7, <1>8 DEF Knowing
  <1>10. RemovalIsFinal'
    <2> SUFFICES ASSUME NEW f \in survivors', NEW x \in revoked', Parses(f)
                 PROVE  f.dek \notin knows[x]
      BY <1>6 DEF RemovalIsFinal
    <2>1. CASE f = new
      BY <2>1
    <2>2. CASE f # new
      BY <1>1, <2>2 DEF RemovalIsFinal
    <2> QED BY <2>1, <2>2
  <1> QED BY <1>3, <1>4, <1>9, <1>10

(***************************************************************************)
(* A removed recipient is not in the open vault, and nobody removed knows  *)
(* its key.                                                                *)
(***************************************************************************)
LEMMA OpenKeys ==
    ASSUME Typed, Settled, EveryRecipientOpens, Knowing, RemovalIsFinal, proc = "Open"
    PROVE  /\ open \in Contents /\ DOMAIN open.wraps # {}
           /\ \A x \in DOMAIN open.wraps :
                  x \in Recipients /\ open.wraps[x] = open.dek /\ open.dek \in knows[x]
           /\ \A x \in revoked : x \notin DOMAIN open.wraps /\ open.dek \notin knows[x]
  <1>1. /\ open \in Contents /\ open \in survivors /\ Parses(open)
        /\ DOMAIN open.wraps \subseteq Recipients
    BY ContentParses DEF Typed, Settled, Option
  <1>2. DOMAIN open.wraps # {} /\ \A x \in DOMAIN open.wraps : open.wraps[x] = open.dek
    BY <1>1 DEF EveryRecipientOpens
  <1>3. \A x \in DOMAIN open.wraps : open.wraps[x] \in knows[x]
    BY <1>1 DEF Knowing
  <1>4. \A x \in revoked : open.dek \notin knows[x]
    BY <1>1 DEF RemovalIsFinal
  <1> QED BY <1>1, <1>2, <1>3, <1>4

-----------------------------------------------------------------------------
(* Mutations of entries *)

\* What the methods return: an entry to write only if they succeed.
Returned(r) == r.out \in Outs /\ (r.out = "Ok" => r.entry \in Option(VaultEntries))

(***************************************************************************)
(* The open vault has what was acknowledged, or tried since; and the       *)
(* claims that were acknowledged and have not lapsed.                      *)
(***************************************************************************)
LEMMA OpenEntries ==
    ASSUME Typed, Settled, AcknowledgedSurvives, Fencing, Reading, proc = "Open"
    PROVE  /\ open \in Contents /\ open # None /\ open \in survivors
           /\ open.entries \in [Keys -> Option(VaultEntries)]
           /\ \A k \in Keys : open.entries[k] \in {acked[k]} \cup tried[k]
           /\ \A k \in Keys : (holder[k] # None /\ now < holder[k].expires_at) =>
                  open.entries[k] # None /\ open.entries[k].claim = holder[k]
           /\ \A k \in Keys : Follows(open, k) /\ (seen[k] # None => open.entries[k] # None)
  <1>1. /\ open \in Contents /\ open # None /\ open \in survivors /\ Parses(open)
        /\ open.entries \in [Keys -> Option(VaultEntries)]
    BY ContentParses DEF Typed, Settled, Option
  <1>2. \A k \in Keys : open.entries[k] \in {acked[k]} \cup tried[k]
    BY <1>1 DEF AcknowledgedSurvives
  <1>3. \A k \in Keys : (holder[k] # None /\ now < holder[k].expires_at) =>
           open.entries[k] # None /\ open.entries[k].claim = holder[k]
    BY <1>1 DEF Fencing
  <1>4. \A k \in Keys : Follows(open, k) /\ (seen[k] # None => open.entries[k] # None)
    BY <1>1 DEF Reading
  <1> QED BY <1>1, <1>2, <1>3, <1>4

(***************************************************************************)
(* A mutation keeps the types and, of keys, everything.                    *)
(***************************************************************************)
LEMMA MutationKeeps ==
    ASSUME Typed, Settled, EveryRecipientOpens, Knowing, RemovalIsFinal,
           NEW k \in Keys, NEW c \in Commits, NEW r, Returned(r), NEW op, NEW token,
           Mutate(op, k, r, token, c)
    PROVE  /\ file' \in Contents \cup {None, Torn}
           /\ survivors' \subseteq Contents \cup {None, Torn} /\ file' \in survivors'
           /\ proc' \in {"Down", "NotInitialized", "Locked", "Open"}
           /\ open' \in Option(Contents) /\ (open' # None <=> proc' = "Open")
           /\ now' \in Time /\ faults' \in Nat /\ reply'.out \in Outs
           /\ acked' \in [Keys -> Option(VaultEntries)]
           /\ tried' \in [Keys -> SUBSET Option(VaultEntries)]
           /\ knows' = knows /\ revoked' = revoked
           /\ Settled' /\ EveryRecipientOpens' /\ Knowing' /\ RemovalIsFinal'
  <1>1. proc = "Open" /\ open \in Contents /\ UNCHANGED <<now, knows, revoked>>
    BY DEF Mutate, Typed, Option
  <1>2. faults' \in Nat
    BY DEF Mutate, Counts, Typed
  <1>3. CASE r.out = "Ok"
    <2> DEFINE new == [open EXCEPT !.entries[k] = r.entry]
    <2>1. new \in Contents /\ new.dek = open.dek /\ new.wraps = open.wraps
      BY <1>1, <1>3, EntryWritten DEF Returned
    <2>2. Commit(c, new)
      BY <1>3 DEF Mutate
    <2> HIDE DEF new
    <2>3. /\ file' \in Contents /\ survivors' \subseteq Contents \cup {None, Torn}
          /\ file' \in survivors' /\ proc' \in {"Down", "Open"}
          /\ open' \in Option(Contents) /\ (open' # None <=> proc' = "Open")
          /\ Settled' /\ survivors' \subseteq survivors \cup {new}
      BY <1>1, <2>1, <2>2, CommitEnds
    <2>4. reply'.out \in Outs
      BY <1>3 DEF Mutate, Reply, OutOf, Outs, Commits
    <2>5. /\ acked' \in [Keys -> Option(VaultEntries)]
          /\ tried' \in [Keys -> SUBSET Option(VaultEntries)]
      BY <1>3 DEF Mutate, Typed, Returned, Commits
    <2>6. Parses(new) /\ Parses(open) /\ open \in survivors
      BY <1>1, <2>1, ContentParses DEF Settled
    <2>7. EveryRecipientOpens' /\ Knowing' /\ RemovalIsFinal'
      <3>1. \A f \in survivors' : f \in survivors \/
               \E g \in survivors : Parses(g) /\ Parses(f) /\ f.dek = g.dek /\ f.wraps = g.wraps
        BY <2>1, <2>3, <2>6
      <3> QED BY <1>1, <3>1, KeysSame
    <2> QED BY <1>1, <1>2, <2>3, <2>4, <2>5, <2>7 DEF Typed
  <1>4. CASE r.out # "Ok"
    <2>1. UNCHANGED <<file, survivors, proc, open, acked, tried>> /\ reply'.out = r.out
      BY <1>4 DEF Mutate, disk, daemon, Reply
    <2>2. EveryRecipientOpens' /\ Knowing' /\ RemovalIsFinal'
      BY <1>1, <2>1, KeysSame
    <2> QED BY <1>1, <1>2, <2>1, <2>2 DEF Typed, Settled, Returned, Parses
  <1> QED BY <1>3, <1>4

(***************************************************************************)
(* What is acknowledged is on disk; what is not, was tried.                *)
(***************************************************************************)
LEMMA MutationSurvives ==
    ASSUME Typed, Settled, AcknowledgedSurvives, Fencing, Reading,
           NEW k \in Keys, NEW c \in Commits, NEW r, Returned(r), NEW op, NEW token,
           Mutate(op, k, r, token, c)
    PROVE  AcknowledgedSurvives'
  <1>1. proc = "Open"
    BY DEF Mutate
  <1>2. CASE r.out = "Ok"
    <2> DEFINE new == [open EXCEPT !.entries[k] = r.entry]
    <2>1. /\ new \in Contents /\ new.entries[k] = r.entry
          /\ \A j \in Keys \ {k} : new.entries[j] = open.entries[j]
      BY <1>1, <1>2, OpenEntries, EntryWritten DEF Returned
    <2>2. Commit(c, new) /\ Parses(new)
      BY <1>2, <2>1, ContentParses DEF Mutate
    <2> HIDE DEF new
    <2>3. /\ survivors' \subseteq survivors \cup {new}
          /\ c = "ok" => survivors' = {new}
          /\ c = "untouched" => survivors' = survivors
      BY <1>1, <2>1, <2>2, CommitEnds
    <2>4. \A j \in Keys : open.entries[j] \in {acked[j]} \cup tried[j]
      BY <1>1, OpenEntries
    <2>5. CASE c = "ok"
      <3>1. acked' = [acked EXCEPT ![k] = r.entry] /\ tried' = [tried EXCEPT ![k] = {}]
        BY <1>2, <2>5 DEF Mutate
      <3> QED BY <2>1, <2>2, <2>3, <2>4, <2>5, <3>1 DEF AcknowledgedSurvives, Typed
    <2>6. CASE c = "untouched"
      <3>1. UNCHANGED <<acked, tried>>
        BY <1>2, <2>6 DEF Mutate
      <3> QED BY <2>3, <2>6, <3>1 DEF AcknowledgedSurvives
    <2>7. CASE c \in {"renamed", "died"}
      <3>1. acked' = acked /\ tried' = [tried EXCEPT ![k] = @ \cup {r.entry}]
        BY <1>2, <2>7 DEF Mutate
      <3>2. \A j \in Keys : tried[j] \subseteq tried'[j] /\ r.entry \in tried'[k]
        BY <3>1 DEF Typed
      <3>3. \A j \in Keys : new.entries[j] \in {acked[j]} \cup tried'[j]
        BY <2>1, <2>4, <3>2
      <3>4. ASSUME NEW f \in survivors', NEW j \in Keys
            PROVE  IF Parses(f) THEN f.entries[j] \in {acked[j]} \cup tried'[j] ELSE acked[j] = None
        <4>1. CASE f = new
          BY <2>2, <3>3, <4>1
        <4>2. CASE f \in survivors
          BY <3>2, <4>2 DEF AcknowledgedSurvives
        <4> QED BY <2>3, <4>1, <4>2
      <3> QED BY <3>1, <3>4 DEF AcknowledgedSurvives
    <2> QED BY <2>5, <2>6, <2>7 DEF Commits
  <1>3. CASE r.out # "Ok"
    BY <1>3 DEF Mutate, disk, AcknowledgedSurvives
  <1> QED BY <1>2, <1>3

(***************************************************************************)
(* An acknowledged claim is on disk, and only a mutation that ends it      *)
(* removes it.                                                             *)
(***************************************************************************)
LEMMA MutationFences ==
    ASSUME Typed, Settled, AcknowledgedSurvives, Fencing, Reading,
           NEW k \in Keys, NEW c \in Commits, NEW r, Returned(r), NEW op, NEW token,
           Mutate(op, k, r, token, c),
           \A j \in Keys \ {k} : holder'[j] = holder[j],
           \/ holder'[k] = None
           \/ /\ c = "ok" /\ r.out = "Ok" /\ r.entry # None
              /\ holder'[k] = r.entry.claim
           \/ /\ holder'[k] = holder[k]
              /\ r.out = "Ok" => ~(holder[k] # None /\ now < holder[k].expires_at)
    PROVE  Fencing'
  <1>1. proc = "Open" /\ now' = now
    BY DEF Mutate
  <1>2. CASE r.out = "Ok"
    <2> DEFINE new == [open EXCEPT !.entries[k] = r.entry]
    <2>1. /\ new \in Contents /\ new.entries[k] = r.entry
          /\ \A j \in Keys \ {k} : new.entries[j] = open.entries[j]
      BY <1>1, <1>2, OpenEntries, EntryWritten DEF Returned
    <2>2. Commit(c, new) /\ Parses(new)
      BY <1>2, <2>1, ContentParses DEF Mutate
    <2> HIDE DEF new
    <2>3. /\ survivors' \subseteq survivors \cup {new}
          /\ c = "ok" => survivors' = {new}
      BY <1>1, <2>1, <2>2, CommitEnds
    <2>4. \A j \in Keys : (holder[j] # None /\ now < holder[j].expires_at) =>
                open.entries[j] # None /\ open.entries[j].claim = holder[j]
      BY <1>1, OpenEntries
    <2> SUFFICES ASSUME NEW j \in Keys, holder'[j] # None, now < holder'[j].expires_at,
                        NEW f \in survivors'
                 PROVE  Parses(f) /\ f.entries[j] # None /\ f.entries[j].claim = holder'[j]
      BY <1>1 DEF Fencing
    <2>5. CASE j # k
      <3>1. CASE f = new
        BY <2>1, <2>2, <2>4, <2>5, <3>1
      <3>2. CASE f \in survivors
        BY <2>5, <3>2 DEF Fencing
      <3> QED BY <2>3, <3>1, <3>2
    <2>6. CASE j = k
      BY <1>2, <2>1, <2>2, <2>3, <2>6
    <2> QED BY <2>5, <2>6
  <1>3. CASE r.out # "Ok"
    <2>1. survivors' = survivors
      BY <1>3 DEF Mutate, disk
    <2>2. \A j \in Keys : holder'[j] \in {None, holder[j]}
      BY <1>3
    <2> QED BY <1>1, <2>1, <2>2 DEF Fencing
  <1> QED BY <1>2, <1>3

(***************************************************************************)
(* A mutation writes a higher version, or leaves version and value alone,  *)
(* or removes the entry together with what was read of it.                 *)
(***************************************************************************)
LEMMA MutationFollows ==
    ASSUME Typed, Settled, AcknowledgedSurvives, Fencing, Reading,
           NEW k \in Keys, NEW c \in Commits, NEW r, Returned(r), NEW op, NEW token,
           Mutate(op, k, r, token, c),
           \/ UNCHANGED seen /\ (c = "untouched" \/ r.out # "Ok")
           \/ /\ seen'[k] = None /\ \A j \in Keys \ {k} : seen'[j] = seen[j]
              /\ r.out = "Ok" => r.entry = None
           \/ /\ UNCHANGED seen /\ r.entry # None
              /\ open.entries[k] # None =>
                    \/ r.entry.version = open.entries[k].version + 1
                    \/ /\ r.entry.version = open.entries[k].version
                       /\ r.entry.value = open.entries[k].value
    PROVE  Reading'
  <1>1. /\ proc = "Open" /\ file \in Contents /\ Parses(file) /\ file # None
    BY DEF Mutate, Typed, Settled, Parses
  <1>2. \A j \in Keys : Follows(open, j) /\ (seen[j] # None => open.entries[j] # None)
    BY <1>1, OpenEntries
  <1>3. CASE r.out = "Ok"
    <2> DEFINE new == [open EXCEPT !.entries[k] = r.entry]
    <2>1. /\ new \in Contents /\ new.entries[k] = r.entry
          /\ \A j \in Keys \ {k} : new.entries[j] = open.entries[j]
          /\ open.entries[k] \in Option(VaultEntries)
      BY <1>1, <1>3, OpenEntries, EntryWritten DEF Returned
    <2>2. Commit(c, new) /\ Parses(new) /\ new # None
      BY <1>3, <2>1, ContentParses DEF Mutate
    <2> HIDE DEF new
    <2>3. /\ file' \in {file, new} /\ open' \in {open, new, None}
          /\ c = "untouched" => file' = file /\ open' \in {open, None}
          /\ c = "ok" => file' = new /\ open' = new
          /\ c # "ok" => open' \in {open, None}
      BY <1>1, <2>1, <2>2, CommitEnds DEF Commits
    <2>4. file' # None
      BY <1>1, <2>2, <2>3
    <2> DEFINE After(g, j) == Beyond(g.entries[j], seen'[j])
    <2>5. ASSUME NEW g, g \in {file, open} \/ (g = new /\ c # "untouched"), NEW j \in Keys
          PROVE  After(g, j) /\ ((g = open \/ (g = new /\ c # "untouched")) =>
                               (seen'[j] # None => g.entries[j] # None))
      <3>1. CASE j # k
        <4>1. seen'[j] = seen[j]
          BY <3>1
        <4>2. Follows(g, j) /\ ((g = open \/ (g = new /\ c # "untouched")) =>
                                (seen[j] # None => g.entries[j] # None))
          BY <1>1, <1>2, <2>1, <2>5, <3>1 DEF Reading, Follows, Beyond
        <4> QED BY <4>1, <4>2 DEF Follows, Beyond
      <3>2. CASE j = k /\ seen'[k] = None
        BY <3>2 DEF Beyond
      <3>3. CASE j = k /\ seen'[k] # None
        <4>1. seen' = seen
          BY <3>3
        <4>2. CASE g \in {file, open} /\ ~(g = new /\ c # "untouched")
          BY <1>1, <1>2, <4>1, <4>2 DEF Reading, Follows, Beyond
        <4>3. CASE g = new /\ c # "untouched"
          <5>1. /\ open.entries[k] # None /\ Follows(open, k) /\ r.entry # None
                /\ \/ r.entry.version = open.entries[k].version + 1
                   \/ /\ r.entry.version = open.entries[k].version
                      /\ r.entry.value = open.entries[k].value
            BY <1>2, <1>3, <3>3, <4>1, <4>3
          <5>2. open.entries[k].version \in Nat /\ seen[k].version \in Nat
            BY <2>1, <3>3, <4>1, <5>1 DEF Option, VaultEntries, Typed
          <5>3. Follows(new, k)
            BY <2>1, <3>3, <4>1, <5>1, <5>2 DEF Follows, Beyond
          <5> QED BY <2>1, <3>3, <4>1, <4>3, <5>1, <5>3 DEF Follows, Beyond
        <4> QED BY <2>5, <4>2, <4>3
      <3> QED BY <3>1, <3>2, <3>3
    <2> HIDE DEF After
    <2>6. \A j \in Keys : After(file', j)
      BY <2>3, <2>5
    <2>7. open' # None => open' = open \/ (open' = new /\ c # "untouched")
      BY <2>3
    <2>8. \A j \in Keys : open' # None =>
             After(open', j) /\ (seen'[j] # None => open'.entries[j] # None)
      BY <2>5, <2>7
    <2>9. \A j \in Keys : open' # None => Beyond(file'.entries[j], open'.entries[j])
      <3>1. \A j \in Keys : Beyond(file.entries[j], open.entries[j])
        BY <1>1 DEF Reading, Settled, Typed
      <3>2. \A j \in Keys : Beyond(new.entries[j], new.entries[j])
        <4>1. new.entries \in [Keys -> Option(VaultEntries)]
          BY <2>1, ContentParses
        <4> QED BY <4>1 DEF Beyond, Option, VaultEntries
      <3>3. ASSUME c # "untouched", NEW j \in Keys
            PROVE  Beyond(new.entries[j], open.entries[j])
        <4>1. open.entries[j] # None => open.entries[j].version \in Nat
          BY <1>1, OpenEntries DEF Option, VaultEntries
        <4>2. CASE j # k
          BY <2>1, <4>1, <4>2 DEF Beyond
        <4>3. CASE j = k
          BY <1>3, <2>1, <3>3, <4>1, <4>3 DEF Beyond
        <4> QED BY <4>2, <4>3
      <3>4. open' # None => \/ file' = new /\ open' = new
                            \/ open' = open /\ file' = file
                            \/ open' = open /\ file' = new /\ c # "untouched"
        BY <2>3
      <3> QED BY <3>1, <3>2, <3>3, <3>4
    <2> QED BY <2>4, <2>6, <2>8, <2>9 DEF Reading, Follows, After
  <1>4. CASE r.out # "Ok"
    <2>1. UNCHANGED <<file, open>>
      BY <1>4 DEF Mutate, disk, daemon
    <2>2. \A j \in Keys : seen'[j] \in {seen[j], None}
      BY <1>4
    <2> QED BY <1>1, <2>1, <2>2 DEF Reading, Follows, Beyond
  <1> QED BY <1>3, <1>4


-----------------------------------------------------------------------------
(* The operations on entries *)

\* r is what upsert returns, or upsert_cas with some expectation.
Wrote(r, e, new, token, t) ==
    \/ r = Upsert(e, new, token, t)
    \/ \E expected \in 0..MaxVersion : r = UpsertCas(e, new, expected, token, t)

(***************************************************************************)
(* The methods return an entry of the vault when they succeed.  A write    *)
(* assigns the next version; setting or ending a claim leaves version and  *)
(* value alone; and nothing but the holder of an active claim succeeds.    *)
(***************************************************************************)
LEMMA WriteReturns ==
    ASSUME NEW e \in Option(VaultEntries), NEW new \in Drafts, NEW token, NEW t,
           NEW r, Wrote(r, e, new, token, t)
    PROVE  /\ Returned(r)
           /\ r.out = "Ok" => /\ r.entry # None /\ r.entry.version = CurrentVersion(e) + 1
                              /\ ClaimAllows(e, token, t)
  <1>1. CurrentVersion(e) + 1 \in Nat
    BY DEF CurrentVersion, Option, VaultEntries
  <1>2. WriteEntry(e, new) \in VaultEntries /\ WriteEntry(e, new).version = CurrentVersion(e) + 1
    BY <1>1 DEF WriteEntry, VaultEntries, Drafts, Option
  <1>3. WriteEntry(e, new) # None /\ WriteEntry(e, new) \in Option(VaultEntries)
    BY <1>2, VaultConstants DEF Option
  <1> QED BY <1>2, <1>3 DEF Wrote, Upsert, UpsertCas, Outcome, Returned, Outs

LEMMA ClaimReturns ==
    ASSUME NEW e \in Option(VaultEntries), NEW expected, NEW token \in Tokens,
           NEW expires \in Time, NEW t,
           NEW r, r = ClaimRefresh(e, expected, token, expires, t)
    PROVE  /\ Returned(r)
           /\ r.out = "Ok" => /\ e # None /\ ~ClaimActive(e, t) /\ r.entry # None
                              /\ r.entry.claim = [token |-> token, expires_at |-> expires]
                              /\ r.entry.version = e.version /\ r.entry.value = e.value
  <1>1. CASE r.out # "Ok"
    BY <1>1 DEF ClaimRefresh, Outcome, Returned, Outs
  <1>2. CASE r.out = "Ok"
    <2>1. /\ e # None /\ ~ClaimActive(e, t)
          /\ r.entry = [e EXCEPT !.claim = [token |-> token, expires_at |-> expires]]
      BY <1>2 DEF ClaimRefresh, Outcome
    <2>2. e \in VaultEntries
      BY <2>1 DEF Option
    <2>3. r.entry \in VaultEntries
      BY <2>1, <2>2 DEF VaultEntries, Option, RefreshClaims
    <2>4. /\ r.entry.claim = [token |-> token, expires_at |-> expires]
          /\ r.entry.version = e.version /\ r.entry.value = e.value
      BY <2>1, <2>2 DEF VaultEntries
    <2> QED BY <1>2, <2>1, <2>3, <2>4, VaultConstants DEF Returned, Option, Outs
  <1> QED BY <1>1, <1>2

LEMMA ReleaseReturns ==
    ASSUME NEW e \in Option(VaultEntries), NEW token, NEW t,
           NEW r, r = ReleaseClaim(e, token, t)
    PROVE  /\ Returned(r)
           /\ r.out = "Ok" => /\ e # None /\ r.entry # None
                              /\ r.entry.version = e.version /\ r.entry.value = e.value
  <1>1. CASE r.out # "Ok"
    BY <1>1 DEF ReleaseClaim, Outcome, Returned, Outs
  <1>2. CASE r.out = "Ok"
    <2>1. e # None /\ r.entry = [e EXCEPT !.claim = None]
      BY <1>2 DEF ReleaseClaim, Outcome
    <2>2. e \in VaultEntries
      BY <2>1 DEF Option
    <2>3. r.entry \in VaultEntries
      BY <2>1, <2>2 DEF VaultEntries, Option
    <2>4. r.entry.version = e.version /\ r.entry.value = e.value
      BY <2>1, <2>2 DEF VaultEntries
    <2> QED BY <1>2, <2>1, <2>3, <2>4, VaultConstants DEF Returned, Option, Outs
  <1> QED BY <1>1, <1>2

LEMMA DeleteReturns ==
    ASSUME NEW e \in Option(VaultEntries), NEW r, r = DeleteEntry(e)
    PROVE  Returned(r) /\ (r.out = "Ok" => r.entry = None)
  BY DEF DeleteEntry, Outcome, Returned, Outs, Option

(***************************************************************************)
(* The promises a step keeps.                                              *)
(***************************************************************************)
LEMMA MutationDone ==
    ASSUME IInv, NEW k \in Keys, NEW c \in Commits, NEW r, Returned(r), NEW op, NEW token,
           Mutate(op, k, r, token, c), holder' \in [Keys -> Option(RefreshClaims)],
           seen' \in [Keys -> Option([value : Values, version : Nat])], Fencing', Reading'
    PROVE  IInv'
  <1>1. Typed'
    BY MutationKeeps DEF IInv, Typed
  <1>2. Settled' /\ EveryRecipientOpens' /\ Knowing' /\ RemovalIsFinal'
    BY MutationKeeps DEF IInv
  <1>3. AcknowledgedSurvives'
    BY MutationSurvives DEF IInv
  <1> QED BY <1>1, <1>2, <1>3 DEF IInv

(***************************************************************************)
(* upsert, and upsert_cas, which adds the version its caller expects.      *)
(***************************************************************************)
LEMMA WriteStep ==
    ASSUME IInv, NEW k \in Keys, NEW c \in Commits, NEW new \in Drafts, NEW token,
           \/ DoUpsert(k, new, token, c)
           \/ \E expected \in 0..MaxVersion : DoUpsertCas(k, new, expected, token, c)
    PROVE  IInv'
  <1>1. proc = "Open"
    BY DEF DoUpsert, DoUpsertCas, CanWrite
  <1>2. open.entries[k] \in Option(VaultEntries)
    BY <1>1, OpenEntries DEF IInv
  <1>3. PICK op, r :
            /\ Wrote(r, open.entries[k], new, token, now)
            /\ Mutate(op, k, r, token, c) /\ EndsClaim(k, r) /\ UNCHANGED seen
    BY DEF DoUpsert, DoUpsertCas, Wrote
  <1>4. /\ Returned(r)
        /\ r.out = "Ok" => /\ r.entry # None
                           /\ r.entry.version = CurrentVersion(open.entries[k]) + 1
    BY <1>2, <1>3, WriteReturns
  <1>5. holder' = IF r.out = "Ok" THEN [holder EXCEPT ![k] = None] ELSE holder
    BY <1>3 DEF EndsClaim
  <1>6. holder' \in [Keys -> Option(RefreshClaims)] /\ \A j \in Keys \ {k} : holder'[j] = holder[j]
        /\ \/ holder'[k] = None
           \/ /\ holder'[k] = holder[k]
              /\ r.out = "Ok" => ~(holder[k] # None /\ now < holder[k].expires_at)
    BY <1>5 DEF IInv, Typed, Option
  <1>7. Fencing'
    <2>1. CASE holder'[k] = None
      BY <1>3, <1>4, <1>6, <2>1, MutationFences DEF IInv
    <2>2. CASE holder'[k] # None
      <3>1. holder'[k] = holder[k] /\ r.out # "Ok"
        BY <1>5, <2>2 DEF IInv, Typed
      <3> QED BY <1>3, <1>4, <1>6, <3>1, MutationFences DEF IInv
    <2> QED BY <2>1, <2>2
  <1>8. Reading'
    <2>1. CASE r.out = "Ok"
      <3>1. open.entries[k] # None => r.entry.version = open.entries[k].version + 1
        BY <1>4, <2>1 DEF CurrentVersion
      <3> QED BY <1>3, <1>4, <2>1, <3>1, MutationFollows DEF IInv
    <2>2. CASE r.out # "Ok"
      BY <1>3, <1>4, <2>2, MutationFollows DEF IInv
    <2> QED BY <2>1, <2>2
  <1> QED BY <1>3, <1>4, <1>6, <1>7, <1>8, MutationDone DEF IInv, Typed

(***************************************************************************)
(* claim_refresh: the claim is acknowledged with the entry that carries    *)
(* it.                                                                     *)
(***************************************************************************)
LEMMA ClaimStep ==
    ASSUME IInv, NEW k \in Keys, NEW c \in Commits, NEW expected, NEW token \in Tokens,
           NEW ttl \in ClaimTtls, DoClaimRefresh(k, expected, token, ttl, c)
    PROVE  IInv'
  <1>1. proc = "Open" /\ now + ttl \in Time
    BY VaultConstants DEF DoClaimRefresh, IInv, Typed, Time
  <1>2. open.entries[k] \in Option(VaultEntries)
    BY <1>1, OpenEntries DEF IInv
  <1>3. PICK r :
            /\ r = ClaimRefresh(open.entries[k], expected, token, now + ttl, now)
            /\ Mutate("claim_refresh", k, r, token, c) /\ UNCHANGED seen
            /\ holder' = IF r.out = "Ok" /\ c = "ok"
                         THEN [holder EXCEPT ![k] = [token |-> token, expires_at |-> now + ttl]]
                         ELSE holder
    BY DEF DoClaimRefresh
  <1>4. /\ Returned(r)
        /\ r.out = "Ok" =>
              /\ open.entries[k] # None /\ ~ClaimActive(open.entries[k], now) /\ r.entry # None
              /\ r.entry.claim = [token |-> token, expires_at |-> now + ttl]
              /\ r.entry.version = open.entries[k].version
              /\ r.entry.value = open.entries[k].value
    BY <1>1, <1>2, <1>3, ClaimReturns
  <1>5. [token |-> token, expires_at |-> now + ttl] \in Option(RefreshClaims)
    BY <1>1 DEF RefreshClaims, Option
  <1>6. /\ holder' \in [Keys -> Option(RefreshClaims)]
        /\ \A j \in Keys \ {k} : holder'[j] = holder[j]
        /\ \/ /\ c = "ok" /\ r.out = "Ok"
              /\ holder'[k] = [token |-> token, expires_at |-> now + ttl]
           \/ holder'[k] = holder[k]
    BY <1>3, <1>5 DEF IInv, Typed
  <1>7. r.out = "Ok" => ~(holder[k] # None /\ now < holder[k].expires_at)
    <2> SUFFICES ASSUME r.out = "Ok", holder[k] # None, now < holder[k].expires_at
                 PROVE  FALSE
      OBVIOUS
    <2>1. open.entries[k] # None /\ open.entries[k].claim = holder[k]
      BY <1>1, OpenEntries DEF IInv
    <2> QED BY <1>4, <2>1 DEF ClaimActive
  <1>8. Fencing'
    BY <1>3, <1>4, <1>6, <1>7, MutationFences DEF IInv
  <1>9. Reading'
    BY <1>3, <1>4, MutationFollows DEF IInv
  <1> QED BY <1>3, <1>4, <1>6, <1>8, <1>9, MutationDone DEF IInv, Typed

(***************************************************************************)
(* release_claim: a claim that is given up is not acknowledged any more.   *)
(***************************************************************************)
LEMMA ReleaseStep ==
    ASSUME IInv, NEW k \in Keys, NEW c \in Commits, NEW token \in Tokens,
           DoReleaseClaim(k, token, c)
    PROVE  IInv'
  <1>1. open.entries[k] \in Option(VaultEntries)
    BY OpenEntries DEF IInv, DoReleaseClaim
  <1>2. PICK r :
            /\ r = ReleaseClaim(open.entries[k], token, now)
            /\ Mutate("release_claim", k, r, token, c) /\ EndsClaim(k, r) /\ UNCHANGED seen
    BY DEF DoReleaseClaim
  <1>3. /\ Returned(r)
        /\ r.out = "Ok" => /\ open.entries[k] # None /\ r.entry # None
                           /\ r.entry.version = open.entries[k].version
                           /\ r.entry.value = open.entries[k].value
    BY <1>1, <1>2, ReleaseReturns
  <1>4. /\ holder' \in [Keys -> Option(RefreshClaims)]
        /\ \A j \in Keys \ {k} : holder'[j] = holder[j]
        /\ holder'[k] = None \/ (holder'[k] = holder[k] /\ r.out # "Ok")
    BY <1>2 DEF EndsClaim, IInv, Typed, Option
  <1>5. Fencing'
    <2>1. CASE holder'[k] = None
      BY <1>2, <1>3, <1>4, <2>1, MutationFences DEF IInv
    <2>2. CASE holder'[k] = holder[k] /\ r.out # "Ok"
      BY <1>2, <1>3, <1>4, <2>2, MutationFences DEF IInv
    <2> QED BY <1>4, <2>1, <2>2
  <1>6. Reading'
    BY <1>2, <1>3, MutationFollows DEF IInv
  <1> QED BY <1>2, <1>3, <1>4, <1>5, <1>6, MutationDone DEF IInv, Typed

(***************************************************************************)
(* delete: what was read of the entry and claimed of it goes with it.      *)
(***************************************************************************)
LEMMA DeleteStep ==
    ASSUME IInv, NEW k \in Keys, NEW c \in Commits, DoDelete(k, c)
    PROVE  IInv'
  <1>1. open.entries[k] \in Option(VaultEntries)
    BY OpenEntries DEF IInv, DoDelete
  <1>2. PICK r :
            /\ r = DeleteEntry(open.entries[k])
            /\ Mutate("delete", k, r, None, c) /\ EndsClaim(k, r)
            /\ seen' = IF r.out = "Ok" /\ c # "untouched" THEN [seen EXCEPT ![k] = None] ELSE seen
    BY DEF DoDelete
  <1>3. Returned(r) /\ (r.out = "Ok" => r.entry = None)
    BY <1>1, <1>2, DeleteReturns
  <1>4. /\ holder' \in [Keys -> Option(RefreshClaims)]
        /\ \A j \in Keys \ {k} : holder'[j] = holder[j]
        /\ holder'[k] = None \/ (holder'[k] = holder[k] /\ r.out # "Ok")
    BY <1>2 DEF EndsClaim, IInv, Typed, Option
  <1>5. Fencing'
    <2>1. CASE holder'[k] = None
      BY <1>2, <1>3, <1>4, <2>1, MutationFences DEF IInv
    <2>2. CASE holder'[k] = holder[k] /\ r.out # "Ok"
      BY <1>2, <1>3, <1>4, <2>2, MutationFences DEF IInv
    <2> QED BY <1>4, <2>1, <2>2
  <1>6. Reading' /\ seen' \in [Keys -> Option([value : Values, version : Nat])]
    <2>1. CASE r.out = "Ok" /\ c # "untouched"
      <3>1. /\ seen'[k] = None /\ \A j \in Keys \ {k} : seen'[j] = seen[j]
            /\ seen' \in [Keys -> Option([value : Values, version : Nat])]
        BY <1>2, <2>1 DEF IInv, Typed, Option
      <3> QED BY <1>2, <1>3, <3>1, MutationFollows DEF IInv
    <2>2. CASE r.out # "Ok" \/ c = "untouched"
      <3>1. seen' = seen
        BY <1>2, <2>2
      <3> QED BY <1>2, <1>3, <2>2, <3>1, MutationFollows DEF IInv, Typed
    <2> QED BY <2>1, <2>2
  <1> QED BY <1>2, <1>3, <1>4, <1>5, <1>6, MutationDone DEF IInv, Typed

-----------------------------------------------------------------------------
(* The other operations *)

(***************************************************************************)
(* The clock, a start, a crash, a lock: the disk and what is known of it   *)
(* stay.                                                                   *)
(***************************************************************************)
LEMMA DaemonStep ==
    ASSUME IInv, Tick \/ Start \/ Crash \/ Lock
    PROVE  IInv'
  <1>1. UNCHANGED <<disk, faults, history>>
    BY DEF Tick, Start, Crash, Lock, daemon
  <1>2. now' \in Nat /\ now' >= now /\ reply'.out \in Outs
    BY DEF Tick, Start, Crash, Lock, daemon, IInv, Typed, Time, Silence, Reply, Outs
  <1>3. \/ UNCHANGED <<proc, open>>
        \/ proc = "Down" /\ file # Torn /\ open' = open
           /\ proc' = IF file = None THEN "NotInitialized" ELSE "Locked"
        \/ proc' = "Down" /\ open' = None
        \/ proc = "Open" /\ proc' = "Locked" /\ open' = None
    BY DEF Tick, Start, Crash, Lock, daemon
  <1>4. Typed'
    BY <1>1, <1>2, <1>3 DEF IInv, Typed, Time, Option, disk, history
  <1>5. Settled'
    BY <1>1, <1>3 DEF IInv, Typed, Settled, Parses, disk, Option
  <1>6. EveryRecipientOpens' /\ Knowing' /\ RemovalIsFinal'
    BY <1>1, KeysSame DEF IInv, disk, history
  <1>7. AcknowledgedSurvives' /\ Fencing'
    BY <1>1, <1>2, EntriesSame DEF IInv, disk, history
  <1>8. Reading'
    BY <1>1, <1>3 DEF IInv, Reading, Follows, Beyond, disk, history
  <1> QED BY <1>4, <1>5, <1>6, <1>7, <1>8 DEF IInv

(***************************************************************************)
(* A power loss picks one of the files that may survive.                   *)
(***************************************************************************)
LEMMA PowerLossStep ==
    ASSUME IInv, PowerLoss
    PROVE  IInv'
  <1>1. PICK f \in survivors : file' = f /\ survivors' = {f}
    BY DEF PowerLoss
  <1>2. /\ proc' = "Down" /\ open' = None /\ faults' = faults + 1
        /\ seen' = [k \in Keys |-> None] /\ reply' = Silence
        /\ UNCHANGED <<now, acked, tried, holder, knows, revoked>>
    BY DEF PowerLoss
  <1>3. Typed'
    BY <1>1, <1>2 DEF IInv, Typed, Option, Silence, Reply, Outs
  <1>4. Settled'
    BY <1>1, <1>2 DEF Settled
  <1>5. EveryRecipientOpens' /\ Knowing' /\ RemovalIsFinal'
    BY <1>1, <1>2, KeysSame DEF IInv
  <1>6. AcknowledgedSurvives' /\ Fencing'
    <2>1. now' \in Nat /\ now' >= now
      BY <1>2 DEF IInv, Typed, Time
    <2> QED BY <1>1, <1>2, <2>1, EntriesSame DEF IInv
  <1>7. Reading'
    BY <1>2 DEF Reading, Follows, Beyond
  <1> QED BY <1>3, <1>4, <1>5, <1>6, <1>7 DEF IInv

(***************************************************************************)
(* The vault is opened: an unlock, or a hand-over that succeeds.           *)
(***************************************************************************)
LEMMA OpenStep ==
    ASSUME IInv, HandOver \/ \E r \in Recipients : Unlock(r)
    PROVE  IInv'
  <1>1. UNCHANGED <<disk, now, faults, acked, tried, holder, knows, revoked>>
    BY DEF HandOver, Unlock
  <1>2. file \in Contents /\ Parses(file) /\ file # None
        /\ file.entries \in [Keys -> Option(VaultEntries)]
    BY ContentParses DEF HandOver, Unlock, IInv, Typed, Settled, Parses
  <1>3. \/ proc' = "Open" /\ open' = file /\ seen' = StillThere(file)
        \/ proc' = "Locked" /\ open' = None /\ UNCHANGED seen
    BY DEF HandOver, Unlock, daemon, IInv, Typed
  <1>4. reply'.out \in Outs
    BY DEF HandOver, Unlock, Reply, Outs
  <1>5. seen' \in [Keys -> Option([value : Values, version : Nat])]
    BY <1>3 DEF StillThere, IInv, Typed, Option
  <1>6. Typed'
    BY <1>1, <1>2, <1>3, <1>4, <1>5 DEF IInv, Typed, Option, disk
  <1>7. Settled'
    BY <1>1, <1>2, <1>3 DEF IInv, Typed, Settled, disk
  <1>8. EveryRecipientOpens' /\ Knowing' /\ RemovalIsFinal'
    BY <1>1, KeysSame DEF IInv, disk
  <1>9. AcknowledgedSurvives' /\ Fencing'
    <2>1. now' \in Nat /\ now' >= now
      BY <1>1 DEF IInv, Typed, Time
    <2> QED BY <1>1, <2>1, EntriesSame DEF IInv, disk
  <1>10. Reading'
    <2>1. CASE seen' = StillThere(file) /\ open' = file
      <3>1. \A k \in Keys : /\ seen'[k] # None => seen'[k] = seen[k] /\ file.entries[k] # None
                            /\ Follows(file, k)
                            /\ Beyond(file.entries[k], file.entries[k])
        <4>1. \A k \in Keys : Beyond(file.entries[k], file.entries[k])
          BY <1>2 DEF Beyond, Option, VaultEntries
        <4> QED BY <1>2, <2>1, <4>1 DEF StillThere, IInv, Reading
      <3> QED BY <1>1, <1>2, <2>1, <3>1 DEF Reading, Follows, Beyond, disk
    <2>2. CASE UNCHANGED seen /\ open' = None
      BY <1>1, <1>2, <2>2 DEF IInv, Reading, Follows, Beyond, disk
    <2> QED BY <1>3, <2>1, <2>2
  <1> QED BY <1>6, <1>7, <1>8, <1>9, <1>10 DEF IInv

(***************************************************************************)
(* A read returns what the open vault has.                                 *)
(***************************************************************************)
LEMMA ReadStep ==
    ASSUME IInv, NEW k \in Keys, Read(k)
    PROVE  IInv'
  <1>1. /\ proc = "Open" /\ reply' = Reply("entry", k, "Ok", None)
        /\ UNCHANGED <<disk, daemon, now, faults, acked, tried, holder, knows, revoked>>
        /\ seen' = [seen EXCEPT ![k] = IF open.entries[k] = None THEN None
                                       ELSE [value   |-> open.entries[k].value,
                                             version |-> open.entries[k].version]]
    BY DEF Read
  <1>2. /\ open \in Contents /\ open.entries \in [Keys -> Option(VaultEntries)]
        /\ \A j \in Keys : Follows(open, j) /\ (seen[j] # None => open.entries[j] # None)
    BY <1>1, OpenEntries DEF IInv
  <1>3. seen' \in [Keys -> Option([value : Values, version : Nat])]
    <2>1. open.entries[k] # None => [value   |-> open.entries[k].value,
                                     version |-> open.entries[k].version]
                                       \in [value : Values, version : Nat]
      BY <1>2 DEF Option, VaultEntries
    <2> QED BY <1>1, <2>1 DEF IInv, Typed, Option
  <1>4. Typed' /\ Settled'
    BY <1>1, <1>3 DEF IInv, Typed, Settled, disk, daemon, Reply, Outs, Parses
  <1>5. EveryRecipientOpens' /\ Knowing' /\ RemovalIsFinal'
    BY <1>1, KeysSame DEF IInv, disk
  <1>6. AcknowledgedSurvives' /\ Fencing'
    <2>1. now' \in Nat /\ now' >= now
      BY <1>1 DEF IInv, Typed, Time
    <2> QED BY <1>1, <2>1, EntriesSame DEF IInv, disk
  <1>7. Reading'
    <2>1. /\ Parses(file) /\ open # None /\ file # None
          /\ \A j \in Keys : Follows(file, j) /\ Beyond(file.entries[j], open.entries[j])
      BY <1>1 DEF IInv, Typed, Settled, Reading, Parses
    <2>2. ASSUME NEW j \in Keys
          PROVE  /\ Beyond(file.entries[j], seen'[j]) /\ Beyond(open.entries[j], seen'[j])
                 /\ seen'[j] # None => open.entries[j] # None
      <3>1. CASE j # k
        <4>1. seen'[j] = seen[j]
          BY <1>1, <3>1 DEF IInv, Typed
        <4> QED BY <1>2, <2>1, <4>1 DEF Follows
      <3>2. CASE j = k /\ open.entries[k] = None
        <4>1. seen'[j] = None
          BY <1>1, <3>2 DEF IInv, Typed
        <4> QED BY <4>1 DEF Beyond
      <3>3. CASE j = k /\ open.entries[k] # None
        <4>1. seen'[j] = [value |-> open.entries[k].value, version |-> open.entries[k].version]
          BY <1>1, <3>3 DEF IInv, Typed
        <4>2. open.entries[k].version \in Nat
          BY <1>2, <3>3 DEF Option, VaultEntries
        <4> QED BY <2>1, <3>3, <4>1, <4>2 DEF Beyond
      <3> QED BY <3>1, <3>2, <3>3
    <2> QED BY <1>1, <2>1, <2>2 DEF Reading, Follows, disk, daemon
  <1> QED BY <1>4, <1>5, <1>6, <1>7 DEF IInv

(***************************************************************************)
(* A vault is only initialized before there is a file: nothing has been    *)
(* acknowledged, claimed, read or removed.                                 *)
(***************************************************************************)
LEMMA InitializeStep ==
    ASSUME IInv, NEW r \in Recipients, NEW d \in Deks, NEW c \in Commits, Initialize(r, d, c)
    PROVE  IInv'
  <1> DEFINE new == [dek |-> d, wraps |-> [x \in {r} |-> d], entries |-> [k \in Keys |-> None]]
  <1>1. /\ proc = "NotInitialized" /\ Counts(c)
        /\ UNCHANGED <<now, acked, tried, holder, seen, revoked>>
        /\ reply' = Reply("initialize", None, OutOf(c), None)
        /\ \/ /\ c = "ok" /\ file' = new /\ survivors' = {new}
              /\ proc' = "Open" /\ open' = new /\ Learn(new)
           \/ /\ c = "died" /\ file' \in {Torn, new} /\ survivors' = {None, Torn, new}
              /\ proc' = "Down" /\ Learn(new) /\ UNCHANGED open
           \/ UNCHANGED <<disk, daemon, knows>>
    BY DEF Initialize, Commits
  <1>2. /\ new \in Contents /\ new.dek = d /\ DOMAIN new.wraps = {r} /\ new.wraps[r] = d
        /\ \A k \in Keys : new.entries[k] = None
    BY FirstContent
  <1>3. new # None /\ new # Torn /\ Parses(new) /\ ~Parses(None) /\ ~Parses(Torn) /\ Torn # None
    BY <1>2, VaultConstants DEF Parses
  <1> HIDE DEF new
  <1>4. file = None /\ survivors = {None} /\ open = None
    BY <1>1 DEF IInv, Typed, Settled
  <1>5. /\ \A k \in Keys : acked[k] = None /\ seen[k] = None
        /\ \A k \in Keys : ~(holder[k] # None /\ now < holder[k].expires_at)
        /\ revoked = {}
    <2>1. \A k \in Keys : acked[k] = None
      BY <1>3, <1>4 DEF IInv, AcknowledgedSurvives
    <2>2. \A k \in Keys : ~(holder[k] # None /\ now < holder[k].expires_at)
      BY <1>3, <1>4 DEF IInv, Fencing
    <2>3. revoked = {}
      BY <1>3, <1>4 DEF IInv, Knowing
    <2> QED BY <1>4, <2>1, <2>2, <2>3 DEF IInv, Reading
  <1>6. /\ file' \in {file, new, Torn}
        /\ survivors' \subseteq {None, Torn, new} /\ file' \in survivors'
        /\ proc' \in {"Down", "NotInitialized", "Open"}
        /\ proc' = "Open" => open' = new /\ file' = new /\ survivors' = {new}
        /\ proc' # "Open" => open' = None
        /\ proc' = "NotInitialized" => file' = None
        /\ file' = None => survivors' = {None}
        /\ survivors' = {None} \/ Learn(new)
        /\ knows' = knows \/ Learn(new)
    BY <1>1, <1>3, <1>4 DEF disk, daemon
  <1>7. knows' \in [Recipients -> SUBSET Deks] /\ (Learn(new) => d \in knows'[r])
    BY <1>2, <1>6 DEF Learn, IInv, Typed
  <1>8. Typed'
    <2>1. faults' \in Nat /\ reply'.out \in Outs
      BY <1>1 DEF Counts, Reply, OutOf, Outs, Commits, IInv, Typed
    <2> QED BY <1>1, <1>2, <1>3, <1>4, <1>6, <1>7, <2>1 DEF IInv, Typed, Option
  <1>9. Settled'
    BY <1>1, <1>3, <1>6 DEF Settled
  <1>10. EveryRecipientOpens' /\ RemovalIsFinal'
    BY <1>1, <1>2, <1>3, <1>5, <1>6 DEF EveryRecipientOpens, RemovalIsFinal
  <1>11. Knowing'
    BY <1>1, <1>2, <1>3, <1>5, <1>6, <1>7 DEF Knowing
  <1>12. AcknowledgedSurvives' /\ Fencing'
    BY <1>1, <1>2, <1>3, <1>5, <1>6 DEF AcknowledgedSurvives, Fencing
  <1>13. Reading'
    BY <1>1, <1>2, <1>5, <1>6 DEF Reading, Follows, Beyond
  <1> QED BY <1>8, <1>9, <1>10, <1>11, <1>12, <1>13 DEF IInv

(***************************************************************************)
(* Operations on keys leave the entries alone.                             *)
(***************************************************************************)
LEMMA KeysDone ==
    ASSUME IInv, proc = "Open", NEW new \in Contents, NEW c \in Commits, NEW op,
           CommitKeys(op, new, c), new.entries = open.entries,
           EveryRecipientOpens', Knowing', RemovalIsFinal', revoked' \subseteq Recipients
    PROVE  IInv'
  <1>1. Commit(c, new) /\ UNCHANGED <<now, acked, tried, holder, seen>>
    BY DEF CommitKeys
  <1>2. /\ file' \in Contents /\ survivors' \subseteq Contents \cup {None, Torn}
        /\ file' \in survivors' /\ proc' \in {"Down", "Open"}
        /\ open' \in Option(Contents) /\ (open' # None <=> proc' = "Open")
        /\ Settled' /\ survivors' \subseteq survivors \cup {new}
        /\ c = "ok" => file' = new /\ open' = new
        /\ file' \in {file, new} /\ (c # "ok" => open' \in {open, None})
    BY <1>1, CommitEnds DEF IInv
  <1>3. /\ open \in Contents /\ open # None /\ open \in survivors /\ Parses(open) /\ Parses(new)
        /\ file # None /\ Parses(file) /\ new # None
        /\ open.entries \in [Keys -> Option(VaultEntries)]
    BY OpenEntries, ContentParses DEF IInv, Settled, Parses
  <1>4. Typed'
    <2>1. faults' \in Nat /\ reply'.out \in Outs
      BY DEF CommitKeys, Counts, Reply, OutOf, Outs, Commits, IInv, Typed
    <2>2. knows' \in [Recipients -> SUBSET Deks]
      BY ContentParses DEF CommitKeys, Learn, IInv, Typed
    <2> QED BY <1>1, <1>2, <2>1, <2>2 DEF IInv, Typed
  <1>5. AcknowledgedSurvives' /\ Fencing'
    <2>1. now' \in Nat /\ now' >= now
      BY <1>1 DEF IInv, Typed, Time
    <2>2. \A f \in survivors' : f \in survivors \/
             \E g \in survivors : Parses(g) /\ Parses(f) /\ f.entries = g.entries
      BY <1>2, <1>3
    <2> QED BY <1>1, <2>1, <2>2, EntriesSame DEF IInv
  <1>6. Reading'
    <2> SUFFICES ASSUME NEW k \in Keys
                 PROVE  /\ Beyond(file'.entries[k], seen[k])
                        /\ open' # None => /\ Beyond(open'.entries[k], seen[k])
                                           /\ seen[k] # None => open'.entries[k] # None
                                           /\ Beyond(file'.entries[k], open'.entries[k])
      BY <1>1, <1>2, <1>3 DEF Reading, Follows
    <2>1. /\ Beyond(file.entries[k], seen[k]) /\ Beyond(open.entries[k], seen[k])
          /\ seen[k] # None => open.entries[k] # None
          /\ Beyond(file.entries[k], open.entries[k])
      BY <1>3 DEF IInv, Reading, Follows
    <2>2. Beyond(open.entries[k], open.entries[k])
      BY <1>3 DEF Beyond, Option, VaultEntries
    <2> QED BY <1>2, <2>1, <2>2
  <1> QED BY <1>2, <1>4, <1>5, <1>6 DEF IInv

(***************************************************************************)
(* A slot is added for a recipient that never knew a key.                  *)
(***************************************************************************)
LEMMA AddSlotStep ==
    ASSUME IInv, NEW r \in Recipients, NEW c \in Commits, AddSlot(r, c)
    PROVE  IInv'
  <1> DEFINE w   == [x \in DOMAIN open.wraps \cup {r} |->
                        IF x = r THEN open.dek ELSE open.wraps[x]]
             new == [open EXCEPT !.wraps = w]
  <1>1. /\ open \in Contents /\ DOMAIN open.wraps # {}
        /\ \A x \in DOMAIN open.wraps :
               x \in Recipients /\ open.wraps[x] = open.dek /\ open.dek \in knows[x]
        /\ \A x \in revoked : x \notin DOMAIN open.wraps /\ open.dek \notin knows[x]
    BY OpenKeys DEF IInv, AddSlot
  <1>2. new \in Contents /\ new.dek = open.dek /\ new.wraps = w /\ new.entries = open.entries
    BY <1>1, SlotAdded
  <1>3. proc = "Open" /\ knows[r] = {} /\ CommitKeys("add_slot", new, c) /\ revoked' = revoked
    BY DEF AddSlot
  <1>4. DOMAIN w = DOMAIN open.wraps \cup {r} /\ \A x \in DOMAIN w : w[x] = open.dek
    BY <1>1
  <1> HIDE DEF w, new
  <1>5. r \notin revoked
    BY <1>3 DEF IInv, Knowing
  <1>6. EveryRecipientOpens' /\ Knowing' /\ RemovalIsFinal' /\ revoked' \subseteq Recipients
    <2>1. /\ DOMAIN new.wraps # {} /\ \A x \in DOMAIN new.wraps : new.wraps[x] = new.dek
          /\ \A x \in revoked : x \notin DOMAIN new.wraps /\ new.dek \notin knows[x]
      BY <1>1, <1>2, <1>4, <1>5
    <2> QED BY <1>2, <1>3, <2>1, KeysCommitted DEF IInv
  <1> QED BY <1>2, <1>3, <1>6, KeysDone

(***************************************************************************)
(* A rotation uses a key nobody has known.                                 *)
(***************************************************************************)
LEMMA RotateStep ==
    ASSUME IInv, NEW d \in Deks, NEW c \in Commits, RotateDek(d, c)
    PROVE  IInv'
  <1> DEFINE new == RotateOnto(DOMAIN open.wraps, d)
  <1>1. /\ open \in Contents /\ DOMAIN open.wraps # {}
        /\ DOMAIN open.wraps \in SUBSET Recipients
        /\ \A x \in revoked : x \notin DOMAIN open.wraps
    BY OpenKeys DEF IInv, RotateDek
  <1>2. /\ new \in Contents /\ new.dek = d /\ new.entries = open.entries
        /\ DOMAIN new.wraps = DOMAIN open.wraps /\ \A x \in DOMAIN new.wraps : new.wraps[x] = d
    BY <1>1, Rotated
  <1>3. proc = "Open" /\ Fresh(d) /\ CommitKeys("rotate_dek", new, c) /\ revoked' = revoked
    BY DEF RotateDek
  <1> HIDE DEF new
  <1>4. EveryRecipientOpens' /\ Knowing' /\ RemovalIsFinal' /\ revoked' \subseteq Recipients
    <2>1. /\ DOMAIN new.wraps # {} /\ \A x \in DOMAIN new.wraps : new.wraps[x] = new.dek
          /\ \A x \in revoked : x \notin DOMAIN new.wraps /\ new.dek \notin knows[x]
      BY <1>1, <1>2, <1>3 DEF Fresh, IInv, Typed
    <2> QED BY <1>2, <1>3, <2>1, KeysCommitted DEF IInv
  <1> QED BY <1>2, <1>3, <1>4, KeysDone

(***************************************************************************)
(* A removal rotates for those who stay.                                   *)
(***************************************************************************)
LEMMA RemoveStep ==
    ASSUME IInv, NEW r \in Recipients, NEW d \in Deks, NEW c \in Commits, RemoveSlot(r, d, c)
    PROVE  IInv'
  <1> DEFINE new == RotateOnto(DOMAIN open.wraps \ {r}, d)
  <1>1. /\ open \in Contents /\ DOMAIN open.wraps \in SUBSET Recipients
        /\ \A x \in DOMAIN open.wraps : open.dek \in knows[x]
        /\ \A x \in revoked : x \notin DOMAIN open.wraps
    BY OpenKeys DEF IInv, RemoveSlot
  <1>2. /\ new \in Contents /\ new.dek = d /\ new.entries = open.entries
        /\ DOMAIN new.wraps = DOMAIN open.wraps \ {r}
        /\ \A x \in DOMAIN new.wraps : new.wraps[x] = d
    <2>1. DOMAIN open.wraps \ {r} \in SUBSET Recipients
      BY <1>1
    <2> QED BY <1>1, <2>1, Rotated
  <1>3. proc = "Open" /\ Fresh(d) /\ r \in DOMAIN open.wraps
    BY DEF RemoveSlot
  <1>4. CASE DOMAIN open.wraps = {r}
    <2>1. /\ reply' = Reply("remove_slot", None, "LastSlot", None)
          /\ UNCHANGED <<disk, daemon, now, faults, history>>
      BY <1>4 DEF RemoveSlot
    <2>2. Typed' /\ Settled'
      BY <2>1 DEF IInv, Typed, Settled, Parses, disk, daemon, history, Reply, Outs
    <2>3. EveryRecipientOpens' /\ Knowing' /\ RemovalIsFinal'
      BY <2>1, KeysSame DEF IInv, disk, history
    <2>4. AcknowledgedSurvives' /\ Fencing'
      BY <2>1 DEF IInv, AcknowledgedSurvives, Fencing, disk, history
    <2>5. Reading'
      BY <2>1 DEF IInv, Reading, Follows, disk, daemon, history
    <2> QED BY <2>2, <2>3, <2>4, <2>5 DEF IInv
  <1>5. CASE DOMAIN open.wraps # {r}
    <2>1. /\ CommitKeys("remove_slot", new, c)
          /\ revoked' = IF c = "ok" THEN revoked \cup {r} ELSE revoked
      BY <1>5 DEF RemoveSlot
    <2> HIDE DEF new
    <2>2. EveryRecipientOpens' /\ Knowing' /\ RemovalIsFinal' /\ revoked' \subseteq Recipients
      <3>1. /\ DOMAIN new.wraps # {} /\ \A x \in DOMAIN new.wraps : new.wraps[x] = new.dek
            /\ \A x \in revoked : x \notin DOMAIN new.wraps /\ new.dek \notin knows[x]
        BY <1>1, <1>2, <1>3, <1>5 DEF Fresh, IInv, Typed
      <3>2. r \notin DOMAIN new.wraps /\ new.dek \notin knows[r] /\ knows[r] # {}
        BY <1>1, <1>2, <1>3 DEF Fresh
      <3> QED BY <1>2, <1>3, <2>1, <3>1, <3>2, KeysCommitted DEF IInv
    <2> QED BY <1>2, <1>3, <2>1, <2>2, KeysDone
  <1> QED BY <1>4, <1>5

-----------------------------------------------------------------------------
(* Theorems *)

(***************************************************************************)
(* Every step of the vault keeps the invariant.                            *)
(***************************************************************************)
LEMMA StepKeeps ==
    ASSUME IInv, [Next]_vars
    PROVE  IInv'
  <1>1. CASE Tick \/ Start \/ Crash \/ Lock
    BY <1>1, DaemonStep
  <1>2. CASE PowerLoss
    BY <1>2, PowerLossStep
  <1>3. CASE HandOver \/ \E r \in Recipients : Unlock(r)
    BY <1>3, OpenStep
  <1>4. ASSUME NEW c \in Commits, NEW r \in Recipients, NEW d \in Deks, Initialize(r, d, c)
        PROVE  IInv'
    BY <1>4, InitializeStep
  <1>5. ASSUME NEW c \in Commits, NEW r \in Recipients, AddSlot(r, c)
        PROVE  IInv'
    BY <1>5, AddSlotStep
  <1>6. ASSUME NEW c \in Commits, NEW d \in Deks, RotateDek(d, c)
        PROVE  IInv'
    BY <1>6, RotateStep
  <1>7. ASSUME NEW c \in Commits, NEW r \in Recipients, NEW d \in Deks, RemoveSlot(r, d, c)
        PROVE  IInv'
    BY <1>7, RemoveStep
  <1>8. ASSUME NEW c \in Commits, NEW k \in Keys, NEW new \in Drafts, NEW token,
               \/ DoUpsert(k, new, token, c)
               \/ \E expected \in 0..MaxVersion : DoUpsertCas(k, new, expected, token, c)
        PROVE  IInv'
    BY <1>8, WriteStep
  <1>9. ASSUME NEW c \in Commits, NEW k \in Keys, NEW expected \in 0..MaxVersion,
               NEW token \in Tokens, NEW ttl \in ClaimTtls,
               DoClaimRefresh(k, expected, token, ttl, c)
        PROVE  IInv'
    BY <1>9, ClaimStep
  <1>10. ASSUME NEW c \in Commits, NEW k \in Keys, NEW token \in Tokens,
                DoReleaseClaim(k, token, c)
         PROVE  IInv'
    BY <1>10, ReleaseStep
  <1>11. ASSUME NEW c \in Commits, NEW k \in Keys, DoDelete(k, c)
         PROVE  IInv'
    BY <1>11, DeleteStep
  <1>12. ASSUME NEW k \in Keys, Read(k)
         PROVE  IInv'
    BY <1>12, ReadStep
  <1>13. CASE UNCHANGED vars
    <2>1. UNCHANGED <<file, survivors, proc, open, now, faults, reply,
                      acked, tried, holder, seen, knows, revoked>>
      BY <1>13 DEF vars
    <2>2. Typed' /\ Settled'
      BY <2>1 DEF IInv, Typed, Settled, Parses
    <2>3. EveryRecipientOpens' /\ Knowing' /\ RemovalIsFinal'
      BY <2>1, KeysSame DEF IInv
    <2>4. AcknowledgedSurvives' /\ Fencing'
      BY <2>1 DEF IInv, AcknowledgedSurvives, Fencing
    <2>5. Reading'
      BY <2>1 DEF IInv, Reading, Follows
    <2> QED BY <2>2, <2>3, <2>4, <2>5 DEF IInv
  <1> QED
    BY <1>1, <1>2, <1>3, <1>4, <1>5, <1>6, <1>7, <1>8, <1>9, <1>10, <1>11, <1>12, <1>13 DEF Next

(***************************************************************************)
(* The invariant holds before there is a file.                             *)
(***************************************************************************)
LEMMA InitKeeps ==
    ASSUME Init
    PROVE  IInv
  <1>1. Typed
    BY DEF Init, Typed, Option, Time, Silence, Reply, Outs
  <1>2. Settled /\ EveryRecipientOpens /\ Knowing /\ RemovalIsFinal
    BY VaultConstants DEF Init, Settled, EveryRecipientOpens, Knowing, RemovalIsFinal, Parses
  <1>3. AcknowledgedSurvives /\ Fencing /\ Reading
    BY VaultConstants DEF Init, AcknowledgedSurvives, Fencing, Reading, Follows, Beyond, Parses
  <1> QED BY <1>1, <1>2, <1>3 DEF IInv

(***************************************************************************)
(* The inductive invariant of the vault.                                   *)
(***************************************************************************)
THEOREM VaultInvariant == Spec => []IInv
  <1>1. Init => IInv
    BY InitKeeps
  <1>2. IInv /\ [Next]_vars => IInv'
    BY StepKeeps
  <1> QED BY <1>1, <1>2, PTL DEF Spec

(***************************************************************************)
(* The disk, the daemon and the histories keep their types.                *)
(***************************************************************************)
THEOREM VaultTypeOK == Spec => []TypeOK
  <1>1. IInv => TypeOK
    BY DEF IInv, Typed, TypeOK
  <1> QED BY <1>1, VaultInvariant, PTL

(***************************************************************************)
(* However often writes fail, the daemon dies and the power goes, what was *)
(* acknowledged is in every file that may survive.                         *)
(***************************************************************************)
THEOREM AcknowledgedSurvivesHolds == Spec => []AcknowledgedSurvives
  <1>1. IInv => AcknowledgedSurvives
    BY DEF IInv
  <1> QED BY <1>1, VaultInvariant, PTL

(***************************************************************************)
(* Whatever the disk is left with opens for every recipient it lists.      *)
(***************************************************************************)
THEOREM EveryRecipientOpensHolds == Spec => []EveryRecipientOpens
  <1>1. IInv => EveryRecipientOpens
    BY DEF IInv
  <1> QED BY <1>1, VaultInvariant, PTL

(***************************************************************************)
(* No file is sealed again with a key a removed recipient could unwrap.    *)
(***************************************************************************)
THEOREM RemovalIsFinalHolds == Spec => []RemovalIsFinal
  <1>1. IInv => RemovalIsFinal
    BY DEF IInv
  <1> QED BY <1>1, VaultInvariant, PTL

(***************************************************************************)
(* A mutation that is answered Ok is one whose method succeeded and whose  *)
(* commit returned.                                                        *)
(***************************************************************************)
LEMMA AnsweredOk ==
    ASSUME NEW k, NEW c \in Commits, NEW r, NEW op, NEW token, Mutate(op, k, r, token, c)
    PROVE  /\ proc = "Open" /\ reply'.op = op /\ reply'.key = k /\ reply'.token = token
           /\ reply'.out = "Ok" => /\ r.out = "Ok" /\ c = "ok"
                                   /\ acked' = [acked EXCEPT ![k] = r.entry]
  BY DEF Mutate, Reply, OutOf, Commits

(***************************************************************************)
(* The other operations do not answer as a write or a claim.               *)
(***************************************************************************)
LEMMA OtherAnswers ==
    ASSUME Next
    PROVE  \/ reply'.op \notin {"upsert", "upsert_cas", "claim_refresh"}
           \/ \E c \in Commits, k \in Keys, new \in Drafts, token \in Option(Tokens) :
                  \/ DoUpsert(k, new, token, c)
                  \/ \E expected \in 0..MaxVersion : DoUpsertCas(k, new, expected, token, c)
           \/ \E c \in Commits, k \in Keys, expected \in 0..MaxVersion,
                 token \in Tokens, ttl \in ClaimTtls : DoClaimRefresh(k, expected, token, ttl, c)
  <1>1. CASE Tick \/ Start \/ Crash \/ PowerLoss \/ Lock \/ HandOver
    BY <1>1 DEF Tick, Start, Crash, PowerLoss, Lock, HandOver, Silence, Reply
  <1>2. CASE \E r \in Recipients : Unlock(r)
    BY <1>2 DEF Unlock, Reply
  <1>3. ASSUME NEW c \in Commits,
               \/ \E r \in Recipients, d \in Deks : Initialize(r, d, c)
               \/ \E r \in Recipients : AddSlot(r, c)
               \/ \E d \in Deks : RotateDek(d, c)
               \/ \E r \in Recipients, d \in Deks : RemoveSlot(r, d, c)
        PROVE  reply'.op \notin {"upsert", "upsert_cas", "claim_refresh"}
    <2>1. reply'.op \in {"initialize", "add_slot", "rotate_dek", "remove_slot"}
      <3>1. CASE \E r \in Recipients, d \in Deks : Initialize(r, d, c)
        BY <3>1 DEF Initialize, Reply
      <3>2. CASE \E r \in Recipients : AddSlot(r, c)
        BY <3>2 DEF AddSlot, CommitKeys, Reply
      <3>3. CASE \E d \in Deks : RotateDek(d, c)
        BY <3>3 DEF RotateDek, CommitKeys, Reply
      <3>4. CASE \E r \in Recipients, d \in Deks : RemoveSlot(r, d, c)
        BY <3>4 DEF RemoveSlot, CommitKeys, Reply
      <3> QED BY <1>3, <3>1, <3>2, <3>3, <3>4
    <2> QED BY <2>1
  <1>4. ASSUME NEW c \in Commits, NEW k \in Keys, DoDelete(k, c)
        PROVE  reply'.op \notin {"upsert", "upsert_cas", "claim_refresh"}
    <2>1. PICK r : Mutate("delete", k, r, None, c)
      BY <1>4 DEF DoDelete
    <2>2. reply'.op = "delete"
      BY <2>1, AnsweredOk
    <2> QED BY <2>2
  <1>5. ASSUME NEW c \in Commits, NEW k \in Keys, NEW token \in Tokens, DoReleaseClaim(k, token, c)
        PROVE  reply'.op \notin {"upsert", "upsert_cas", "claim_refresh"}
    <2>1. PICK r : Mutate("release_claim", k, r, token, c)
      BY <1>5 DEF DoReleaseClaim
    <2>2. reply'.op = "release_claim"
      BY <2>1, AnsweredOk
    <2> QED BY <2>2
  <1>6. CASE \E k \in Keys : Read(k)
    BY <1>6 DEF Read, Reply
  <1> QED BY <1>1, <1>2, <1>3, <1>4, <1>5, <1>6 DEF Next

\* The step formulas of the two action properties.
FencedStep ==
    \A k \in Keys :
        (/\ reply'.op \in {"upsert", "upsert_cas", "claim_refresh"}
         /\ reply'.key = k /\ reply'.out = "Ok"
         /\ holder[k] # None /\ now < holder[k].expires_at)
           => reply'.token = holder[k].token

NothingLostStep ==
    \A k \in Keys :
        (/\ reply'.op = "upsert_cas" /\ reply'.key = k /\ reply'.out = "Ok"
         /\ seen[k] # None /\ acked'[k].version = seen[k].version + 1)
           => open.entries[k] # None /\ open.entries[k].value = seen[k].value

(***************************************************************************)
(* While an acknowledged claim is active the open vault has it, and only   *)
(* its token writes; a second claim is refused.                            *)
(***************************************************************************)
LEMMA StepFenced ==
    ASSUME IInv, Next
    PROVE  FencedStep
  <1> SUFFICES ASSUME NEW k \in Keys,
                      reply'.op \in {"upsert", "upsert_cas", "claim_refresh"},
                      reply'.key = k, reply'.out = "Ok",
                      holder[k] # None, now < holder[k].expires_at
               PROVE  reply'.token = holder[k].token
    BY DEF FencedStep
  <1>1. ASSUME proc = "Open"
        PROVE  /\ open.entries[k] \in Option(VaultEntries) /\ open.entries[k] # None
               /\ open.entries[k].claim = holder[k] /\ ClaimActive(open.entries[k], now)
    BY <1>1, OpenEntries DEF IInv, ClaimActive
  <1>2. ASSUME NEW c \in Commits, NEW j \in Keys, NEW new \in Drafts, NEW token,
               \/ DoUpsert(j, new, token, c)
               \/ \E expected \in 0..MaxVersion : DoUpsertCas(j, new, expected, token, c)
        PROVE  reply'.token = holder[k].token
    <2>1. PICK op, r : Wrote(r, open.entries[j], new, token, now) /\ Mutate(op, j, r, token, c)
      BY <1>2 DEF DoUpsert, DoUpsertCas, Wrote
    <2>2. proc = "Open" /\ j = k /\ reply'.token = token /\ r.out = "Ok"
      BY <2>1, AnsweredOk
    <2>3. ClaimAllows(open.entries[k], token, now)
      BY <1>1, <2>1, <2>2, WriteReturns
    <2> QED BY <1>1, <2>2, <2>3 DEF ClaimAllows
  <1>3. ASSUME NEW c \in Commits, NEW j \in Keys, NEW expected \in 0..MaxVersion,
               NEW token \in Tokens, NEW ttl \in ClaimTtls,
               DoClaimRefresh(j, expected, token, ttl, c)
        PROVE  FALSE
    <2>1. PICK r : /\ r = ClaimRefresh(open.entries[j], expected, token, now + ttl, now)
                   /\ Mutate("claim_refresh", j, r, token, c)
      BY <1>3 DEF DoClaimRefresh
    <2>2. proc = "Open" /\ j = k /\ r.out = "Ok"
      BY <2>1, AnsweredOk
    <2>3. ~ClaimActive(open.entries[k], now)
      BY <2>1, <2>2 DEF ClaimRefresh, Outcome
    <2> QED BY <1>1, <2>2, <2>3
  <1> QED BY <1>2, <1>3, OtherAnswers

(***************************************************************************)
(* A compare-and-swap that succeeds finds the version its caller read, and *)
(* with the version the value.                                             *)
(***************************************************************************)
LEMMA StepLosesNothing ==
    ASSUME IInv, Next
    PROVE  NothingLostStep
  <1> SUFFICES ASSUME NEW k \in Keys, reply'.op = "upsert_cas",
                      reply'.key = k, reply'.out = "Ok",
                      seen[k] # None, acked'[k].version = seen[k].version + 1
               PROVE  open.entries[k] # None /\ open.entries[k].value = seen[k].value
    BY DEF NothingLostStep
  <1>1. ASSUME NEW c \in Commits, NEW j \in Keys, NEW new \in Drafts, NEW token,
               \/ DoUpsert(j, new, token, c)
               \/ \E expected \in 0..MaxVersion : DoUpsertCas(j, new, expected, token, c)
        PROVE  open.entries[k] # None /\ open.entries[k].value = seen[k].value
    <2>1. PICK op, r : Wrote(r, open.entries[j], new, token, now) /\ Mutate(op, j, r, token, c)
      BY <1>1 DEF DoUpsert, DoUpsertCas, Wrote
    <2>2. /\ proc = "Open" /\ j = k /\ r.out = "Ok"
          /\ acked' = [acked EXCEPT ![k] = r.entry]
      BY <2>1, AnsweredOk
    <2>3. /\ open.entries[k] \in Option(VaultEntries) /\ open.entries[k] # None
          /\ Follows(open, k)
      BY <2>2, OpenEntries DEF IInv
    <2>4. r.entry.version = open.entries[k].version + 1
      BY <2>1, <2>2, <2>3, WriteReturns DEF CurrentVersion
    <2>5. acked'[k] = r.entry
      BY <2>2 DEF IInv, Typed
    <2>6. open.entries[k].version \in Nat /\ seen[k].version \in Nat
      BY <2>3 DEF IInv, Typed, Option, VaultEntries
    <2>7. open.entries[k].version = seen[k].version
      BY <2>4, <2>5, <2>6
    <2> QED BY <2>3, <2>7 DEF Follows, Beyond
  <1>2. ASSUME NEW c \in Commits, NEW j \in Keys, NEW expected \in 0..MaxVersion,
               NEW token \in Tokens, NEW ttl \in ClaimTtls,
               DoClaimRefresh(j, expected, token, ttl, c)
        PROVE  FALSE
    <2>1. PICK r : Mutate("claim_refresh", j, r, token, c)
      BY <1>2 DEF DoClaimRefresh
    <2>2. reply'.op = "claim_refresh"
      BY <2>1, AnsweredOk
    <2> QED BY <2>2
  <1> QED BY <1>1, <1>2, OtherAnswers

(***************************************************************************)
(* A claim fences its entry until it lapses, is used or is given up,       *)
(* whatever fails and whoever restarts in between.                         *)
(***************************************************************************)
THEOREM ClaimFencedHolds == Spec => ClaimFenced
  <1>1. IInv /\ [Next]_vars => [FencedStep]_vars
    BY StepFenced
  <1>2. ClaimFenced <=> [][FencedStep]_vars
    BY DEF ClaimFenced, FencedStep
  <1> QED BY <1>1, <1>2, VaultInvariant, PTL DEF Spec

(***************************************************************************)
(* No compare-and-swap overwrites a value its caller has not read,         *)
(* whatever fails and whoever restarts between the read and the swap.      *)
(***************************************************************************)
THEOREM NoLostUpdateHolds == Spec => NoLostUpdate
  <1>1. IInv /\ [Next]_vars => [NothingLostStep]_vars
    BY StepLosesNothing
  <1>2. NoLostUpdate <=> [][NothingLostStep]_vars
    BY DEF NoLostUpdate, NothingLostStep
  <1> QED BY <1>1, <1>2, VaultInvariant, PTL DEF Spec
=============================================================================
