--------------------------- MODULE CeremonyProofs ---------------------------
(***************************************************************************)
(* Theorems about Ceremony, for any number of pages and clients, any       *)
(* window, any lifetime of a challenge and any limit on their number.      *)
(***************************************************************************)
EXTENDS Ceremony, FiniteSetTheorems, TLAPS

-----------------------------------------------------------------------------
(* The inductive invariant *)

TypesOfPages == [mode : {None, "register", "unlock"}, id : Nat \cup {None}, expires : Nat,
                 salt : Nat \cup {None}]

Typed ==
    /\ now \in Nat /\ issued \in Nat /\ armings \in Nat
    /\ vault \in {"Locked", "Unlocked"} /\ resident \in BOOLEAN
    /\ slots \in Seq([salt : Nat, key : Nat \cup {None}])
    /\ armed \in [salt : Nat, expires : Nat] \cup {None}
    /\ outstanding \subseteq Challenges
    /\ holder \in [Mutexes -> Threads \cup {None}]
    /\ doing \in [Threads -> DOMAIN Order \cup {None, "dialog"}]
    /\ taken \in [Threads -> Nat]
    /\ page \in [Pages -> TypesOfPages]
    /\ uses \in [1..MaxPosts -> Nat]

\* The parts of a request that go on from an earlier part.
Finishing == {"install", "reinstall", "evict"}

(***************************************************************************)
(* A thread holds the mutexes it has taken, and a part of a request that   *)
(* goes on from another has what it needs.                                 *)
(***************************************************************************)
Locking ==
    \A t \in Threads :
        IF doing[t] \in DOMAIN Order
        THEN /\ taken[t] <= Len(Order[doing[t]])
             /\ \A i \in 1..taken[t] : holder[Order[doing[t]][i]] = t
             /\ doing[t] = "add_slot" => taken[t] >= 1
             /\ doing[t] \in Finishing => taken[t] = Len(Order[doing[t]])
        ELSE taken[t] = 0

(***************************************************************************)
(* While a slot is being added the window stays open, whatever happens     *)
(* outside; and only a request that holds the store has changed the vault  *)
(* and not yet the entry.                                                  *)
(***************************************************************************)
Windows ==
    /\ OneSlotPerArming
    /\ \A t \in Threads : doing[t] = "add_slot" => armed # None

Installed ==
    /\ \A t \in Threads : /\ doing[t] \in {"install", "reinstall"} => vault = "Unlocked"
                          /\ doing[t] = "evict" => vault = "Locked"
    /\ (resident <=> vault = "Unlocked") \/ \E t \in Threads : doing[t] \in Finishing

Purpose(mode) == IF mode = "register" THEN "RegisterPasskey" ELSE "Unlock"

(***************************************************************************)
(* Numbers are never drawn twice, what was named is no longer outstanding, *)
(* and what let something through was named; what a page was told is       *)
(* outstanding until it is named or expires.                               *)
(***************************************************************************)
Numbering ==
    /\ spent \subseteq (0..issued) \cup {None}
    /\ \A c \in outstanding : c.id \notin spent /\ c.id <= issued
    /\ \A p \in Pages : page[p].id \in Nat => page[p].id <= issued

Spending ==
    /\ \A i \in 1..MaxPosts : uses[i] <= 1 /\ (uses[i] = 1 => i \in spent)
    /\ \A p \in Pages : doing[p] = "add_slot" =>
          /\ page[p].id \in spent
          /\ page[p].id \in 1..MaxPosts => uses[page[p].id] = 0

Promises ==
    \A p \in Pages :
        (page[p].mode # None /\ page[p].expires > now /\ page[p].id \notin spent)
            => \E c \in outstanding : /\ c.id = page[p].id /\ c.purpose = Purpose(page[p].mode)
                                      /\ c.expires = page[p].expires

IInv ==
    /\ Typed /\ Locking
    /\ Windows /\ Installed
    /\ Numbering /\ Spending /\ Promises

-----------------------------------------------------------------------------
(* Sequences and counters *)

(***************************************************************************)
(* An element of a sequence is of the set the sequence is over.            *)
(***************************************************************************)
LEMMA InSequence ==
    ASSUME NEW S, NEW q \in Seq(S), NEW i \in 1..Len(q)
    PROVE  q[i] \in S
  OBVIOUS

(***************************************************************************)
(* Counting an event leaves counters, also for an event without one.       *)
(***************************************************************************)
LEMMA Counted ==
    ASSUME NEW S, NEW f \in [S -> Nat], NEW i
    PROVE  [f EXCEPT ![i] = @ + 1] \in [S -> Nat]
  <1>1. CASE i \in S
    <2>1. f[i] + 1 \in Nat
      BY <1>1
    <2> QED BY <2>1
  <1>2. CASE i \notin S
    <2>1. [f EXCEPT ![i] = @ + 1] = f
      BY <1>2
    <2> QED BY <2>1
  <1> QED BY <1>1, <1>2

-----------------------------------------------------------------------------
(* Threads and mutexes *)

(***************************************************************************)
(* The table of mutexes is well formed.                                    *)
(***************************************************************************)
LEMMA Orders ==
    ASSUME NEW r \in DOMAIN Order
    PROVE  /\ Len(Order[r]) \in Nat /\ Len(Order[r]) <= 3
           /\ \A i \in 1..Len(Order[r]) : Order[r][i] \in Mutexes
  <1>1. r \in {"begin", "evaluate", "register", "add_slot", "unlock", "install", "recover",
               "reinstall", "lock", "evict", "ask", "arm"}
    BY DEF Order
  <1>2. CASE r \in {"begin", "add_slot"}
    <2>1. Order[r] = <<"ceremony", "vault">>
      BY <1>2 DEF Order
    <2> QED BY <2>1 DEF Mutexes
  <1>3. CASE r \in {"evaluate", "register", "arm"}
    <2>1. Order[r] = <<"ceremony">>
      BY <1>3 DEF Order
    <2> QED BY <2>1 DEF Mutexes
  <1>4. CASE r \in {"unlock", "install"}
    <2>1. Order[r] = <<"ceremony", "store", "vault">>
      BY <1>4 DEF Order
    <2> QED BY <2>1 DEF Mutexes
  <1>5. CASE r \in {"recover", "reinstall", "lock", "evict"}
    <2>1. Order[r] = <<"store", "vault">>
      BY <1>5 DEF Order
    <2> QED BY <2>1 DEF Mutexes
  <1>6. CASE r = "ask"
    <2>1. Order[r] = <<"vault">>
      BY <1>6 DEF Order
    <2> QED BY <2>1 DEF Mutexes
  <1> QED BY <1>1, <1>2, <1>3, <1>4, <1>5, <1>6

(***************************************************************************)
(* Who has the mutexes of a request holds each of them.                    *)
(***************************************************************************)
LEMMA Holding ==
    ASSUME Typed, Locking, NEW t \in Threads
    PROVE  /\ Ready(t, "register") \/ Ready(t, "arm") \/ doing[t] = "add_slot"
                 => holder["ceremony"] = t
           /\ Ready(t, "unlock") => /\ holder["ceremony"] = t
                                    /\ holder["store"] = t /\ holder["vault"] = t
           /\ Ready(t, "recover") \/ Ready(t, "lock") \/ doing[t] \in Finishing
                 => holder["store"] = t /\ holder["vault"] = t
  <1>1. ASSUME Ready(t, "register") PROVE holder["ceremony"] = t
    BY <1>1 DEF Locking, Ready, Order
  <1>2. ASSUME Ready(t, "arm") PROVE holder["ceremony"] = t
    BY <1>2 DEF Locking, Ready, Order
  <1>3. ASSUME doing[t] = "add_slot" PROVE holder["ceremony"] = t
    <2>1. taken[t] \in Nat /\ taken[t] >= 1 /\ \A i \in 1..taken[t] : holder[Order[doing[t]][i]] = t
      BY <1>3 DEF Locking, Order, Typed
    <2> QED BY <1>3, <2>1 DEF Order
  <1>4. ASSUME NEW r \in {"unlock", "install"}, doing[t] = r, taken[t] = Len(Order[r])
        PROVE  holder["ceremony"] = t /\ holder["store"] = t /\ holder["vault"] = t
    <2>1. r \in DOMAIN Order /\ Order[r] = <<"ceremony", "store", "vault">>
      BY DEF Order
    <2>2. \A i \in 1..3 : holder[Order[r][i]] = t
      BY <1>4, <2>1 DEF Locking
    <2> QED BY <2>1, <2>2
  <1>5. ASSUME NEW r \in {"recover", "lock", "reinstall", "evict"}, doing[t] = r,
               taken[t] = Len(Order[r])
        PROVE  holder["store"] = t /\ holder["vault"] = t
    <2>1. r \in DOMAIN Order /\ Order[r] = <<"store", "vault">>
      BY DEF Order
    <2>2. \A i \in 1..2 : holder[Order[r][i]] = t
      BY <1>5, <2>1 DEF Locking
    <2> QED BY <2>1, <2>2
  <1>6. doing[t] \in Finishing => taken[t] = Len(Order[doing[t]])
    BY DEF Locking, Finishing, Order
  <1> QED BY <1>1, <1>2, <1>3, <1>4, <1>5, <1>6 DEF Ready, Finishing

(***************************************************************************)
(* What every step of a thread does to the threads.                        *)
(***************************************************************************)
Moves(t) ==
    /\ doing' \in [Threads -> DOMAIN Order \cup {None, "dialog"}]
    /\ taken' \in [Threads -> Nat] /\ holder' \in [Mutexes -> Threads \cup {None}]
    /\ Locking'
    /\ \A u \in Threads \ {t} : doing'[u] = doing[u]

(***************************************************************************)
(* A request that arrives at an idle thread holds no lock yet.             *)
(***************************************************************************)
LEMMA ArrivesMoves ==
    ASSUME Typed, Locking, NEW t \in Threads,
           NEW r \in DOMAIN Order \ ({"add_slot"} \cup Finishing), Arrives(t, r),
           holder' = holder, taken' = taken
    PROVE  Moves(t) /\ doing'[t] = r
  <1>1. doing' = [doing EXCEPT ![t] = r] /\ taken[t] = 0
    BY NoneIsNothing DEF Arrives, Locking
  <1>2. ASSUME NEW u \in Threads
        PROVE  IF doing'[u] \in DOMAIN Order
               THEN /\ taken[u] <= Len(Order[doing'[u]])
                    /\ \A i \in 1..taken[u] : holder[Order[doing'[u]][i]] = u
                    /\ doing'[u] = "add_slot" => taken[u] >= 1
                    /\ doing'[u] \in Finishing => taken[u] = Len(Order[doing'[u]])
               ELSE taken[u] = 0
    <2>1. CASE u = t
      BY <1>1, <2>1, Orders DEF Typed
    <2>2. CASE u # t
      BY <1>1, <2>2 DEF Typed, Locking
    <2> QED BY <2>1, <2>2
  <1> QED BY <1>1, <1>2 DEF Moves, Locking, Typed

(***************************************************************************)
(* A thread takes the next lock of its order only when nobody holds it, so *)
(* no lock has two holders and no thread skips one.                        *)
(***************************************************************************)
LEMMA TakeMoves ==
    ASSUME Typed, Locking, NEW t \in Threads, Take(t)
    PROVE  Moves(t) /\ doing' = doing
  <1> DEFINE m == Order[doing[t]][taken[t] + 1]
  <1>1. /\ doing[t] \in DOMAIN Order /\ taken[t] < Len(Order[doing[t]])
        /\ holder[m] = None /\ holder' = [holder EXCEPT ![m] = t]
        /\ taken' = [taken EXCEPT ![t] = @ + 1] /\ doing' = doing
    BY DEF Take
  <1>2. m \in Mutexes
    BY <1>1, Orders DEF Typed
  <1>3. t # None /\ \A u \in Threads : u # None
    BY CeremonyConstants DEF Threads
  <1>4. ASSUME NEW u \in Threads
        PROVE  IF doing[u] \in DOMAIN Order
               THEN /\ taken'[u] <= Len(Order[doing[u]])
                    /\ \A i \in 1..taken'[u] : holder'[Order[doing[u]][i]] = u
                    /\ doing[u] = "add_slot" => taken'[u] >= 1
                    /\ doing[u] \in Finishing => taken'[u] = Len(Order[doing[u]])
               ELSE taken'[u] = 0
    <2>1. CASE u = t
      <3>1. taken'[t] = taken[t] + 1 /\ taken[t] \in Nat /\ Len(Order[doing[t]]) \in Nat
        BY <1>1, Orders DEF Typed
      <3>2. ASSUME NEW i \in 1..taken'[t] PROVE holder'[Order[doing[t]][i]] = t
        <4>1. CASE i = taken[t] + 1
          BY <1>1, <1>2, <4>1 DEF Typed
        <4>2. CASE i \in 1..taken[t]
          <5>1. holder[Order[doing[t]][i]] = t /\ Order[doing[t]][i] \in Mutexes
            BY <1>1, <3>1, <4>2, Orders DEF Locking
          <5> QED BY <1>1, <1>3, <5>1 DEF Typed
        <4> QED BY <3>1, <4>1, <4>2
      <3>3. doing[t] \notin Finishing
        BY <1>1, <3>1 DEF Locking
      <3> QED BY <1>1, <2>1, <3>1, <3>2, <3>3
    <2>2. CASE u # t
      <3>1. taken'[u] = taken[u]
        BY <1>1, <2>2 DEF Typed
      <3>2. ASSUME doing[u] \in DOMAIN Order, NEW i \in 1..taken[u]
            PROVE  holder'[Order[doing[u]][i]] = u
        <4>1. holder[Order[doing[u]][i]] = u /\ taken[u] <= Len(Order[doing[u]])
          BY <3>2 DEF Locking
        <4>2. Order[doing[u]][i] \in Mutexes
          BY <3>2, <4>1, Orders DEF Typed
        <4> QED BY <1>1, <1>3, <4>1, <4>2 DEF Typed
      <3> QED BY <3>1, <3>2 DEF Locking
    <2> QED BY <2>1, <2>2
  <1>5. /\ taken' \in [Threads -> Nat] /\ holder' \in [Mutexes -> Threads \cup {None}]
    BY <1>1, <1>2 DEF Typed
  <1>6. Locking'
    BY <1>1, <1>4 DEF Locking
  <1> QED BY <1>1, <1>5, <1>6 DEF Moves, Typed

(***************************************************************************)
(* Answering a request, or going to wait for the user, lets go of every    *)
(* lock.                                                                   *)
(***************************************************************************)
LEMMA GoesOnAsMoves ==
    ASSUME Typed, Locking, NEW t \in Threads, NEW r \in {None, "dialog", "arm"},
           GoesOnAs(t, r)
    PROVE  Moves(t) /\ doing'[t] = r /\ \A m \in Mutexes : holder'[m] # t
  <1>1. /\ doing' = [doing EXCEPT ![t] = r] /\ taken' = [taken EXCEPT ![t] = 0]
        /\ holder' = [m \in Mutexes |-> IF holder[m] = t THEN None ELSE holder[m]]
    BY DEF GoesOnAs
  <1>2. t # None /\ r \notin {"add_slot"} \cup Finishing
    BY CeremonyConstants, NoneIsNothing DEF Threads, Finishing, Order
  <1>3. r \in DOMAIN Order \cup {None, "dialog"}
    BY DEF Order
  <1>4. ASSUME NEW u \in Threads
        PROVE  IF doing'[u] \in DOMAIN Order
               THEN /\ taken'[u] <= Len(Order[doing'[u]])
                    /\ \A i \in 1..taken'[u] : holder'[Order[doing'[u]][i]] = u
                    /\ doing'[u] = "add_slot" => taken'[u] >= 1
                    /\ doing'[u] \in Finishing => taken'[u] = Len(Order[doing'[u]])
               ELSE taken'[u] = 0
    <2>1. CASE u = t
      BY <1>1, <1>2, <2>1, Orders DEF Typed
    <2>2. CASE u # t
      <3>1. taken'[u] = taken[u] /\ doing'[u] = doing[u]
        BY <1>1, <2>2 DEF Typed
      <3>2. ASSUME doing[u] \in DOMAIN Order, NEW i \in 1..taken[u]
            PROVE  holder'[Order[doing[u]][i]] = u
        <4>1. holder[Order[doing[u]][i]] = u /\ taken[u] <= Len(Order[doing[u]])
          BY <3>2 DEF Locking
        <4>2. Order[doing[u]][i] \in Mutexes
          BY <3>2, <4>1, Orders DEF Typed
        <4> QED BY <1>1, <2>2, <4>1, <4>2
      <3> QED BY <3>1, <3>2 DEF Locking
    <2> QED BY <2>1, <2>2
  <1>5. Locking'
    BY <1>4 DEF Locking
  <1>6. /\ doing' \in [Threads -> DOMAIN Order \cup {None, "dialog"}]
        /\ taken' \in [Threads -> Nat] /\ holder' \in [Mutexes -> Threads \cup {None}]
    BY <1>1, <1>3 DEF Typed
  <1> QED BY <1>1, <1>2, <1>5, <1>6 DEF Moves, Typed

(***************************************************************************)
(* A handler that goes on to its next part keeps the locks it took.        *)
(***************************************************************************)
LEMMA GoesOnMoves ==
    ASSUME Typed, Locking, NEW t \in Threads, NEW q, NEW r,
           <<q, r>> \in {<<"register", "add_slot">>, <<"unlock", "install">>,
                         <<"recover", "reinstall">>, <<"lock", "evict">>},
           Ready(t, q), GoesOn(t, r)
    PROVE  Moves(t) /\ doing'[t] = r /\ holder' = holder
  <1>1. /\ doing' = [doing EXCEPT ![t] = r] /\ taken' = taken /\ holder' = holder
        /\ doing[t] = q /\ taken[t] = Len(Order[q])
    BY DEF GoesOn, Ready
  <1>2. /\ q \in DOMAIN Order /\ r \in DOMAIN Order /\ Len(Order[q]) >= 1
        /\ Len(Order[q]) <= Len(Order[r])
        /\ r \in Finishing => Len(Order[q]) = Len(Order[r])
        /\ \A i \in 1..Len(Order[q]) : Order[r][i] = Order[q][i]
    BY DEF Order, Finishing
  <1>3. ASSUME NEW u \in Threads
        PROVE  IF doing'[u] \in DOMAIN Order
               THEN /\ taken[u] <= Len(Order[doing'[u]])
                    /\ \A i \in 1..taken[u] : holder[Order[doing'[u]][i]] = u
                    /\ doing'[u] = "add_slot" => taken[u] >= 1
                    /\ doing'[u] \in Finishing => taken[u] = Len(Order[doing'[u]])
               ELSE taken[u] = 0
    <2>1. CASE u = t
      <3>1. doing'[t] = r
        BY <1>1 DEF Typed
      <3>2. \A i \in 1..taken[t] : holder[Order[q][i]] = t
        BY <1>1, <1>2 DEF Locking
      <3> QED BY <1>1, <1>2, <2>1, <3>1, <3>2
    <2>2. CASE u # t
      BY <1>1, <2>2 DEF Typed, Locking
    <2> QED BY <2>1, <2>2
  <1>4. Locking'
    BY <1>1, <1>3 DEF Locking
  <1>5. doing' \in [Threads -> DOMAIN Order \cup {None, "dialog"}]
    BY <1>1, <1>2 DEF Typed
  <1> QED BY <1>1, <1>4, <1>5 DEF Moves, Typed

-----------------------------------------------------------------------------
(* The three parts of the invariant, and what leaves each alone *)

(***************************************************************************)
(* Nobody at rest is in a part of a request.                               *)
(***************************************************************************)
LEMMA AtRest ==
    /\ \A r \in {None, "dialog", "arm"} : r \notin {"add_slot"} \cup Finishing
    /\ "add_slot" \notin Finishing
  BY NoneIsNothing DEF Finishing, Order

(***************************************************************************)
(* The count of slots against armings survives a step that touches         *)
(* neither, if no thread comes to add a slot without an open window.       *)
(***************************************************************************)
LEMMA WindowsKept ==
    ASSUME Windows, NEW t \in Threads, Moves(t), slots' = slots, armed' = armed,
           armings' = armings, doing'[t] = "add_slot" => doing[t] = "add_slot" \/ armed # None
    PROVE  Windows'
  BY DEF Windows, OneSlotPerArming, Moves

(***************************************************************************)
(* The entry stays installed for an open vault when a step touches neither *)
(* and no thread enters or leaves the part that installs or evicts it.     *)
(***************************************************************************)
LEMMA InstalledKept ==
    ASSUME Installed, NEW t \in Threads, Moves(t), vault' = vault, resident' = resident,
           doing'[t] = doing[t] \/ (doing[t] \notin Finishing /\ doing'[t] \notin Finishing)
    PROVE  Installed'
  <1>1. \A u \in Threads : (doing'[u] \in Finishing \/ doing[u] \in Finishing) => doing'[u] = doing[u]
    BY DEF Moves
  <1> QED BY <1>1 DEF Installed, Finishing

Challenged == Numbering /\ Spending /\ Promises

(***************************************************************************)
(* What is known of challenges survives a step of a thread that touches    *)
(* none.                                                                   *)
(***************************************************************************)
LEMMA ChallengesKept ==
    ASSUME Challenged, NEW t \in Threads, Moves(t), now' = now, outstanding' = outstanding,
           issued' = issued, page' = page, spent' = spent, uses' = uses,
           doing'[t] = "add_slot" => doing[t] = "add_slot"
    PROVE  Challenged'
  <1>1. \A u \in Threads : doing'[u] = "add_slot" => doing[u] = "add_slot"
    BY DEF Moves
  <1>2. Pages \subseteq Threads
    BY DEF Threads
  <1> QED BY <1>1, <1>2 DEF Challenged, Numbering, Spending, Promises

(***************************************************************************)
(* A new challenge has a new number, and takes the place of none           *)
(* (challenge.rs issue).                                                   *)
(***************************************************************************)
LEMMA Issuing ==
    ASSUME Typed, Challenged, NEW p \in Pages, Moves(p), doing'[p] # "add_slot",
           NEW purpose \in {"RegisterPasskey", "Unlock"}, Issue(purpose),
           now' = now, spent' = spent, uses' = uses,
           \/ page' = page
           \/ \E mode \in {"register", "unlock"}, salt \in Nat :
                 Told(p, mode, salt) /\ purpose = Purpose(mode)
    PROVE  /\ Challenged' /\ issued' \in Nat /\ outstanding' \subseteq Challenges
           /\ page' \in [Pages -> TypesOfPages]
  <1> DEFINE c == [id |-> issued', purpose |-> purpose, expires |-> now + Ttl]
  <1>1. /\ issued' = issued + 1 /\ outstanding' = Live \cup {c}
        /\ issued \in Nat /\ issued' \in Nat /\ now + Ttl \in Nat
    BY CeremonyConstants DEF Issue, Typed
  <1>2. Live \subseteq outstanding /\ \A d \in outstanding : d.expires > now => d \in Live
    BY DEF Live
  <1>3. outstanding' \subseteq Challenges
    BY <1>1, <1>2 DEF Typed, Challenges
  <1>4. /\ page' \in [Pages -> TypesOfPages]
        /\ \A q \in Pages : page'[q].id # page[q].id => page'[q].id = issued'
    <2>1. CASE page' = page
      BY <2>1 DEF Typed
    <2>2. ASSUME NEW mode \in {"register", "unlock"}, NEW salt \in Nat, Told(p, mode, salt)
          PROVE  /\ page' \in [Pages -> TypesOfPages]
                 /\ \A q \in Pages : page'[q].id # page[q].id => page'[q].id = issued'
      <3> DEFINE told == [mode |-> mode, id |-> issued', expires |-> now + Ttl, salt |-> salt]
      <3>1. page' = [page EXCEPT ![p] = told]
        BY <2>2 DEF Told
      <3>2. told \in TypesOfPages /\ told.id = issued'
        BY <1>1 DEF TypesOfPages
      <3> HIDE DEF told
      <3>3. \A q \in Pages : page'[q] = IF q = p THEN told ELSE page[q]
        BY <3>1 DEF Typed
      <3> QED BY <3>1, <3>2, <3>3 DEF Typed
    <2> QED BY <2>1, <2>2
  <1>5. None \notin Nat
    BY CeremonyConstants
  <1>6. issued' \notin spent
    BY <1>1, <1>5 DEF Challenged, Numbering
  <1>7. Numbering'
    <2>1. spent' \subseteq (0..issued') \cup {None}
      BY <1>1 DEF Challenged, Numbering
    <2>2. \A d \in outstanding' : d.id \notin spent' /\ d.id <= issued'
      <3>1. c.id = issued' /\ c.id \notin spent'
        BY <1>6
      <3>2. \A d \in Live : d.id \notin spent' /\ d.id \in Nat /\ d.id <= issued
        BY <1>2 DEF Challenged, Numbering, Typed, Challenges
      <3> QED BY <1>1, <3>1, <3>2
    <2>3. ASSUME NEW q \in Pages, page'[q].id \in Nat PROVE page'[q].id <= issued'
      <3>1. CASE page'[q].id = page[q].id
        BY <1>1, <2>3, <3>1 DEF Challenged, Numbering
      <3>2. CASE page'[q].id # page[q].id
        <4>1. page'[q].id = issued'
          BY <1>4, <3>2
        <4> QED BY <1>1, <4>1
      <3> QED BY <3>1, <3>2
    <2> QED BY <2>1, <2>2, <2>3 DEF Numbering
  <1>8. Spending'
    <2>1. ASSUME NEW q \in Pages, doing'[q] = "add_slot"
          PROVE  doing[q] = "add_slot" /\ page'[q] = page[q]
      <3>1. q # p /\ q \in Threads
        BY <2>1 DEF Threads
      <3> QED BY <2>1, <3>1 DEF Moves, Told, Typed
    <2> QED BY <2>1 DEF Challenged, Spending
  <1>9. Promises'
    <2>1. ASSUME NEW q \in Pages, page'[q].mode # None, page'[q].expires > now',
                 page'[q].id \notin spent'
          PROVE  \E d \in outstanding' : /\ d.id = page'[q].id
                                         /\ d.purpose = Purpose(page'[q].mode)
                                         /\ d.expires = page'[q].expires
      <3>1. CASE page'[q] = page[q]
        <4>1. PICK d \in outstanding : /\ d.id = page[q].id
                                       /\ d.purpose = Purpose(page[q].mode)
                                       /\ d.expires = page[q].expires
          BY <2>1, <3>1 DEF Challenged, Promises
        <4>2. d \in outstanding'
          BY <1>1, <1>2, <2>1, <3>1, <4>1
        <4> QED BY <3>1, <4>1, <4>2
      <3>2. CASE page'[q] # page[q]
        <4>1. PICK mode \in {"register", "unlock"}, salt \in Nat :
                 Told(p, mode, salt) /\ purpose = Purpose(mode)
          BY <3>2
        <4>2. page'[q] = [mode |-> mode, id |-> issued', expires |-> now + Ttl, salt |-> salt]
          BY <3>2, <4>1 DEF Told, Typed
        <4>3. /\ c \in outstanding' /\ c.id = page'[q].id /\ c.expires = page'[q].expires
              /\ c.purpose = Purpose(page'[q].mode)
          BY <1>1, <4>1, <4>2
        <4> QED BY <4>3
      <3> QED BY <3>1, <3>2
    <2> QED BY <2>1 DEF Promises
  <1> QED BY <1>1, <1>3, <1>4, <1>7, <1>8, <1>9 DEF Challenged

(***************************************************************************)
(* A challenge that is named is gone for good; the page that has it may go *)
(* on to add a slot or have opened the vault, for nobody else holds the    *)
(* ceremony (challenge.rs redeem).                                         *)
(***************************************************************************)
LEMMA Redeeming ==
    ASSUME Typed, Locking, Challenged, NEW p \in Pages, Moves(p), doing[p] # "add_slot",
           holder["ceremony"] = p,
           Redeem(page[p].id), now' = now, issued' = issued, page' = page,
           \/ uses' = uses /\ doing'[p] # "add_slot"
           \/ uses' = uses /\ \E purpose : Redeemable(page[p].id, purpose)
           \/ /\ Through(p) /\ doing'[p] # "add_slot"
              /\ \E purpose : Redeemable(page[p].id, purpose)
    PROVE  /\ Challenged' /\ outstanding' \subseteq Challenges
           /\ uses' \in [1..MaxPosts -> Nat]
  <1> DEFINE id == page[p].id
  <1>1. outstanding' = {c \in Live : c.id # id} /\ spent' = spent \cup {id}
    BY DEF Redeem
  <1>2. Live \subseteq outstanding /\ \A d \in outstanding : d.expires > now => d \in Live
    BY DEF Live
  <1>3. id \in Nat \cup {None}
    BY DEF Typed, TypesOfPages
  <1>4. Pages \subseteq Threads
    BY DEF Threads
  <1>5. ASSUME NEW q \in Pages, q # p PROVE doing'[q] # "add_slot"
    <2>1. doing'[q] = doing[q]
      BY <1>4, <1>5 DEF Moves
    <2> QED BY <1>4, <1>5, <2>1, Holding
  <1>6. ASSUME NEW purpose, Redeemable(id, purpose)
        PROVE  id \notin spent /\ \A i \in 1..MaxPosts : i = id => uses[i] = 0
    <2>1. id \notin spent
      BY <1>2, <1>6 DEF Redeemable, Challenged, Numbering
    <2>2. ASSUME NEW i \in 1..MaxPosts, i = id PROVE uses[i] = 0
      <3>1. uses[i] \in Nat /\ uses[i] <= 1 /\ uses[i] # 1
        BY <2>1, <2>2 DEF Typed, Challenged, Spending
      <3> QED BY <3>1
    <2> QED BY <2>1, <2>2
  <1>7. Numbering'
    <2>1. id \in (0..issued) \cup {None}
      <3>1. id \in Nat => id <= issued
        BY DEF Challenged, Numbering
      <3> QED BY <1>3, <3>1 DEF Typed
    <2>2. spent' \subseteq (0..issued) \cup {None}
      BY <1>1, <2>1 DEF Challenged, Numbering
    <2>3. \A c \in outstanding' : c.id \notin spent' /\ c.id <= issued
      BY <1>1, <1>2 DEF Challenged, Numbering
    <2> QED BY <2>2, <2>3 DEF Challenged, Numbering
  <1>8. uses' \in [1..MaxPosts -> Nat] /\ Spending'
    <2>1. CASE uses' = uses /\ doing'[p] # "add_slot"
      BY <1>1, <1>5, <2>1 DEF Typed, Challenged, Spending
    <2>2. CASE uses' = uses /\ \E purpose : Redeemable(id, purpose)
      BY <1>1, <1>5, <1>6, <2>2 DEF Typed, Challenged, Spending
    <2>3. CASE /\ Through(p) /\ doing'[p] # "add_slot"
               /\ \E purpose : Redeemable(id, purpose)
      <3>1. uses' = [uses EXCEPT ![id] = @ + 1]
        BY <2>3 DEF Through
      <3>2. uses' \in [1..MaxPosts -> Nat]
        BY <3>1, Counted DEF Typed
      <3>3. ASSUME NEW i \in 1..MaxPosts PROVE uses'[i] <= 1 /\ (uses'[i] = 1 => i \in spent')
        <4>1. CASE i = id
          BY <1>1, <1>6, <2>3, <3>1, <4>1 DEF Typed
        <4>2. CASE i # id
          BY <1>1, <3>1, <4>2 DEF Typed, Challenged, Spending
        <4> QED BY <4>1, <4>2
      <3> QED BY <1>5, <2>3, <3>2, <3>3 DEF Spending
    <2> QED BY <2>1, <2>2, <2>3
  <1>9. Promises'
    <2>1. ASSUME NEW q \in Pages, page[q].mode # None, page[q].expires > now,
                 page[q].id \notin spent'
          PROVE  \E d \in outstanding' : /\ d.id = page[q].id
                                         /\ d.purpose = Purpose(page[q].mode)
                                         /\ d.expires = page[q].expires
      <3>1. PICK d \in outstanding : /\ d.id = page[q].id
                                     /\ d.purpose = Purpose(page[q].mode)
                                     /\ d.expires = page[q].expires
        BY <1>1, <2>1 DEF Challenged, Promises
      <3> QED BY <1>1, <1>2, <2>1, <3>1
    <2> QED BY <2>1 DEF Promises
  <1>10. outstanding' \subseteq Challenges
    BY <1>1, <1>2 DEF Typed
  <1> QED BY <1>7, <1>8, <1>9, <1>10 DEF Challenged

-----------------------------------------------------------------------------
(* The invariant is inductive *)

(***************************************************************************)
(* Initially nothing is issued, armed, locked or open.                     *)
(***************************************************************************)
LEMMA Initially == Init => IInv
  <1> SUFFICES ASSUME Init PROVE IInv
    OBVIOUS
  <1> USE DEF Init
  <1>1. slots \in Seq([salt : Nat, key : Nat \cup {None}]) /\ Len(slots) = armings
    <2>1. \A i \in 1..armings : [salt |-> i, key |-> i] \in [salt : Nat, key : Nat \cup {None}]
      OBVIOUS
    <2> QED BY <2>1
  <1>2. Typed
    BY <1>1 DEF Typed, NoPage, TypesOfPages
  <1>3. Locking
    BY NoneIsNothing DEF Locking
  <1>4. \A t \in Threads : doing[t] \notin {"add_slot"} \cup Finishing
    BY AtRest
  <1>5. Windows
    BY <1>1, <1>4 DEF Windows, OneSlotPerArming
  <1>6. Installed
    BY <1>4 DEF Installed, Finishing
  <1>7. /\ None \notin Nat /\ Pages \subseteq Threads
        /\ \A p \in Pages : page[p].id = None /\ page[p].mode = None
    BY CeremonyConstants DEF NoPage, Threads
  <1>8. Numbering /\ Promises
    BY <1>7 DEF Numbering, Promises
  <1>9. Spending
    BY <1>4, <1>7 DEF Spending
  <1> QED BY <1>2, <1>3, <1>5, <1>6, <1>8, <1>9 DEF IInv

(***************************************************************************)
(* A step that only moves a thread.                                        *)
(***************************************************************************)
LEMMA Quietly ==
    ASSUME IInv, NEW t \in Threads, Moves(t), now' = now, UNCHANGED <<daemon, page, history>>,
           \/ doing'[t] = doing[t]
           \/ /\ doing[t] \notin Finishing /\ doing'[t] \notin Finishing
              /\ doing'[t] # "add_slot"
    PROVE  IInv'
  <1> USE DEF IInv, daemon, history
  <1>1. Typed'
    BY DEF Typed, Moves
  <1>2. Windows'
    BY WindowsKept
  <1>3. Installed'
    BY InstalledKept
  <1>4. Challenged'
    BY ChallengesKept DEF Challenged
  <1> QED BY <1>1, <1>2, <1>3, <1>4 DEF Challenged, Moves

(***************************************************************************)
(* Time only expires challenges and windows: it issues, spends and adds    *)
(* nothing.                                                                *)
(***************************************************************************)
LEMMA TickKeeps == ASSUME IInv, Tick PROVE IInv'
  <1>1. /\ now' \in Nat /\ now' = now + 1 /\ now \in Nat
        /\ UNCHANGED <<daemon, threads, page, history>>
    BY DEF Tick, IInv, Typed, ends
  <1>2. Typed' /\ Locking' /\ Windows' /\ Installed' /\ Numbering' /\ Spending'
    BY <1>1 DEF IInv, Typed, Locking, Windows, OneSlotPerArming, Installed, Numbering,
                Spending, daemon, threads, history
  <1>3. Promises'
    <2>1. \A p \in Pages : page[p].expires \in Nat
      BY DEF IInv, Typed, TypesOfPages
    <2>2. \A p \in Pages : page[p].expires > now' => page[p].expires > now
      BY <1>1, <2>1
    <2> QED BY <1>1, <2>2 DEF IInv, Promises, daemon, history
  <1> QED BY <1>2, <1>3 DEF IInv

(***************************************************************************)
(* A request that arrives changes nothing but what its thread is doing.    *)
(***************************************************************************)
LEMMA ArrivalsKeep ==
    ASSUME IInv, NEW t \in Threads, NEW r \in DOMAIN Order \ ({"add_slot"} \cup Finishing),
           Arrives(t, r), UNCHANGED <<now, daemon, holder, taken, page, history>>
    PROVE  IInv'
  <1>1. Moves(t) /\ doing'[t] = r
    BY ArrivesMoves DEF IInv
  <1>2. doing[t] \notin Finishing
    BY AtRest DEF Arrives
  <1> QED BY <1>1, <1>2, Quietly

(***************************************************************************)
(* No request begins in the middle of a handler.                           *)
(***************************************************************************)
LEMMA RequestsArrive ==
    ASSUME NEW r \in {"begin", "evaluate", "register", "unlock", "lock", "recover", "ask"}
    PROVE  r \in DOMAIN Order \ ({"add_slot"} \cup Finishing)
  BY DEF Order, Finishing

(***************************************************************************)
(* Waiting for and taking a lock changes nothing the properties speak of.  *)
(***************************************************************************)
LEMMA TakeKeeps == ASSUME IInv, NEW t \in Threads, Take(t) PROVE IInv'
  <1>1. Moves(t) /\ doing' = doing
    BY TakeMoves DEF IInv
  <1>2. now' = now /\ UNCHANGED <<daemon, page, history>>
    BY DEF Take, ends
  <1> QED BY <1>1, <1>2, Quietly

(***************************************************************************)
(* An answer that changes nothing.                                         *)
(***************************************************************************)
LEMMA RefusalKeeps ==
    ASSUME IInv, NEW t \in Threads, NEW r \in {None, "dialog", "arm"}, GoesOnAs(t, r),
           doing[t] \notin Finishing, now' = now, UNCHANGED <<daemon, page, history>>
    PROVE  IInv'
  <1>1. Moves(t) /\ doing'[t] = r
    BY GoesOnAsMoves DEF IInv
  <1> QED BY <1>1, AtRest, Quietly

(***************************************************************************)
(* The first parts of the handlers are not their finishing parts.          *)
(***************************************************************************)
LEMMA PartsDiffer ==
    /\ \A r \in {"begin", "evaluate", "register", "unlock", "ask", "arm", "recover", "lock",
                  "dialog"} : r \notin Finishing /\ r # "add_slot"
    /\ "add_slot" \notin Finishing
  BY DEF Finishing

(***************************************************************************)
(* A challenge issued by begin or evaluate has a number of its own, and    *)
(* those in the window of the challenge table stay redeemable.             *)
(***************************************************************************)
LEMMA IssueKeeps ==
    ASSUME IInv, NEW p \in Pages, Begin(p) \/ Evaluate(p)
    PROVE  IInv'
  <1>1. /\ p \in Threads /\ Answers(p) /\ now' = now /\ doing[p] \notin Finishing
        /\ UNCHANGED <<vault, slots, resident, armed, history>>
    BY PartsDiffer DEF Begin, Evaluate, Ready, Threads
  <1>2. Moves(p) /\ doing'[p] = None
    BY <1>1, GoesOnAsMoves DEF IInv, Answers
  <1>3. doing'[p] \notin {"add_slot"} \cup Finishing
    BY <1>2, AtRest
  <1>4. CASE UNCHANGED <<outstanding, issued, page>>
    BY <1>1, <1>2, <1>3, <1>4, Quietly DEF daemon
  <1>5. CASE \E purpose \in {"RegisterPasskey", "Unlock"} :
                /\ Issue(purpose)
                /\ \/ page' = page
                   \/ \E mode \in {"register", "unlock"}, salt \in Nat :
                         Told(p, mode, salt) /\ purpose = Purpose(mode)
    <2>1. /\ Challenged' /\ issued' \in Nat /\ outstanding' \subseteq Challenges
          /\ page' \in [Pages -> TypesOfPages]
      BY <1>1, <1>2, <1>3, <1>5, Issuing DEF IInv, Challenged, history
    <2>2. Windows' /\ Installed'
      BY <1>1, <1>2, <1>3, WindowsKept, InstalledKept DEF IInv, history
    <2>3. Typed'
      BY <1>1, <1>2, <2>1 DEF IInv, Typed, Moves, history
    <2> QED BY <1>2, <2>1, <2>2, <2>3 DEF IInv, Challenged, Moves
  <1>6. CASE Begin(p)
    <2>1. CASE WindowOpen /\ Issue("RegisterPasskey") /\ Told(p, "register", armed.salt)
      <3>1. armed.salt \in Nat /\ "RegisterPasskey" = Purpose("register")
        BY <2>1 DEF WindowOpen, IInv, Typed, Purpose
      <3> QED BY <1>5, <2>1, <3>1
    <2>2. CASE Issue("Unlock") /\ \E s \in DOMAIN slots : Told(p, "unlock", slots[s].salt)
      <3>1. PICK s \in DOMAIN slots : Told(p, "unlock", slots[s].salt)
        BY <2>2
      <3>2. slots[s].salt \in Nat
        <4>1. slots \in Seq([salt : Nat, key : Nat \cup {None}])
          BY DEF IInv, Typed
        <4>2. s \in 1..Len(slots)
          BY <4>1
        <4>3. slots[s] \in [salt : Nat, key : Nat \cup {None}]
          BY <4>1, <4>2, InSequence
        <4> QED BY <4>3
      <3>3. "Unlock" = Purpose("unlock")
        BY DEF Purpose
      <3> QED BY <1>5, <2>2, <3>1, <3>2, <3>3
    <2> QED BY <1>4, <1>6, <2>1, <2>2 DEF Begin
  <1>7. CASE Evaluate(p)
    BY <1>4, <1>5, <1>7 DEF Evaluate
  <1> QED BY <1>6, <1>7

(***************************************************************************)
(* A registration that goes on keeps the window open and the ceremony.     *)
(***************************************************************************)
LEMMA RegisterKeeps == ASSUME IInv, NEW p \in Pages, Register(p) PROVE IInv'
  <1>1. /\ p \in Threads /\ Ready(p, "register") /\ doing[p] = "register" /\ now' = now
        /\ UNCHANGED <<vault, slots, resident, armed, issued, page, armings, uses>>
        /\ doing[p] \notin Finishing /\ doing[p] # "add_slot"
    BY PartsDiffer DEF Register, Ready, Threads
  <1>2. holder["ceremony"] = p
    BY <1>1, Holding DEF IInv
  <1>3. CASE Answers(p) /\ UNCHANGED <<outstanding, spent>>
    BY <1>1, <1>3, RefusalKeeps DEF Answers, daemon, history
  <1>4. CASE Answers(p) /\ Redeem(page[p].id)
    <2>1. Moves(p) /\ doing'[p] = None
      BY <1>1, <1>4, GoesOnAsMoves DEF IInv, Answers
    <2>2. doing'[p] \notin {"add_slot"} \cup Finishing
      BY <2>1, AtRest
    <2>3. Challenged' /\ outstanding' \subseteq Challenges
      BY <1>1, <1>2, <1>4, <2>1, <2>2, Redeeming DEF IInv, Challenged
    <2>4. Windows' /\ Installed'
      BY <1>1, <2>1, <2>2, WindowsKept, InstalledKept DEF IInv
    <2>5. Typed'
      BY <1>1, <2>1, <2>3 DEF IInv, Typed, Moves
    <2> QED BY <2>1, <2>3, <2>4, <2>5 DEF IInv, Challenged, Moves
  <1>5. CASE /\ WindowOpen /\ Redeem(page[p].id)
             /\ Redeemable(page[p].id, "RegisterPasskey") /\ GoesOn(p, "add_slot")
    <2>1. Moves(p) /\ doing'[p] = "add_slot"
      BY <1>1, <1>5, GoesOnMoves DEF IInv
    <2>2. Challenged' /\ outstanding' \subseteq Challenges
      BY <1>1, <1>2, <1>5, <2>1, Redeeming DEF IInv, Challenged
    <2>3. armed # None
      BY <1>5 DEF WindowOpen
    <2>4. Windows' /\ Installed'
      BY <1>1, <2>1, <2>3, AtRest, WindowsKept, InstalledKept DEF IInv
    <2>5. Typed'
      BY <1>1, <2>1, <2>2 DEF IInv, Typed, Moves
    <2> QED BY <2>1, <2>2, <2>4, <2>5 DEF IInv, Challenged, Moves
  <1> QED BY <1>3, <1>4, <1>5 DEF Register

(***************************************************************************)
(* The slot of an arming closes the window.                                *)
(***************************************************************************)
LEMMA AddSlotKeeps == ASSUME IInv, NEW p \in Pages, AddSlot(p) PROVE IInv'
  <1>1. /\ p \in Threads /\ doing[p] = "add_slot" /\ Answers(p) /\ now' = now
        /\ UNCHANGED <<vault, resident, outstanding, issued, page, armings, spent>>
        /\ doing[p] \notin Finishing
    BY PartsDiffer DEF AddSlot, Ready, Threads
  <1>2. CASE UNCHANGED <<slots, armed, uses>>
    BY <1>1, <1>2, RefusalKeeps DEF Answers, daemon, history
  <1>3. CASE slots' = Append(slots, NewSlot(p)) /\ armed' = None /\ Through(p)
    <2>1. Moves(p) /\ doing'[p] = None
      BY <1>1, GoesOnAsMoves DEF IInv, Answers
    <2>2. doing'[p] \notin {"add_slot"} \cup Finishing
      BY <2>1, AtRest
    <2>3. holder["ceremony"] = p /\ armed # None
      BY <1>1, Holding DEF IInv, Windows
    <2>4. ASSUME NEW t \in Threads PROVE doing'[t] # "add_slot"
      <3>1. t # p => doing'[t] = doing[t] /\ holder["ceremony"] # t
        BY <2>1, <2>3 DEF Moves
      <3> QED BY <2>2, <3>1, Holding DEF IInv
    <2>5. NewSlot(p) \in [salt : Nat, key : Nat \cup {None}]
      BY <2>3 DEF IInv, Typed, TypesOfPages, NewSlot
    <2>6. /\ slots' \in Seq([salt : Nat, key : Nat \cup {None}])
          /\ Len(slots') = Len(slots) + 1 /\ Len(slots) \in Nat
      BY <1>3, <2>5 DEF IInv, Typed
    <2>7. Windows'
      BY <1>1, <1>3, <2>3, <2>4, <2>6 DEF IInv, Windows, OneSlotPerArming, Typed
    <2>8. Installed'
      BY <1>1, <2>1, <2>2, InstalledKept DEF IInv
    <2>9. Numbering' /\ Promises'
      BY <1>1 DEF IInv, Numbering, Promises
    <2>10. uses' \in [1..MaxPosts -> Nat] /\ Spending'
      <3>1. uses' = [uses EXCEPT ![page[p].id] = @ + 1] /\ page[p].id \in spent
        BY <1>1, <1>3 DEF IInv, Spending, Through
      <3>2. CASE page[p].id \in 1..MaxPosts
        <4>1. uses[page[p].id] = 0
          BY <1>1, <3>2 DEF IInv, Spending
        <4>2. uses' \in [1..MaxPosts -> Nat]
          BY <3>1, Counted DEF IInv, Typed
        <4>3. \A i \in 1..MaxPosts : uses'[i] <= 1 /\ (uses'[i] = 1 => i \in spent)
          BY <3>1, <4>1 DEF IInv, Typed, Spending
        <4> QED BY <1>1, <2>4, <4>2, <4>3 DEF Spending, Threads
      <3>3. CASE page[p].id \notin 1..MaxPosts
        <4>1. uses' = uses
          BY <3>1, <3>3 DEF IInv, Typed
        <4> QED BY <1>1, <2>4, <4>1 DEF IInv, Typed, Spending, Threads
      <3> QED BY <3>2, <3>3
    <2>11. Typed'
      BY <1>1, <1>3, <2>1, <2>6, <2>10 DEF IInv, Typed, Moves
    <2> QED BY <2>1, <2>7, <2>8, <2>9, <2>10, <2>11 DEF IInv, Moves
  <1> QED BY <1>2, <1>3, <1>1 DEF AddSlot

(***************************************************************************)
(* A passkey that opens the vault leaves the entry to the part that holds  *)
(* the store.                                                              *)
(***************************************************************************)
LEMMA OpeningKeeps ==
    ASSUME IInv, NEW t \in Threads, NEW q, NEW r, NEW v,
           <<q, r, v>> \in {<<"unlock", "install", "Unlocked">>,
                            <<"recover", "reinstall", "Unlocked">>, <<"lock", "evict", "Locked">>},
           Ready(t, q), GoesOn(t, r), vault' = v
    PROVE  Moves(t) /\ doing'[t] = r /\ Installed' /\ vault' \in {"Locked", "Unlocked"}
  <1>1. Moves(t) /\ doing'[t] = r /\ r \in Finishing
    BY GoesOnMoves DEF IInv, Finishing
  <1>2. holder["vault"] = t /\ doing[t] \notin Finishing
    BY Holding DEF IInv, Ready, Finishing
  <1>3. ASSUME NEW u \in Threads, u # t PROVE doing'[u] = doing[u] /\ doing[u] \notin Finishing
    BY <1>1, <1>2, <1>3, Holding DEF IInv, Moves
  <1>4. ASSUME NEW u \in Threads
        PROVE  /\ doing'[u] \in {"install", "reinstall"} => vault' = "Unlocked"
               /\ doing'[u] = "evict" => vault' = "Locked"
    <2>1. CASE u = t
      BY <1>1, <2>1
    <2>2. CASE u # t
      BY <1>3, <2>2 DEF Finishing
    <2> QED BY <2>1, <2>2
  <1> QED BY <1>1, <1>4 DEF Installed

(***************************************************************************)
(* An unlock that opens the vault goes on to install the entry under the   *)
(* locks it holds.                                                         *)
(***************************************************************************)
LEMMA UnlockFinishKeeps == ASSUME IInv, NEW p \in Pages, UnlockFinish(p) PROVE IInv'
  <1>1. /\ p \in Threads /\ Ready(p, "unlock") /\ doing[p] = "unlock" /\ now' = now
        /\ UNCHANGED <<slots, resident, armed, issued, page, armings>>
        /\ doing[p] \notin Finishing /\ doing[p] # "add_slot"
    BY PartsDiffer DEF UnlockFinish, Ready, Threads
  <1>2. holder["ceremony"] = p
    BY <1>1, Holding DEF IInv
  <1>3. CASE Answers(p) /\ UNCHANGED <<vault, outstanding, spent, uses>>
    BY <1>1, <1>3, RefusalKeeps DEF Answers, daemon, history
  <1>4. CASE Answers(p) /\ Redeem(page[p].id) /\ UNCHANGED <<vault, uses>>
    <2>1. Moves(p) /\ doing'[p] = None
      BY <1>1, <1>4, GoesOnAsMoves DEF IInv, Answers
    <2>2. doing'[p] \notin {"add_slot"} \cup Finishing
      BY <2>1, AtRest
    <2>3. Challenged' /\ outstanding' \subseteq Challenges
      BY <1>1, <1>2, <1>4, <2>1, <2>2, Redeeming DEF IInv, Challenged
    <2>4. Windows' /\ Installed'
      BY <1>1, <1>4, <2>1, <2>2, WindowsKept, InstalledKept DEF IInv
    <2>5. Typed'
      BY <1>1, <1>4, <2>1, <2>3 DEF IInv, Typed, Moves
    <2> QED BY <2>1, <2>3, <2>4, <2>5 DEF IInv, Challenged, Moves
  <1>5. CASE /\ Redeem(page[p].id) /\ Redeemable(page[p].id, "Unlock")
             /\ vault' = "Unlocked" /\ GoesOn(p, "install") /\ Through(p)
    <2>1. Moves(p) /\ doing'[p] = "install" /\ Installed' /\ vault' \in {"Locked", "Unlocked"}
      BY <1>1, <1>5, OpeningKeeps
    <2>2. Challenged' /\ outstanding' \subseteq Challenges /\ uses' \in [1..MaxPosts -> Nat]
      BY <1>1, <1>2, <1>5, <2>1, Redeeming DEF IInv, Challenged
    <2>3. Windows'
      BY <1>1, <2>1, WindowsKept DEF IInv
    <2>4. Typed'
      BY <1>1, <2>1, <2>2 DEF IInv, Typed, Moves
    <2> QED BY <2>1, <2>2, <2>3, <2>4 DEF IInv, Challenged, Moves
  <1> QED BY <1>3, <1>4, <1>5 DEF UnlockFinish

(***************************************************************************)
(* Locking or recovering the vault goes on to evict or install the entry   *)
(* under the locks it holds.                                               *)
(***************************************************************************)
LEMMA VaultKeeps ==
    ASSUME IInv, NEW c \in Clients, LockVault(c) \/ Recover(c)
    PROVE  IInv'
  <1>1. /\ c \in Threads /\ now' = now /\ doing[c] \notin Finishing
        /\ UNCHANGED <<slots, resident, armed, outstanding, issued, page, history>>
    BY PartsDiffer DEF LockVault, Recover, Ready, Threads, ends
  <1>2. CASE Answers(c) /\ vault' = vault
    BY <1>1, <1>2, RefusalKeeps DEF Answers, daemon
  <1>3. ASSUME Moves(c), doing'[c] # "add_slot", Installed', vault' \in {"Locked", "Unlocked"}
        PROVE  IInv'
    <2>1. Windows' /\ Challenged'
      BY <1>1, <1>3, WindowsKept, ChallengesKept DEF IInv, Challenged, history
    <2>2. Typed'
      BY <1>1, <1>3 DEF IInv, Typed, Moves, history
    <2> QED BY <1>3, <2>1, <2>2 DEF IInv, Challenged, Moves
  <1>4. CASE Ready(c, "lock") /\ vault' = "Locked" /\ GoesOn(c, "evict")
    BY <1>1, <1>3, <1>4, OpeningKeeps
  <1>5. CASE Ready(c, "recover") /\ vault' = "Unlocked" /\ GoesOn(c, "reinstall")
    BY <1>1, <1>3, <1>5, OpeningKeeps
  <1> QED BY <1>2, <1>4, <1>5 DEF LockVault, Recover

(***************************************************************************)
(* The entry follows the vault before the store is let go of.              *)
(***************************************************************************)
LEMMA FinishKeeps ==
    ASSUME IInv, NEW t \in Threads,
           (t \in Pages /\ Install(t)) \/ (t \in Clients /\ (Evict(t) \/ Reinstall(t)))
    PROVE  IInv'
  <1>1. /\ Answers(t) /\ now' = now
        /\ UNCHANGED <<vault, slots, armed, outstanding, issued, page, history>>
        /\ \/ doing[t] \in {"install", "reinstall"} /\ resident' = TRUE
           \/ doing[t] = "evict" /\ resident' = FALSE
    BY DEF Install, Evict, Reinstall, Ready, ends
  <1>2. Moves(t) /\ doing'[t] = None
    BY <1>1, GoesOnAsMoves DEF IInv, Answers
  <1>3. doing'[t] \notin {"add_slot"} \cup Finishing
    BY <1>2, AtRest
  <1>4. resident' <=> vault' = "Unlocked"
    BY <1>1 DEF IInv, Installed
  <1>5. Installed'
    <2>1. ASSUME NEW u \in Threads, doing'[u] \in Finishing PROVE doing'[u] = doing[u]
      BY <1>2, <1>3, <2>1 DEF Moves
    <2> QED BY <1>1, <1>4, <2>1 DEF IInv, Installed, Finishing
  <1>6. Windows' /\ Challenged'
    BY <1>1, <1>2, <1>3, WindowsKept, ChallengesKept DEF IInv, Challenged, history
  <1>7. Typed'
    BY <1>1, <1>2 DEF IInv, Typed, Moves, history
  <1> QED BY <1>2, <1>5, <1>6, <1>7 DEF IInv, Challenged, Moves

(***************************************************************************)
(* A window costs an approval, also one that replaces another.             *)
(***************************************************************************)
LEMMA ArmKeeps == ASSUME IInv, NEW c \in Clients, Arm(c) PROVE IInv'
  <1>1. /\ c \in Threads /\ Answers(c) /\ now' = now /\ doing[c] \notin Finishing
        /\ armings' = armings + 1 /\ armed' = [salt |-> armings', expires |-> now + Window]
        /\ UNCHANGED <<vault, slots, resident, outstanding, issued, page, spent, uses>>
    BY PartsDiffer DEF Arm, Ready, Threads, ends
  <1>2. Moves(c) /\ doing'[c] = None
    BY <1>1, GoesOnAsMoves DEF IInv, Answers
  <1>3. doing'[c] \notin {"add_slot"} \cup Finishing
    BY <1>2, AtRest
  <1>4. armings' \in Nat /\ armed' \in [salt : Nat, expires : Nat] /\ armed' # None
    BY <1>1, CeremonyConstants, NoneIsNothing DEF IInv, Typed
  <1>5. Windows'
    <2>1. Len(slots) \in Nat /\ Len(slots) <= armings
      BY DEF IInv, Typed, Windows, OneSlotPerArming
    <2> QED BY <1>1, <1>4, <2>1 DEF IInv, Typed, Windows, OneSlotPerArming
  <1>6. Installed' /\ Challenged'
    BY <1>1, <1>2, <1>3, InstalledKept, ChallengesKept DEF IInv, Challenged
  <1>7. Typed'
    BY <1>1, <1>2, <1>4 DEF IInv, Typed, Moves
  <1> QED BY <1>2, <1>5, <1>6, <1>7 DEF IInv, Challenged, Moves

(***************************************************************************)
(* Asking the user, and the answer, change no window until the arming      *)
(* itself.                                                                 *)
(***************************************************************************)
LEMMA DialogKeeps ==
    ASSUME IInv, NEW c \in Clients, AskUser(c) \/ Approval(c)
    PROVE  IInv'
  <1>1. /\ c \in Threads /\ doing[c] \notin Finishing
        /\ now' = now /\ UNCHANGED <<daemon, page, history>>
    BY PartsDiffer DEF AskUser, Approval, Ready, Threads, ends
  <1>2. \E r \in {None, "dialog", "arm"} : GoesOnAs(c, r)
    BY DEF AskUser, Approval, Answers
  <1> QED BY <1>1, <1>2, RefusalKeeps

(***************************************************************************)
(* Every step keeps the invariant, and so does a stutter.                  *)
(***************************************************************************)
LEMMA Inductive == IInv /\ [Next]_vars => IInv'
  <1> SUFFICES ASSUME IInv, [Next]_vars PROVE IInv'
    OBVIOUS
  <1>1. ASSUME NEW p \in Pages, PostBegin(p) \/ PostEvaluate(p) \/ PostFinish(p)
        PROVE  IInv'
    <2>1. PICK r \in {"begin", "evaluate", "register", "unlock"} : Post(p, r)
      <3>1. page[p].mode \in {None, "register", "unlock"}
        BY DEF IInv, Typed, TypesOfPages
      <3> QED BY <1>1, <3>1 DEF PostBegin, PostEvaluate, PostFinish
    <2> QED BY <2>1, RequestsArrive, ArrivalsKeep DEF Post, Threads
  <1>2. ASSUME NEW c \in Clients, NEW r \in {"lock", "recover", "ask"}, Call(c, r)
        PROVE  IInv'
    BY <1>2, RequestsArrive, ArrivalsKeep DEF Call, Threads
  <1>3. ASSUME NEW t \in Threads, Serves(t) PROVE IInv'
    BY <1>3, TakeKeeps, IssueKeeps, RegisterKeeps, AddSlotKeeps, UnlockFinishKeeps, VaultKeeps,
       FinishKeeps, ArmKeeps, DialogKeeps DEF Serves
  <1>4. CASE UNCHANGED vars
    BY <1>4 DEF IInv, Typed, Locking, Windows, OneSlotPerArming, Installed, Numbering, Spending,
                Promises, vars, daemon, threads, ends, history
  <1> QED BY <1>1, <1>2, <1>3, <1>4, TickKeeps DEF Next

(***************************************************************************)
(* The invariant holds of every reachable state, for any constants.        *)
(***************************************************************************)
THEOREM CeremonyInvariance == Spec => []IInv
  BY Initially, Inductive, PTL DEF Spec

-----------------------------------------------------------------------------
(* Type correctness *)

(***************************************************************************)
(* A mutex is held by a thread that has taken it for what it does now.     *)
(***************************************************************************)
Held ==
    \A t \in Threads, m \in Mutexes :
        holder[m] = t => \E i \in 1..taken[t] : Order[doing[t]][i] = m

(***************************************************************************)
(* The table of challenges is never over its limit, and the clock stops.   *)
(***************************************************************************)
Limits ==
    /\ now <= MaxTime
    /\ IsFiniteSet(outstanding) /\ Cardinality(outstanding) <= MaxOutstanding

(***************************************************************************)
(* A page that registers was told a salt, so every slot has a key.         *)
(***************************************************************************)
Salted ==
    /\ \A p \in Pages : page[p].mode # None => page[p].salt \in Nat
    /\ \A p \in Pages : doing[p] \in {"register", "add_slot"} => page[p].salt \in Nat
    /\ slots \in Seq([salt : Nat, key : Nat])

(***************************************************************************)
(* A request that goes on needs the mutexes it has, in the same order.     *)
(***************************************************************************)
Parts == {<<"register", "add_slot">>, <<"unlock", "install">>, <<"recover", "reinstall">>,
          <<"lock", "evict">>}

(***************************************************************************)
(* What a step does to the threads and their mutexes is one of four        *)
(* things (ceremony/mod.rs, handler.rs vault handlers).                    *)
(***************************************************************************)
LEMMA ThreadSteps ==
    ASSUME IInv, [Next]_vars
    PROVE  \/ UNCHANGED threads
           \/ \E t \in Threads :
                 \/ Take(t)
                 \/ \E r \in DOMAIN Order : Arrives(t, r) /\ UNCHANGED <<holder, taken>>
                 \/ \E r \in {None, "dialog", "arm"} : GoesOnAs(t, r)
                 \/ \E q, r : <<q, r>> \in Parts /\ Ready(t, q) /\ GoesOn(t, r)
  <1>1. ASSUME NEW p \in Pages, PostBegin(p) \/ PostEvaluate(p) \/ PostFinish(p)
        PROVE  /\ p \in Threads
               /\ \E r \in DOMAIN Order : Arrives(p, r) /\ UNCHANGED <<holder, taken>>
    <2>1. page[p].mode \in {None, "register", "unlock"}
      BY DEF IInv, Typed, TypesOfPages
    <2>2. PICK r \in {"begin", "evaluate", "register", "unlock"} : Post(p, r)
      BY <1>1, <2>1 DEF PostBegin, PostEvaluate, PostFinish
    <2> QED BY <2>2, RequestsArrive DEF Post, Threads
  <1>2. ASSUME NEW c \in Clients, NEW r \in {"lock", "recover", "ask"}, Call(c, r)
        PROVE  c \in Threads /\ r \in DOMAIN Order /\ Arrives(c, r) /\ UNCHANGED <<holder, taken>>
    BY <1>2, RequestsArrive DEF Call, Threads
  <1>3. ASSUME NEW t \in Threads, Serves(t)
        PROVE  \/ Take(t)
               \/ \E r \in {None, "dialog", "arm"} : GoesOnAs(t, r)
               \/ \E q, r : <<q, r>> \in Parts /\ Ready(t, q) /\ GoesOn(t, r)
    <2>1. ASSUME Answers(t) PROVE \E r \in {None, "dialog", "arm"} : GoesOnAs(t, r)
      BY <2>1 DEF Answers
    <2>2. CASE Register(t)
      <3>1. Answers(t) \/ (Ready(t, "register") /\ GoesOn(t, "add_slot"))
        BY <2>2 DEF Register
      <3> QED BY <2>1, <3>1 DEF Parts
    <2>3. CASE UnlockFinish(t)
      <3>1. Answers(t) \/ (Ready(t, "unlock") /\ GoesOn(t, "install"))
        BY <2>3 DEF UnlockFinish
      <3> QED BY <2>1, <3>1 DEF Parts
    <2>4. CASE LockVault(t)
      <3>1. Answers(t) \/ (Ready(t, "lock") /\ GoesOn(t, "evict"))
        BY <2>4 DEF LockVault
      <3> QED BY <2>1, <3>1 DEF Parts
    <2>5. CASE Recover(t)
      <3>1. Ready(t, "recover") /\ GoesOn(t, "reinstall")
        BY <2>5 DEF Recover
      <3> QED BY <3>1 DEF Parts
    <2>6. CASE AskUser(t) \/ Approval(t)
      BY <2>6 DEF AskUser, Approval, Answers
    <2>7. CASE \/ Begin(t) \/ Evaluate(t) \/ AddSlot(t) \/ Install(t)
               \/ Evict(t) \/ Reinstall(t) \/ Arm(t)
      BY <2>1, <2>7 DEF Begin, Evaluate, AddSlot, Install, Evict, Reinstall, Arm
    <2> QED BY <1>3, <2>2, <2>3, <2>4, <2>5, <2>6, <2>7 DEF Serves
  <1>4. CASE Tick \/ UNCHANGED vars
    BY <1>4 DEF Tick, vars, threads
  <1> QED BY <1>1, <1>2, <1>3, <1>4 DEF Next

(***************************************************************************)
(* No mutex is left with a thread that does not know of it.                *)
(***************************************************************************)
LEMMA HeldInductive == ASSUME IInv, Held, [Next]_vars PROVE Held'
  <1> USE DEF IInv
  <1>1. CASE UNCHANGED threads
    BY <1>1 DEF Held, threads
  <1>2. ASSUME NEW t \in Threads, Take(t) PROVE Held'
    <2> DEFINE l == Order[doing[t]][taken[t] + 1]
    <2>1. /\ doing[t] \in DOMAIN Order /\ taken[t] < Len(Order[doing[t]])
          /\ holder' = [holder EXCEPT ![l] = t]
          /\ taken' = [taken EXCEPT ![t] = @ + 1] /\ doing' = doing
      BY <1>2 DEF Take
    <2>2. l \in Mutexes /\ taken[t] \in Nat
      BY <2>1, Orders DEF Typed
    <2>3. ASSUME NEW u \in Threads, NEW m \in Mutexes, holder'[m] = u
          PROVE  \E i \in 1..taken'[u] : Order[doing[u]][i] = m
      <3>1. CASE m = l
        <4>1. u = t /\ taken'[t] = taken[t] + 1
          BY <2>1, <2>2, <2>3, <3>1 DEF Typed
        <4>2. taken[t] + 1 \in 1..taken'[t]
          BY <2>2, <4>1
        <4> QED BY <3>1, <4>1, <4>2
      <3>2. CASE m # l
        <4>1. holder[m] = u
          BY <2>1, <2>3, <3>2 DEF Typed
        <4>2. PICK i \in 1..taken[u] : Order[doing[u]][i] = m
          BY <4>1 DEF Held
        <4>3. taken[u] \in Nat /\ taken'[u] \in Nat /\ taken[u] <= taken'[u]
          BY <2>1, <2>2 DEF Typed
        <4>4. i \in 1..taken'[u]
          BY <4>3
        <4> QED BY <4>2, <4>4
      <3> QED BY <3>1, <3>2
    <2> QED BY <2>1, <2>3 DEF Held
  <1>3. ASSUME NEW t \in Threads, NEW r \in DOMAIN Order, Arrives(t, r),
               UNCHANGED <<holder, taken>>
        PROVE  Held'
    <2>1. taken[t] = 0 /\ doing' = [doing EXCEPT ![t] = r]
      BY <1>3, NoneIsNothing DEF Arrives, Locking
    <2>2. \A m \in Mutexes : holder[m] # t
      BY <2>1 DEF Held
    <2>3. ASSUME NEW u \in Threads, NEW m \in Mutexes, holder[m] = u
          PROVE  \E i \in 1..taken[u] : Order[doing'[u]][i] = m
      <3>1. u # t
        BY <2>2, <2>3
      <3>2. doing'[u] = doing[u]
        BY <2>1, <3>1 DEF Typed
      <3> QED BY <2>3, <3>2 DEF Held
    <2> QED BY <1>3, <2>3 DEF Held
  <1>4. ASSUME NEW t \in Threads, NEW r \in {None, "dialog", "arm"}, GoesOnAs(t, r)
        PROVE  Held'
    <2>1. /\ doing' = [doing EXCEPT ![t] = r] /\ taken' = [taken EXCEPT ![t] = 0]
          /\ holder' = [m \in Mutexes |-> IF holder[m] = t THEN None ELSE holder[m]]
      BY <1>4 DEF GoesOnAs
    <2>2. \A u \in Threads : u # None
      BY CeremonyConstants DEF Threads
    <2>3. ASSUME NEW u \in Threads, NEW m \in Mutexes, holder'[m] = u
          PROVE  \E i \in 1..taken'[u] : Order[doing'[u]][i] = m
      <3>1. u # t /\ holder[m] = u
        BY <2>1, <2>2, <2>3
      <3>2. doing'[u] = doing[u] /\ taken'[u] = taken[u]
        BY <2>1, <3>1 DEF Typed
      <3> QED BY <3>1, <3>2 DEF Held
    <2> QED BY <2>3 DEF Held
  <1>5. ASSUME NEW t \in Threads, NEW q, NEW r, <<q, r>> \in Parts, Ready(t, q), GoesOn(t, r)
        PROVE  Held'
    <2>1. /\ doing[t] = q /\ taken[t] = Len(Order[q])
          /\ doing' = [doing EXCEPT ![t] = r] /\ UNCHANGED <<holder, taken>>
      BY <1>5 DEF Ready, GoesOn
    <2>2. \A i \in 1..Len(Order[q]) : Order[r][i] = Order[q][i]
      BY <1>5 DEF Parts, Order
    <2>3. ASSUME NEW u \in Threads, NEW m \in Mutexes, holder[m] = u
          PROVE  \E i \in 1..taken[u] : Order[doing'[u]][i] = m
      <3>1. PICK i \in 1..taken[u] : Order[doing[u]][i] = m
        BY <2>3 DEF Held
      <3>2. CASE u = t
        BY <2>1, <2>2, <3>1, <3>2 DEF Typed
      <3>3. CASE u # t
        BY <2>1, <3>1, <3>3 DEF Typed
      <3> QED BY <3>2, <3>3
    <2> QED BY <2>1, <2>3 DEF Held
  <1> QED BY <1>1, <1>2, <1>3, <1>4, <1>5, ThreadSteps

(***************************************************************************)
(* A challenge is only issued while there is room (challenge.rs issue).    *)
(***************************************************************************)
LEMMA LimitsInductive == ASSUME IInv, Limits, [Next]_vars PROVE Limits'
  <1>1. now' <= MaxTime
    <2>1. now' = now \/ Tick
      BY DEF Next, vars, Post, PostBegin, PostEvaluate, PostFinish, Call, Serves, Take, Begin,
             Evaluate, Register, AddSlot, UnlockFinish, Install, LockVault, Evict, Recover,
             Reinstall, AskUser, Approval, Arm
    <2> QED BY <2>1, CeremonyConstants DEF Limits, Tick, IInv, Typed
  <1>2. \/ outstanding' = outstanding
        \/ \E purpose : Issue(purpose)
        \/ \E id : Redeem(id)
    <2>1. ASSUME NEW p \in Pages, Begin(p) \/ Evaluate(p)
          PROVE  outstanding' = outstanding \/ \E purpose : Issue(purpose)
      BY <2>1 DEF Begin, Evaluate
    <2>2. ASSUME NEW p \in Pages, Register(p) \/ UnlockFinish(p)
          PROVE  outstanding' = outstanding \/ \E id : Redeem(id)
      BY <2>2 DEF Register, UnlockFinish
    <2>3. ASSUME NEW t, \/ Take(t) \/ AddSlot(t) \/ Install(t) \/ LockVault(t) \/ Evict(t)
                        \/ Recover(t) \/ Reinstall(t) \/ AskUser(t) \/ Approval(t) \/ Arm(t)
          PROVE  outstanding' = outstanding
      BY <2>3 DEF Take, AddSlot, Install, LockVault, Evict, Recover, Reinstall, AskUser, Approval,
                  Arm, daemon
    <2>4. CASE \/ Tick \/ UNCHANGED vars
               \/ \E p \in Pages : PostBegin(p) \/ PostEvaluate(p) \/ PostFinish(p)
               \/ \E c \in Clients, request \in {"lock", "recover", "ask"} : Call(c, request)
      BY <2>4 DEF Tick, vars, Post, PostBegin, PostEvaluate, PostFinish, Call, daemon
    <2> QED BY <2>1, <2>2, <2>3, <2>4 DEF Next, Serves
  <1>3. /\ IsFiniteSet(Live) /\ Cardinality(Live) \in Nat
        /\ Cardinality(Live) <= MaxOutstanding /\ MaxOutstanding \in Nat
    <2>1. Live \in SUBSET outstanding
      BY DEF Live
    <2>2. IsFiniteSet(Live) /\ Cardinality(Live) <= Cardinality(outstanding)
      BY <2>1, FS_Subset DEF Limits
    <2>3. Cardinality(Live) \in Nat /\ Cardinality(outstanding) \in Nat
      BY <2>2, FS_CardinalityType DEF Limits
    <2>4. MaxOutstanding \in Nat
      BY CeremonyConstants
    <2> QED BY <2>2, <2>3, <2>4 DEF Limits
  <1>4. ASSUME NEW purpose, Issue(purpose)
        PROVE  IsFiniteSet(outstanding') /\ Cardinality(outstanding') <= MaxOutstanding
    <2> DEFINE c == [id |-> issued', purpose |-> purpose, expires |-> now + Ttl]
    <2>1. outstanding' = Live \cup {c} /\ Cardinality(Live) < MaxOutstanding
      BY <1>3, <1>4 DEF Issue, Full
    <2> HIDE DEF c
    <2> QED BY <1>3, <2>1, FS_AddElement
  <1>5. ASSUME NEW id, Redeem(id)
        PROVE  IsFiniteSet(outstanding') /\ Cardinality(outstanding') <= MaxOutstanding
    <2>1. outstanding' \in SUBSET Live
      BY <1>5 DEF Redeem
    <2>2. IsFiniteSet(outstanding') /\ Cardinality(outstanding') <= Cardinality(Live)
      BY <1>3, <2>1, FS_Subset
    <2>3. Cardinality(outstanding') \in Nat
      BY <2>2, FS_CardinalityType
    <2> QED BY <1>3, <2>2, <2>3
  <1> QED BY <1>1, <1>2, <1>4, <1>5 DEF Limits

(***************************************************************************)
(* The salt a slot's key is derived with is the one its page was told.     *)
(***************************************************************************)
LEMMA SaltedInductive == ASSUME IInv, Salted, [Next]_vars PROVE Salted'
  <1> USE DEF IInv
  <1>1. ASSUME NEW t \in Threads, NEW r, doing' = [doing EXCEPT ![t] = r],
               r \in {"register", "add_slot"} => page[t].salt \in Nat,
               page' = page, slots' = slots
        PROVE  Salted'
    <2>1. ASSUME NEW p \in Pages, doing'[p] \in {"register", "add_slot"}
          PROVE  page[p].salt \in Nat
      BY <1>1, <2>1 DEF Salted, Typed, Threads
    <2> QED BY <1>1, <2>1 DEF Salted
  <1>2. ASSUME NEW p \in Pages, PostBegin(p) \/ PostEvaluate(p) \/ PostFinish(p)
        PROVE  Salted'
    <2>1. page[p].mode \in {None, "register", "unlock"} /\ p \in Threads
      BY DEF Typed, TypesOfPages, Threads
    <2>2. PICK r \in {"begin", "evaluate", "register", "unlock"} :
             Post(p, r) /\ (r = "register" => page[p].mode # None)
      BY <1>2, <2>1 DEF PostBegin, PostEvaluate, PostFinish
    <2>3. doing' = [doing EXCEPT ![p] = r] /\ page' = page /\ slots' = slots
      BY <2>2 DEF Post, Arrives, daemon
    <2> QED BY <1>1, <2>1, <2>2, <2>3 DEF Salted
  <1>3. ASSUME NEW c \in Clients, NEW r \in {"lock", "recover", "ask"}, Call(c, r)
        PROVE  Salted'
    <2>1. doing' = [doing EXCEPT ![c] = r] /\ page' = page /\ slots' = slots /\ c \in Threads
      BY <1>3 DEF Call, Arrives, daemon, Threads
    <2> QED BY <1>1, <2>1
  <1>4. ASSUME NEW t \in Threads,
               \/ Take(t)
               \/ t \in Pages /\ (Evaluate(t) \/ Register(t) \/ UnlockFinish(t) \/ Install(t))
               \/ LockVault(t) \/ Evict(t) \/ Recover(t) \/ Reinstall(t)
               \/ AskUser(t) \/ Approval(t) \/ Arm(t)
        PROVE  Salted'
    <2>1. page' = page /\ slots' = slots
      BY <1>4 DEF Take, Evaluate, Register, UnlockFinish, Install, LockVault, Evict,
                  Recover, Reinstall, AskUser, Approval, Arm, daemon, ends
    <2>2. CASE Take(t)
      BY <2>1, <2>2 DEF Take, Salted
    <2>3. CASE Register(t) /\ t \in Pages
      <3>1. \E r : doing' = [doing EXCEPT ![t] = r]
        BY <2>3 DEF Register, Answers, GoesOnAs, GoesOn
      <3>2. page[t].salt \in Nat
        BY <2>3 DEF Register, Ready, Salted
      <3> QED BY <1>1, <2>1, <3>1, <3>2
    <2>4. ASSUME NEW r, r \notin {"register", "add_slot"}, doing' = [doing EXCEPT ![t] = r]
          PROVE  Salted'
      BY <1>1, <2>1, <2>4
    <2>5. None \notin {"register", "add_slot"}
      BY NoneIsNothing, AtRest
    <2>6. ASSUME Answers(t) PROVE Salted'
      BY <2>4, <2>5, <2>6 DEF Answers, GoesOnAs
    <2>7. CASE UnlockFinish(t)
      BY <2>4, <2>6, <2>7 DEF UnlockFinish, GoesOn
    <2>8. CASE LockVault(t) \/ Recover(t)
      BY <2>4, <2>6, <2>8 DEF LockVault, Recover, GoesOn
    <2>9. CASE AskUser(t) \/ Approval(t)
      BY <2>4, <2>5, <2>6, <2>9 DEF AskUser, Approval, GoesOnAs
    <2>10. CASE Evaluate(t) \/ Install(t) \/ Evict(t) \/ Reinstall(t) \/ Arm(t)
      BY <2>6, <2>10 DEF Evaluate, Install, Evict, Reinstall, Arm
    <2> QED BY <1>4, <2>2, <2>3, <2>7, <2>8, <2>9, <2>10
  <1>5. ASSUME NEW p \in Pages, Begin(p) PROVE Salted'
    <2>1. doing' = [doing EXCEPT ![p] = None] /\ slots' = slots /\ p \in Threads
      BY <1>5 DEF Begin, Answers, GoesOnAs, Threads
    <2>2. \A q \in Pages : doing'[q] \in {"register", "add_slot"} => page[q].salt \in Nat /\ q # p
      BY <2>1, NoneIsNothing, AtRest DEF Typed, Salted, Threads
    <2>3. CASE page' = page
      BY <2>1, <2>2, <2>3 DEF Salted
    <2>4. ASSUME NEW mode \in {"register", "unlock"}, NEW salt \in Nat, Told(p, mode, salt)
          PROVE  Salted'
      <3> DEFINE told == [mode |-> mode, id |-> issued', expires |-> now + Ttl, salt |-> salt]
      <3>1. page' = [page EXCEPT ![p] = told] /\ told.salt = salt
        BY <2>4 DEF Told
      <3> HIDE DEF told
      <3>2. \A q \in Pages : (q # p => page'[q] = page[q]) /\ (q = p => page'[q] = told)
        BY <3>1 DEF Typed
      <3>3. \A q \in Pages : page'[q].mode # None => page'[q].salt \in Nat
        BY <3>1, <3>2 DEF Salted
      <3>4. \A q \in Pages : doing'[q] \in {"register", "add_slot"} => page'[q].salt \in Nat
        BY <2>2, <3>2
      <3> QED BY <2>1, <3>3, <3>4 DEF Salted
    <2>5. CASE WindowOpen /\ Told(p, "register", armed.salt)
      <3>1. armed.salt \in Nat
        BY <2>5 DEF WindowOpen, Typed
      <3> QED BY <2>4, <2>5, <3>1
    <2>6. ASSUME NEW i \in DOMAIN slots, Told(p, "unlock", slots[i].salt) PROVE Salted'
      <3>1. slots \in Seq([salt : Nat, key : Nat]) /\ i \in 1..Len(slots)
        BY DEF Salted
      <3>2. slots[i] \in [salt : Nat, key : Nat]
        BY <3>1, InSequence
      <3> QED BY <2>4, <2>6, <3>2
    <2> QED BY <1>5, <2>3, <2>5, <2>6 DEF Begin
  <1>6. ASSUME NEW p \in Pages, AddSlot(p) PROVE Salted'
    <2>1. doing' = [doing EXCEPT ![p] = None] /\ page' = page /\ p \in Threads
      BY <1>6 DEF AddSlot, Answers, GoesOnAs, Threads
    <2>2. CASE slots' = slots
      BY <1>1, <2>1, <2>2, NoneIsNothing, AtRest
    <2>3. CASE slots' = Append(slots, NewSlot(p))
      <3>1. doing[p] = "add_slot" /\ armed # None
        BY <1>6, <2>1 DEF AddSlot, Ready, Windows
      <3>2. NewSlot(p) \in [salt : Nat, key : Nat]
        BY <3>1 DEF Salted, NewSlot, Typed
      <3>3. slots' \in Seq([salt : Nat, key : Nat])
        BY <2>3, <3>2 DEF Salted
      <3>4. \A q \in Pages : doing'[q] \in {"register", "add_slot"} => page[q].salt \in Nat
        BY <2>1, NoneIsNothing, AtRest DEF Typed, Salted, Threads
      <3> QED BY <2>1, <3>3, <3>4 DEF Salted
    <2> QED BY <1>6, <2>2, <2>3 DEF AddSlot
  <1>7. CASE Tick \/ UNCHANGED vars
    BY <1>7 DEF Tick, vars, daemon, threads, ends, Salted
  <1>8. ASSUME NEW t \in Threads, Serves(t) PROVE Salted'
    BY <1>4, <1>5, <1>6, <1>8 DEF Serves
  <1> QED BY <1>2, <1>3, <1>7, <1>8 DEF Next

(***************************************************************************)
(* Initially no mutex is held, no challenge issued and no page told.       *)
(***************************************************************************)
LEMMA InitiallyStrict == Init => Held /\ Limits /\ Salted
  <1> SUFFICES ASSUME Init PROVE Held /\ Limits /\ Salted
    OBVIOUS
  <1> USE DEF Init
  <1>1. Held
    BY CeremonyConstants DEF Held, Threads
  <1>2. Limits
    BY CeremonyConstants, FS_EmptySet DEF Limits
  <1>3. slots \in Seq([salt : Nat, key : Nat])
    <2>1. \A i \in 1..armings : [salt |-> i, key |-> i] \in [salt : Nat, key : Nat]
      OBVIOUS
    <2> QED BY <2>1
  <1>4. Salted
    BY <1>3, NoneIsNothing, AtRest DEF Salted, NoPage, Threads
  <1> QED BY <1>1, <1>2, <1>4

(***************************************************************************)
(* Every variable keeps to its values; in particular the challenges never  *)
(* exceed MAX_OUTSTANDING, a mutex is held exactly by the thread that took *)
(* it for what it does now, and every slot has a key                       *)
(* (ceremony/challenge.rs, handler.rs HandlerCtx::vault).                  *)
(***************************************************************************)
THEOREM CeremonyTypes == Spec => []TypeOK
  <1>1. ASSUME IInv, Held, Limits, Salted PROVE TypeOK
    <2>1. taken \in [Threads -> 0..3]
      <3>1. \A t \in Threads : taken[t] \in Nat /\ taken[t] <= 3
        BY <1>1, Orders DEF IInv, Locking, Typed
      <3> QED BY <1>1, <3>1 DEF IInv, Typed
    <2>2. \A t \in Threads, m \in Mutexes :
             holder[m] = t <=> \E i \in 1..taken[t] : Order[doing[t]][i] = m
      BY <1>1 DEF Held, IInv, Locking
    <2>3. now \in 0..MaxTime
      BY <1>1, CeremonyConstants DEF IInv, Typed, Limits
    <2> QED BY <1>1, <2>1, <2>2, <2>3 DEF TypeOK, IInv, Typed, Limits, Salted
  <1>2. /\ IInv /\ Held /\ Limits /\ Salted /\ [Next]_vars
           => (Held /\ Limits /\ Salted)'
    BY HeldInductive, LimitsInductive, SaltedInductive
  <1> QED BY <1>1, <1>2, InitiallyStrict, CeremonyInvariance, PTL DEF Spec

-----------------------------------------------------------------------------
(* The properties *)

(***************************************************************************)
(* An approval of add-passkey lets one passkey in at most                  *)
(* (ceremony/mod.rs register_finish).                                      *)
(***************************************************************************)
THEOREM OnePasskeyPerApproval == Spec => []OneSlotPerArming
  <1>1. IInv => OneSlotPerArming
    BY DEF IInv, Windows
  <1> QED BY <1>1, CeremonyInvariance, PTL

(***************************************************************************)
(* Whoever gets hold of the store finds the entry in it exactly while the  *)
(* vault is open (ceremony/mod.rs unlock_finish, handler.rs                *)
(* handle_vault_lock).                                                     *)
(***************************************************************************)
THEOREM EntryFollowsVault == Spec => []OpenMeansResident
  <1>1. ASSUME IInv PROVE OpenMeansResident
    <2>1. \A t \in Threads : t # None
      BY CeremonyConstants DEF Threads
    <2>2. ASSUME holder["store"] = None PROVE \A t \in Threads : doing[t] \notin Finishing
      BY <1>1, <2>1, <2>2, Holding DEF IInv
    <2> QED BY <1>1, <2>2 DEF IInv, Installed, OpenMeansResident
  <1> QED BY <1>1, CeremonyInvariance, PTL

(***************************************************************************)
(* A challenge lets one response through at most (challenge.rs redeem).    *)
(***************************************************************************)
THEOREM OnceEach == Spec => []OneUse
  <1>1. IInv => OneUse
    BY DEF IInv, Typed, Spending, OneUse
  <1> QED BY <1>1, CeremonyInvariance, PTL

(***************************************************************************)
(* What a page was told to answer stays redeemable for as long as it was   *)
(* told, unless it is named (challenge.rs issue).                          *)
(***************************************************************************)
THEOREM PagesKeepTheirs == Spec => []ChallengesStay
  <1>1. ASSUME IInv PROVE ChallengesStay
    <2>1. ASSUME NEW p \in Pages, page[p].mode # None, page[p].expires > now,
                 page[p].id \notin spent
          PROVE  Redeemable(page[p].id, Purpose(page[p].mode))
      <3>1. PICK c \in outstanding : /\ c.id = page[p].id /\ c.purpose = Purpose(page[p].mode)
                                     /\ c.expires = page[p].expires
        BY <1>1, <2>1 DEF IInv, Promises
      <3> QED BY <2>1, <3>1 DEF Redeemable, Live
    <2> QED BY <2>1 DEF ChallengesStay, Purpose
  <1> QED BY <1>1, CeremonyInvariance, PTL

=============================================================================
