--------------------------- MODULE ApprovalProofs ---------------------------
(***************************************************************************)
(* Theorems about Approval, for any reads, callers and guards, any length  *)
(* of the queue and any number of deaths of the helper.                    *)
(***************************************************************************)
EXTENDS Approval, FiniteSetTheorems, TLAPS

-----------------------------------------------------------------------------
(* The inductive invariant *)

Asks == {Caller[r] : r \in Reads}

\* A read that leads a dialog and has no outcome yet.
Leading == Inside \cup {"starting"}

\* A read that has the connection to the helper.
Busy == {"asking", "retiring", "spawning", "reasking"}

\* A read whose dialog is not asked for, or not any more, or not yet again.
Unasked == {"new", "gated", "following", "starting", "queued", "retiring", "spawning"}

(***************************************************************************)
(* Who may be joined leads, and who has joined waits for one who leads.    *)
(***************************************************************************)
Joining ==
    /\ inflight \in [Asks -> Reads \cup {None}]
    /\ \A c \in Asks : inflight[c] # None =>
          Caller[inflight[c]] = c /\ at[inflight[c]] \in Leading
    /\ \A r \in Reads : at[r] \in Leading \cup {"telling"} => leader[r] = r
    /\ \A r \in Reads : at[r] = "following" =>
          leader[r] \in Reads /\ at[leader[r]] \in Leading \cup {"telling"}

(***************************************************************************)
(* The connection belongs to the head of the queue, in which the shutdown  *)
(* waits at most once.                                                     *)
(***************************************************************************)
Turns ==
    /\ turn \in Seq(Reads \cup {Shutdown})
    /\ quitting = "locking" <=> Shutdown \in ToSet(turn)
    /\ \A r \in Reads : at[r] \in Busy => turn # <<>> /\ Head(turn) = r

(***************************************************************************)
(* What the helper has been asked and has not answered is asked once, for  *)
(* a read that leads; and it is asked nothing when it is not up.           *)
(***************************************************************************)
Asking ==
    /\ IsInjective(asked)
    /\ \A i \in DOMAIN asked : /\ consent[asked[i]] = None /\ leader[asked[i]] = asked[i]
                               /\ at[asked[i]] \notin Unasked
    /\ helper # "up" => asked = <<>>
    /\ \A r \in Reads : at[r] = "spawning" => asked = <<>>

(***************************************************************************)
(* What is on the pipe is what the user said, and while a read waits for   *)
(* the answer to its first question it has not passed by.                  *)
(***************************************************************************)
Answering ==
    /\ \A i \in DOMAIN replies : consent[replies[i][1]] = replies[i][2]
    /\ \A r \in Reads : at[r] \in Unasked => consent[r] = None
    /\ \A r \in Reads : (at[r] = "asking" /\ consent[r] # None) =>
          \E i \in DOMAIN replies : replies[i][1] = r

(***************************************************************************)
(* An approval that is told, and one that was told, is the user's.         *)
(***************************************************************************)
Telling ==
    /\ \A r \in Reads : at[r] = "telling" =>
          why[r] \in {"yes", "no", "full"} /\ (why[r] = "yes" => consent[r] = "yes")
    /\ \A r \in Reads : at[r] = "approved" =>
          leader[r] \in Reads /\ consent[leader[r]] = "yes"

Waiting == {r \in Reads : at[r] \in Inside}

\* TypeOK in its parts: Booleans, other types, and what is counted.
Flags == conn \in BOOLEAN /\ pid \in BOOLEAN /\ closed \in BOOLEAN

Types ==
    /\ guard \in Guards \cup {None}
    /\ at \in [Reads -> Places] /\ why \in [Reads -> Outcomes \cup {None}]
    /\ leader \in [Reads -> Reads \cup {None}]
    /\ slot \in {"Starting", "Ready", "Down"}
    /\ quitting \in {"no", "latched", "locking", "over"}
    /\ helper \in {"none", "booting", "up", "dead"}
    /\ asked \in Seq(Reads) /\ replies \in Seq(Reads \X {"yes", "no"})
    /\ consent \in [Reads -> {"yes", "no", None}]

Queue ==
    /\ pending = Cardinality(Waiting)
    /\ IsInjective(turn) /\ ToSet(turn) \subseteq Reads \cup {Shutdown}
    /\ \A r \in Reads : at[r] \in Inside <=> r \in ToSet(turn)
    /\ Turns

IInv == Flags /\ Types /\ Queue /\ Joining /\ Asking /\ Answering /\ Telling

-----------------------------------------------------------------------------
(* The queue of a mutex *)

(***************************************************************************)
(* Whoever lets go of the mutex, or of the wait for it, leaves the others  *)
(* in their order.                                                         *)
(***************************************************************************)
LEMMA WithoutOne ==
    ASSUME NEW S, NEW q \in Seq(S), NEW r, r \in ToSet(q)
    PROVE  \E k \in 1..Len(q) :
              /\ q[k] = r
              /\ Without(q, r) \in Seq(S) /\ Len(Without(q, r)) = Len(q) - 1
              /\ \A i \in 1..(Len(q) - 1) :
                    Without(q, r)[i] = IF i < k THEN q[i] ELSE q[i + 1]
  <1> DEFINE k == CHOOSE i \in DOMAIN q : q[i] = r
  <1>1. k \in 1..Len(q) /\ q[k] = r
    BY DEF ToSet
  <1> DEFINE a == SubSeq(q, 1, k - 1)
             b == SubSeq(q, k + 1, Len(q))
  <1>2. Without(q, r) = a \o b
    BY DEF Without, RemoveAt
  <1> HIDE DEF k
  <1>3. /\ a \in Seq(S) /\ Len(a) = k - 1 /\ \A i \in 1..(k - 1) : a[i] = q[i]
    BY <1>1
  <1>4. /\ b \in Seq(S) /\ Len(b) = Len(q) - k
        /\ \A i \in 1..(Len(q) - k) : b[i] = q[k + i]
    BY <1>1
  <1> HIDE DEF a, b
  <1>5. a \o b \in Seq(S) /\ Len(a \o b) = Len(q) - 1
    <2>1. a \in Seq(S) /\ b \in Seq(S)
      BY <1>3, <1>4
    <2>2. a \o b \in Seq(S) /\ Len(a \o b) = Len(a) + Len(b)
      BY <2>1
    <2>3. Len(q) \in Nat /\ k \in 1..Len(q) /\ Len(a) = k - 1 /\ Len(b) = Len(q) - k
      BY <1>1, <1>3, <1>4
    <2> QED BY <2>2, <2>3
  <1>6. ASSUME NEW i \in 1..(Len(q) - 1)
        PROVE  (a \o b)[i] = IF i < k THEN q[i] ELSE q[i + 1]
    <2>1. CASE i < k
      BY <2>1, <1>1, <1>3, <1>4
    <2>2. CASE ~(i < k)
      <3>1. (a \o b)[i] = b[i - Len(a)]
        BY <2>2, <1>1, <1>3, <1>4
      <3>2. i - Len(a) \in 1..(Len(q) - k) /\ k + (i - Len(a)) = i + 1
        BY <2>2, <1>1, <1>3
      <3> QED BY <2>2, <3>1, <3>2, <1>4
    <2> QED BY <2>1, <2>2
  <1> QED BY <1>1, <1>2, <1>5, <1>6

(***************************************************************************)
(* What is left is the rest, once each, and the head if it did not leave.  *)
(***************************************************************************)
LEMMA WithoutRest ==
    ASSUME NEW S, NEW q \in Seq(S), NEW r, r \in ToSet(q), IsInjective(q)
    PROVE  /\ Without(q, r) \in Seq(S) /\ IsInjective(Without(q, r))
           /\ ToSet(Without(q, r)) = ToSet(q) \ {r}
           /\ Head(q) # r => Without(q, r) # <<>> /\ Head(Without(q, r)) = Head(q)
  <1>1. PICK k \in 1..Len(q) :
              /\ q[k] = r
              /\ Without(q, r) \in Seq(S) /\ Len(Without(q, r)) = Len(q) - 1
              /\ \A i \in 1..(Len(q) - 1) :
                    Without(q, r)[i] = IF i < k THEN q[i] ELSE q[i + 1]
    BY WithoutOne
  <1> DEFINE w == Without(q, r)
  <1> HIDE DEF w
  <1>2. /\ w \in Seq(S) /\ Len(w) = Len(q) - 1 /\ DOMAIN w = 1..(Len(q) - 1)
        /\ DOMAIN q = 1..Len(q) /\ Len(q) \in Nat
        /\ \A i \in 1..(Len(q) - 1) : w[i] = IF i < k THEN q[i] ELSE q[i + 1]
    BY <1>1 DEF w
  <1>3. \A i, j \in 1..Len(q) : q[i] = q[j] => i = j
    BY <1>2 DEF IsInjective
  <1>4. IsInjective(w)
    <2> SUFFICES ASSUME NEW i \in 1..(Len(q) - 1), NEW j \in 1..(Len(q) - 1), w[i] = w[j]
                 PROVE  i = j
      BY <1>2 DEF IsInjective
    <2> DEFINE old(n) == IF n < k THEN n ELSE n + 1
    <2>1. w[i] = q[old(i)] /\ w[j] = q[old(j)]
      BY <1>2
    <2>2. old(i) \in 1..Len(q) /\ old(j) \in 1..Len(q)
      BY <1>2
    <2>3. old(i) = old(j)
      BY <2>1, <2>2, <1>3
    <2> QED BY <2>3
  <1>5. ASSUME NEW x \in ToSet(w) PROVE x \in ToSet(q) \ {r}
    <2>1. PICK i \in 1..(Len(q) - 1) : x = w[i]
      BY <1>2 DEF ToSet
    <2>2. \E j \in 1..Len(q) : x = q[j] /\ j # k
      BY <2>1, <1>2
    <2> QED BY <2>2, <1>1, <1>2, <1>3 DEF ToSet
  <1>6. ASSUME NEW x \in ToSet(q) \ {r} PROVE x \in ToSet(w)
    <2>1. PICK j \in 1..Len(q) : x = q[j] /\ j # k
      BY <1>1, <1>2 DEF ToSet
    <2>2. \E i \in 1..(Len(q) - 1) : x = w[i]
      <3>1. CASE j < k
        BY <3>1, <2>1, <1>1, <1>2
      <3>2. CASE j > k
        <4>1. j - 1 \in 1..(Len(q) - 1) /\ ~(j - 1 < k) /\ (j - 1) + 1 = j
          BY <3>2, <2>1, <1>1, <1>2
        <4> QED BY <4>1, <2>1, <1>2
      <3> QED BY <3>1, <3>2, <2>1, <1>1
    <2> QED BY <2>2, <1>2 DEF ToSet
  <1>7. ASSUME Head(q) # r PROVE w # <<>> /\ Head(w) = Head(q)
    <2>1. q[1] = Head(q) /\ k # 1 /\ k > 1 /\ Len(q) > 1
      BY <1>1, <1>2, <1>7
    <2>2. w[1] = q[1]
      BY <2>1, <1>1, <1>2
    <2> QED BY <2>1, <2>2, <1>2
  <1> QED BY <1>2, <1>4, <1>5, <1>6, <1>7 DEF w

(***************************************************************************)
(* Whoever comes to the mutex comes last.                                  *)
(***************************************************************************)
LEMMA AppendLast ==
    ASSUME NEW S, NEW q \in Seq(S), NEW r \in S
    PROVE  /\ Append(q, r) \in Seq(S) /\ ToSet(Append(q, r)) = ToSet(q) \cup {r}
           /\ (IsInjective(q) /\ r \notin ToSet(q)) => IsInjective(Append(q, r))
           /\ q # <<>> => Head(Append(q, r)) = Head(q)
           /\ Append(q, r) # <<>>
  <1> DEFINE w == Append(q, r)
  <1>1. /\ w \in Seq(S) /\ Len(w) = Len(q) + 1 /\ DOMAIN w = 1..(Len(q) + 1)
        /\ DOMAIN q = 1..Len(q) /\ Len(q) \in Nat
        /\ w[Len(q) + 1] = r /\ \A i \in 1..Len(q) : w[i] = q[i]
    OBVIOUS
  <1> HIDE DEF w
  <1>2. ToSet(w) = ToSet(q) \cup {r}
    <2>1. ASSUME NEW x \in ToSet(w) PROVE x \in ToSet(q) \cup {r}
      <3>1. PICK i \in 1..(Len(q) + 1) : x = w[i]
        BY <1>1 DEF ToSet
      <3> QED BY <3>1, <1>1 DEF ToSet
    <2>2. ASSUME NEW x \in ToSet(q) PROVE x \in ToSet(w)
      <3>1. PICK i \in 1..Len(q) : x = q[i]
        BY <1>1 DEF ToSet
      <3> QED BY <3>1, <1>1 DEF ToSet
    <2>3. r \in ToSet(w)
      BY <1>1 DEF ToSet
    <2> QED BY <2>1, <2>2, <2>3
  <1>3. ASSUME IsInjective(q), r \notin ToSet(q) PROVE IsInjective(w)
    <2> SUFFICES ASSUME NEW i \in 1..(Len(q) + 1), NEW j \in 1..(Len(q) + 1), w[i] = w[j]
                 PROVE  i = j
      BY <1>1 DEF IsInjective
    <2>1. \A n \in 1..Len(q) : q[n] # r
      BY <1>1, <1>3 DEF ToSet
    <2> QED BY <2>1, <1>1, <1>3 DEF IsInjective
  <1>4. q # <<>> => w # <<>> /\ Head(w) = Head(q)
    BY <1>1
  <1>5. w # <<>>
    BY <1>1
  <1> QED BY <1>1, <1>2, <1>3, <1>4, <1>5 DEF w

(***************************************************************************)
(* The rest of a queue.                                                    *)
(***************************************************************************)
LEMMA TailRest ==
    ASSUME NEW S, NEW q \in Seq(S), q # <<>>
    PROVE  /\ Tail(q) \in Seq(S) /\ Head(q) \in S /\ Head(q) = q[1] /\ 1 \in DOMAIN q
           /\ \A i \in DOMAIN Tail(q) : i + 1 \in DOMAIN q /\ Tail(q)[i] = q[i + 1]
           /\ \A i \in DOMAIN q : i # 1 => i - 1 \in DOMAIN Tail(q) /\ Tail(q)[i - 1] = q[i]
           /\ IsInjective(q) => /\ IsInjective(Tail(q)) /\ Head(q) \notin ToSet(Tail(q))
                                /\ ToSet(Tail(q)) = ToSet(q) \ {Head(q)}
  <1> DEFINE w == Tail(q)
  <1>1. /\ w \in Seq(S) /\ Len(w) = Len(q) - 1 /\ DOMAIN w = 1..(Len(q) - 1)
        /\ DOMAIN q = 1..Len(q) /\ Len(q) \in Nat /\ Len(q) > 0
        /\ \A i \in 1..(Len(q) - 1) : w[i] = q[i + 1]
        /\ Head(q) = q[1] /\ Head(q) \in S
    OBVIOUS
  <1> HIDE DEF w
  <1>2. \A i \in DOMAIN q : i # 1 => i - 1 \in DOMAIN w /\ w[i - 1] = q[i]
    <2> SUFFICES ASSUME NEW i \in 1..Len(q), i # 1
                 PROVE  i - 1 \in 1..(Len(q) - 1) /\ w[i - 1] = q[i]
      BY <1>1
    <2>1. i - 1 \in 1..(Len(q) - 1) /\ (i - 1) + 1 = i
      BY <1>1
    <2> QED BY <2>1, <1>1
  <1>3. \A i \in DOMAIN w : i + 1 \in DOMAIN q /\ w[i] = q[i + 1]
    BY <1>1
  <1>4. ASSUME IsInjective(q)
        PROVE  /\ IsInjective(w) /\ Head(q) \notin ToSet(w)
               /\ ToSet(w) = ToSet(q) \ {Head(q)}
    <2>1. \A i, j \in 1..Len(q) : q[i] = q[j] => i = j
      BY <1>1, <1>4 DEF IsInjective
    <2>2. IsInjective(w)
      BY <1>1, <2>1 DEF IsInjective
    <2>3. ASSUME NEW x \in ToSet(w) PROVE x \in ToSet(q) /\ x # Head(q)
      <3>1. PICK i \in 1..(Len(q) - 1) : x = q[i + 1]
        BY <1>1 DEF ToSet
      <3>2. i + 1 \in 1..Len(q) /\ i + 1 # 1 /\ 1 \in 1..Len(q)
        BY <1>1
      <3> QED BY <3>1, <3>2, <2>1, <1>1 DEF ToSet
    <2>4. ASSUME NEW x \in ToSet(q), x # Head(q) PROVE x \in ToSet(w)
      <3>1. PICK i \in DOMAIN q : x = q[i]
        BY DEF ToSet
      <3> QED BY <3>1, <2>4, <1>1, <1>2 DEF ToSet
    <2> QED BY <2>2, <2>3, <2>4
  <1> QED BY <1>1, <1>2, <1>3, <1>4 DEF w

-----------------------------------------------------------------------------
(* The queue for the connection *)

(***************************************************************************)
(* A step in which nobody comes or leaves keeps the queue, if only the     *)
(* head takes the connection.                                              *)
(***************************************************************************)
LEMMA QueueStays ==
    ASSUME Queue, UNCHANGED <<turn, pending>>, quitting' = "locking" <=> quitting = "locking",
           \A s \in Reads : at'[s] \in Inside <=> at[s] \in Inside,
           \A s \in Reads : at'[s] \in Busy => at[s] \in Busy \/ (turn # <<>> /\ Head(turn) = s)
    PROVE  Queue'
  <1>1. Waiting' = Waiting
    BY DEF Waiting
  <1> HIDE DEF Waiting
  <1> QED BY <1>1 DEF Queue, Turns, Busy, Inside

(***************************************************************************)
(* The number of those who wait is the length of the queue without the     *)
(* shutdown, and a read that returns leaves both.                          *)
(***************************************************************************)
LEMMA QueueLeft ==
    ASSUME Queue, NEW r \in Reads, at[r] \in Inside,
           turn' = Without(turn, r), pending' = pending - 1, quitting' = quitting,
           at'[r] \notin Inside, \A s \in Reads \ {r} : at'[s] = at[s]
    PROVE  Queue'
  <1>1. r \in ToSet(turn) /\ turn \in Seq(Reads \cup {Shutdown}) /\ IsInjective(turn)
    BY DEF Queue, Turns
  <1>2. /\ turn' \in Seq(Reads \cup {Shutdown}) /\ IsInjective(turn')
        /\ ToSet(turn') = ToSet(turn) \ {r}
        /\ Head(turn) # r => turn' # <<>> /\ Head(turn') = Head(turn)
    BY <1>1, WithoutRest
  <1>3. pending' = Cardinality(Waiting')
    <2>1. Waiting' = Waiting \ {r} /\ r \in Waiting
      BY DEF Waiting
    <2>2. IsFiniteSet(Waiting)
      BY ApprovalConstants, FS_Subset DEF Waiting
    <2>3. Cardinality(Waiting \ {r}) = Cardinality(Waiting) - 1
      BY <2>1, <2>2, FS_RemoveElement
    <2> QED BY <2>1, <2>3 DEF Queue
  <1>4. \A s \in Reads : at'[s] \in Inside <=> s \in ToSet(turn')
    BY <1>2 DEF Queue
  <1>5. \A s \in Reads : at'[s] \in Busy => turn' # <<>> /\ Head(turn') = s
    <2> SUFFICES ASSUME NEW s \in Reads, at'[s] \in Busy
                 PROVE  turn' # <<>> /\ Head(turn') = s
      OBVIOUS
    <2>1. s # r
      BY DEF Busy, Inside
    <2>2. at[s] \in Busy
      BY <2>1
    <2> QED BY <2>1, <2>2, <1>2 DEF Queue, Turns
  <1>6. quitting' = "locking" <=> Shutdown \in ToSet(turn')
    BY <1>2, ApprovalConstants DEF Queue, Turns
  <1>7. ToSet(turn') \subseteq Reads \cup {Shutdown}
    BY <1>2 DEF Queue
  <1> QED BY <1>2, <1>3, <1>4, <1>5, <1>6, <1>7 DEF Queue, Turns

(***************************************************************************)
(* A read that enters joins both.                                          *)
(***************************************************************************)
LEMMA QueueJoined ==
    ASSUME Queue, NEW r \in Reads, at[r] \notin Inside,
           turn' = Append(turn, r), pending' = pending + 1, quitting' = quitting,
           at'[r] = "queued", \A s \in Reads \ {r} : at'[s] = at[s]
    PROVE  Queue'
  <1>1. r \notin ToSet(turn) /\ turn \in Seq(Reads \cup {Shutdown}) /\ IsInjective(turn)
    BY DEF Queue, Turns
  <1>2. /\ turn' \in Seq(Reads \cup {Shutdown}) /\ IsInjective(turn')
        /\ ToSet(turn') = ToSet(turn) \cup {r} /\ turn' # <<>>
        /\ turn # <<>> => Head(turn') = Head(turn)
    BY <1>1, AppendLast
  <1>3. pending' = Cardinality(Waiting')
    <2>1. Waiting' = Waiting \cup {r} /\ r \notin Waiting
      BY DEF Waiting, Inside
    <2>2. IsFiniteSet(Waiting)
      BY ApprovalConstants, FS_Subset DEF Waiting
    <2>3. Cardinality(Waiting \cup {r}) = Cardinality(Waiting) + 1
      BY <2>1, <2>2, FS_AddElement
    <2> QED BY <2>1, <2>3 DEF Queue
  <1>4. \A s \in Reads : at'[s] \in Inside <=> s \in ToSet(turn')
    BY <1>2 DEF Queue, Inside
  <1>5. \A s \in Reads : at'[s] \in Busy => turn' # <<>> /\ Head(turn') = s
    <2> SUFFICES ASSUME NEW s \in Reads, at'[s] \in Busy
                 PROVE  turn' # <<>> /\ Head(turn') = s
      OBVIOUS
    <2>1. s # r
      BY DEF Busy
    <2> QED BY <2>1, <1>2 DEF Queue, Turns
  <1>6. quitting' = "locking" <=> Shutdown \in ToSet(turn')
    BY <1>2, ApprovalConstants DEF Queue, Turns
  <1>7. ToSet(turn') \subseteq Reads \cup {Shutdown}
    BY <1>2 DEF Queue
  <1> QED BY <1>2, <1>3, <1>4, <1>5, <1>6, <1>7 DEF Queue, Turns

(***************************************************************************)
(* The shutdown waits in the queue, once, and is not counted.              *)
(***************************************************************************)
LEMMA QueueKill ==
    ASSUME Queue, Kill
    PROVE  Queue'
  <1>1. Shutdown \notin ToSet(turn) /\ turn \in Seq(Reads \cup {Shutdown}) /\ IsInjective(turn)
    BY DEF Queue, Turns, Kill
  <1>2. /\ turn' \in Seq(Reads \cup {Shutdown}) /\ IsInjective(turn')
        /\ ToSet(turn') = ToSet(turn) \cup {Shutdown} /\ turn' # <<>>
        /\ turn # <<>> => Head(turn') = Head(turn)
    BY <1>1, AppendLast DEF Kill
  <1>3. UNCHANGED <<at, pending>> /\ quitting' = "locking"
    BY DEF Kill, reads
  <1>4. Waiting' = Waiting
    BY <1>3 DEF Waiting
  <1> QED BY <1>2, <1>3, <1>4, ApprovalConstants DEF Queue, Turns

(***************************************************************************)
(* When its turn has come nobody has the connection, and it leaves.        *)
(***************************************************************************)
LEMMA QueueDispose ==
    ASSUME Queue, Dispose
    PROVE  Queue'
  <1>0. turn # <<>>
    BY DEF Queue, Turns, Dispose, ToSet
  <1>1. turn \in Seq(Reads \cup {Shutdown}) /\ IsInjective(turn)
    BY DEF Queue, Turns
  <1>2. /\ turn' \in Seq(Reads \cup {Shutdown}) /\ IsInjective(turn')
        /\ ToSet(turn') = ToSet(turn) \ {Shutdown}
    BY <1>0, <1>1, TailRest DEF Dispose
  <1>3. UNCHANGED <<at, pending>> /\ Head(turn) = Shutdown /\ quitting' = "over"
    BY DEF Dispose, reads
  <1>4. Waiting' = Waiting
    BY <1>3 DEF Waiting
  <1>5. \A s \in Reads : at[s] \notin Busy
    BY <1>3, ApprovalConstants DEF Queue, Turns
  <1>6. quitting' = "locking" <=> Shutdown \in ToSet(turn')
    BY <1>2, <1>3
  <1>7. \A s \in Reads : at[s] \in Inside <=> s \in ToSet(turn')
    BY <1>2, ApprovalConstants DEF Queue
  <1> HIDE DEF Waiting
  <1> QED BY <1>2, <1>3, <1>4, <1>5, <1>6, <1>7 DEF Queue, Turns

-----------------------------------------------------------------------------
(* Every step keeps the invariant *)

(***************************************************************************)
(* Variables stay in their types.                                          *)
(***************************************************************************)
LEMMA StepTypes ==
    ASSUME Types, Joining, Telling, Next
    PROVE  Types'
  <1> USE DEF Types, Places, Outcomes, reads, client, screen
  <1>1. ASSUME NEW r \in Reads, FirstPass(r)
        PROVE  Types'
    BY <1>1 DEF FirstPass, Done, Goes
  <1>2. ASSUME NEW r \in Reads, Follow(r)
        PROVE  Types'
    <2>1. inflight[Caller[r]] \in Reads
      BY <1>2 DEF Follow, Joining, Asks
    <2> QED BY <1>2, <2>1 DEF Follow, Goes
  <1>3. ASSUME NEW r \in Reads, NEW known \in BOOLEAN, Lead(r, known)
        PROVE  Types'
    BY <1>3 DEF Lead, Goes
  <1>4. ASSUME NEW r \in Reads, FollowTimeout(r)
        PROVE  Types'
    BY <1>4 DEF FollowTimeout, Done, Goes
  <1>5. ASSUME NEW r \in Reads, Tell(r)
        PROVE  Types'
    BY <1>5 DEF Tell
  <1>6. ASSUME NEW r \in Reads, Finalize(r)
        PROVE  Types'
    BY <1>6 DEF Finalize, Done, Goes
  <1>7. ASSUME NEW r \in Reads, Unavailable(r)
        PROVE  Types'
    BY <1>7 DEF Unavailable, Concludes, Goes
  <1>8. ASSUME NEW r \in Reads, Enter(r)
        PROVE  Types'
    BY <1>8 DEF Enter, Concludes, Goes
  <1>9. ASSUME NEW r \in Reads, LockTimeout(r)
        PROVE  Types'
    BY <1>9 DEF LockTimeout, Leaves, Concludes, Goes
  <1>10. ASSUME NEW r \in Reads, Acquire(r)
        PROVE  Types'
    BY <1>10 DEF Acquire, Goes
  <1>11. ASSUME NEW r \in Reads, ReadReply(r)
        PROVE  Types'
    <2>1. Head(replies)[2] \in {"yes", "no"} /\ Tail(replies) \in Seq(Reads \X {"yes", "no"})
      <3>1. replies # <<>>
        BY <1>11 DEF ReadReply
      <3>2. Head(replies) \in Reads \X {"yes", "no"}
        BY <3>1
      <3> QED BY <3>1, <3>2
    <2> QED BY <1>11, <2>1 DEF ReadReply, Leaves, Concludes, Goes, Exchanging
  <1>12. ASSUME NEW r \in Reads, ExchangeTimeout(r)
        PROVE  Types'
    BY <1>12 DEF ExchangeTimeout, Leaves, Concludes, Goes, Exchanging
  <1>13. ASSUME NEW r \in Reads, Retire(r)
        PROVE  Types'
    BY <1>13 DEF Retire, Goes
  <1>14. ASSUME NEW r \in Reads, DiedAgain(r)
        PROVE  Types'
    BY <1>14 DEF DiedAgain, Leaves, Concludes, Goes
  <1>15. ASSUME NEW r \in Reads, Respawn(r)
        PROVE  Types'
    <2>1. CASE closed
      BY <1>15, <2>1 DEF Respawn, Leaves, Concludes, Goes
    <2>2. CASE ~(closed)
      BY <1>15, <2>2 DEF Respawn, Leaves, Concludes, Goes
    <2> QED BY <2>1, <2>2
  <1>16. ASSUME NEW r \in Reads, Accepted(r)
        PROVE  Types'
    BY <1>16 DEF Accepted, Goes
  <1>17. ASSUME NEW r \in Reads, NotAccepted(r)
        PROVE  Types'
    BY <1>17 DEF NotAccepted, Leaves, Concludes, Goes
  <1>18. ASSUME SlotReady
        PROVE  Types'
    BY <1>18 DEF SlotReady
  <1>19. ASSUME SlotDown
        PROVE  Types'
    BY <1>19 DEF SlotDown
  <1>20. ASSUME HelperDies
        PROVE  Types'
    BY <1>20 DEF HelperDies, Dies
  <1>21. ASSUME Latch
        PROVE  Types'
    BY <1>21 DEF Latch
  <1>22. ASSUME Kill
        PROVE  Types'
    <2>1. CASE pid /\ helper = "up"
      BY <1>22, <2>1 DEF Kill, Dies
    <2>2. CASE ~(pid /\ helper = "up")
      BY <1>22, <2>2 DEF Kill, Dies
    <2> QED BY <2>1, <2>2
  <1>23. ASSUME Dispose
        PROVE  Types'
    <2>1. CASE conn
      BY <1>23, <2>1 DEF Dispose
    <2>2. CASE ~(conn)
      BY <1>23, <2>2 DEF Dispose
    <2> QED BY <2>1, <2>2
  <1>24. ASSUME NEW v \in {"yes", "no"}, Answer(v)
        PROVE  Types'
    BY <1>24 DEF Answer
  <1>25. ASSUME NEW g \in Guards \cup {None}, KvSet(g)
        PROVE  Types'
    BY <1>25 DEF KvSet
  <1> QED BY <1>1, <1>2, <1>3, <1>4, <1>5, <1>6, <1>7, <1>8, <1>9, <1>10, <1>11, <1>12, <1>13, <1>14, <1>15, <1>16, <1>17, <1>18, <1>19, <1>20, <1>21, <1>22, <1>23, <1>24, <1>25
            DEF Next, Proceed, Attempt, Quit

(***************************************************************************)
(* Booleans stay Booleans.                                                 *)
(***************************************************************************)
LEMMA StepFlags ==
    ASSUME Flags, Next
    PROVE  Flags'
  <1> USE DEF Flags, client
  <1>1. ASSUME NEW r \in Reads, FirstPass(r)
        PROVE  Flags'
    BY <1>1 DEF FirstPass, Done, Goes
  <1>2. ASSUME NEW r \in Reads, Follow(r)
        PROVE  Flags'
    BY <1>2 DEF Follow, Goes
  <1>3. ASSUME NEW r \in Reads, NEW known \in BOOLEAN, Lead(r, known)
        PROVE  Flags'
    BY <1>3 DEF Lead, Goes
  <1>4. ASSUME NEW r \in Reads, FollowTimeout(r)
        PROVE  Flags'
    BY <1>4 DEF FollowTimeout, Done, Goes
  <1>5. ASSUME NEW r \in Reads, Tell(r)
        PROVE  Flags'
    BY <1>5 DEF Tell
  <1>6. ASSUME NEW r \in Reads, Finalize(r)
        PROVE  Flags'
    BY <1>6 DEF Finalize, Done, Goes
  <1>7. ASSUME NEW r \in Reads, Unavailable(r)
        PROVE  Flags'
    BY <1>7 DEF Unavailable, Concludes, Goes
  <1>8. ASSUME NEW r \in Reads, Enter(r)
        PROVE  Flags'
    BY <1>8 DEF Enter, Concludes, Goes
  <1>9. ASSUME NEW r \in Reads, LockTimeout(r)
        PROVE  Flags'
    BY <1>9 DEF LockTimeout, Leaves, Concludes, Goes
  <1>10. ASSUME NEW r \in Reads, Acquire(r)
        PROVE  Flags'
    BY <1>10 DEF Acquire, Goes
  <1>11. ASSUME NEW r \in Reads, ReadReply(r)
        PROVE  Flags'
    BY <1>11 DEF ReadReply, Leaves, Concludes, Goes, Exchanging
  <1>12. ASSUME NEW r \in Reads, ExchangeTimeout(r)
        PROVE  Flags'
    BY <1>12 DEF ExchangeTimeout, Leaves, Concludes, Goes, Exchanging
  <1>13. ASSUME NEW r \in Reads, Retire(r)
        PROVE  Flags'
    BY <1>13 DEF Retire, Goes
  <1>14. ASSUME NEW r \in Reads, DiedAgain(r)
        PROVE  Flags'
    BY <1>14 DEF DiedAgain, Leaves, Concludes, Goes
  <1>15. ASSUME NEW r \in Reads, Respawn(r)
        PROVE  Flags'
    BY <1>15 DEF Respawn, Leaves, Concludes, Goes
  <1>16. ASSUME NEW r \in Reads, Accepted(r)
        PROVE  Flags'
    BY <1>16 DEF Accepted, Goes
  <1>17. ASSUME NEW r \in Reads, NotAccepted(r)
        PROVE  Flags'
    BY <1>17 DEF NotAccepted, Leaves, Concludes, Goes
  <1>18. ASSUME SlotReady
        PROVE  Flags'
    BY <1>18 DEF SlotReady
  <1>19. ASSUME SlotDown
        PROVE  Flags'
    BY <1>19 DEF SlotDown
  <1>20. ASSUME HelperDies
        PROVE  Flags'
    BY <1>20 DEF HelperDies, Dies
  <1>21. ASSUME Latch
        PROVE  Flags'
    BY <1>21 DEF Latch
  <1>22. ASSUME Kill
        PROVE  Flags'
    BY <1>22 DEF Kill, Dies
  <1>23. ASSUME Dispose
        PROVE  Flags'
    BY <1>23 DEF Dispose
  <1>24. ASSUME NEW v \in {"yes", "no"}, Answer(v)
        PROVE  Flags'
    BY <1>24 DEF Answer
  <1>25. ASSUME NEW g \in Guards \cup {None}, KvSet(g)
        PROVE  Flags'
    BY <1>25 DEF KvSet
  <1> QED BY <1>1, <1>2, <1>3, <1>4, <1>5, <1>6, <1>7, <1>8, <1>9, <1>10, <1>11, <1>12, <1>13, <1>14, <1>15, <1>16, <1>17, <1>18, <1>19, <1>20, <1>21, <1>22, <1>23, <1>24, <1>25
            DEF Next, Proceed, Attempt, Quit

(***************************************************************************)
(* The queue is kept by every step.                                        *)
(***************************************************************************)
LEMMA StepQueue ==
    ASSUME Types, Queue, Next
    PROVE  Queue'
  <1>1. ASSUME NEW r \in Reads, FirstPass(r)
        PROVE  Queue'
    <2>1. /\ UNCHANGED <<turn, pending>> /\ (quitting' = "locking" <=> quitting = "locking")
          /\ \A s \in Reads : at'[s] \in Inside <=> at[s] \in Inside
          /\ \A s \in Reads : at'[s] \in Busy => at[s] \in Busy \/ (turn # <<>> /\ Head(turn) = s)
      BY <1>1 DEF FirstPass, Done, Goes, Types, Inside, Busy, Places, reads, client
    <2> QED BY <2>1, QueueStays
  <1>2. ASSUME NEW r \in Reads, Follow(r)
        PROVE  Queue'
    <2>1. /\ UNCHANGED <<turn, pending>> /\ (quitting' = "locking" <=> quitting = "locking")
          /\ \A s \in Reads : at'[s] \in Inside <=> at[s] \in Inside
          /\ \A s \in Reads : at'[s] \in Busy => at[s] \in Busy \/ (turn # <<>> /\ Head(turn) = s)
      BY <1>2 DEF Follow, Goes, Types, Inside, Busy, Places, reads, client
    <2> QED BY <2>1, QueueStays
  <1>3. ASSUME NEW r \in Reads, NEW known \in BOOLEAN, Lead(r, known)
        PROVE  Queue'
    <2>1. /\ UNCHANGED <<turn, pending>> /\ (quitting' = "locking" <=> quitting = "locking")
          /\ \A s \in Reads : at'[s] \in Inside <=> at[s] \in Inside
          /\ \A s \in Reads : at'[s] \in Busy => at[s] \in Busy \/ (turn # <<>> /\ Head(turn) = s)
      BY <1>3 DEF Lead, Goes, Types, Inside, Busy, Places, reads, client
    <2> QED BY <2>1, QueueStays
  <1>4. ASSUME NEW r \in Reads, FollowTimeout(r)
        PROVE  Queue'
    <2>1. /\ UNCHANGED <<turn, pending>> /\ (quitting' = "locking" <=> quitting = "locking")
          /\ \A s \in Reads : at'[s] \in Inside <=> at[s] \in Inside
          /\ \A s \in Reads : at'[s] \in Busy => at[s] \in Busy \/ (turn # <<>> /\ Head(turn) = s)
      BY <1>4 DEF FollowTimeout, Done, Goes, Types, Inside, Busy, Places, reads, client
    <2> QED BY <2>1, QueueStays
  <1>5. ASSUME NEW r \in Reads, Tell(r)
        PROVE  Queue'
    <2>1. /\ UNCHANGED <<turn, pending>> /\ (quitting' = "locking" <=> quitting = "locking")
          /\ \A s \in Reads : at'[s] \in Inside <=> at[s] \in Inside
          /\ \A s \in Reads : at'[s] \in Busy => at[s] \in Busy \/ (turn # <<>> /\ Head(turn) = s)
      BY <1>5 DEF Tell, Types, Inside, Busy, Places, reads, client
    <2> QED BY <2>1, QueueStays
  <1>6. ASSUME NEW r \in Reads, Finalize(r)
        PROVE  Queue'
    <2>1. /\ UNCHANGED <<turn, pending>> /\ (quitting' = "locking" <=> quitting = "locking")
          /\ \A s \in Reads : at'[s] \in Inside <=> at[s] \in Inside
          /\ \A s \in Reads : at'[s] \in Busy => at[s] \in Busy \/ (turn # <<>> /\ Head(turn) = s)
      BY <1>6 DEF Finalize, Done, Goes, Types, Inside, Busy, Places, reads, client
    <2> QED BY <2>1, QueueStays
  <1>7. ASSUME NEW r \in Reads, Unavailable(r)
        PROVE  Queue'
    <2>1. /\ UNCHANGED <<turn, pending>> /\ (quitting' = "locking" <=> quitting = "locking")
          /\ \A s \in Reads : at'[s] \in Inside <=> at[s] \in Inside
          /\ \A s \in Reads : at'[s] \in Busy => at[s] \in Busy \/ (turn # <<>> /\ Head(turn) = s)
      BY <1>7 DEF Unavailable, Concludes, Goes, Types, Inside, Busy, Places, reads, client
    <2> QED BY <2>1, QueueStays
  <1>8. ASSUME NEW r \in Reads, Enter(r)
        PROVE  Queue'
    <2>1. CASE ~Refused(r) /\ ~closed
      <3>1. /\ at[r] \notin Inside /\ turn' = Append(turn, r) /\ pending' = pending + 1
            /\ quitting' = quitting
            /\ at'[r] = "queued" /\ \A s \in Reads \ {r} : at'[s] = at[s]
        BY <1>8, <2>1 DEF Enter, Goes, Types, Inside, Places
      <3> QED BY <3>1, QueueJoined
    <2>2. CASE ~(~Refused(r) /\ ~closed)
      <3>1. /\ UNCHANGED <<turn, pending>> /\ (quitting' = "locking" <=> quitting = "locking")
            /\ \A s \in Reads : at'[s] \in Inside <=> at[s] \in Inside
            /\ \A s \in Reads : at'[s] \in Busy => at[s] \in Busy \/ (turn # <<>> /\ Head(turn) = s)
        BY <1>8, <2>2 DEF Enter, Concludes, Goes, Types, Inside, Busy, Places, reads, client
      <3> QED BY <3>1, QueueStays
    <2> QED BY <2>1, <2>2
  <1>9. ASSUME NEW r \in Reads, LockTimeout(r)
        PROVE  Queue'
    <2>1. /\ at[r] \in Inside /\ turn' = Without(turn, r) /\ pending' = pending - 1
          /\ quitting' = quitting
          /\ at'[r] \notin Inside /\ \A s \in Reads \ {r} : at'[s] = at[s]
      BY <1>9 DEF LockTimeout, Leaves, Concludes, Goes, Types, Inside, Places
    <2> QED BY <2>1, QueueLeft
  <1>10. ASSUME NEW r \in Reads, Acquire(r)
        PROVE  Queue'
    <2>0. turn # <<>>
      BY <1>10 DEF Acquire, Queue, Turns, Inside, ToSet
    <2>1. /\ UNCHANGED <<turn, pending>> /\ (quitting' = "locking" <=> quitting = "locking")
          /\ \A s \in Reads : at'[s] \in Inside <=> at[s] \in Inside
          /\ \A s \in Reads : at'[s] \in Busy => at[s] \in Busy \/ (turn # <<>> /\ Head(turn) = s)
      BY <1>10, <2>0 DEF Acquire, Goes, Types, Inside, Busy, Places, reads, client
    <2> QED BY <2>1, QueueStays
  <1>11. ASSUME NEW r \in Reads, ReadReply(r)
        PROVE  Queue'
    <2>1. CASE Head(replies)[1] = r
      <3>1. /\ at[r] \in Inside /\ turn' = Without(turn, r) /\ pending' = pending - 1
            /\ quitting' = quitting
            /\ at'[r] \notin Inside /\ \A s \in Reads \ {r} : at'[s] = at[s]
        BY <1>11, <2>1 DEF ReadReply, Leaves, Concludes, Goes, Exchanging, Types, Inside, Places
      <3> QED BY <3>1, QueueLeft
    <2>2. CASE ~(Head(replies)[1] = r)
      <3>1. /\ UNCHANGED <<turn, pending>> /\ (quitting' = "locking" <=> quitting = "locking")
            /\ \A s \in Reads : at'[s] \in Inside <=> at[s] \in Inside
            /\ \A s \in Reads : at'[s] \in Busy => at[s] \in Busy \/ (turn # <<>> /\ Head(turn) = s)
        BY <1>11, <2>2 DEF ReadReply, Leaves, Concludes, Goes, Exchanging, Types, Inside, Busy, Places, reads, client
      <3> QED BY <3>1, QueueStays
    <2> QED BY <2>1, <2>2
  <1>12. ASSUME NEW r \in Reads, ExchangeTimeout(r)
        PROVE  Queue'
    <2>1. /\ at[r] \in Inside /\ turn' = Without(turn, r) /\ pending' = pending - 1
          /\ quitting' = quitting
          /\ at'[r] \notin Inside /\ \A s \in Reads \ {r} : at'[s] = at[s]
      BY <1>12 DEF ExchangeTimeout, Leaves, Concludes, Goes, Exchanging, Types, Inside, Places
    <2> QED BY <2>1, QueueLeft
  <1>13. ASSUME NEW r \in Reads, Retire(r)
        PROVE  Queue'
    <2>1. /\ UNCHANGED <<turn, pending>> /\ (quitting' = "locking" <=> quitting = "locking")
          /\ \A s \in Reads : at'[s] \in Inside <=> at[s] \in Inside
          /\ \A s \in Reads : at'[s] \in Busy => at[s] \in Busy \/ (turn # <<>> /\ Head(turn) = s)
      BY <1>13 DEF Retire, Goes, Types, Inside, Busy, Places, reads, client
    <2> QED BY <2>1, QueueStays
  <1>14. ASSUME NEW r \in Reads, DiedAgain(r)
        PROVE  Queue'
    <2>1. /\ at[r] \in Inside /\ turn' = Without(turn, r) /\ pending' = pending - 1
          /\ quitting' = quitting
          /\ at'[r] \notin Inside /\ \A s \in Reads \ {r} : at'[s] = at[s]
      BY <1>14 DEF DiedAgain, Leaves, Concludes, Goes, Types, Inside, Places
    <2> QED BY <2>1, QueueLeft
  <1>15. ASSUME NEW r \in Reads, Respawn(r)
        PROVE  Queue'
    <2>1. CASE closed
      <3>1. /\ at[r] \in Inside /\ turn' = Without(turn, r) /\ pending' = pending - 1
            /\ quitting' = quitting
            /\ at'[r] \notin Inside /\ \A s \in Reads \ {r} : at'[s] = at[s]
        BY <1>15, <2>1 DEF Respawn, Leaves, Concludes, Goes, Types, Inside, Places
      <3> QED BY <3>1, QueueLeft
    <2>2. CASE ~(closed)
      <3>1. /\ UNCHANGED <<turn, pending>> /\ (quitting' = "locking" <=> quitting = "locking")
            /\ \A s \in Reads : at'[s] \in Inside <=> at[s] \in Inside
            /\ \A s \in Reads : at'[s] \in Busy => at[s] \in Busy \/ (turn # <<>> /\ Head(turn) = s)
        BY <1>15, <2>2 DEF Respawn, Leaves, Concludes, Goes, Types, Inside, Busy, Places, reads, client
      <3> QED BY <3>1, QueueStays
    <2> QED BY <2>1, <2>2
  <1>16. ASSUME NEW r \in Reads, Accepted(r)
        PROVE  Queue'
    <2>1. /\ UNCHANGED <<turn, pending>> /\ (quitting' = "locking" <=> quitting = "locking")
          /\ \A s \in Reads : at'[s] \in Inside <=> at[s] \in Inside
          /\ \A s \in Reads : at'[s] \in Busy => at[s] \in Busy \/ (turn # <<>> /\ Head(turn) = s)
      BY <1>16 DEF Accepted, Goes, Types, Inside, Busy, Places, reads, client
    <2> QED BY <2>1, QueueStays
  <1>17. ASSUME NEW r \in Reads, NotAccepted(r)
        PROVE  Queue'
    <2>1. /\ at[r] \in Inside /\ turn' = Without(turn, r) /\ pending' = pending - 1
          /\ quitting' = quitting
          /\ at'[r] \notin Inside /\ \A s \in Reads \ {r} : at'[s] = at[s]
      BY <1>17 DEF NotAccepted, Leaves, Concludes, Goes, Types, Inside, Places
    <2> QED BY <2>1, QueueLeft
  <1>18. ASSUME SlotReady
        PROVE  Queue'
    <2>1. /\ UNCHANGED <<turn, pending>> /\ (quitting' = "locking" <=> quitting = "locking")
          /\ \A s \in Reads : at'[s] \in Inside <=> at[s] \in Inside
          /\ \A s \in Reads : at'[s] \in Busy => at[s] \in Busy \/ (turn # <<>> /\ Head(turn) = s)
      BY <1>18 DEF SlotReady, Types, Inside, Busy, Places, reads, client
    <2> QED BY <2>1, QueueStays
  <1>19. ASSUME SlotDown
        PROVE  Queue'
    <2>1. /\ UNCHANGED <<turn, pending>> /\ (quitting' = "locking" <=> quitting = "locking")
          /\ \A s \in Reads : at'[s] \in Inside <=> at[s] \in Inside
          /\ \A s \in Reads : at'[s] \in Busy => at[s] \in Busy \/ (turn # <<>> /\ Head(turn) = s)
      BY <1>19 DEF SlotDown, Types, Inside, Busy, Places, reads, client
    <2> QED BY <2>1, QueueStays
  <1>20. ASSUME HelperDies
        PROVE  Queue'
    <2>1. /\ UNCHANGED <<turn, pending>> /\ (quitting' = "locking" <=> quitting = "locking")
          /\ \A s \in Reads : at'[s] \in Inside <=> at[s] \in Inside
          /\ \A s \in Reads : at'[s] \in Busy => at[s] \in Busy \/ (turn # <<>> /\ Head(turn) = s)
      BY <1>20 DEF HelperDies, Dies, Types, Inside, Busy, Places, reads, client
    <2> QED BY <2>1, QueueStays
  <1>21. ASSUME Latch
        PROVE  Queue'
    <2>1. /\ UNCHANGED <<turn, pending>> /\ (quitting' = "locking" <=> quitting = "locking")
          /\ \A s \in Reads : at'[s] \in Inside <=> at[s] \in Inside
          /\ \A s \in Reads : at'[s] \in Busy => at[s] \in Busy \/ (turn # <<>> /\ Head(turn) = s)
      BY <1>21 DEF Latch, Types, Inside, Busy, Places, reads, client
    <2> QED BY <2>1, QueueStays
  <1>22. ASSUME Kill
        PROVE  Queue'
    BY <1>22, QueueKill
  <1>23. ASSUME Dispose
        PROVE  Queue'
    BY <1>23, QueueDispose
  <1>24. ASSUME NEW v \in {"yes", "no"}, Answer(v)
        PROVE  Queue'
    <2>1. /\ UNCHANGED <<turn, pending>> /\ (quitting' = "locking" <=> quitting = "locking")
          /\ \A s \in Reads : at'[s] \in Inside <=> at[s] \in Inside
          /\ \A s \in Reads : at'[s] \in Busy => at[s] \in Busy \/ (turn # <<>> /\ Head(turn) = s)
      BY <1>24 DEF Answer, Types, Inside, Busy, Places, reads, client
    <2> QED BY <2>1, QueueStays
  <1>25. ASSUME NEW g \in Guards \cup {None}, KvSet(g)
        PROVE  Queue'
    <2>1. /\ UNCHANGED <<turn, pending>> /\ (quitting' = "locking" <=> quitting = "locking")
          /\ \A s \in Reads : at'[s] \in Inside <=> at[s] \in Inside
          /\ \A s \in Reads : at'[s] \in Busy => at[s] \in Busy \/ (turn # <<>> /\ Head(turn) = s)
      BY <1>25 DEF KvSet, Types, Inside, Busy, Places, reads, client
    <2> QED BY <2>1, QueueStays
  <1> QED BY <1>1, <1>2, <1>3, <1>4, <1>5, <1>6, <1>7, <1>8, <1>9, <1>10, <1>11, <1>12, <1>13, <1>14, <1>15, <1>16, <1>17, <1>18, <1>19, <1>20, <1>21, <1>22, <1>23, <1>24, <1>25
            DEF Next, Proceed, Attempt, Quit

(***************************************************************************)
(* A read that goes on and has no outcome can still be joined, and one     *)
(* that waits for nobody else and leads nothing may go anywhere.           *)
(***************************************************************************)
LEMMA JoiningMoved ==
    ASSUME Types, Joining, NEW r \in Reads, NEW p, Goes(r, p), UNCHANGED <<leader, inflight>>,
           \/ at[r] \in Leading /\ p \in Leading
           \/ at[r] \notin Leading \cup {"telling"} /\ p \notin Leading \cup {"telling", "following"}
    PROVE  Joining'
  <1>1. at'[r] = p /\ \A s \in Reads \ {r} : at'[s] = at[s]
    BY DEF Goes, Types
  <1> HIDE DEF Goes
  <1> QED BY <1>1 DEF Joining, Leading, Inside, Types

(***************************************************************************)
(* A dialog that has its outcome is joined no more, and those who have     *)
(* joined wait to be told.                                                 *)
(***************************************************************************)
LEMMA JoiningConcluded ==
    ASSUME Types, Joining, NEW r \in Reads, NEW o, Concludes(r, o), at[r] \in Leading
    PROVE  Joining'
  <1>1. at'[r] = "telling" /\ \A s \in Reads \ {r} : at'[s] = at[s]
    BY DEF Concludes, Goes, Types
  <1>2. Caller[r] \in Asks /\ leader' = leader
    BY DEF Asks, Concludes
  <1>3. inflight' \in [Asks -> Reads \cup {None}]
    BY <1>2 DEF Concludes, Joining
  <1>4. \A c \in Asks : inflight'[c] # None => inflight'[c] = inflight[c] /\ inflight[c] # r
    BY <1>2 DEF Concludes, Joining
  <1>5. \A c \in Asks : inflight'[c] # None =>
           Caller[inflight'[c]] = c /\ at'[inflight'[c]] \in Leading
    BY <1>1, <1>4 DEF Joining
  <1>6. \A s \in Reads : at'[s] \in Leading \cup {"telling"} => leader'[s] = s
    BY <1>1, <1>2 DEF Joining
  <1>7. \A s \in Reads : at'[s] = "following" =>
           leader'[s] \in Reads /\ at'[leader'[s]] \in Leading \cup {"telling"}
    BY <1>1, <1>2 DEF Joining
  <1> QED BY <1>3, <1>5, <1>6, <1>7 DEF Joining

(***************************************************************************)
(* Every step keeps it that whoever is joined leads.                       *)
(***************************************************************************)
LEMMA StepJoining ==
    ASSUME Types, Joining, Next
    PROVE  Joining'
  <1>1. ASSUME NEW r \in Reads, FirstPass(r)
        PROVE  Joining'
    <2>1. \E p : Goes(r, p) /\ \/ at[r] \in Leading /\ p \in Leading
                               \/ /\ at[r] \notin Leading \cup {"telling"}
                                  /\ p \notin Leading \cup {"telling", "following"}
      BY <1>1 DEF FirstPass, Done, Leading, Inside
    <2>2. UNCHANGED <<leader, inflight>>
      BY <1>1 DEF FirstPass
    <2> QED BY <2>1, <2>2, JoiningMoved
  <1>2. ASSUME NEW r \in Reads, Follow(r)
        PROVE  Joining'
    <2> DEFINE first == inflight[Caller[r]]
    <2>1. first \in Reads /\ at[first] \in Leading /\ first # r
      BY <1>2 DEF Follow, Joining, Asks, Leading, Inside
    <2>2. /\ at'[r] = "following" /\ \A s \in Reads \ {r} : at'[s] = at[s]
          /\ leader'[r] = first /\ \A s \in Reads \ {r} : leader'[s] = leader[s]
          /\ inflight' = inflight /\ at[r] = "gated"
      BY <1>2 DEF Follow, Goes, Types
    <2> HIDE DEF first
    <2> QED BY <2>1, <2>2 DEF Joining, Leading, Inside
  <1>3. ASSUME NEW r \in Reads, NEW known \in BOOLEAN, Lead(r, known)
        PROVE  Joining'
    <2>1. /\ at'[r] = "starting" /\ \A s \in Reads \ {r} : at'[s] = at[s]
          /\ leader'[r] = r /\ \A s \in Reads \ {r} : leader'[s] = leader[s]
          /\ at[r] = "gated"
      BY <1>3 DEF Lead, Goes, Types
    <2>2. /\ inflight' \in [Asks -> Reads \cup {None}] /\ Caller[r] \in Asks
          /\ \A c \in Asks : inflight'[c] = inflight[c] \/ (c = Caller[r] /\ inflight'[c] = r)
      BY <1>3 DEF Lead, Joining, Asks
    <2> QED BY <2>1, <2>2 DEF Joining, Leading, Inside
  <1>4. ASSUME NEW r \in Reads, FollowTimeout(r)
        PROVE  Joining'
    <2>1. \E p : Goes(r, p) /\ \/ at[r] \in Leading /\ p \in Leading
                               \/ /\ at[r] \notin Leading \cup {"telling"}
                                  /\ p \notin Leading \cup {"telling", "following"}
      BY <1>4 DEF FollowTimeout, Done, Leading, Inside
    <2>2. UNCHANGED <<leader, inflight>>
      BY <1>4 DEF FollowTimeout
    <2> QED BY <2>1, <2>2, JoiningMoved
  <1>5. ASSUME NEW r \in Reads, Tell(r)
        PROVE  Joining'
    <2>1. \A s \in Reads :
             \/ at'[s] = at[s] /\ s # r /\ (at[s] = "following" => leader[s] # r)
             \/ at'[s] \in {"approved", "done"} /\ at[s] \in {"telling", "following"}
      BY <1>5 DEF Tell, Types
    <2>2. UNCHANGED <<leader, inflight>>
      BY <1>5 DEF Tell
    <2>3. \A c \in Asks : inflight[c] # None => at'[inflight[c]] = at[inflight[c]]
      BY <2>1 DEF Joining, Leading, Inside
    <2>4. ASSUME NEW s \in Reads, at'[s] = "following"
          PROVE  leader[s] \in Reads /\ at'[leader[s]] \in Leading \cup {"telling"}
      <3>1. at[s] = "following" /\ leader[s] # r
        BY <2>1, <2>4
      <3>2. at'[leader[s]] = at[leader[s]]
        BY <3>1, <1>5 DEF Tell, Types, Joining, Leading, Inside
      <3> QED BY <3>1, <3>2 DEF Joining
    <2> QED BY <2>1, <2>2, <2>3, <2>4 DEF Joining, Leading, Inside
  <1>6. ASSUME NEW r \in Reads, Finalize(r)
        PROVE  Joining'
    <2>1. \E p : Goes(r, p) /\ \/ at[r] \in Leading /\ p \in Leading
                               \/ /\ at[r] \notin Leading \cup {"telling"}
                                  /\ p \notin Leading \cup {"telling", "following"}
      BY <1>6 DEF Finalize, Done, Leading, Inside
    <2>2. UNCHANGED <<leader, inflight>>
      BY <1>6 DEF Finalize
    <2> QED BY <2>1, <2>2, JoiningMoved
  <1>7. ASSUME NEW r \in Reads, Unavailable(r)
        PROVE  Joining'
    <2>1. at[r] \in Leading /\ \E o : Concludes(r, o)
      BY <1>7 DEF Unavailable, Leading, Inside
    <2> QED BY <2>1, JoiningConcluded
  <1>8. ASSUME NEW r \in Reads, Enter(r)
        PROVE  Joining'
    <2>1. CASE ~Refused(r) /\ ~closed
      <3>1. \E p : Goes(r, p) /\ \/ at[r] \in Leading /\ p \in Leading
                                 \/ /\ at[r] \notin Leading \cup {"telling"}
                                    /\ p \notin Leading \cup {"telling", "following"}
        BY <1>8, <2>1 DEF Enter, Concludes, Leading, Inside
      <3>2. UNCHANGED <<leader, inflight>>
        BY <1>8, <2>1 DEF Enter
      <3> QED BY <3>1, <3>2, JoiningMoved
    <2>2. CASE ~(~Refused(r) /\ ~closed)
      <3>1. at[r] \in Leading /\ \E o : Concludes(r, o)
        BY <1>8, <2>2 DEF Enter, Leading, Inside
      <3> QED BY <3>1, JoiningConcluded
    <2> QED BY <2>1, <2>2
  <1>9. ASSUME NEW r \in Reads, LockTimeout(r)
        PROVE  Joining'
    <2>1. at[r] \in Leading /\ \E o : Concludes(r, o)
      BY <1>9 DEF LockTimeout, Leaves, Leading, Inside
    <2> QED BY <2>1, JoiningConcluded
  <1>10. ASSUME NEW r \in Reads, Acquire(r)
        PROVE  Joining'
    <2>1. \E p : Goes(r, p) /\ \/ at[r] \in Leading /\ p \in Leading
                               \/ /\ at[r] \notin Leading \cup {"telling"}
                                  /\ p \notin Leading \cup {"telling", "following"}
      BY <1>10 DEF Acquire, Leading, Inside
    <2>2. UNCHANGED <<leader, inflight>>
      BY <1>10 DEF Acquire
    <2> QED BY <2>1, <2>2, JoiningMoved
  <1>11. ASSUME NEW r \in Reads, ReadReply(r)
        PROVE  Joining'
    <2>1. CASE Head(replies)[1] = r
      <3>1. at[r] \in Leading /\ \E o : Concludes(r, o)
        BY <1>11, <2>1 DEF ReadReply, Leaves, Exchanging, Leading, Inside
      <3> QED BY <3>1, JoiningConcluded
    <2>2. CASE ~(Head(replies)[1] = r)
      BY <1>11, <2>2 DEF ReadReply, Joining, Leading, Inside, reads
    <2> QED BY <2>1, <2>2
  <1>12. ASSUME NEW r \in Reads, ExchangeTimeout(r)
        PROVE  Joining'
    <2>1. at[r] \in Leading /\ \E o : Concludes(r, o)
      BY <1>12 DEF ExchangeTimeout, Leaves, Exchanging, Leading, Inside
    <2> QED BY <2>1, JoiningConcluded
  <1>13. ASSUME NEW r \in Reads, Retire(r)
        PROVE  Joining'
    <2>1. \E p : Goes(r, p) /\ \/ at[r] \in Leading /\ p \in Leading
                               \/ /\ at[r] \notin Leading \cup {"telling"}
                                  /\ p \notin Leading \cup {"telling", "following"}
      BY <1>13 DEF Retire, Leading, Inside
    <2>2. UNCHANGED <<leader, inflight>>
      BY <1>13 DEF Retire
    <2> QED BY <2>1, <2>2, JoiningMoved
  <1>14. ASSUME NEW r \in Reads, DiedAgain(r)
        PROVE  Joining'
    <2>1. at[r] \in Leading /\ \E o : Concludes(r, o)
      BY <1>14 DEF DiedAgain, Leaves, Leading, Inside
    <2> QED BY <2>1, JoiningConcluded
  <1>15. ASSUME NEW r \in Reads, Respawn(r)
        PROVE  Joining'
    <2>1. CASE closed
      <3>1. at[r] \in Leading /\ \E o : Concludes(r, o)
        BY <1>15, <2>1 DEF Respawn, Leaves, Leading, Inside
      <3> QED BY <3>1, JoiningConcluded
    <2>2. CASE ~(closed)
      <3>1. \E p : Goes(r, p) /\ \/ at[r] \in Leading /\ p \in Leading
                                 \/ /\ at[r] \notin Leading \cup {"telling"}
                                    /\ p \notin Leading \cup {"telling", "following"}
        BY <1>15, <2>2 DEF Respawn, Leaves, Concludes, Leading, Inside
      <3>2. UNCHANGED <<leader, inflight>>
        BY <1>15, <2>2 DEF Respawn
      <3> QED BY <3>1, <3>2, JoiningMoved
    <2> QED BY <2>1, <2>2
  <1>16. ASSUME NEW r \in Reads, Accepted(r)
        PROVE  Joining'
    <2>1. \E p : Goes(r, p) /\ \/ at[r] \in Leading /\ p \in Leading
                               \/ /\ at[r] \notin Leading \cup {"telling"}
                                  /\ p \notin Leading \cup {"telling", "following"}
      BY <1>16 DEF Accepted, Leading, Inside
    <2>2. UNCHANGED <<leader, inflight>>
      BY <1>16 DEF Accepted
    <2> QED BY <2>1, <2>2, JoiningMoved
  <1>17. ASSUME NEW r \in Reads, NotAccepted(r)
        PROVE  Joining'
    <2>1. at[r] \in Leading /\ \E o : Concludes(r, o)
      BY <1>17 DEF NotAccepted, Leaves, Leading, Inside
    <2> QED BY <2>1, JoiningConcluded
  <1>18. ASSUME SlotReady
        PROVE  Joining'
    BY <1>18 DEF SlotReady, Joining, Leading, Inside, reads
  <1>19. ASSUME SlotDown
        PROVE  Joining'
    BY <1>19 DEF SlotDown, Joining, Leading, Inside, reads
  <1>20. ASSUME HelperDies
        PROVE  Joining'
    BY <1>20 DEF HelperDies, Joining, Leading, Inside, reads
  <1>21. ASSUME Latch
        PROVE  Joining'
    BY <1>21 DEF Latch, Joining, Leading, Inside, reads
  <1>22. ASSUME Kill
        PROVE  Joining'
    BY <1>22 DEF Kill, Joining, Leading, Inside, reads
  <1>23. ASSUME Dispose
        PROVE  Joining'
    BY <1>23 DEF Dispose, Joining, Leading, Inside, reads
  <1>24. ASSUME NEW v \in {"yes", "no"}, Answer(v)
        PROVE  Joining'
    BY <1>24 DEF Answer, Joining, Leading, Inside, reads
  <1>25. ASSUME NEW g \in Guards \cup {None}, KvSet(g)
        PROVE  Joining'
    BY <1>25 DEF KvSet, Joining, Leading, Inside, reads
  <1> QED BY <1>1, <1>2, <1>3, <1>4, <1>5, <1>6, <1>7, <1>8, <1>9, <1>10, <1>11, <1>12, <1>13, <1>14, <1>15, <1>16, <1>17, <1>18, <1>19, <1>20, <1>21, <1>22, <1>23, <1>24, <1>25
            DEF Next, Proceed, Attempt, Quit

(***************************************************************************)
(* A helper that has no question.                                          *)
(***************************************************************************)
LEMMA AskingNothing ==
    ASSUME asked' = <<>>
    PROVE  Asking'
  BY DEF Asking, IsInjective

(***************************************************************************)
(* Questions stay as they are while their reads do not go back, and no     *)
(* helper is gone or on its way.                                           *)
(***************************************************************************)
LEMMA AskingSame ==
    ASSUME Types, Asking, UNCHANGED <<asked, consent>>,
           asked # <<>> => helper' = "up" /\ \A s \in Reads : at'[s] # "spawning",
           \A s \in Reads : at[s] \notin Unasked => at'[s] \notin Unasked /\ leader'[s] = leader[s]
    PROVE  Asking'
  <1>1. \A i \in DOMAIN asked : asked[i] \in Reads
    BY DEF Types
  <1>2. \A i \in DOMAIN asked : /\ consent'[asked[i]] = None /\ leader'[asked[i]] = asked[i]
                                /\ at'[asked[i]] \notin Unasked
    BY <1>1 DEF Asking
  <1>3. IsInjective(asked) /\ asked' = asked
    BY DEF Asking
  <1>4. helper' # "up" => asked = <<>>
    OBVIOUS
  <1>5. \A s \in Reads : at'[s] = "spawning" => asked = <<>>
    OBVIOUS
  <1> QED BY <1>2, <1>3, <1>4, <1>5 DEF Asking

(***************************************************************************)
(* Every step keeps it that the helper has what leaders ask, once.         *)
(***************************************************************************)
LEMMA StepAsking ==
    ASSUME Types, Queue, Joining, Asking, Answering, Next
    PROVE  Asking'
  <1>1. ASSUME NEW r \in Reads, FirstPass(r)
        PROVE  Asking'
    <2>1. /\ UNCHANGED <<asked, consent>>
          /\ asked # <<>> => helper' = "up" /\ \A s \in Reads : at'[s] # "spawning"
          /\ \A s \in Reads : at[s] \notin Unasked => at'[s] \notin Unasked /\ leader'[s] = leader[s]
      BY <1>1 DEF FirstPass, Done, Goes, Types, Asking, Unasked, reads, screen
    <2> QED BY <2>1, AskingSame
  <1>2. ASSUME NEW r \in Reads, Follow(r)
        PROVE  Asking'
    <2>1. /\ UNCHANGED <<asked, consent>>
          /\ asked # <<>> => helper' = "up" /\ \A s \in Reads : at'[s] # "spawning"
          /\ \A s \in Reads : at[s] \notin Unasked => at'[s] \notin Unasked /\ leader'[s] = leader[s]
      BY <1>2 DEF Follow, Goes, Types, Asking, Unasked, reads, screen
    <2> QED BY <2>1, AskingSame
  <1>3. ASSUME NEW r \in Reads, NEW known \in BOOLEAN, Lead(r, known)
        PROVE  Asking'
    <2>1. /\ UNCHANGED <<asked, consent>>
          /\ asked # <<>> => helper' = "up" /\ \A s \in Reads : at'[s] # "spawning"
          /\ \A s \in Reads : at[s] \notin Unasked => at'[s] \notin Unasked /\ leader'[s] = leader[s]
      BY <1>3 DEF Lead, Goes, Types, Asking, Unasked, reads, screen
    <2> QED BY <2>1, AskingSame
  <1>4. ASSUME NEW r \in Reads, FollowTimeout(r)
        PROVE  Asking'
    <2>1. /\ UNCHANGED <<asked, consent>>
          /\ asked # <<>> => helper' = "up" /\ \A s \in Reads : at'[s] # "spawning"
          /\ \A s \in Reads : at[s] \notin Unasked => at'[s] \notin Unasked /\ leader'[s] = leader[s]
      BY <1>4 DEF FollowTimeout, Done, Goes, Types, Asking, Unasked, reads, screen
    <2> QED BY <2>1, AskingSame
  <1>5. ASSUME NEW r \in Reads, Tell(r)
        PROVE  Asking'
    <2>1. /\ UNCHANGED <<asked, consent>>
          /\ asked # <<>> => helper' = "up" /\ \A s \in Reads : at'[s] # "spawning"
          /\ \A s \in Reads : at[s] \notin Unasked => at'[s] \notin Unasked /\ leader'[s] = leader[s]
      BY <1>5 DEF Tell, Types, Asking, Unasked, reads, screen
    <2> QED BY <2>1, AskingSame
  <1>6. ASSUME NEW r \in Reads, Finalize(r)
        PROVE  Asking'
    <2>1. /\ UNCHANGED <<asked, consent>>
          /\ asked # <<>> => helper' = "up" /\ \A s \in Reads : at'[s] # "spawning"
          /\ \A s \in Reads : at[s] \notin Unasked => at'[s] \notin Unasked /\ leader'[s] = leader[s]
      BY <1>6 DEF Finalize, Done, Goes, Types, Asking, Unasked, reads, screen
    <2> QED BY <2>1, AskingSame
  <1>7. ASSUME NEW r \in Reads, Unavailable(r)
        PROVE  Asking'
    <2>1. /\ UNCHANGED <<asked, consent>>
          /\ asked # <<>> => helper' = "up" /\ \A s \in Reads : at'[s] # "spawning"
          /\ \A s \in Reads : at[s] \notin Unasked => at'[s] \notin Unasked /\ leader'[s] = leader[s]
      BY <1>7 DEF Unavailable, Concludes, Goes, Types, Asking, Unasked, reads, screen
    <2> QED BY <2>1, AskingSame
  <1>8. ASSUME NEW r \in Reads, Enter(r)
        PROVE  Asking'
    <2>1. /\ UNCHANGED <<asked, consent>>
          /\ asked # <<>> => helper' = "up" /\ \A s \in Reads : at'[s] # "spawning"
          /\ \A s \in Reads : at[s] \notin Unasked => at'[s] \notin Unasked /\ leader'[s] = leader[s]
      BY <1>8 DEF Enter, Concludes, Goes, Types, Asking, Unasked, reads, screen
    <2> QED BY <2>1, AskingSame
  <1>9. ASSUME NEW r \in Reads, LockTimeout(r)
        PROVE  Asking'
    <2>1. /\ UNCHANGED <<asked, consent>>
          /\ asked # <<>> => helper' = "up" /\ \A s \in Reads : at'[s] # "spawning"
          /\ \A s \in Reads : at[s] \notin Unasked => at'[s] \notin Unasked /\ leader'[s] = leader[s]
      BY <1>9 DEF LockTimeout, Leaves, Concludes, Goes, Types, Asking, Unasked, reads, screen
    <2> QED BY <2>1, AskingSame
  <1>10. ASSUME NEW r \in Reads, Acquire(r)
        PROVE  Asking'
    <2>1. CASE conn /\ helper = "up"
      <3>1. /\ at[r] = "queued" /\ at' = [at EXCEPT ![r] = "asking"] /\ helper' = "up"
            /\ asked' = Append(asked, r) /\ UNCHANGED <<leader, consent>>
        BY <1>10, <2>1 DEF Acquire, Goes
      <3>2. consent[r] = None /\ leader[r] = r
        BY <3>1 DEF Answering, Unasked, Joining, Leading, Inside
      <3>3. r \notin ToSet(asked)
        BY <3>1 DEF Asking, Unasked, ToSet
      <3>4. \A s \in Reads : at'[s] # "spawning"
        BY <1>10, <3>1 DEF Acquire, Turns, Queue, Busy, Types
      <3>5. IsInjective(asked') /\ \A i \in DOMAIN asked' : asked'[i] \in ToSet(asked) \cup {r}
        BY <3>1, <3>3, AppendLast DEF Asking, Types, ToSet
      <3>6. \A s \in ToSet(asked) \cup {r} : /\ consent[s] = None /\ leader[s] = s
                                             /\ at'[s] \notin Unasked
        BY <3>1, <3>2 DEF Asking, Types, ToSet, Unasked
      <3> QED BY <3>1, <3>4, <3>5, <3>6 DEF Asking
    <2>2. CASE ~(conn /\ helper = "up")
      <3>1. /\ UNCHANGED <<asked, consent>>
            /\ asked # <<>> => helper' = "up" /\ \A s \in Reads : at'[s] # "spawning"
            /\ \A s \in Reads : at[s] \notin Unasked => at'[s] \notin Unasked /\ leader'[s] = leader[s]
        BY <1>10, <2>2 DEF Acquire, Goes, Types, Asking, Unasked, reads, screen, Turns, Queue, Busy
      <3> QED BY <3>1, AskingSame
    <2> QED BY <2>1, <2>2
  <1>11. ASSUME NEW r \in Reads, ReadReply(r)
        PROVE  Asking'
    <2>1. CASE Head(replies)[1] = r
      <3>1. /\ UNCHANGED <<asked, consent>>
            /\ asked # <<>> => helper' = "up" /\ \A s \in Reads : at'[s] # "spawning"
            /\ \A s \in Reads : at[s] \notin Unasked => at'[s] \notin Unasked /\ leader'[s] = leader[s]
        BY <1>11, <2>1 DEF ReadReply, Leaves, Concludes, Goes, Exchanging, Types, Asking, Unasked, reads, screen
      <3> QED BY <3>1, AskingSame
    <2>2. CASE ~(Head(replies)[1] = r)
      <3>1. /\ UNCHANGED <<asked, consent>>
            /\ asked # <<>> => helper' = "up" /\ \A s \in Reads : at'[s] # "spawning"
            /\ \A s \in Reads : at[s] \notin Unasked => at'[s] \notin Unasked /\ leader'[s] = leader[s]
        BY <1>11, <2>2 DEF ReadReply, Leaves, Concludes, Goes, Exchanging, Types, Asking, Unasked, reads, screen
      <3> QED BY <3>1, AskingSame
    <2> QED BY <2>1, <2>2
  <1>12. ASSUME NEW r \in Reads, ExchangeTimeout(r)
        PROVE  Asking'
    <2>1. /\ UNCHANGED <<asked, consent>>
          /\ asked # <<>> => helper' = "up" /\ \A s \in Reads : at'[s] # "spawning"
          /\ \A s \in Reads : at[s] \notin Unasked => at'[s] \notin Unasked /\ leader'[s] = leader[s]
      BY <1>12 DEF ExchangeTimeout, Leaves, Concludes, Goes, Exchanging, Types, Asking, Unasked, reads, screen
    <2> QED BY <2>1, AskingSame
  <1>13. ASSUME NEW r \in Reads, Retire(r)
        PROVE  Asking'
    <2>1. asked' = <<>>
      BY <1>13 DEF Retire, Asking, screen, Dies
    <2> QED BY <2>1, AskingNothing
  <1>14. ASSUME NEW r \in Reads, DiedAgain(r)
        PROVE  Asking'
    <2>1. /\ UNCHANGED <<asked, consent>>
          /\ asked # <<>> => helper' = "up" /\ \A s \in Reads : at'[s] # "spawning"
          /\ \A s \in Reads : at[s] \notin Unasked => at'[s] \notin Unasked /\ leader'[s] = leader[s]
      BY <1>14 DEF DiedAgain, Leaves, Concludes, Goes, Types, Asking, Unasked, reads, screen
    <2> QED BY <2>1, AskingSame
  <1>15. ASSUME NEW r \in Reads, Respawn(r)
        PROVE  Asking'
    <2>1. CASE closed
      <3>1. /\ UNCHANGED <<asked, consent>>
            /\ asked # <<>> => helper' = "up" /\ \A s \in Reads : at'[s] # "spawning"
            /\ \A s \in Reads : at[s] \notin Unasked => at'[s] \notin Unasked /\ leader'[s] = leader[s]
        BY <1>15, <2>1 DEF Respawn, Leaves, Concludes, Goes, Types, Asking, Unasked, reads, screen
      <3> QED BY <3>1, AskingSame
    <2>2. CASE ~(closed)
      <3>1. asked' = <<>>
        BY <1>15, <2>2 DEF Respawn, Asking, screen
      <3> QED BY <3>1, AskingNothing
    <2> QED BY <2>1, <2>2
  <1>16. ASSUME NEW r \in Reads, Accepted(r)
        PROVE  Asking'
    <2>1. /\ at[r] = "spawning" /\ at' = [at EXCEPT ![r] = "reasking"] /\ helper' = "up"
          /\ asked' = <<r>> /\ UNCHANGED <<leader, consent>>
      BY <1>16 DEF Accepted, Goes
    <2>2. consent[r] = None /\ leader[r] = r
      BY <2>1 DEF Answering, Unasked, Joining, Leading, Inside
    <2>3. \A s \in Reads : at'[s] # "spawning"
      BY <2>1 DEF Turns, Queue, Busy, Types
    <2>4. DOMAIN asked' = {1} /\ asked'[1] = r /\ at'[r] = "reasking"
      BY <2>1 DEF Types
    <2> QED BY <2>1, <2>2, <2>3, <2>4 DEF Asking, IsInjective, Unasked
  <1>17. ASSUME NEW r \in Reads, NotAccepted(r)
        PROVE  Asking'
    <2>1. asked' = <<>>
      BY <1>17 DEF NotAccepted, Asking, screen, Dies
    <2> QED BY <2>1, AskingNothing
  <1>18. ASSUME SlotReady
        PROVE  Asking'
    <2>1. /\ UNCHANGED <<asked, consent>>
          /\ asked # <<>> => helper' = "up" /\ \A s \in Reads : at'[s] # "spawning"
          /\ \A s \in Reads : at[s] \notin Unasked => at'[s] \notin Unasked /\ leader'[s] = leader[s]
      BY <1>18 DEF SlotReady, Types, Asking, Unasked, reads, screen
    <2> QED BY <2>1, AskingSame
  <1>19. ASSUME SlotDown
        PROVE  Asking'
    <2>1. /\ UNCHANGED <<asked, consent>>
          /\ asked # <<>> => helper' = "up" /\ \A s \in Reads : at'[s] # "spawning"
          /\ \A s \in Reads : at[s] \notin Unasked => at'[s] \notin Unasked /\ leader'[s] = leader[s]
      BY <1>19 DEF SlotDown, Types, Asking, Unasked, reads, screen
    <2> QED BY <2>1, AskingSame
  <1>20. ASSUME HelperDies
        PROVE  Asking'
    <2>1. asked' = <<>>
      BY <1>20 DEF HelperDies, Asking, screen, Dies
    <2> QED BY <2>1, AskingNothing
  <1>21. ASSUME Latch
        PROVE  Asking'
    <2>1. /\ UNCHANGED <<asked, consent>>
          /\ asked # <<>> => helper' = "up" /\ \A s \in Reads : at'[s] # "spawning"
          /\ \A s \in Reads : at[s] \notin Unasked => at'[s] \notin Unasked /\ leader'[s] = leader[s]
      BY <1>21 DEF Latch, Types, Asking, Unasked, reads, screen
    <2> QED BY <2>1, AskingSame
  <1>22. ASSUME Kill
        PROVE  Asking'
    <2>1. CASE pid /\ helper = "up"
      <3>1. asked' = <<>>
        BY <1>22, <2>1 DEF Kill, Asking, screen, Dies
      <3> QED BY <3>1, AskingNothing
    <2>2. CASE ~(pid /\ helper = "up")
      <3>1. /\ UNCHANGED <<asked, consent>>
            /\ asked # <<>> => helper' = "up" /\ \A s \in Reads : at'[s] # "spawning"
            /\ \A s \in Reads : at[s] \notin Unasked => at'[s] \notin Unasked /\ leader'[s] = leader[s]
        BY <1>22, <2>2 DEF Kill, Dies, Types, Asking, Unasked, reads, screen
      <3> QED BY <3>1, AskingSame
    <2> QED BY <2>1, <2>2
  <1>23. ASSUME Dispose
        PROVE  Asking'
    <2>1. CASE conn
      <3>1. asked' = <<>>
        BY <1>23, <2>1 DEF Dispose, Asking, screen
      <3> QED BY <3>1, AskingNothing
    <2>2. CASE ~(conn)
      <3>1. /\ UNCHANGED <<asked, consent>>
            /\ asked # <<>> => helper' = "up" /\ \A s \in Reads : at'[s] # "spawning"
            /\ \A s \in Reads : at[s] \notin Unasked => at'[s] \notin Unasked /\ leader'[s] = leader[s]
        BY <1>23, <2>2 DEF Dispose, Types, Asking, Unasked, reads, screen
      <3> QED BY <3>1, AskingSame
    <2> QED BY <2>1, <2>2
  <1>24. ASSUME NEW v \in {"yes", "no"}, Answer(v)
        PROVE  Asking'
    <2>1. /\ asked # <<>> /\ asked' = Tail(asked) /\ helper' = helper
          /\ consent' = [consent EXCEPT ![Head(asked)] = v] /\ UNCHANGED <<at, leader>>
      BY <1>24 DEF Answer, reads
    <2>2. /\ IsInjective(asked') /\ asked' \in Seq(Reads)
          /\ ToSet(asked') = ToSet(asked) \ {Head(asked)}
      BY <2>1, TailRest DEF Asking, Types
    <2>3. \A s \in ToSet(asked') : /\ consent'[s] = None /\ leader[s] = s
                                   /\ at[s] \notin Unasked
      <3>1. TAKE s \in ToSet(asked')
      <3>2. s \in ToSet(asked) /\ s # Head(asked)
        BY <2>2
      <3>3. s \in Reads /\ consent[s] = None /\ leader[s] = s /\ at[s] \notin Unasked
        BY <3>2 DEF Asking, Types, ToSet
      <3> QED BY <2>1, <3>2, <3>3 DEF Types
    <2>4. \A i \in DOMAIN asked' : asked'[i] \in ToSet(asked')
      BY DEF ToSet
    <2>5. helper = "up" /\ \A s \in Reads : at[s] # "spawning"
      BY <2>1 DEF Asking
    <2> QED BY <2>1, <2>2, <2>3, <2>4, <2>5 DEF Asking
  <1>25. ASSUME NEW g \in Guards \cup {None}, KvSet(g)
        PROVE  Asking'
    <2>1. /\ UNCHANGED <<asked, consent>>
          /\ asked # <<>> => helper' = "up" /\ \A s \in Reads : at'[s] # "spawning"
          /\ \A s \in Reads : at[s] \notin Unasked => at'[s] \notin Unasked /\ leader'[s] = leader[s]
      BY <1>25 DEF KvSet, Types, Asking, Unasked, reads, screen
    <2> QED BY <2>1, AskingSame
  <1> QED BY <1>1, <1>2, <1>3, <1>4, <1>5, <1>6, <1>7, <1>8, <1>9, <1>10, <1>11, <1>12, <1>13, <1>14, <1>15, <1>16, <1>17, <1>18, <1>19, <1>20, <1>21, <1>22, <1>23, <1>24, <1>25
            DEF Next, Proceed, Attempt, Quit

(***************************************************************************)
(* Nobody has answered or read an answer.                                  *)
(***************************************************************************)
LEMMA AnsweringSame ==
    ASSUME Answering, UNCHANGED <<replies, consent>>,
           \A s \in Reads : at'[s] \in Unasked => at[s] \in Unasked \/ consent[s] = None,
           \A s \in Reads : at'[s] = "asking" => at[s] = "asking" \/ consent[s] = None
    PROVE  Answering'
  <1>1. \A i \in DOMAIN replies : consent[replies[i][1]] = replies[i][2]
    BY DEF Answering
  <1>2. \A s \in Reads : at'[s] \in Unasked => consent[s] = None
    BY DEF Answering
  <1>3. \A s \in Reads : (at'[s] = "asking" /\ consent[s] # None) =>
           \E i \in DOMAIN replies : replies[i][1] = s
    BY DEF Answering
  <1> QED BY <1>1, <1>2, <1>3 DEF Answering

(***************************************************************************)
(* The pipe is gone while nobody waits for the answer to a first question. *)
(***************************************************************************)
LEMMA AnsweringLost ==
    ASSUME Answering, replies' = <<>>, consent' = consent,
           \A s \in Reads : at'[s] \in Unasked => at[s] \in Unasked,
           \A s \in Reads : at'[s] # "asking"
    PROVE  Answering'
  BY DEF Answering

(***************************************************************************)
(* Every step keeps it that what is on the pipe is what the user said.     *)
(***************************************************************************)
LEMMA StepAnswering ==
    ASSUME Types, Queue, Asking, Answering, Next
    PROVE  Answering'
  <1>1. ASSUME NEW r \in Reads, FirstPass(r)
        PROVE  Answering'
    <2>1. /\ UNCHANGED <<replies, consent>>
          /\ \A s \in Reads : at'[s] \in Unasked => at[s] \in Unasked \/ consent[s] = None
          /\ \A s \in Reads : at'[s] = "asking" => at[s] = "asking" \/ consent[s] = None
      BY <1>1 DEF FirstPass, Done, Goes, Types, Unasked, reads, screen
    <2> QED BY <2>1, AnsweringSame
  <1>2. ASSUME NEW r \in Reads, Follow(r)
        PROVE  Answering'
    <2>1. /\ UNCHANGED <<replies, consent>>
          /\ \A s \in Reads : at'[s] \in Unasked => at[s] \in Unasked \/ consent[s] = None
          /\ \A s \in Reads : at'[s] = "asking" => at[s] = "asking" \/ consent[s] = None
      BY <1>2 DEF Follow, Goes, Types, Unasked, reads, screen
    <2> QED BY <2>1, AnsweringSame
  <1>3. ASSUME NEW r \in Reads, NEW known \in BOOLEAN, Lead(r, known)
        PROVE  Answering'
    <2>1. /\ UNCHANGED <<replies, consent>>
          /\ \A s \in Reads : at'[s] \in Unasked => at[s] \in Unasked \/ consent[s] = None
          /\ \A s \in Reads : at'[s] = "asking" => at[s] = "asking" \/ consent[s] = None
      BY <1>3 DEF Lead, Goes, Types, Unasked, reads, screen
    <2> QED BY <2>1, AnsweringSame
  <1>4. ASSUME NEW r \in Reads, FollowTimeout(r)
        PROVE  Answering'
    <2>1. /\ UNCHANGED <<replies, consent>>
          /\ \A s \in Reads : at'[s] \in Unasked => at[s] \in Unasked \/ consent[s] = None
          /\ \A s \in Reads : at'[s] = "asking" => at[s] = "asking" \/ consent[s] = None
      BY <1>4 DEF FollowTimeout, Done, Goes, Types, Unasked, reads, screen
    <2> QED BY <2>1, AnsweringSame
  <1>5. ASSUME NEW r \in Reads, Tell(r)
        PROVE  Answering'
    <2>1. /\ UNCHANGED <<replies, consent>>
          /\ \A s \in Reads : at'[s] \in Unasked => at[s] \in Unasked \/ consent[s] = None
          /\ \A s \in Reads : at'[s] = "asking" => at[s] = "asking" \/ consent[s] = None
      BY <1>5 DEF Tell, Types, Unasked, reads, screen
    <2> QED BY <2>1, AnsweringSame
  <1>6. ASSUME NEW r \in Reads, Finalize(r)
        PROVE  Answering'
    <2>1. /\ UNCHANGED <<replies, consent>>
          /\ \A s \in Reads : at'[s] \in Unasked => at[s] \in Unasked \/ consent[s] = None
          /\ \A s \in Reads : at'[s] = "asking" => at[s] = "asking" \/ consent[s] = None
      BY <1>6 DEF Finalize, Done, Goes, Types, Unasked, reads, screen
    <2> QED BY <2>1, AnsweringSame
  <1>7. ASSUME NEW r \in Reads, Unavailable(r)
        PROVE  Answering'
    <2>1. /\ UNCHANGED <<replies, consent>>
          /\ \A s \in Reads : at'[s] \in Unasked => at[s] \in Unasked \/ consent[s] = None
          /\ \A s \in Reads : at'[s] = "asking" => at[s] = "asking" \/ consent[s] = None
      BY <1>7 DEF Unavailable, Concludes, Goes, Types, Unasked, reads, screen
    <2> QED BY <2>1, AnsweringSame
  <1>8. ASSUME NEW r \in Reads, Enter(r)
        PROVE  Answering'
    <2>1. /\ UNCHANGED <<replies, consent>>
          /\ \A s \in Reads : at'[s] \in Unasked => at[s] \in Unasked \/ consent[s] = None
          /\ \A s \in Reads : at'[s] = "asking" => at[s] = "asking" \/ consent[s] = None
      BY <1>8 DEF Enter, Concludes, Goes, Types, Unasked, reads, screen
    <2> QED BY <2>1, AnsweringSame
  <1>9. ASSUME NEW r \in Reads, LockTimeout(r)
        PROVE  Answering'
    <2>1. /\ UNCHANGED <<replies, consent>>
          /\ \A s \in Reads : at'[s] \in Unasked => at[s] \in Unasked \/ consent[s] = None
          /\ \A s \in Reads : at'[s] = "asking" => at[s] = "asking" \/ consent[s] = None
      BY <1>9 DEF LockTimeout, Leaves, Concludes, Goes, Types, Unasked, reads, screen
    <2> QED BY <2>1, AnsweringSame
  <1>10. ASSUME NEW r \in Reads, Acquire(r)
        PROVE  Answering'
    <2>0. consent[r] = None
      BY <1>10 DEF Acquire, Answering, Unasked
    <2>1. /\ UNCHANGED <<replies, consent>>
          /\ \A s \in Reads : at'[s] \in Unasked => at[s] \in Unasked \/ consent[s] = None
          /\ \A s \in Reads : at'[s] = "asking" => at[s] = "asking" \/ consent[s] = None
      BY <1>10, <2>0 DEF Acquire, Goes, Types, Unasked, reads, screen
    <2> QED BY <2>1, AnsweringSame
  <1>11. ASSUME NEW r \in Reads, ReadReply(r)
        PROVE  Answering'
    <2>1. /\ replies # <<>> /\ replies' = Tail(replies) /\ consent' = consent
          /\ at[r] \in Busy
      BY <1>11 DEF ReadReply, Exchanging, Busy
    <2>2. \A s \in Reads : at[s] = "asking" => s = r
      BY <2>1 DEF Queue, Turns, Busy
    <2>3. \A s \in Reads : /\ at'[s] \in Unasked => at[s] \in Unasked
                           /\ at'[s] = "asking" => at[s] = "asking"
      BY <1>11 DEF ReadReply, Leaves, Concludes, Goes, Types, Unasked, reads
    <2>4. \A i \in DOMAIN replies' : i + 1 \in DOMAIN replies /\ replies'[i] = replies[i + 1]
      BY <2>1, TailRest DEF Types
    <2>5. \A i \in DOMAIN replies' : consent[replies'[i][1]] = replies'[i][2]
      BY <2>4 DEF Answering
    <2>6. ASSUME NEW s \in Reads, at'[s] = "asking", consent[s] # None
          PROVE  \E i \in DOMAIN replies' : replies'[i][1] = s
      <3>0. at[s] = "asking"
        BY <2>3, <2>6
      <3>1. s = r /\ at'[r] = "asking" /\ at[r] = "asking"
        BY <3>0, <2>2, <2>6
      <3>2. replies[1][1] # r
        BY <1>11, <3>1, TailRest DEF ReadReply, Leaves, Concludes, Goes, Types
      <3>3. PICK i \in DOMAIN replies : replies[i][1] = r
        BY <3>1, <2>6 DEF Answering
      <3>4. i - 1 \in DOMAIN replies' /\ replies'[i - 1] = replies[i]
        BY <2>1, <3>2, <3>3, TailRest DEF Types
      <3> QED BY <3>1, <3>3, <3>4
    <2>7. \A s \in Reads : at'[s] \in Unasked => consent'[s] = None
      BY <2>1, <2>3 DEF Answering
    <2> HIDE DEF Unasked
    <2> QED BY <2>1, <2>5, <2>6, <2>7 DEF Answering
  <1>12. ASSUME NEW r \in Reads, ExchangeTimeout(r)
        PROVE  Answering'
    <2>1. /\ UNCHANGED <<replies, consent>>
          /\ \A s \in Reads : at'[s] \in Unasked => at[s] \in Unasked \/ consent[s] = None
          /\ \A s \in Reads : at'[s] = "asking" => at[s] = "asking" \/ consent[s] = None
      BY <1>12 DEF ExchangeTimeout, Leaves, Concludes, Goes, Exchanging, Types, Unasked, reads, screen
    <2> QED BY <2>1, AnsweringSame
  <1>13. ASSUME NEW r \in Reads, Retire(r)
        PROVE  Answering'
    <2>0. consent[r] = None
      BY <1>13 DEF Retire, Answering
    <2>1. /\ UNCHANGED <<replies, consent>>
          /\ \A s \in Reads : at'[s] \in Unasked => at[s] \in Unasked \/ consent[s] = None
          /\ \A s \in Reads : at'[s] = "asking" => at[s] = "asking" \/ consent[s] = None
      BY <1>13, <2>0 DEF Retire, Goes, Types, Unasked, reads, screen
    <2> QED BY <2>1, AnsweringSame
  <1>14. ASSUME NEW r \in Reads, DiedAgain(r)
        PROVE  Answering'
    <2>1. /\ UNCHANGED <<replies, consent>>
          /\ \A s \in Reads : at'[s] \in Unasked => at[s] \in Unasked \/ consent[s] = None
          /\ \A s \in Reads : at'[s] = "asking" => at[s] = "asking" \/ consent[s] = None
      BY <1>14 DEF DiedAgain, Leaves, Concludes, Goes, Types, Unasked, reads, screen
    <2> QED BY <2>1, AnsweringSame
  <1>15. ASSUME NEW r \in Reads, Respawn(r)
        PROVE  Answering'
    <2>1. CASE closed
      <3>1. /\ UNCHANGED <<replies, consent>>
            /\ \A s \in Reads : at'[s] \in Unasked => at[s] \in Unasked \/ consent[s] = None
            /\ \A s \in Reads : at'[s] = "asking" => at[s] = "asking" \/ consent[s] = None
        BY <1>15, <2>1, <2>1 DEF Respawn, Leaves, Concludes, Goes, Types, Unasked, reads, screen
      <3> QED BY <3>1, AnsweringSame
    <2>2. CASE ~(closed)
      <3>1. /\ replies' = <<>> /\ UNCHANGED <<consent>>
            /\ \A s \in Reads : at'[s] \in Unasked => at[s] \in Unasked
            /\ \A s \in Reads : at'[s] # "asking"
        BY <1>15, <2>2, <2>2 DEF Respawn, Goes, Types, Unasked, Queue, Turns, Busy, reads
      <3> QED BY <3>1, AnsweringLost
    <2> QED BY <2>1, <2>2
  <1>16. ASSUME NEW r \in Reads, Accepted(r)
        PROVE  Answering'
    <2>1. /\ UNCHANGED <<replies, consent>>
          /\ \A s \in Reads : at'[s] \in Unasked => at[s] \in Unasked \/ consent[s] = None
          /\ \A s \in Reads : at'[s] = "asking" => at[s] = "asking" \/ consent[s] = None
      BY <1>16 DEF Accepted, Goes, Types, Unasked, reads, screen
    <2> QED BY <2>1, AnsweringSame
  <1>17. ASSUME NEW r \in Reads, NotAccepted(r)
        PROVE  Answering'
    <2>1. /\ UNCHANGED <<replies, consent>>
          /\ \A s \in Reads : at'[s] \in Unasked => at[s] \in Unasked \/ consent[s] = None
          /\ \A s \in Reads : at'[s] = "asking" => at[s] = "asking" \/ consent[s] = None
      BY <1>17 DEF NotAccepted, Leaves, Concludes, Goes, Types, Unasked, reads, screen
    <2> QED BY <2>1, AnsweringSame
  <1>18. ASSUME SlotReady
        PROVE  Answering'
    <2>1. /\ UNCHANGED <<replies, consent>>
          /\ \A s \in Reads : at'[s] \in Unasked => at[s] \in Unasked \/ consent[s] = None
          /\ \A s \in Reads : at'[s] = "asking" => at[s] = "asking" \/ consent[s] = None
      BY <1>18 DEF SlotReady, Types, Unasked, reads, screen
    <2> QED BY <2>1, AnsweringSame
  <1>19. ASSUME SlotDown
        PROVE  Answering'
    <2>1. /\ UNCHANGED <<replies, consent>>
          /\ \A s \in Reads : at'[s] \in Unasked => at[s] \in Unasked \/ consent[s] = None
          /\ \A s \in Reads : at'[s] = "asking" => at[s] = "asking" \/ consent[s] = None
      BY <1>19 DEF SlotDown, Types, Unasked, reads, screen
    <2> QED BY <2>1, AnsweringSame
  <1>20. ASSUME HelperDies
        PROVE  Answering'
    <2>1. /\ UNCHANGED <<replies, consent>>
          /\ \A s \in Reads : at'[s] \in Unasked => at[s] \in Unasked \/ consent[s] = None
          /\ \A s \in Reads : at'[s] = "asking" => at[s] = "asking" \/ consent[s] = None
      BY <1>20 DEF HelperDies, Dies, Types, Unasked, reads, screen
    <2> QED BY <2>1, AnsweringSame
  <1>21. ASSUME Latch
        PROVE  Answering'
    <2>1. /\ UNCHANGED <<replies, consent>>
          /\ \A s \in Reads : at'[s] \in Unasked => at[s] \in Unasked \/ consent[s] = None
          /\ \A s \in Reads : at'[s] = "asking" => at[s] = "asking" \/ consent[s] = None
      BY <1>21 DEF Latch, Types, Unasked, reads, screen
    <2> QED BY <2>1, AnsweringSame
  <1>22. ASSUME Kill
        PROVE  Answering'
    <2>1. CASE pid /\ helper = "up"
      <3>1. /\ UNCHANGED <<replies, consent>>
            /\ \A s \in Reads : at'[s] \in Unasked => at[s] \in Unasked \/ consent[s] = None
            /\ \A s \in Reads : at'[s] = "asking" => at[s] = "asking" \/ consent[s] = None
        BY <1>22, <2>1, <2>1 DEF Kill, Dies, Types, Unasked, reads, screen
      <3> QED BY <3>1, AnsweringSame
    <2>2. CASE ~(pid /\ helper = "up")
      <3>1. /\ UNCHANGED <<replies, consent>>
            /\ \A s \in Reads : at'[s] \in Unasked => at[s] \in Unasked \/ consent[s] = None
            /\ \A s \in Reads : at'[s] = "asking" => at[s] = "asking" \/ consent[s] = None
        BY <1>22, <2>2, <2>2 DEF Kill, Dies, Types, Unasked, reads, screen
      <3> QED BY <3>1, AnsweringSame
    <2> QED BY <2>1, <2>2
  <1>23. ASSUME Dispose
        PROVE  Answering'
    <2>1. CASE conn
      <3>1. \A s \in Reads : at[s] \notin Busy
        BY <1>23, ApprovalConstants DEF Dispose, Queue, Turns
      <3>2. replies' = <<>> /\ UNCHANGED <<consent, at>>
        BY <1>23, <2>1 DEF Dispose, reads
      <3>3. \A s \in Reads : at'[s] # "asking"
        BY <3>1, <3>2 DEF Busy
      <3> QED BY <3>2, <3>3, AnsweringLost
    <2>2. CASE ~(conn)
      <3>1. /\ UNCHANGED <<replies, consent>>
            /\ \A s \in Reads : at'[s] \in Unasked => at[s] \in Unasked \/ consent[s] = None
            /\ \A s \in Reads : at'[s] = "asking" => at[s] = "asking" \/ consent[s] = None
        BY <1>23, <2>2, <2>2 DEF Dispose, Types, Unasked, reads, screen
      <3> QED BY <3>1, AnsweringSame
    <2> QED BY <2>1, <2>2
  <1>24. ASSUME NEW v \in {"yes", "no"}, Answer(v)
        PROVE  Answering'
    <2> DEFINE h == Head(asked)
    <2>1. /\ asked # <<>> /\ replies' = Append(replies, <<h, v>>)
          /\ consent' = [consent EXCEPT ![h] = v] /\ UNCHANGED at
      BY <1>24 DEF Answer, reads
    <2>2. h \in Reads /\ consent[h] = None /\ at[h] \notin Unasked
      <3>1. h \in Reads /\ h = asked[1] /\ 1 \in DOMAIN asked
        BY <2>1, TailRest DEF Types
      <3> QED BY <3>1 DEF Asking
    <2> HIDE DEF h
    <2>3. /\ DOMAIN replies' = 1..(Len(replies) + 1) /\ DOMAIN replies = 1..Len(replies)
          /\ Len(replies) \in Nat
          /\ \A i \in 1..Len(replies) : replies'[i] = replies[i]
          /\ replies'[Len(replies) + 1] = <<h, v>>
      BY <2>1 DEF Types
    <2>4. \A i \in 1..Len(replies) : replies[i][1] \in Reads \ {h}
      <3> SUFFICES ASSUME NEW i \in 1..Len(replies) PROVE replies[i][1] \in Reads \ {h}
        OBVIOUS
      <3>1. replies[i] \in Reads \X {"yes", "no"}
        BY <2>3 DEF Types
      <3>2. consent[replies[i][1]] = replies[i][2] /\ replies[i][2] \in {"yes", "no"}
        BY <3>1, <2>3 DEF Answering
      <3>3. None \notin {"yes", "no"}
        BY ApprovalConstants
      <3> QED BY <3>1, <3>2, <3>3, <2>2
    <2>5. consent'[h] = v /\ \A s \in Reads \ {h} : consent'[s] = consent[s]
      BY <2>1, <2>2 DEF Types
    <2>6. \A i \in DOMAIN replies' : consent'[replies'[i][1]] = replies'[i][2]
      <3> SUFFICES ASSUME NEW i \in 1..(Len(replies) + 1)
                   PROVE  consent'[replies'[i][1]] = replies'[i][2]
        BY <2>3
      <3>1. CASE i = Len(replies) + 1
        BY <3>1, <2>3, <2>5
      <3>2. CASE i \in 1..Len(replies)
        BY <3>2, <2>3, <2>4, <2>5 DEF Answering
      <3> QED BY <3>1, <3>2, <2>3
    <2>7. \A s \in Reads : at[s] \in Unasked => consent'[s] = None
      BY <2>2, <2>5 DEF Answering
    <2>8. ASSUME NEW s \in Reads, at[s] = "asking", consent'[s] # None
          PROVE  \E i \in DOMAIN replies' : replies'[i][1] = s
      <3>1. CASE s = h
        <4>1. Len(replies) + 1 \in DOMAIN replies' /\ replies'[Len(replies) + 1][1] = h
          BY <2>3
        <4> QED BY <3>1, <4>1
      <3>2. CASE s # h
        <4>1. PICK i \in 1..Len(replies) : replies[i][1] = s
          BY <3>2, <2>3, <2>5, <2>8 DEF Answering
        <4>2. i \in DOMAIN replies' /\ replies'[i] = replies[i]
          BY <2>3
        <4> QED BY <4>1, <4>2
      <3> QED BY <3>1, <3>2
    <2> QED BY <2>1, <2>6, <2>7, <2>8 DEF Answering
  <1>25. ASSUME NEW g \in Guards \cup {None}, KvSet(g)
        PROVE  Answering'
    <2>1. /\ UNCHANGED <<replies, consent>>
          /\ \A s \in Reads : at'[s] \in Unasked => at[s] \in Unasked \/ consent[s] = None
          /\ \A s \in Reads : at'[s] = "asking" => at[s] = "asking" \/ consent[s] = None
      BY <1>25 DEF KvSet, Types, Unasked, reads, screen
    <2> QED BY <2>1, AnsweringSame
  <1> QED BY <1>1, <1>2, <1>3, <1>4, <1>5, <1>6, <1>7, <1>8, <1>9, <1>10, <1>11, <1>12, <1>13, <1>14, <1>15, <1>16, <1>17, <1>18, <1>19, <1>20, <1>21, <1>22, <1>23, <1>24, <1>25
            DEF Next, Proceed, Attempt, Quit

(***************************************************************************)
(* An approval is told only as the user gave it.                           *)
(***************************************************************************)
LEMMA TellingSame ==
    ASSUME Telling, consent' = consent,
           \A s \in Reads : at'[s] = "telling" =>
               \/ at[s] = "telling" /\ why'[s] = why[s]
               \/ why'[s] \in {"yes", "no", "full"} /\ (why'[s] = "yes" => consent[s] = "yes"),
           \A s \in Reads : at'[s] = "approved" =>
               \/ at[s] = "approved" /\ leader'[s] = leader[s]
               \/ leader'[s] \in Reads /\ consent[leader'[s]] = "yes"
    PROVE  Telling'
  <1>1. \A s \in Reads : at'[s] = "telling" =>
           why'[s] \in {"yes", "no", "full"} /\ (why'[s] = "yes" => consent[s] = "yes")
    BY DEF Telling
  <1>2. \A s \in Reads : at'[s] = "approved" =>
           leader'[s] \in Reads /\ consent[leader'[s]] = "yes"
    BY DEF Telling
  <1> QED BY <1>1, <1>2 DEF Telling

(***************************************************************************)
(* Every step keeps it that whoever is told of an approval has one.        *)
(***************************************************************************)
LEMMA StepTelling ==
    ASSUME Types, Joining, Asking, Answering, Telling, Next
    PROVE  Telling'
  <1>1. ASSUME NEW r \in Reads, FirstPass(r)
        PROVE  Telling'
    <2>1. /\ consent' = consent
          /\ \A s \in Reads : at'[s] = "telling" =>
                \/ at[s] = "telling" /\ why'[s] = why[s]
                \/ why'[s] \in {"yes", "no", "full"} /\ (why'[s] = "yes" => consent[s] = "yes")
          /\ \A s \in Reads : at'[s] = "approved" =>
                \/ at[s] = "approved" /\ leader'[s] = leader[s]
                \/ leader'[s] \in Reads /\ consent[leader'[s]] = "yes"
      BY <1>1 DEF FirstPass, Done, Goes, Types, reads, screen
    <2> QED BY <2>1, TellingSame
  <1>2. ASSUME NEW r \in Reads, Follow(r)
        PROVE  Telling'
    <2>1. /\ consent' = consent
          /\ \A s \in Reads : at'[s] = "telling" =>
                \/ at[s] = "telling" /\ why'[s] = why[s]
                \/ why'[s] \in {"yes", "no", "full"} /\ (why'[s] = "yes" => consent[s] = "yes")
          /\ \A s \in Reads : at'[s] = "approved" =>
                \/ at[s] = "approved" /\ leader'[s] = leader[s]
                \/ leader'[s] \in Reads /\ consent[leader'[s]] = "yes"
      BY <1>2 DEF Follow, Goes, Types, reads, screen
    <2> QED BY <2>1, TellingSame
  <1>3. ASSUME NEW r \in Reads, NEW known \in BOOLEAN, Lead(r, known)
        PROVE  Telling'
    <2>1. /\ consent' = consent
          /\ \A s \in Reads : at'[s] = "telling" =>
                \/ at[s] = "telling" /\ why'[s] = why[s]
                \/ why'[s] \in {"yes", "no", "full"} /\ (why'[s] = "yes" => consent[s] = "yes")
          /\ \A s \in Reads : at'[s] = "approved" =>
                \/ at[s] = "approved" /\ leader'[s] = leader[s]
                \/ leader'[s] \in Reads /\ consent[leader'[s]] = "yes"
      BY <1>3 DEF Lead, Goes, Types, reads, screen
    <2> QED BY <2>1, TellingSame
  <1>4. ASSUME NEW r \in Reads, FollowTimeout(r)
        PROVE  Telling'
    <2>1. /\ consent' = consent
          /\ \A s \in Reads : at'[s] = "telling" =>
                \/ at[s] = "telling" /\ why'[s] = why[s]
                \/ why'[s] \in {"yes", "no", "full"} /\ (why'[s] = "yes" => consent[s] = "yes")
          /\ \A s \in Reads : at'[s] = "approved" =>
                \/ at[s] = "approved" /\ leader'[s] = leader[s]
                \/ leader'[s] \in Reads /\ consent[leader'[s]] = "yes"
      BY <1>4 DEF FollowTimeout, Done, Goes, Types, reads, screen
    <2> QED BY <2>1, TellingSame
  <1>5. ASSUME NEW r \in Reads, Tell(r)
        PROVE  Telling'
    <2>1. leader[r] = r /\ (why[r] = "yes" => consent[r] = "yes") /\ consent' = consent
      BY <1>5 DEF Tell, Joining, Telling, screen
    <2>2. \A s \in Reads : at'[s] = "telling" => at[s] = "telling" /\ why'[s] = why[s]
      BY <1>5 DEF Tell, Types
    <2>3. \A s \in Reads : at'[s] = "approved" =>
             \/ at[s] = "approved" /\ leader'[s] = leader[s]
             \/ leader'[s] \in Reads /\ consent[leader'[s]] = "yes"
      BY <1>5, <2>1 DEF Tell, Types
    <2> QED BY <2>1, <2>2, <2>3, TellingSame
  <1>6. ASSUME NEW r \in Reads, Finalize(r)
        PROVE  Telling'
    <2>1. /\ consent' = consent
          /\ \A s \in Reads : at'[s] = "telling" =>
                \/ at[s] = "telling" /\ why'[s] = why[s]
                \/ why'[s] \in {"yes", "no", "full"} /\ (why'[s] = "yes" => consent[s] = "yes")
          /\ \A s \in Reads : at'[s] = "approved" =>
                \/ at[s] = "approved" /\ leader'[s] = leader[s]
                \/ leader'[s] \in Reads /\ consent[leader'[s]] = "yes"
      BY <1>6 DEF Finalize, Done, Goes, Types, reads, screen
    <2> QED BY <2>1, TellingSame
  <1>7. ASSUME NEW r \in Reads, Unavailable(r)
        PROVE  Telling'
    <2>1. /\ consent' = consent
          /\ \A s \in Reads : at'[s] = "telling" =>
                \/ at[s] = "telling" /\ why'[s] = why[s]
                \/ why'[s] \in {"yes", "no", "full"} /\ (why'[s] = "yes" => consent[s] = "yes")
          /\ \A s \in Reads : at'[s] = "approved" =>
                \/ at[s] = "approved" /\ leader'[s] = leader[s]
                \/ leader'[s] \in Reads /\ consent[leader'[s]] = "yes"
      BY <1>7 DEF Unavailable, Concludes, Goes, Types, reads, screen
    <2> QED BY <2>1, TellingSame
  <1>8. ASSUME NEW r \in Reads, Enter(r)
        PROVE  Telling'
    <2>1. /\ consent' = consent
          /\ \A s \in Reads : at'[s] = "telling" =>
                \/ at[s] = "telling" /\ why'[s] = why[s]
                \/ why'[s] \in {"yes", "no", "full"} /\ (why'[s] = "yes" => consent[s] = "yes")
          /\ \A s \in Reads : at'[s] = "approved" =>
                \/ at[s] = "approved" /\ leader'[s] = leader[s]
                \/ leader'[s] \in Reads /\ consent[leader'[s]] = "yes"
      BY <1>8 DEF Enter, Concludes, Goes, Types, reads, screen
    <2> QED BY <2>1, TellingSame
  <1>9. ASSUME NEW r \in Reads, LockTimeout(r)
        PROVE  Telling'
    <2>1. /\ consent' = consent
          /\ \A s \in Reads : at'[s] = "telling" =>
                \/ at[s] = "telling" /\ why'[s] = why[s]
                \/ why'[s] \in {"yes", "no", "full"} /\ (why'[s] = "yes" => consent[s] = "yes")
          /\ \A s \in Reads : at'[s] = "approved" =>
                \/ at[s] = "approved" /\ leader'[s] = leader[s]
                \/ leader'[s] \in Reads /\ consent[leader'[s]] = "yes"
      BY <1>9 DEF LockTimeout, Leaves, Concludes, Goes, Types, reads, screen
    <2> QED BY <2>1, TellingSame
  <1>10. ASSUME NEW r \in Reads, Acquire(r)
        PROVE  Telling'
    <2>1. /\ consent' = consent
          /\ \A s \in Reads : at'[s] = "telling" =>
                \/ at[s] = "telling" /\ why'[s] = why[s]
                \/ why'[s] \in {"yes", "no", "full"} /\ (why'[s] = "yes" => consent[s] = "yes")
          /\ \A s \in Reads : at'[s] = "approved" =>
                \/ at[s] = "approved" /\ leader'[s] = leader[s]
                \/ leader'[s] \in Reads /\ consent[leader'[s]] = "yes"
      BY <1>10 DEF Acquire, Goes, Types, reads, screen
    <2> QED BY <2>1, TellingSame
  <1>11. ASSUME NEW r \in Reads, ReadReply(r)
        PROVE  Telling'
    <2>1. CASE Head(replies)[1] = r
      <3>1. consent[r] = Head(replies)[2] /\ Head(replies)[2] \in {"yes", "no"}
        <4>1. replies # <<>>
          BY <1>11 DEF ReadReply
        <4>2. /\ Head(replies) \in Reads \X {"yes", "no"} /\ Head(replies) = replies[1]
              /\ 1 \in DOMAIN replies
          BY <4>1, TailRest DEF Types
        <4> QED BY <4>2, <2>1 DEF Answering
      <3> DEFINE o == Head(replies)[2]
      <3>2. consent' = consent /\ at[r] # "approved" /\ Concludes(r, o)
        BY <1>11, <2>1 DEF ReadReply, Leaves, Exchanging
      <3> HIDE DEF o
      <3>3. /\ at' = [at EXCEPT ![r] = "telling"] /\ why' = [why EXCEPT ![r] = o]
            /\ leader' = leader /\ o = consent[r] /\ o \in {"yes", "no"}
        BY <3>1, <3>2 DEF Concludes, Goes, o
      <3>4. /\ \A s \in Reads : at'[s] = "telling" =>
                  \/ at[s] = "telling" /\ why'[s] = why[s]
                  \/ why'[s] \in {"yes", "no", "full"} /\ (why'[s] = "yes" => consent[s] = "yes")
            /\ \A s \in Reads : at'[s] = "approved" =>
                  at[s] = "approved" /\ leader'[s] = leader[s]
        BY <3>3 DEF Types
      <3> QED BY <3>2, <3>4, TellingSame
    <2>2. CASE ~(Head(replies)[1] = r)
      <3>1. /\ consent' = consent
            /\ \A s \in Reads : at'[s] = "telling" =>
                  \/ at[s] = "telling" /\ why'[s] = why[s]
                  \/ why'[s] \in {"yes", "no", "full"} /\ (why'[s] = "yes" => consent[s] = "yes")
            /\ \A s \in Reads : at'[s] = "approved" =>
                  \/ at[s] = "approved" /\ leader'[s] = leader[s]
                  \/ leader'[s] \in Reads /\ consent[leader'[s]] = "yes"
        BY <1>11, <2>2, <2>2 DEF ReadReply, Leaves, Concludes, Goes, Exchanging, Types, reads, screen
      <3> QED BY <3>1, TellingSame
    <2> QED BY <2>1, <2>2
  <1>12. ASSUME NEW r \in Reads, ExchangeTimeout(r)
        PROVE  Telling'
    <2>1. /\ consent' = consent
          /\ \A s \in Reads : at'[s] = "telling" =>
                \/ at[s] = "telling" /\ why'[s] = why[s]
                \/ why'[s] \in {"yes", "no", "full"} /\ (why'[s] = "yes" => consent[s] = "yes")
          /\ \A s \in Reads : at'[s] = "approved" =>
                \/ at[s] = "approved" /\ leader'[s] = leader[s]
                \/ leader'[s] \in Reads /\ consent[leader'[s]] = "yes"
      BY <1>12 DEF ExchangeTimeout, Leaves, Concludes, Goes, Exchanging, Types, reads, screen
    <2> QED BY <2>1, TellingSame
  <1>13. ASSUME NEW r \in Reads, Retire(r)
        PROVE  Telling'
    <2>1. /\ consent' = consent
          /\ \A s \in Reads : at'[s] = "telling" =>
                \/ at[s] = "telling" /\ why'[s] = why[s]
                \/ why'[s] \in {"yes", "no", "full"} /\ (why'[s] = "yes" => consent[s] = "yes")
          /\ \A s \in Reads : at'[s] = "approved" =>
                \/ at[s] = "approved" /\ leader'[s] = leader[s]
                \/ leader'[s] \in Reads /\ consent[leader'[s]] = "yes"
      BY <1>13 DEF Retire, Goes, Types, reads, screen
    <2> QED BY <2>1, TellingSame
  <1>14. ASSUME NEW r \in Reads, DiedAgain(r)
        PROVE  Telling'
    <2>1. /\ consent' = consent
          /\ \A s \in Reads : at'[s] = "telling" =>
                \/ at[s] = "telling" /\ why'[s] = why[s]
                \/ why'[s] \in {"yes", "no", "full"} /\ (why'[s] = "yes" => consent[s] = "yes")
          /\ \A s \in Reads : at'[s] = "approved" =>
                \/ at[s] = "approved" /\ leader'[s] = leader[s]
                \/ leader'[s] \in Reads /\ consent[leader'[s]] = "yes"
      BY <1>14 DEF DiedAgain, Leaves, Concludes, Goes, Types, reads, screen
    <2> QED BY <2>1, TellingSame
  <1>15. ASSUME NEW r \in Reads, Respawn(r)
        PROVE  Telling'
    <2>1. CASE closed
      <3>1. /\ consent' = consent
            /\ \A s \in Reads : at'[s] = "telling" =>
                  \/ at[s] = "telling" /\ why'[s] = why[s]
                  \/ why'[s] \in {"yes", "no", "full"} /\ (why'[s] = "yes" => consent[s] = "yes")
            /\ \A s \in Reads : at'[s] = "approved" =>
                  \/ at[s] = "approved" /\ leader'[s] = leader[s]
                  \/ leader'[s] \in Reads /\ consent[leader'[s]] = "yes"
        BY <1>15, <2>1, <2>1 DEF Respawn, Leaves, Concludes, Goes, Types, reads, screen
      <3> QED BY <3>1, TellingSame
    <2>2. CASE ~(closed)
      <3>1. /\ consent' = consent
            /\ \A s \in Reads : at'[s] = "telling" =>
                  \/ at[s] = "telling" /\ why'[s] = why[s]
                  \/ why'[s] \in {"yes", "no", "full"} /\ (why'[s] = "yes" => consent[s] = "yes")
            /\ \A s \in Reads : at'[s] = "approved" =>
                  \/ at[s] = "approved" /\ leader'[s] = leader[s]
                  \/ leader'[s] \in Reads /\ consent[leader'[s]] = "yes"
        BY <1>15, <2>2, <2>2 DEF Respawn, Leaves, Concludes, Goes, Types, reads, screen
      <3> QED BY <3>1, TellingSame
    <2> QED BY <2>1, <2>2
  <1>16. ASSUME NEW r \in Reads, Accepted(r)
        PROVE  Telling'
    <2>1. /\ consent' = consent
          /\ \A s \in Reads : at'[s] = "telling" =>
                \/ at[s] = "telling" /\ why'[s] = why[s]
                \/ why'[s] \in {"yes", "no", "full"} /\ (why'[s] = "yes" => consent[s] = "yes")
          /\ \A s \in Reads : at'[s] = "approved" =>
                \/ at[s] = "approved" /\ leader'[s] = leader[s]
                \/ leader'[s] \in Reads /\ consent[leader'[s]] = "yes"
      BY <1>16 DEF Accepted, Goes, Types, reads, screen
    <2> QED BY <2>1, TellingSame
  <1>17. ASSUME NEW r \in Reads, NotAccepted(r)
        PROVE  Telling'
    <2>1. /\ consent' = consent
          /\ \A s \in Reads : at'[s] = "telling" =>
                \/ at[s] = "telling" /\ why'[s] = why[s]
                \/ why'[s] \in {"yes", "no", "full"} /\ (why'[s] = "yes" => consent[s] = "yes")
          /\ \A s \in Reads : at'[s] = "approved" =>
                \/ at[s] = "approved" /\ leader'[s] = leader[s]
                \/ leader'[s] \in Reads /\ consent[leader'[s]] = "yes"
      BY <1>17 DEF NotAccepted, Leaves, Concludes, Goes, Types, reads, screen
    <2> QED BY <2>1, TellingSame
  <1>18. ASSUME SlotReady
        PROVE  Telling'
    <2>1. /\ consent' = consent
          /\ \A s \in Reads : at'[s] = "telling" =>
                \/ at[s] = "telling" /\ why'[s] = why[s]
                \/ why'[s] \in {"yes", "no", "full"} /\ (why'[s] = "yes" => consent[s] = "yes")
          /\ \A s \in Reads : at'[s] = "approved" =>
                \/ at[s] = "approved" /\ leader'[s] = leader[s]
                \/ leader'[s] \in Reads /\ consent[leader'[s]] = "yes"
      BY <1>18 DEF SlotReady, Types, reads, screen
    <2> QED BY <2>1, TellingSame
  <1>19. ASSUME SlotDown
        PROVE  Telling'
    <2>1. /\ consent' = consent
          /\ \A s \in Reads : at'[s] = "telling" =>
                \/ at[s] = "telling" /\ why'[s] = why[s]
                \/ why'[s] \in {"yes", "no", "full"} /\ (why'[s] = "yes" => consent[s] = "yes")
          /\ \A s \in Reads : at'[s] = "approved" =>
                \/ at[s] = "approved" /\ leader'[s] = leader[s]
                \/ leader'[s] \in Reads /\ consent[leader'[s]] = "yes"
      BY <1>19 DEF SlotDown, Types, reads, screen
    <2> QED BY <2>1, TellingSame
  <1>20. ASSUME HelperDies
        PROVE  Telling'
    <2>1. /\ consent' = consent
          /\ \A s \in Reads : at'[s] = "telling" =>
                \/ at[s] = "telling" /\ why'[s] = why[s]
                \/ why'[s] \in {"yes", "no", "full"} /\ (why'[s] = "yes" => consent[s] = "yes")
          /\ \A s \in Reads : at'[s] = "approved" =>
                \/ at[s] = "approved" /\ leader'[s] = leader[s]
                \/ leader'[s] \in Reads /\ consent[leader'[s]] = "yes"
      BY <1>20 DEF HelperDies, Dies, Types, reads, screen
    <2> QED BY <2>1, TellingSame
  <1>21. ASSUME Latch
        PROVE  Telling'
    <2>1. /\ consent' = consent
          /\ \A s \in Reads : at'[s] = "telling" =>
                \/ at[s] = "telling" /\ why'[s] = why[s]
                \/ why'[s] \in {"yes", "no", "full"} /\ (why'[s] = "yes" => consent[s] = "yes")
          /\ \A s \in Reads : at'[s] = "approved" =>
                \/ at[s] = "approved" /\ leader'[s] = leader[s]
                \/ leader'[s] \in Reads /\ consent[leader'[s]] = "yes"
      BY <1>21 DEF Latch, Types, reads, screen
    <2> QED BY <2>1, TellingSame
  <1>22. ASSUME Kill
        PROVE  Telling'
    <2>1. CASE pid /\ helper = "up"
      <3>1. /\ consent' = consent
            /\ \A s \in Reads : at'[s] = "telling" =>
                  \/ at[s] = "telling" /\ why'[s] = why[s]
                  \/ why'[s] \in {"yes", "no", "full"} /\ (why'[s] = "yes" => consent[s] = "yes")
            /\ \A s \in Reads : at'[s] = "approved" =>
                  \/ at[s] = "approved" /\ leader'[s] = leader[s]
                  \/ leader'[s] \in Reads /\ consent[leader'[s]] = "yes"
        BY <1>22, <2>1, <2>1 DEF Kill, Dies, Types, reads, screen
      <3> QED BY <3>1, TellingSame
    <2>2. CASE ~(pid /\ helper = "up")
      <3>1. /\ consent' = consent
            /\ \A s \in Reads : at'[s] = "telling" =>
                  \/ at[s] = "telling" /\ why'[s] = why[s]
                  \/ why'[s] \in {"yes", "no", "full"} /\ (why'[s] = "yes" => consent[s] = "yes")
            /\ \A s \in Reads : at'[s] = "approved" =>
                  \/ at[s] = "approved" /\ leader'[s] = leader[s]
                  \/ leader'[s] \in Reads /\ consent[leader'[s]] = "yes"
        BY <1>22, <2>2, <2>2 DEF Kill, Dies, Types, reads, screen
      <3> QED BY <3>1, TellingSame
    <2> QED BY <2>1, <2>2
  <1>23. ASSUME Dispose
        PROVE  Telling'
    <2>1. /\ consent' = consent
          /\ \A s \in Reads : at'[s] = "telling" =>
                \/ at[s] = "telling" /\ why'[s] = why[s]
                \/ why'[s] \in {"yes", "no", "full"} /\ (why'[s] = "yes" => consent[s] = "yes")
          /\ \A s \in Reads : at'[s] = "approved" =>
                \/ at[s] = "approved" /\ leader'[s] = leader[s]
                \/ leader'[s] \in Reads /\ consent[leader'[s]] = "yes"
      BY <1>23 DEF Dispose, Types, reads, screen
    <2> QED BY <2>1, TellingSame
  <1>24. ASSUME NEW v \in {"yes", "no"}, Answer(v)
        PROVE  Telling'
    <2> DEFINE h == Head(asked)
    <2>1. /\ asked # <<>> /\ consent' = [consent EXCEPT ![h] = v]
          /\ UNCHANGED <<at, why, leader>>
      BY <1>24 DEF Answer, reads
    <2>2. h \in Reads /\ consent[h] = None
      <3>1. h \in Reads /\ h = asked[1] /\ 1 \in DOMAIN asked
        BY <2>1, TailRest DEF Types
      <3> QED BY <3>1 DEF Asking
    <2> HIDE DEF h
    <2>3. \A s \in Reads : consent[s] = "yes" => consent'[s] = "yes"
      <3>1. None # "yes"
        BY ApprovalConstants
      <3> QED BY <3>1, <2>1, <2>2 DEF Types
    <2> QED BY <2>1, <2>3 DEF Telling
  <1>25. ASSUME NEW g \in Guards \cup {None}, KvSet(g)
        PROVE  Telling'
    <2>1. /\ consent' = consent
          /\ \A s \in Reads : at'[s] = "telling" =>
                \/ at[s] = "telling" /\ why'[s] = why[s]
                \/ why'[s] \in {"yes", "no", "full"} /\ (why'[s] = "yes" => consent[s] = "yes")
          /\ \A s \in Reads : at'[s] = "approved" =>
                \/ at[s] = "approved" /\ leader'[s] = leader[s]
                \/ leader'[s] \in Reads /\ consent[leader'[s]] = "yes"
      BY <1>25 DEF KvSet, Types, reads, screen
    <2> QED BY <2>1, TellingSame
  <1> QED BY <1>1, <1>2, <1>3, <1>4, <1>5, <1>6, <1>7, <1>8, <1>9, <1>10, <1>11, <1>12, <1>13, <1>14, <1>15, <1>16, <1>17, <1>18, <1>19, <1>20, <1>21, <1>22, <1>23, <1>24, <1>25
            DEF Next, Proceed, Attempt, Quit

-----------------------------------------------------------------------------
(* Invariance *)

(***************************************************************************)
(* The first state satisfies the invariant.                                *)
(***************************************************************************)
LEMMA InitInvariant ==
    ASSUME Init
    PROVE  IInv
  <1> USE DEF Init
  <1>1. Flags
    BY DEF Flags
  <1>2. Types
    BY DEF Types, Places, Outcomes
  <1>3. Queue
    <2>1. Waiting = {}
      BY DEF Waiting, Inside
    <2>2. pending = Cardinality(Waiting)
      BY <2>1, FS_EmptySet
    <2>3. ToSet(turn) = {} /\ IsInjective(turn) /\ turn \in Seq(Reads \cup {Shutdown})
      BY DEF ToSet, IsInjective
    <2> QED BY <2>2, <2>3 DEF Queue, Turns, Inside, Busy
  <1>4. Joining
    BY DEF Joining, Asks, Leading, Inside
  <1>5. Asking /\ Answering /\ Telling
    BY DEF Asking, Answering, Telling, IsInjective
  <1> QED BY <1>1, <1>2, <1>3, <1>4, <1>5 DEF IInv

(***************************************************************************)
(* Every step keeps it.                                                    *)
(***************************************************************************)
LEMMA StepInvariant ==
    ASSUME IInv, [Next]_vars
    PROVE  IInv'
  <1>1. CASE Next
    <2>1. Flags' /\ Types'
      BY <1>1, StepFlags, StepTypes DEF IInv
    <2>2. Queue' /\ Joining' /\ Asking' /\ Answering' /\ Telling'
      BY <1>1, StepQueue, StepJoining, StepAsking, StepAnswering, StepTelling DEF IInv
    <2> QED BY <2>1, <2>2 DEF IInv
  <1>2. CASE UNCHANGED vars
    BY <1>2 DEF IInv, Flags, Types, Queue, Waiting, Turns, Joining, Asking, Answering, Telling,
                vars, reads, client, screen
  <1> QED BY <1>1, <1>2

(***************************************************************************)
(* In every reachable state whoever may be joined leads, the head of the   *)
(* queue has the connection, the helper has each question once, what is on *)
(* the pipe is what the user said, and an approval that is told is the     *)
(* user's.  (server.rs await_dialog_outcome; approver.rs request)          *)
(***************************************************************************)
THEOREM ApprovalInvariant == Spec => []IInv
  <1>1. Init => IInv
    BY InitInvariant
  <1>2. IInv /\ [Next]_vars => IInv'
    BY StepInvariant
  <1> QED BY <1>1, <1>2, PTL DEF Spec

(***************************************************************************)
(* Variables stay in their types; the count of pending requests is the     *)
(* number of reads inside ApproverClient::request, whichever of its exits  *)
(* they take (approver.rs PendingGuard), and each of them is in the queue  *)
(* for the connection once.                                                *)
(***************************************************************************)
THEOREM TypeOKHolds == Spec => []TypeOK
  <1>1. IInv => TypeOK
    BY DEF IInv, Flags, Types, Queue, Waiting, TypeOK
  <1> QED BY <1>1, ApprovalInvariant, PTL

(***************************************************************************)
(* Whoever has joined a dialog waits for a leader that has not told its    *)
(* outcome yet, so it is told by it.  (server.rs await_dialog_outcome)     *)
(***************************************************************************)
THEOREM NobodyWaitsInVainHolds == Spec => []NobodyWaitsInVain
  <1>1. IInv => NobodyWaitsInVain
    BY DEF IInv, Joining, Leading, Inside, NobodyWaitsInVain
  <1> QED BY <1>1, ApprovalInvariant, PTL

-----------------------------------------------------------------------------
(* Refinement *)

Stages == [r \in Reads |-> Stage(r)]

Open == {inflight[c] : c \in DOMAIN inflight} \ {None}

\* A step that the promise of Consent allows.
Kept == [Promised!ConsentNext]_(Promised!consentVars)

\* A read that has asked and is not answered.
Awaiting == Places \ {"new", "gated", "done"}

(***************************************************************************)
(* A read that goes on without being answered keeps its stage.             *)
(***************************************************************************)
LEMMA StageKept ==
    ASSUME NEW r \in Reads,
           \/ at[r] \in Awaiting /\ at'[r] \in Awaiting
           \/ at[r] \in {"new", "gated"} /\ at'[r] \in {"new", "gated"}
           \/ at'[r] = at[r] /\ why'[r] = why[r]
    PROVE  Stage(r)' = Stage(r)
  BY DEF Stage, Awaiting, Places

(***************************************************************************)
(* If every read does, no stage changes.                                   *)
(***************************************************************************)
LEMMA StagesKept ==
    ASSUME \A s \in Reads :
               \/ at[s] \in Awaiting /\ at'[s] \in Awaiting
               \/ at[s] \in {"new", "gated"} /\ at'[s] \in {"new", "gated"}
               \/ at'[s] = at[s] /\ why'[s] = why[s]
    PROVE  Stages' = Stages
  <1>1. \A s \in Reads : Stage(s)' = Stage(s)
    BY StageKept
  <1> HIDE DEF Stage
  <1> QED BY <1>1 DEF Stages

(***************************************************************************)
(* One read changes its stage.                                             *)
(***************************************************************************)
LEMMA StageMoved ==
    ASSUME NEW r \in Reads, \A s \in Reads \ {r} : at'[s] = at[s] /\ why'[s] = why[s]
    PROVE  Stages' = [Stages EXCEPT ![r] = Stage(r)']
  <1>1. \A s \in Reads \ {r} : Stage(s)' = Stage(s)
    BY StageKept
  <1> HIDE DEF Stage
  <1> QED BY <1>1 DEF Stages

(***************************************************************************)
(* What the promise does not see.                                          *)
(***************************************************************************)
LEMMA Stutters ==
    ASSUME UNCHANGED <<guard, leader, inflight, consent>>, Stages' = Stages
    PROVE  Kept
  BY DEF Kept, Promised!consentVars, Stages

(***************************************************************************)
(* The outcome of a dialog, whatever it is, closes the prompt if it was    *)
(* open, and answers nobody yet.                                           *)
(***************************************************************************)
LEMMA ConcludedKept ==
    ASSUME Types, Joining, NEW r \in Reads, NEW o, Concludes(r, o), at[r] \in Leading,
           UNCHANGED <<guard, consent>>
    PROVE  Kept
  <1>1. at'[r] = "telling" /\ \A s \in Reads \ {r} : at'[s] = at[s] /\ why'[s] = why[s]
    BY DEF Concludes, Goes, Types
  <1>2. Stages' = Stages
    BY <1>1, StagesKept DEF Awaiting, Places, Leading, Inside
  <1>3. CASE inflight[Caller[r]] = r
    <2>1. /\ DOMAIN inflight = Asks /\ Caller[r] \in Asks
          /\ inflight' = [inflight EXCEPT ![Caller[r]] = None] /\ leader' = leader
      BY <1>3 DEF Concludes, Joining, Asks
    <2>2. \A c \in Asks : c # Caller[r] => inflight[c] # r
      BY ApprovalConstants DEF Joining
    <2>3. None # r
      BY ApprovalConstants
    <2>4. DOMAIN inflight' = Asks
      BY <2>1
    <2>5. r \in Open
      BY <1>3, <2>1, <2>3 DEF Open
    <2>6. ASSUME NEW x PROVE x \in Open' <=> x \in Open \ {r}
      BY <1>3, <2>1, <2>2, <2>4 DEF Open
    <2>7. Open' = Open \ {r}
      BY <2>6
    <2>8. Promised!Close(r)
      BY <1>2, <2>1, <2>5, <2>7 DEF Promised!Close, Stages, Open
    <2> QED BY <2>8 DEF Kept, Promised!ConsentNext
  <1>4. CASE inflight[Caller[r]] # r
    BY <1>2, <1>4, Stutters DEF Concludes
  <1> QED BY <1>3, <1>4

(***************************************************************************)
(* Every step of the approval is a step of the promise, or none.           *)
(***************************************************************************)
LEMMA StepKept ==
    ASSUME Types, Joining, Asking, Telling, Next
    PROVE  Kept
  <1>1. ASSUME NEW r \in Reads, FirstPass(r)
        PROVE  Kept
    <2>0. /\ at[r] = "new" /\ r \in DOMAIN at /\ r \in DOMAIN why
          /\ \A s \in Reads \ {r} : at'[s] = at[s] /\ why'[s] = why[s]
      BY <1>1 DEF FirstPass, Done, Goes, Types
    <2>1. UNCHANGED <<guard, leader, inflight, consent>>
      BY <1>1 DEF FirstPass, screen
    <2>2. Stages' = [Stages EXCEPT ![r] = Stage(r)'] /\ Stages[r] = "new"
      BY <2>0, StageMoved DEF Stages, Stage
    <2>3. CASE guard = None /\ Done(r, "value")
      <3>1. Stage(r)' = "granted"
        BY <2>0, <2>3 DEF Done, Goes, Stage
      <3>2. Promised!Direct(r)
        BY <2>1, <2>2, <2>3, <3>1 DEF Promised!Direct, Stages
      <3> QED BY <3>2 DEF Kept, Promised!ConsentNext
    <2>4. CASE ~Admitted(r) /\ Done(r, "no")
      <3>1. Stage(r)' = "refused"
        BY <2>0, <2>4 DEF Done, Goes, Stage
      <3>2. Promised!Direct(r)
        BY <2>1, <2>2, <2>4, <3>1 DEF Promised!Direct, Promised!Allowed, Admitted, Stages
      <3> QED BY <3>2 DEF Kept, Promised!ConsentNext
    <2>5. CASE Goes(r, "gated") /\ UNCHANGED why
      <3>1. at'[r] = "gated"
        BY <2>0, <2>5 DEF Goes
      <3>2. Stages' = Stages
        BY <2>0, <3>1, StagesKept
      <3> QED BY <2>1, <3>2, Stutters
    <2> QED BY <1>1, <2>3, <2>4, <2>5 DEF FirstPass
  <1>2. ASSUME NEW r \in Reads, Follow(r)
        PROVE  Kept
    <2>0. /\ at[r] = "gated" /\ r \in DOMAIN at /\ r \in DOMAIN why
          /\ \A s \in Reads \ {r} : at'[s] = at[s] /\ why'[s] = why[s]
      BY <1>2 DEF Follow, Goes, Types
    <2>1. UNCHANGED <<guard, consent>>
      BY <1>2 DEF Follow, screen
    <2>2. Stages' = [Stages EXCEPT ![r] = "waiting"] /\ Stages[r] = "new"
      <3>1. Stage(r) = "new" /\ Stage(r)' = "waiting"
        BY <1>2, <2>0 DEF Follow, Goes, Stage
      <3> QED BY <2>0, <3>1, StageMoved DEF Stages
    <2> DEFINE first == inflight[Caller[r]]
    <2>3. first \in Open /\ Caller[first] = Caller[r]
      BY <1>2 DEF Follow, Joining, Asks, Open
    <2>4. leader' = [leader EXCEPT ![r] = first] /\ inflight' = inflight
      BY <1>2 DEF Follow
    <2> HIDE DEF first
    <2>5. Promised!Ask(r)
      BY <2>1, <2>2, <2>3, <2>4 DEF Promised!Ask, Stages, Open
    <2> QED BY <2>5 DEF Kept, Promised!ConsentNext
  <1>3. ASSUME NEW r \in Reads, NEW known \in BOOLEAN, Lead(r, known)
        PROVE  Kept
    <2>0. /\ at[r] = "gated" /\ r \in DOMAIN at /\ r \in DOMAIN why
          /\ \A s \in Reads \ {r} : at'[s] = at[s] /\ why'[s] = why[s]
      BY <1>3 DEF Lead, Goes, Types
    <2>1. UNCHANGED <<guard, consent>>
      BY <1>3 DEF Lead, screen
    <2>2. Stages' = [Stages EXCEPT ![r] = "waiting"] /\ Stages[r] = "new"
      <3>1. Stage(r) = "new" /\ Stage(r)' = "waiting"
        BY <1>3, <2>0 DEF Lead, Goes, Stage
      <3> QED BY <2>0, <3>1, StageMoved DEF Stages
    <2>3. leader' = [leader EXCEPT ![r] = r]
      BY <1>3 DEF Lead
    <2>4. Open' \in {Open, Open \cup {r}}
      <3>1. CASE known
        <4>1. /\ DOMAIN inflight = Asks /\ Caller[r] \in Asks /\ inflight[Caller[r]] = None
              /\ inflight' = [inflight EXCEPT ![Caller[r]] = r]
          BY <1>3, <3>1 DEF Lead, Joining, Asks
        <4>2. DOMAIN inflight' = Asks /\ r # None
          BY <4>1, ApprovalConstants
        <4>3. ASSUME NEW x PROVE x \in Open' <=> x \in Open \cup {r}
          BY <4>1, <4>2 DEF Open
        <4> QED BY <4>3
      <3>2. CASE ~known
        BY <1>3, <3>2 DEF Lead, Open
      <3> QED BY <3>1, <3>2
    <2>5. Promised!Ask(r)
      BY <2>1, <2>2, <2>3, <2>4 DEF Promised!Ask, Stages, Open
    <2> QED BY <2>5 DEF Kept, Promised!ConsentNext
  <1>4. ASSUME NEW r \in Reads, FollowTimeout(r)
        PROVE  Kept
    <2>0. /\ at[r] = "following" /\ r \in DOMAIN at /\ r \in DOMAIN why
          /\ \A s \in Reads \ {r} : at'[s] = at[s] /\ why'[s] = why[s]
      BY <1>4 DEF FollowTimeout, Done, Goes, Types
    <2>1. UNCHANGED <<guard, leader, inflight, consent>>
      BY <1>4 DEF FollowTimeout, screen
    <2>2. Stages' = [Stages EXCEPT ![r] = Stage(r)'] /\ Stages[r] = "waiting"
      BY <2>0, StageMoved DEF Stages, Stage
    <2>3. Kept
      <3>1. Stage(r)' = "refused"
        BY <1>4, <2>0 DEF FollowTimeout, Done, Goes, Stage
      <3>2. Stages' = [s \in Reads |-> IF s \in {r} THEN "refused" ELSE Stages[s]]
        BY <2>2, <3>1 DEF Stages
      <3>3. Promised!Refuse({r})
        BY <2>1, <2>2, <3>2 DEF Promised!Refuse, Stages
      <3> QED BY <3>3 DEF Kept, Promised!ConsentNext
    <2> QED BY <2>3
  <1>5. ASSUME NEW r \in Reads, Tell(r)
        PROVE  Kept
    <2> DEFINE told == {f \in Reads : at[f] = "following" /\ leader[f] = r} \cup {r}
    <2>1. UNCHANGED <<guard, leader, inflight, consent>>
      BY <1>5 DEF Tell, screen
    <2>2. /\ r \in told /\ told \subseteq Reads
          /\ \A f \in told : at[f] \in Awaiting
          /\ \A f \in Reads \ told : at'[f] = at[f] /\ why'[f] = why[f]
      BY <1>5 DEF Tell, Awaiting, Places
    <2>3. CASE why[r] = "yes"
      <3>1. \A f \in told : at'[f] = "approved"
        BY <1>5, <2>3 DEF Tell
      <3> HIDE DEF told
      <3>2. Stages' = Stages
        BY <2>2, <3>1, StagesKept DEF Awaiting, Places
      <3> QED BY <2>1, <3>2, Stutters
    <2>4. CASE why[r] # "yes"
      <3>1. \A f \in told : at'[f] = "done" /\ why'[f] # "value"
        BY <1>5, <2>4 DEF Tell, Telling
      <3> HIDE DEF told
      <3>2. \A f \in told : Stage(f) = "waiting" /\ Stage(f)' = "refused"
        BY <2>2, <3>1 DEF Stage, Awaiting, Places
      <3>3. \A f \in Reads \ told : Stage(f)' = Stage(f)
        BY <2>2, StageKept
      <3>4. Stages' = [s \in Reads |-> IF s \in told THEN "refused" ELSE Stages[s]]
        BY <2>2, <3>2, <3>3 DEF Stages
      <3>5. \A s \in told : Stages[s] = "waiting"
        BY <2>2, <3>2 DEF Stages
      <3>6. Promised!Refuse(told)
        BY <2>1, <2>2, <3>4, <3>5 DEF Promised!Refuse, Stages
      <3> QED BY <2>2, <3>6 DEF Kept, Promised!ConsentNext
    <2> QED BY <2>3, <2>4
  <1>6. ASSUME NEW r \in Reads, Finalize(r)
        PROVE  Kept
    <2>0. /\ at[r] = "approved" /\ r \in DOMAIN at /\ r \in DOMAIN why
          /\ \A s \in Reads \ {r} : at'[s] = at[s] /\ why'[s] = why[s]
      BY <1>6 DEF Finalize, Done, Goes, Types
    <2>1. UNCHANGED <<guard, leader, inflight, consent>>
      BY <1>6 DEF Finalize, screen
    <2>2. Stages' = [Stages EXCEPT ![r] = Stage(r)'] /\ Stages[r] = "waiting"
      BY <2>0, StageMoved DEF Stages, Stage
    <2>3. CASE Admitted(r)
      <3>1. Stage(r)' = "granted"
        BY <1>6, <2>0, <2>3 DEF Finalize, Done, Goes, Stage
      <3>2. consent[leader[r]] = "yes"
        BY <2>0 DEF Telling
      <3>3. Promised!Grant(r)
        BY <2>1, <2>2, <2>3, <3>1, <3>2 DEF Promised!Grant, Promised!Allowed, Admitted, Stages
      <3> QED BY <3>3 DEF Kept, Promised!ConsentNext
    <2>4. CASE ~Admitted(r)
      <3>1. Stage(r)' = "refused"
        BY <1>6, <2>0, <2>4 DEF Finalize, Done, Goes, Stage
      <3>2. Stages' = [s \in Reads |-> IF s \in {r} THEN "refused" ELSE Stages[s]]
        BY <2>2, <3>1 DEF Stages
      <3>3. Promised!Refuse({r})
        BY <2>1, <2>2, <3>2 DEF Promised!Refuse, Stages
      <3> QED BY <3>3 DEF Kept, Promised!ConsentNext
    <2> QED BY <2>3, <2>4
  <1>7. ASSUME NEW r \in Reads, Unavailable(r)
        PROVE  Kept
    <2>1. at[r] \in Leading /\ \E o : Concludes(r, o)
      BY <1>7 DEF Unavailable, Leading, Inside
    <2>2. UNCHANGED <<guard, consent>>
      BY <1>7 DEF Unavailable, screen
    <2> QED BY <2>1, <2>2, ConcludedKept
  <1>8. ASSUME NEW r \in Reads, Enter(r)
        PROVE  Kept
    <2>1. CASE ~Refused(r) /\ ~closed
      <3>1. UNCHANGED <<guard, leader, inflight, consent>>
        BY <1>8, <2>1, <2>1 DEF Enter, reads, screen, Dies
      <3>2. Stages' = Stages
        BY <1>8, <2>1, StagesKept DEF Enter, Concludes, Goes, Types, Awaiting, Places, reads
      <3> QED BY <3>1, <3>2, Stutters
    <2>2. CASE ~(~Refused(r) /\ ~closed)
      <3>1. at[r] \in Leading /\ \E o : Concludes(r, o)
        BY <1>8, <2>2, <2>2 DEF Enter, Leading, Inside
      <3>2. UNCHANGED <<guard, consent>>
        BY <1>8, <2>2, <2>2 DEF Enter, screen
      <3> QED BY <3>1, <3>2, ConcludedKept
    <2> QED BY <2>1, <2>2
  <1>9. ASSUME NEW r \in Reads, LockTimeout(r)
        PROVE  Kept
    <2>1. at[r] \in Leading /\ \E o : Concludes(r, o)
      BY <1>9 DEF LockTimeout, Leaves, Leading, Inside
    <2>2. UNCHANGED <<guard, consent>>
      BY <1>9 DEF LockTimeout, screen
    <2> QED BY <2>1, <2>2, ConcludedKept
  <1>10. ASSUME NEW r \in Reads, Acquire(r)
        PROVE  Kept
    <2>1. UNCHANGED <<guard, leader, inflight, consent>>
      BY <1>10 DEF Acquire, reads, screen, Dies
    <2>2. Stages' = Stages
      BY <1>10, StagesKept DEF Acquire, Goes, Types, Awaiting, Places, reads
    <2> QED BY <2>1, <2>2, Stutters
  <1>11. ASSUME NEW r \in Reads, ReadReply(r)
        PROVE  Kept
    <2>1. CASE Head(replies)[1] = r
      <3>1. at[r] \in Leading /\ \E o : Concludes(r, o)
        BY <1>11, <2>1, <2>1 DEF ReadReply, Leaves, Exchanging, Leading, Inside
      <3>2. UNCHANGED <<guard, consent>>
        BY <1>11, <2>1, <2>1 DEF ReadReply, screen
      <3> QED BY <3>1, <3>2, ConcludedKept
    <2>2. CASE ~(Head(replies)[1] = r)
      <3>1. UNCHANGED <<guard, leader, inflight, consent>>
        BY <1>11, <2>2, <2>2 DEF ReadReply, reads, screen, Dies
      <3>2. Stages' = Stages
        BY <1>11, <2>2, StagesKept DEF ReadReply, Leaves, Concludes, Goes, Exchanging, Types, Awaiting, Places, reads
      <3> QED BY <3>1, <3>2, Stutters
    <2> QED BY <2>1, <2>2
  <1>12. ASSUME NEW r \in Reads, ExchangeTimeout(r)
        PROVE  Kept
    <2>1. at[r] \in Leading /\ \E o : Concludes(r, o)
      BY <1>12 DEF ExchangeTimeout, Leaves, Exchanging, Leading, Inside
    <2>2. UNCHANGED <<guard, consent>>
      BY <1>12 DEF ExchangeTimeout, screen
    <2> QED BY <2>1, <2>2, ConcludedKept
  <1>13. ASSUME NEW r \in Reads, Retire(r)
        PROVE  Kept
    <2>1. UNCHANGED <<guard, leader, inflight, consent>>
      BY <1>13 DEF Retire, reads, screen, Dies
    <2>2. Stages' = Stages
      BY <1>13, StagesKept DEF Retire, Goes, Types, Awaiting, Places, reads
    <2> QED BY <2>1, <2>2, Stutters
  <1>14. ASSUME NEW r \in Reads, DiedAgain(r)
        PROVE  Kept
    <2>1. at[r] \in Leading /\ \E o : Concludes(r, o)
      BY <1>14 DEF DiedAgain, Leaves, Leading, Inside
    <2>2. UNCHANGED <<guard, consent>>
      BY <1>14 DEF DiedAgain, screen
    <2> QED BY <2>1, <2>2, ConcludedKept
  <1>15. ASSUME NEW r \in Reads, Respawn(r)
        PROVE  Kept
    <2>1. CASE closed
      <3>1. at[r] \in Leading /\ \E o : Concludes(r, o)
        BY <1>15, <2>1, <2>1 DEF Respawn, Leaves, Leading, Inside
      <3>2. UNCHANGED <<guard, consent>>
        BY <1>15, <2>1, <2>1 DEF Respawn, screen
      <3> QED BY <3>1, <3>2, ConcludedKept
    <2>2. CASE ~(closed)
      <3>1. UNCHANGED <<guard, leader, inflight, consent>>
        BY <1>15, <2>2, <2>2 DEF Respawn, reads, screen, Dies
      <3>2. Stages' = Stages
        BY <1>15, <2>2, StagesKept DEF Respawn, Leaves, Concludes, Goes, Types, Awaiting, Places, reads
      <3> QED BY <3>1, <3>2, Stutters
    <2> QED BY <2>1, <2>2
  <1>16. ASSUME NEW r \in Reads, Accepted(r)
        PROVE  Kept
    <2>1. UNCHANGED <<guard, leader, inflight, consent>>
      BY <1>16 DEF Accepted, reads, screen, Dies
    <2>2. Stages' = Stages
      BY <1>16, StagesKept DEF Accepted, Goes, Types, Awaiting, Places, reads
    <2> QED BY <2>1, <2>2, Stutters
  <1>17. ASSUME NEW r \in Reads, NotAccepted(r)
        PROVE  Kept
    <2>1. at[r] \in Leading /\ \E o : Concludes(r, o)
      BY <1>17 DEF NotAccepted, Leaves, Leading, Inside
    <2>2. UNCHANGED <<guard, consent>>
      BY <1>17 DEF NotAccepted, screen
    <2> QED BY <2>1, <2>2, ConcludedKept
  <1>18. ASSUME SlotReady
        PROVE  Kept
    <2>1. UNCHANGED <<guard, leader, inflight, consent>>
      BY <1>18 DEF SlotReady, reads, screen, Dies
    <2>2. Stages' = Stages
      BY <1>18, StagesKept DEF SlotReady, Types, Awaiting, Places, reads
    <2> QED BY <2>1, <2>2, Stutters
  <1>19. ASSUME SlotDown
        PROVE  Kept
    <2>1. UNCHANGED <<guard, leader, inflight, consent>>
      BY <1>19 DEF SlotDown, reads, screen, Dies
    <2>2. Stages' = Stages
      BY <1>19, StagesKept DEF SlotDown, Types, Awaiting, Places, reads
    <2> QED BY <2>1, <2>2, Stutters
  <1>20. ASSUME HelperDies
        PROVE  Kept
    <2>1. UNCHANGED <<guard, leader, inflight, consent>>
      BY <1>20 DEF HelperDies, reads, screen, Dies
    <2>2. Stages' = Stages
      BY <1>20, StagesKept DEF HelperDies, Dies, Types, Awaiting, Places, reads
    <2> QED BY <2>1, <2>2, Stutters
  <1>21. ASSUME Latch
        PROVE  Kept
    <2>1. UNCHANGED <<guard, leader, inflight, consent>>
      BY <1>21 DEF Latch, reads, screen, Dies
    <2>2. Stages' = Stages
      BY <1>21, StagesKept DEF Latch, Types, Awaiting, Places, reads
    <2> QED BY <2>1, <2>2, Stutters
  <1>22. ASSUME Kill
        PROVE  Kept
    <2>1. UNCHANGED <<guard, leader, inflight, consent>>
      BY <1>22 DEF Kill, reads, screen, Dies
    <2>2. Stages' = Stages
      BY <1>22, StagesKept DEF Kill, Dies, Types, Awaiting, Places, reads
    <2> QED BY <2>1, <2>2, Stutters
  <1>23. ASSUME Dispose
        PROVE  Kept
    <2>1. UNCHANGED <<guard, leader, inflight, consent>>
      BY <1>23 DEF Dispose, reads, screen, Dies
    <2>2. Stages' = Stages
      BY <1>23, StagesKept DEF Dispose, Types, Awaiting, Places, reads
    <2> QED BY <2>1, <2>2, Stutters
  <1>24. ASSUME NEW v \in {"yes", "no"}, Answer(v)
        PROVE  Kept
    <2> DEFINE h == Head(asked)
    <2>1. /\ asked # <<>> /\ consent' = [consent EXCEPT ![h] = v]
          /\ UNCHANGED <<guard, at, why, leader, inflight>>
      BY <1>24 DEF Answer, reads
    <2>2. h \in Reads /\ consent[h] = None /\ leader[h] = h
      <3>1. h \in Reads /\ h = asked[1] /\ 1 \in DOMAIN asked
        BY <2>1, TailRest DEF Types
      <3> QED BY <3>1 DEF Asking
    <2> HIDE DEF h
    <2>3. Stages' = Stages
      BY <2>1, StagesKept
    <2>4. Promised!Decide(h)
      BY <2>1, <2>2, <2>3 DEF Promised!Decide, Stages
    <2> QED BY <2>2, <2>4 DEF Kept, Promised!ConsentNext
  <1>25. ASSUME NEW g \in Guards \cup {None}, KvSet(g)
        PROVE  Kept
    <2>1. guard' \in Guards \cup {None} /\ UNCHANGED <<at, why, leader, inflight, consent>>
      BY <1>25 DEF KvSet, reads, screen
    <2>2. Stages' = Stages
      BY <2>1, StagesKept
    <2>3. Promised!SetGuard
      BY <2>1, <2>2 DEF Promised!SetGuard, Stages
    <2> QED BY <2>3 DEF Kept, Promised!ConsentNext
  <1> QED BY <1>1, <1>2, <1>3, <1>4, <1>5, <1>6, <1>7, <1>8, <1>9, <1>10, <1>11, <1>12, <1>13, <1>14, <1>15, <1>16, <1>17, <1>18, <1>19, <1>20, <1>21, <1>22, <1>23, <1>24, <1>25
            DEF Next, Proceed, Attempt, Quit

(***************************************************************************)
(* The approval implements the safety of Consent: a read of a guarded key  *)
(* is granted only after a yes to the prompt it waits for, which only reads *)
(* of the same caller share, and only if the guard in the store by then    *)
(* admits the caller; no prompt is answered twice, and what a late answer, *)
(* a dead helper, its respawn or the shutdown leaves behind grants nothing. *)
(* (server.rs await_dialog_outcome, guarded_get_finalize_after_approval;   *)
(* approver.rs request, do_exchange)                                       *)
(***************************************************************************)
THEOREM KeepsPromiseSafely ==
    Spec => Promised!ConsentInit /\ [][Promised!ConsentNext]_(Promised!consentVars)
  <1>1. Init => Promised!ConsentInit
    <2> SUFFICES ASSUME Init PROVE Promised!ConsentInit
      OBVIOUS
    <2>1. Stages = [r \in Reads |-> "new"]
      BY DEF Init, Stages, Stage
    <2>2. Open = {}
      BY DEF Init, Open
    <2> QED BY <2>1, <2>2 DEF Init, Promised!ConsentInit, Stages, Open
  <1>2. IInv /\ [Next]_vars => [Promised!ConsentNext]_(Promised!consentVars)
    <2> SUFFICES ASSUME IInv, [Next]_vars PROVE Kept
      BY DEF Kept
    <2>1. CASE Next
      BY <2>1, StepKept DEF IInv
    <2>2. CASE UNCHANGED vars
      <3>1. UNCHANGED <<guard, at, why, leader, inflight, consent>>
        BY <2>2 DEF vars, reads, screen
      <3>2. Stages' = Stages
        BY <3>1, StagesKept
      <3> QED BY <3>1, <3>2, Stutters
    <2> QED BY <2>1, <2>2
  <1> QED BY <1>1, <1>2, ApprovalInvariant, PTL DEF Spec

=============================================================================
