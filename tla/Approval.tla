------------------------------- MODULE Approval -------------------------------
(***************************************************************************)
(* Reads of a guarded key, from the request to the answer: the first pass  *)
(* under the store's lock, the wait for the approver helper (server.rs     *)
(* ApproverSlot), the one connection to it that all prompts share          *)
(* (approver.rs ApproverClient), the helper and its dialogs (crates/       *)
(* cache-warden-approver), the second pass, and the shutdown of the helper *)
(* when the daemon stops or restarts.                                      *)
(*                                                                         *)
(* A read stands for one kv.get or one ssh signature (authsock.rs          *)
(* sign_request runs the same two passes around the same dialog).  Every   *)
(* timeout is a step that may be taken as soon as the wait has begun.      *)
(***************************************************************************)
EXTENDS Naturals, Sequences, FiniteSets, SequencesExt

CONSTANTS
    Reads,
    Caller,       \* the CoalesceKey of each read: who asks, to do what
    Guards,
    Admits,       \* <<guard, caller>> if guard::evaluate passes
    MaxPending,   \* MAX_PENDING_REQUESTS
    MaxSets,      \* kv.set requests in one behaviour
    MaxDeaths,    \* times the helper dies by itself in one behaviour
    MaxAtStop,    \* reads in a behaviour in which the daemon stops
    Shutdown,     \* ApproverClient::shutdown, among those who wait for the lock
    None

ASSUME ApprovalConstants ==
    /\ Caller \in [Reads -> {Caller[r] : r \in Reads}]
    /\ None \notin Reads \cup Guards \cup {"yes", "no", "full", "value"}
    /\ IsFiniteSet(Reads) /\ Shutdown \notin Reads
    /\ MaxPending \in Nat \ {0}

VARIABLES
    guard,        \* the guard record in the store
    at, why,      \* where a read is, and what it was answered
    leader,       \* the read whose dialog it waits for
    inflight,     \* ApproverSlot.inflight
    slot,         \* ApproverState
    pending,      \* ApproverClient.pending
    turn,         \* who holds ApproverClient.inner (the head), and who waits
    conn,         \* InnerState.conn is Some
    pid,          \* helper_pid is not 0
    closed,
    quitting,     \* how far the shutdown is
    helper,       \* the latest helper process
    asked,        \* what it has been sent and has not answered; the head is on screen
    replies,      \* what it has answered and the daemon has not read
    consent,      \* what the user said to the dialog of a read
    sets, deaths

reads  == <<at, why, leader, inflight>>
client == <<slot, pending, turn, conn, pid, closed, quitting>>
screen == <<helper, asked, replies, consent>>
vars   == <<guard, reads, client, screen, sets, deaths>>

Places == {"new", "gated", "following", "starting", "queued", "asking", "retiring",
           "spawning", "reasking", "telling", "approved", "done"}

\* The places between ApproverClient::request's entry and its return.
Inside == {"queued", "asking", "retiring", "spawning", "reasking"}

(***************************************************************************)
(* The answers of a dialog, and of a request.  ApprovalOutcome tells more  *)
(* ways to fail apart; to whoever asked they are all refusals.             *)
(***************************************************************************)
Outcomes == {"yes", "no", "full", "value"}

TypeOK ==
    /\ guard \in Guards \cup {None}
    /\ at \in [Reads -> Places] /\ why \in [Reads -> Outcomes \cup {None}]
    /\ leader \in [Reads -> Reads \cup {None}]
    /\ slot \in {"Starting", "Ready", "Down"}
    /\ pending = Cardinality({r \in Reads : at[r] \in Inside})
    /\ IsInjective(turn) /\ ToSet(turn) \subseteq Reads \cup {Shutdown}
    /\ \A r \in Reads : at[r] \in Inside <=> r \in ToSet(turn)
    /\ conn \in BOOLEAN /\ pid \in BOOLEAN /\ closed \in BOOLEAN
    /\ quitting \in {"no", "latched", "locking", "over"}
    /\ helper \in {"none", "booting", "up", "dead"}
    /\ asked \in Seq(Reads) /\ replies \in Seq(Reads \X {"yes", "no"})
    /\ consent \in [Reads -> {"yes", "no", None}]

Init ==
    /\ guard \in Guards \cup {None} /\ sets = 0 /\ deaths = 0
    /\ at = [r \in Reads |-> "new"] /\ why = [r \in Reads |-> None]
    /\ leader = [r \in Reads |-> None]
    /\ inflight = [c \in {Caller[r] : r \in Reads} |-> None]
    /\ slot = "Starting" /\ pending = 0 /\ turn = <<>> /\ conn = FALSE /\ pid = FALSE
    /\ closed = FALSE /\ quitting = "no"
    /\ helper = "none" /\ asked = <<>> /\ replies = <<>>
    /\ consent = [r \in Reads |-> None]

Goes(r, place) == at' = [at EXCEPT ![r] = place]

Done(r, outcome) == Goes(r, "done") /\ why' = [why EXCEPT ![r] = outcome]

\* Bound: where the daemon stops there are at most MaxAtStop reads.
Come == {r \in Reads : at[r] # "new"}

Admitted(r) == guard = None \/ <<guard, Caller[r]>> \in Admits

-----------------------------------------------------------------------------
(* The request *)

(***************************************************************************)
(* guarded_get_first_pass and local_sign_first_pass.                       *)
(***************************************************************************)
FirstPass(r) ==
    /\ at[r] = "new" /\ (quitting = "no" \/ Cardinality(Come) < MaxAtStop)
    /\ \/ guard = None /\ Done(r, "value")
       \/ ~Admitted(r) /\ Done(r, "no")
       \/ guard # None /\ Admitted(r) /\ Goes(r, "gated") /\ UNCHANGED why
    /\ UNCHANGED <<guard, leader, inflight, client, screen, sets, deaths>>

(***************************************************************************)
(* ApproverSlot::await_dialog_outcome: join the dialog that asks the same  *)
(* question, or lead.                                                      *)
(***************************************************************************)
Follow(r) ==
    LET first == inflight[Caller[r]] IN
    /\ at[r] = "gated" /\ first # None
    /\ Goes(r, "following") /\ leader' = [leader EXCEPT ![r] = first]
    /\ UNCHANGED <<guard, why, inflight, client, screen, sets, deaths>>

(***************************************************************************)
(* Without an audit token the caller is not known, and nobody may join.    *)
(***************************************************************************)
Lead(r, known) ==
    /\ at[r] = "gated" /\ (known => inflight[Caller[r]] = None)
    /\ Goes(r, "starting") /\ leader' = [leader EXCEPT ![r] = r]
    /\ inflight' = IF known THEN [inflight EXCEPT ![Caller[r]] = r] ELSE inflight
    /\ UNCHANGED <<guard, why, client, screen, sets, deaths>>

(***************************************************************************)
(* follow_inflight gives up.  The leader's future is never dropped before  *)
(* it has an answer: handle_connection awaits it to the end.               *)
(***************************************************************************)
FollowTimeout(r) ==
    /\ at[r] = "following" /\ Done(r, "no")
    /\ UNCHANGED <<guard, leader, inflight, client, screen, sets, deaths>>

\* Slip: the entry of a dialog that is over stays.
ConcludesUnretired(r, outcome) ==
    /\ Goes(r, "telling") /\ why' = [why EXCEPT ![r] = outcome]
    /\ UNCHANGED <<leader, inflight>>

(***************************************************************************)
(* The leader has an outcome: it retires the entry, and then tells.        *)
(***************************************************************************)
Concludes(r, outcome) ==
    /\ Goes(r, "telling") /\ why' = [why EXCEPT ![r] = outcome]
    /\ inflight' = IF inflight[Caller[r]] = r THEN [inflight EXCEPT ![Caller[r]] = None]
                   ELSE inflight
    /\ UNCHANGED leader

Tell(r) ==
    LET told == {f \in Reads : at[f] = "following" /\ leader[f] = r} \cup {r} IN
    /\ at[r] = "telling"
    /\ at' = [f \in Reads |-> IF f \notin told THEN at[f]
                              ELSE IF why[r] = "yes" THEN "approved" ELSE "done"]
    /\ why' = [f \in Reads |-> IF f \in told THEN why[r] ELSE why[f]]
    /\ UNCHANGED <<guard, leader, inflight, client, screen, sets, deaths>>

\* Slip: the approval is taken as the last word.
FinalizeAtOnce(r) ==
    /\ at[r] = "approved" /\ Done(r, "value")
    /\ UNCHANGED <<guard, leader, inflight, client, screen, sets, deaths>>

(***************************************************************************)
(* guarded_get_finalize_after_approval, local_sign_finalize_after_approval *)
(***************************************************************************)
Finalize(r) ==
    /\ at[r] = "approved" /\ Done(r, IF Admitted(r) THEN "value" ELSE "no")
    /\ UNCHANGED <<guard, leader, inflight, client, screen, sets, deaths>>

-----------------------------------------------------------------------------
(* ApproverSlot::wait_ready *)

Unavailable(r) ==
    /\ at[r] = "starting" /\ slot # "Ready" /\ Concludes(r, "no")
    /\ UNCHANGED <<guard, client, screen, sets, deaths>>

(***************************************************************************)
(* The task that starts the helper (server.rs run, ApproverClient::start). *)
(***************************************************************************)
SlotReady ==
    /\ slot = "Starting"
    /\ slot' = "Ready" /\ conn' = TRUE /\ pid' = TRUE /\ helper' = "up"
    /\ UNCHANGED <<guard, reads, pending, turn, closed, quitting, asked, replies, consent,
                   sets, deaths>>

SlotDown ==
    /\ slot = "Starting" /\ slot' = "Down"
    /\ UNCHANGED <<guard, reads, pending, turn, conn, pid, closed, quitting, screen, sets,
                   deaths>>

-----------------------------------------------------------------------------
(* ApproverClient::request *)

\* The mutex's queue when one who waits or holds it lets go.
Without(q, r) == RemoveAt(q, CHOOSE i \in DOMAIN q : q[i] = r)

Refused(r) == pending + 1 > MaxPending

Enter(r) ==
    /\ at[r] = "starting" /\ slot = "Ready"
    /\ \/ Refused(r) /\ Concludes(r, "full") /\ UNCHANGED <<pending, turn>>
       \/ ~Refused(r) /\ closed /\ Concludes(r, "no") /\ UNCHANGED <<pending, turn>>
       \/ /\ ~Refused(r) /\ ~closed
          /\ Goes(r, "queued") /\ pending' = pending + 1 /\ turn' = Append(turn, r)
          /\ UNCHANGED <<why, leader, inflight>>
    /\ UNCHANGED <<guard, slot, conn, pid, closed, quitting, screen, sets, deaths>>

\* Slip: the place in the queue is given back only by those who had their turn.
LeavesLate(r, outcome) ==
    /\ Concludes(r, outcome)
    /\ turn' = Without(turn, r)
    /\ pending' = IF Head(turn) = r THEN pending - 1 ELSE pending

(***************************************************************************)
(* request returns: PendingGuard and the lock are dropped.                 *)
(***************************************************************************)
Leaves(r, outcome) ==
    /\ Concludes(r, outcome)
    /\ turn' = Without(turn, r)
    /\ pending' = pending - 1

LockTimeout(r) ==
    /\ at[r] = "queued" /\ Head(turn) # r
    /\ Leaves(r, "no")
    /\ UNCHANGED <<guard, slot, conn, pid, closed, quitting, screen, sets, deaths>>

(***************************************************************************)
(* The first attempt, on the connection there is.  A dead helper is only   *)
(* noticed when its answer is read.                                        *)
(***************************************************************************)
Acquire(r) ==
    /\ at[r] = "queued" /\ Head(turn) = r
    /\ Goes(r, IF conn THEN "asking" ELSE "retiring")
    /\ asked' = IF conn /\ helper = "up" THEN Append(asked, r) ELSE asked
    /\ UNCHANGED <<guard, why, leader, inflight, client, helper, replies, consent, sets,
                   deaths>>

Exchanging(r) == at[r] \in {"asking", "reasking"}

\* Slip: whatever is read answers whoever is reading.
ReadReplyAny(r) ==
    /\ Exchanging(r) /\ replies # <<>>
    /\ replies' = Tail(replies)
    /\ Leaves(r, Head(replies)[2])
    /\ UNCHANGED <<guard, slot, conn, pid, closed, quitting, helper, asked, consent, sets,
                   deaths>>

(***************************************************************************)
(* do_exchange reads a line: the answer, or one that came too late for the *)
(* request that asked for it.                                              *)
(***************************************************************************)
ReadReply(r) ==
    /\ Exchanging(r) /\ replies # <<>>
    /\ replies' = Tail(replies)
    /\ IF Head(replies)[1] = r THEN Leaves(r, Head(replies)[2])
       ELSE UNCHANGED <<reads, turn, pending>>
    /\ UNCHANGED <<guard, slot, conn, pid, closed, quitting, helper, asked, consent, sets,
                   deaths>>

\* Slip: only the first attempt is bounded.
ExchangeTimeoutOnce(r) ==
    /\ at[r] = "asking" /\ Leaves(r, "no")
    /\ UNCHANGED <<guard, slot, conn, pid, closed, quitting, screen, sets, deaths>>

(***************************************************************************)
(* The helper does not answer in time.  The connection stays, and so does  *)
(* the dialog.                                                             *)
(***************************************************************************)
ExchangeTimeout(r) ==
    /\ Exchanging(r) /\ Leaves(r, "no")
    /\ UNCHANGED <<guard, slot, conn, pid, closed, quitting, screen, sets, deaths>>

(***************************************************************************)
(* End of file.  After the first attempt the connection is disposed of,    *)
(* which kills the helper; a second end of file is final.                  *)
(***************************************************************************)
Retire(r) ==
    /\ at[r] = "asking" /\ replies = <<>> /\ helper = "dead"
    /\ Goes(r, "retiring") /\ conn' = FALSE /\ pid' = FALSE
    /\ UNCHANGED <<guard, why, leader, inflight, slot, pending, turn, closed, quitting, screen,
                   sets, deaths>>

DiedAgain(r) ==
    /\ at[r] = "reasking" /\ replies = <<>> /\ helper = "dead"
    /\ Leaves(r, "no")
    /\ UNCHANGED <<guard, slot, conn, pid, closed, quitting, screen, sets, deaths>>

Respawn(r) ==
    /\ at[r] = "retiring"
    /\ IF closed THEN Leaves(r, "no") /\ UNCHANGED <<helper, asked, replies>>
       ELSE /\ Goes(r, "spawning")
            /\ helper' = "booting" /\ asked' = <<>> /\ replies' = <<>>
            /\ UNCHANGED <<why, leader, inflight, pending, turn>>
    /\ UNCHANGED <<guard, slot, conn, pid, closed, quitting, consent, sets, deaths>>

(***************************************************************************)
(* accept_verified has let the new helper in; the second attempt begins.   *)
(***************************************************************************)
Accepted(r) ==
    /\ at[r] = "spawning"
    /\ Goes(r, "reasking")
    /\ helper' = "up" /\ pid' = TRUE /\ conn' = TRUE /\ asked' = <<r>>
    /\ UNCHANGED <<guard, why, leader, inflight, slot, pending, turn, closed, quitting,
                   replies, consent, sets, deaths>>

NotAccepted(r) ==
    /\ at[r] = "spawning" /\ Leaves(r, "no")
    /\ helper' = "none"
    /\ UNCHANGED <<guard, slot, conn, pid, closed, quitting, asked, replies, consent, sets,
                   deaths>>

-----------------------------------------------------------------------------
(* The helper and its user *)

(***************************************************************************)
(* The dialog on screen is finished: the finger, a refusal, or its own     *)
(* countdown.  Whoever takes the pending slot first writes the response,   *)
(* and the reader thread goes on to the next request.                      *)
(***************************************************************************)
Answer(v) ==
    /\ helper = "up" /\ asked # <<>>
    /\ asked' = Tail(asked)
    /\ replies' = Append(replies, <<Head(asked), v>>)
    /\ consent' = [consent EXCEPT ![Head(asked)] = v]
    /\ UNCHANGED <<guard, reads, client, helper, sets, deaths>>

Dies == helper' = "dead" /\ asked' = <<>> /\ UNCHANGED <<replies, consent>>

HelperDies ==
    /\ helper = "up" /\ deaths < MaxDeaths /\ deaths' = deaths + 1
    /\ Dies
    /\ UNCHANGED <<guard, reads, client, sets>>

(***************************************************************************)
(* A kv.set replaces the guard record, or drops it.                        *)
(***************************************************************************)
KvSet(g) ==
    /\ sets < MaxSets /\ sets' = sets + 1
    /\ guard' = g
    /\ UNCHANGED <<reads, client, screen, deaths>>

-----------------------------------------------------------------------------
(* ApproverClient::shutdown, called by run if the slot is ready *)

Latch ==
    /\ quitting = "no" /\ Cardinality(Come) <= MaxAtStop
    /\ IF slot = "Ready" THEN closed' = TRUE /\ quitting' = "latched"
       ELSE quitting' = "over" /\ UNCHANGED closed
    /\ UNCHANGED <<guard, reads, slot, pending, turn, conn, pid, screen, sets, deaths>>

Kill ==
    /\ quitting = "latched" /\ quitting' = "locking"
    /\ pid' = FALSE
    /\ IF pid /\ helper = "up" THEN Dies ELSE UNCHANGED screen
    /\ turn' = Append(turn, Shutdown)
    /\ UNCHANGED <<guard, reads, slot, pending, conn, closed, sets, deaths>>

Dispose ==
    /\ quitting = "locking" /\ Head(turn) = Shutdown
    /\ quitting' = "over" /\ turn' = Tail(turn) /\ conn' = FALSE
    /\ IF conn THEN helper' = "none" /\ asked' = <<>> /\ replies' = <<>>
       ELSE UNCHANGED <<helper, asked, replies>>
    /\ UNCHANGED <<guard, reads, slot, pending, pid, closed, consent, sets, deaths>>

-----------------------------------------------------------------------------

Attempt(r) ==
    \/ LockTimeout(r) \/ Acquire(r) \/ ReadReply(r) \/ ExchangeTimeout(r)
    \/ Retire(r) \/ DiedAgain(r) \/ Respawn(r) \/ Accepted(r) \/ NotAccepted(r)

Proceed(r) ==
    \/ Follow(r) \/ (\E known \in BOOLEAN : Lead(r, known)) \/ FollowTimeout(r) \/ Tell(r) \/ Finalize(r)
    \/ Unavailable(r) \/ Enter(r) \/ Attempt(r)

Quit == Kill \/ Dispose

Next ==
    \/ \E r \in Reads : FirstPass(r) \/ Proceed(r)
    \/ SlotReady \/ SlotDown
    \/ \E v \in {"yes", "no"} : Answer(v)
    \/ HelperDies
    \/ \E g \in Guards \cup {None} : KvSet(g)
    \/ Latch \/ Quit

(***************************************************************************)
(* A timer bounds every wait of a read, tokio's mutex is fair, and the     *)
(* shutdown task runs.  The user and the helper owe nothing.               *)
(***************************************************************************)
Spec ==
    /\ Init /\ [][Next]_vars
    /\ \A r \in Reads : WF_vars(Proceed(r))
    /\ WF_vars(Quit)

-----------------------------------------------------------------------------
(* Properties *)

Stage(r) ==
    CASE at[r] \in {"new", "gated"} -> "new"
      [] at[r] = "done" -> IF why[r] = "value" THEN "granted" ELSE "refused"
      [] OTHER -> "waiting"

Promised == INSTANCE Consent WITH
    stage <- [r \in Reads |-> Stage(r)],
    prompt <- leader,
    open <- {inflight[c] : c \in DOMAIN inflight} \ {None}

(***************************************************************************)
(* Coalescing, the queue, late answers, dead helpers, respawns and the     *)
(* shutdown implement the promise of Consent: a read is granted only if    *)
(* the user said yes to the prompt it waited for and the guard then in the *)
(* store admits the caller, and every read that waits is answered.         *)
(***************************************************************************)
KeepsPromise == Promised!ConsentSpec

(***************************************************************************)
(* Nobody waits for a dialog that is over: whoever joined a leader joined  *)
(* before it retired and is told by it.  (server.rs await_dialog_outcome,  *)
(* "retire the entry before publishing")                                   *)
(***************************************************************************)
NobodyWaitsInVain ==
    \A r \in Reads : at[r] = "following" =>
        at[leader[r]] \in Inside \cup {"starting", "telling"}

(***************************************************************************)
(* The shutdown of the helper comes to its end whatever the user does, and *)
(* no helper is left that was connected when it began.  (approver.rs       *)
(* shutdown; DR-0031 section 10)                                           *)
(***************************************************************************)
ShutdownEnds == closed ~> (quitting = "over" /\ helper # "up")

(***************************************************************************)
(* What comments promise and the code does not keep.                       *)
(***************************************************************************)

(***************************************************************************)
(* Once the shutdown has killed the helper, no dialog comes up.            *)
(* (approver.rs closed: a pending request "does not resurrect a fresh      *)
(* helper" and put a dialog on screen)                                     *)
(***************************************************************************)
NoDialogAfterShutdown == [][quitting = "locking" => Len(asked') <= Len(asked)]_vars

=============================================================================
