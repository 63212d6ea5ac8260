------------------------------- MODULE Ceremony -------------------------------
(***************************************************************************)
(* The passkey ceremony (crates/cache-warden-cli/src/daemon/ceremony): the *)
(* pages that register a passkey or unlock the vault with one, the         *)
(* challenges they answer, and the registration window `vault add-passkey` *)
(* opens; beside them the requests on the control socket that lock the     *)
(* vault and unlock it with the recovery code.                             *)
(*                                                                         *)
(* Each runs on a thread of its own and takes the mutexes it needs one     *)
(* after the other, so a request is a sequence of steps: Take for each     *)
(* mutex, and the work under them.  The vault exists, and holds one        *)
(* persisted entry.                                                        *)
(***************************************************************************)
EXTENDS Naturals, Sequences, FiniteSets

CONSTANTS
    Pages,           \* browser pages
    Clients,         \* connections to the control socket
    Window,          \* REGISTRATION_WINDOW
    Ttl,             \* CHALLENGE_TTL
    MaxOutstanding,  \* MAX_OUTSTANDING
    MaxTime,         \* the clock stops here
    MaxPosts,        \* requests of pages in one behaviour
    MaxCalls,        \* requests of clients in one behaviour
    None

ASSUME CeremonyConstants ==
    /\ Pages \cap Clients = {} /\ None \notin Pages \cup Clients \cup Nat
    /\ {Window, Ttl, MaxOutstanding} \subseteq Nat \ {0} /\ MaxTime \in Nat

VARIABLES
    now,
    vault,         \* VaultState: "Locked" or "Unlocked"
    slots,         \* its passkey slots
    resident,      \* the persisted entry is in the store
    armed,         \* Ceremony.armed
    outstanding,   \* Ceremony.challenges
    issued,        \* how many challenges were drawn so far
    holder,        \* who holds each mutex
    doing, taken,  \* the request a thread serves, and how many mutexes it has taken
    page,          \* what a page was last told by /begin
    posts, calls,
    armings,       \* history: windows opened after an approval
    spent,         \* history: the challenges responses named
    uses           \* history: how often each challenge let something through

daemon  == <<vault, slots, resident, armed, outstanding, issued>>
threads == <<holder, doing, taken>>
ends    == <<page, posts, calls>>
history == <<armings, spent, uses>>
vars    == <<now, daemon, threads, ends, history>>

Threads == Pages \cup Clients

(***************************************************************************)
(* The mutexes a thread has taken, in this order, by the end of each part  *)
(* of a request.  "add_slot" goes on from "register", "install" from       *)
(* "unlock", "reinstall" from "recover" and "evict" from "lock", with the  *)
(* mutexes they have.  add_passkey looks at the vault ("ask"), lets go of  *)
(* it while the user is asked, and then arms the ceremony.                 *)
(***************************************************************************)
OrderVaultFirst ==
    [begin    |-> <<"ceremony", "vault">>, evaluate  |-> <<"ceremony">>,
     register |-> <<"ceremony">>,          add_slot  |-> <<"ceremony", "vault">>,
     unlock   |-> <<"ceremony", "vault", "store">>,
     install  |-> <<"ceremony", "vault", "store">>,
     recover  |-> <<"store", "vault">>,    reinstall |-> <<"store", "vault">>,
     lock     |-> <<"store", "vault">>,    evict     |-> <<"store", "vault">>,
     ask      |-> <<"vault">>,             arm       |-> <<"ceremony">>]

Order ==
    [begin    |-> <<"ceremony", "vault">>, evaluate  |-> <<"ceremony">>,
     register |-> <<"ceremony">>,          add_slot  |-> <<"ceremony", "vault">>,
     unlock   |-> <<"ceremony", "store", "vault">>,
     install  |-> <<"ceremony", "store", "vault">>,
     recover  |-> <<"store", "vault">>,    reinstall |-> <<"store", "vault">>,
     lock     |-> <<"store", "vault">>,    evict     |-> <<"store", "vault">>,
     ask      |-> <<"vault">>,             arm       |-> <<"ceremony">>]

Mutexes == {"ceremony", "store", "vault"}

ASSUME NoneIsNothing ==
    None \notin DOMAIN Order \cup {"dialog", "register", "unlock"} \cup [salt : Nat, expires : Nat]

(***************************************************************************)
(* Challenges and salts are random, so each is a number of its own.  A     *)
(* slot holds the salt it will be unlocked with, and the salt its key was  *)
(* derived with.                                                           *)
(***************************************************************************)
Challenges == [id : Nat, purpose : {"RegisterPasskey", "Unlock"}, expires : Nat]

NoPage == [mode |-> None, id |-> None, expires |-> 0, salt |-> None]

TypeOK ==
    /\ now \in 0..MaxTime
    /\ vault \in {"Locked", "Unlocked"} /\ resident \in BOOLEAN
    /\ slots \in Seq([salt : Nat, key : Nat])
    /\ armed = None \/ armed \in [salt : Nat, expires : Nat]
    /\ outstanding \subseteq Challenges /\ Cardinality(outstanding) <= MaxOutstanding
    /\ holder \in [Mutexes -> Threads \cup {None}]
    /\ doing \in [Threads -> DOMAIN Order \cup {None, "dialog"}]
    /\ taken \in [Threads -> 0..3]
    /\ \A t \in Threads, m \in Mutexes :
          holder[m] = t <=> \E i \in 1..taken[t] : Order[doing[t]][i] = m

(***************************************************************************)
(* The vault may have a passkey from an earlier ceremony.                  *)
(***************************************************************************)
Init ==
    /\ now = 0
    /\ vault \in {"Locked", "Unlocked"} /\ resident = (vault = "Unlocked")
    /\ armings \in {0, 1}
    /\ slots = [i \in 1..armings |-> [salt |-> i, key |-> i]]
    /\ armed = None /\ outstanding = {} /\ issued = 0
    /\ holder = [m \in Mutexes |-> None]
    /\ doing = [t \in Threads |-> None] /\ taken = [t \in Threads |-> 0]
    /\ page = [p \in Pages |-> NoPage]
    /\ posts = 0 /\ calls = 0
    /\ spent = {} /\ uses = [i \in 1..MaxPosts |-> 0]

Tick ==
    /\ now < MaxTime /\ now' = now + 1
    /\ UNCHANGED <<daemon, threads, ends, history>>

-----------------------------------------------------------------------------
(* Threads and mutexes *)

Arrives(t, request) ==
    /\ doing[t] = None
    /\ doing' = [doing EXCEPT ![t] = request]

Take(t) ==
    /\ doing[t] \in DOMAIN Order /\ taken[t] < Len(Order[doing[t]])
    /\ LET m == Order[doing[t]][taken[t] + 1] IN
          holder[m] = None /\ holder' = [holder EXCEPT ![m] = t]
    /\ taken' = [taken EXCEPT ![t] = @ + 1]
    /\ UNCHANGED <<now, daemon, doing, ends, history>>

\* A thread has all the mutexes its request needs.
Ready(t, request) == doing[t] = request /\ taken[t] = Len(Order[request])

(***************************************************************************)
(* All mutexes are let go of; the request is over, or goes on as another.  *)
(***************************************************************************)
GoesOnAs(t, request) ==
    /\ doing' = [doing EXCEPT ![t] = request]
    /\ taken' = [taken EXCEPT ![t] = 0]
    /\ holder' = [m \in Mutexes |-> IF holder[m] = t THEN None ELSE holder[m]]

Answers(t) == GoesOnAs(t, None)

\* The request goes on with the mutexes it has.
GoesOn(t, request) == doing' = [doing EXCEPT ![t] = request] /\ UNCHANGED <<holder, taken>>

-----------------------------------------------------------------------------
(* ceremony/challenge.rs *)

Live == {c \in outstanding : c.expires > now}

\* Slip: one challenge too many.
FullLate == Cardinality(Live) > MaxOutstanding

Full == Cardinality(Live) >= MaxOutstanding

\* Slip: a full store makes room by dropping the oldest challenge.
IssueEvicting(purpose) ==
    LET oldest == {c \in Live : \A d \in Live : c.id <= d.id}
        kept   == IF Full THEN Live \ oldest ELSE Live IN
    /\ issued' = issued + 1
    /\ outstanding' = kept \cup {[id |-> issued', purpose |-> purpose, expires |-> now + Ttl]}

Issue(purpose) ==
    /\ ~Full
    /\ issued' = issued + 1
    /\ outstanding' = Live \cup {[id |-> issued', purpose |-> purpose, expires |-> now + Ttl]}

\* Slip: a challenge stays until it expires.
RedeemKeeping(id) == outstanding' = Live /\ spent' = spent \cup {id}

Redeem(id) == outstanding' = {c \in Live : c.id # id} /\ spent' = spent \cup {id}

Redeemable(id, purpose) == \E c \in Live : c.id = id /\ c.purpose = purpose

-----------------------------------------------------------------------------
(* ceremony/mod.rs *)

Post(p, request) ==
    /\ posts < MaxPosts /\ posts' = posts + 1
    /\ Arrives(p, request)
    /\ UNCHANGED <<now, daemon, holder, taken, page, calls, history>>

(***************************************************************************)
(* A page starts over whenever it is loaded or its button is pressed, and  *)
(* a response may be posted again, as by a browser that saw no answer.     *)
(***************************************************************************)
PostBegin(p) == Post(p, "begin")

PostEvaluate(p) == page[p].mode = "register" /\ Post(p, "evaluate")

PostFinish(p) == page[p].mode # None /\ Post(p, page[p].mode)

WindowOpen == armed # None /\ armed.expires > now

Told(p, mode, salt) ==
    page' = [page EXCEPT ![p] = [mode |-> mode, id |-> issued', expires |-> now + Ttl,
                                 salt |-> salt]]

(***************************************************************************)
(* begin: an open window takes precedence; otherwise every passkey slot is *)
(* offered, and the page evaluates the salt of the one the user picks.     *)
(***************************************************************************)
Begin(p) ==
    /\ Ready(p, "begin")
    /\ \/ /\ WindowOpen /\ Issue("RegisterPasskey") /\ Told(p, "register", armed.salt)
          /\ Answers(p)
       \/ /\ ~WindowOpen /\ vault = "Locked" /\ slots # <<>> /\ Issue("Unlock")
          /\ \E s \in DOMAIN slots : Told(p, "unlock", slots[s].salt)
          /\ Answers(p)
       \/ /\ WindowOpen \/ (vault = "Locked" /\ slots # <<>>)
          /\ Full /\ Answers(p) /\ UNCHANGED <<page, outstanding, issued>>
       \/ /\ ~WindowOpen /\ (vault = "Unlocked" \/ slots = <<>>)
          /\ Answers(p) /\ UNCHANGED <<page, outstanding, issued>>
    /\ UNCHANGED <<now, vault, slots, resident, armed, posts, calls, history>>

(***************************************************************************)
(* register_evaluate: its challenge is never redeemed.                     *)
(***************************************************************************)
Evaluate(p) ==
    /\ Ready(p, "evaluate")
    /\ \/ ~WindowOpen /\ Answers(p) /\ UNCHANGED <<outstanding, issued>>
       \/ WindowOpen /\ Full /\ Answers(p) /\ UNCHANGED <<outstanding, issued>>
       \/ WindowOpen /\ Issue("RegisterPasskey") /\ Answers(p)
    /\ UNCHANGED <<now, vault, slots, resident, armed, page, posts, calls, history>>

Through(p) == uses' = [uses EXCEPT ![page[p].id] = @ + 1]

(***************************************************************************)
(* register_finish, before it needs the vault: the challenge is consumed,  *)
(* and the response then verified, or not.                                 *)
(***************************************************************************)
Register(p) ==
    /\ Ready(p, "register")
    /\ \/ ~WindowOpen /\ Answers(p) /\ UNCHANGED <<outstanding, spent>>
       \/ /\ WindowOpen /\ Redeem(page[p].id)
          /\ \/ ~Redeemable(page[p].id, "RegisterPasskey") /\ Answers(p)
             \/ Redeemable(page[p].id, "RegisterPasskey") /\ Answers(p)
             \/ /\ Redeemable(page[p].id, "RegisterPasskey")
                /\ GoesOn(p, "add_slot")
    /\ UNCHANGED <<now, vault, slots, resident, armed, issued, page, posts, calls,
                   armings, uses>>

NewSlot(p) == [salt |-> armed.salt, key |-> page[p].salt]

\* Slip: the window stays open.
AddSlotLeavingOpen(p) ==
    /\ Ready(p, "add_slot")
    /\ \/ vault = "Locked" /\ Answers(p) /\ UNCHANGED <<slots, armed, uses>>
       \/ vault = "Unlocked" /\ Answers(p) /\ UNCHANGED <<slots, armed, uses>>
       \/ /\ vault = "Unlocked" /\ Answers(p)
          /\ slots' = Append(slots, NewSlot(p)) /\ UNCHANGED armed
          /\ Through(p)
    /\ UNCHANGED <<now, vault, resident, outstanding, issued, page, posts, calls, armings,
                   spent>>

(***************************************************************************)
(* The rest of register_finish: one slot closes the window, a vault that   *)
(* was locked in the meantime or cannot be written leaves it open.         *)
(***************************************************************************)
AddSlot(p) ==
    /\ Ready(p, "add_slot")
    /\ \/ vault = "Locked" /\ Answers(p) /\ UNCHANGED <<slots, armed, uses>>
       \/ vault = "Unlocked" /\ Answers(p) /\ UNCHANGED <<slots, armed, uses>>
       \/ /\ vault = "Unlocked" /\ Answers(p)
          /\ slots' = Append(slots, NewSlot(p)) /\ armed' = None
          /\ Through(p)
    /\ UNCHANGED <<now, vault, resident, outstanding, issued, page, posts, calls, armings,
                   spent>>

Opens(p) == \E s \in DOMAIN slots : slots[s].salt = page[p].salt /\ slots[s].key = page[p].salt

(***************************************************************************)
(* unlock_finish; the response may fail its verification.                  *)
(***************************************************************************)
UnlockFinish(p) ==
    /\ Ready(p, "unlock")
    /\ \/ vault = "Unlocked" /\ Answers(p)
          /\ UNCHANGED <<vault, outstanding, spent, uses>>
       \/ /\ vault = "Locked" /\ Redeem(page[p].id)
          /\ \/ /\ ~Redeemable(page[p].id, "Unlock") /\ Answers(p)
                /\ UNCHANGED <<vault, uses>>
             \/ /\ Redeemable(page[p].id, "Unlock") /\ Answers(p)
                /\ UNCHANGED <<vault, uses>>
             \/ /\ Redeemable(page[p].id, "Unlock") /\ Opens(p)
                /\ vault' = "Unlocked" /\ GoesOn(p, "install") /\ Through(p)
    /\ UNCHANGED <<now, slots, resident, armed, issued, page, posts, calls, armings>>

\* Slip: the entries are left to the recovery code's path.
InstallNothing(p) ==
    /\ Ready(p, "install") /\ Answers(p)
    /\ UNCHANGED <<now, daemon, page, posts, calls, history>>

Install(p) ==
    /\ Ready(p, "install") /\ resident' = TRUE /\ Answers(p)
    /\ UNCHANGED <<now, vault, slots, armed, outstanding, issued, page, posts, calls,
                   history>>

-----------------------------------------------------------------------------
(* The control socket: vault.lock, vault.unlock with the recovery code, and *)
(* vault.add_passkey *)

Call(c, request) ==
    /\ calls < MaxCalls /\ calls' = calls + 1
    /\ Arrives(c, request)
    /\ UNCHANGED <<now, daemon, holder, taken, page, posts, history>>

LockVault(c) ==
    /\ Ready(c, "lock")
    /\ IF vault = "Unlocked" THEN vault' = "Locked" /\ GoesOn(c, "evict")
       ELSE Answers(c) /\ UNCHANGED vault
    /\ UNCHANGED <<now, slots, resident, armed, outstanding, issued, ends, history>>

Evict(c) ==
    /\ Ready(c, "evict") /\ resident' = FALSE /\ Answers(c)
    /\ UNCHANGED <<now, vault, slots, armed, outstanding, issued, ends, history>>

(***************************************************************************)
(* A vault that is open already has its entries installed again.           *)
(***************************************************************************)
Recover(c) ==
    /\ Ready(c, "recover") /\ vault' = "Unlocked" /\ GoesOn(c, "reinstall")
    /\ UNCHANGED <<now, slots, resident, armed, outstanding, issued, ends, history>>

Reinstall(c) ==
    /\ Ready(c, "reinstall") /\ resident' = TRUE /\ Answers(c)
    /\ UNCHANGED <<now, vault, slots, armed, outstanding, issued, ends, history>>

AskUser(c) ==
    /\ Ready(c, "ask")
    /\ GoesOnAs(c, IF vault = "Unlocked" THEN "dialog" ELSE None)
    /\ UNCHANGED <<now, daemon, ends, history>>

(***************************************************************************)
(* The user answers, or nobody does.                                       *)
(***************************************************************************)
Approval(c) ==
    /\ doing[c] = "dialog"
    /\ GoesOnAs(c, "arm") \/ Answers(c)
    /\ UNCHANGED <<now, daemon, ends, history>>

(***************************************************************************)
(* arm_registration replaces a window that is open.                        *)
(***************************************************************************)
Arm(c) ==
    /\ Ready(c, "arm") /\ Answers(c)
    /\ armings' = armings + 1
    /\ armed' = [salt |-> armings', expires |-> now + Window]
    /\ UNCHANGED <<now, vault, slots, resident, outstanding, issued, ends, spent, uses>>

-----------------------------------------------------------------------------

Serves(t) ==
    \/ Take(t)
    \/ t \in Pages /\ (\/ Begin(t) \/ Evaluate(t) \/ Register(t) \/ AddSlot(t)
                       \/ UnlockFinish(t) \/ Install(t))
    \/ t \in Clients /\ (\/ LockVault(t) \/ Evict(t) \/ Recover(t) \/ Reinstall(t)
                         \/ AskUser(t) \/ Approval(t) \/ Arm(t))

Next ==
    \/ Tick
    \/ \E p \in Pages : PostBegin(p) \/ PostEvaluate(p) \/ PostFinish(p)
    \/ \E c \in Clients, request \in {"lock", "recover", "ask"} : Call(c, request)
    \/ \E t \in Threads : Serves(t)

(***************************************************************************)
(* The operating system runs every thread, and the dialog times out.       *)
(* Pages, clients and the user owe nothing.                                *)
(***************************************************************************)
Spec == Init /\ [][Next]_vars /\ \A t \in Threads : WF_vars(Serves(t))

-----------------------------------------------------------------------------
(* Properties *)

(***************************************************************************)
(* Every request is answered: the ceremony, which runs on threads of its   *)
(* own, and the control socket never wait for each other's mutexes in a    *)
(* circle.  (handler.rs HandlerCtx::vault, "Lock order")                   *)
(***************************************************************************)
RequestsEnd == \A t \in Threads : doing[t] # None ~> doing[t] = None

(***************************************************************************)
(* An approval lets one passkey in: whatever two pages, a re-arming and a  *)
(* closing window do, no passkey follows another through the window.       *)
(* (register_finish, "One registration per arming")                        *)
(***************************************************************************)
OneSlotPerArming == Len(slots) + (IF armed = None THEN 0 ELSE 1) <= armings

(***************************************************************************)
(* A challenge lets one response through, however often it is posted and   *)
(* by whatever path the vault was locked again since.  (ChallengeStore::   *)
(* redeem)                                                                 *)
(***************************************************************************)
OneUse == \A i \in DOMAIN uses : uses[i] <= 1

(***************************************************************************)
(* What a page was told to answer can be redeemed for as long as           *)
(* CHALLENGE_TTL says, unless it was named in a response: other pages      *)
(* cannot take it away.  (MAX_OUTSTANDING, "evicting would let a flood     *)
(* cancel a ceremony a user is part-way through")                          *)
(***************************************************************************)
ChallengesStay ==
    \A p \in Pages :
        (page[p].mode # None /\ page[p].expires > now /\ page[p].id \notin spent)
            => Redeemable(page[p].id, IF page[p].mode = "register" THEN "RegisterPasskey"
                                      ELSE "Unlock")

(***************************************************************************)
(* The entry is in the store exactly while the vault is open, for whoever  *)
(* gets hold of the store: every way to unlock restores it, and locking    *)
(* evicts it.  (unlock_finish, "Recovering the data key is not the end")   *)
(***************************************************************************)
OpenMeansResident == holder["store"] = None => (resident <=> vault = "Unlocked")

(***************************************************************************)
(* What a comment promises and the code does not keep: a slot opens with   *)
(* the passkey it was registered for.  (register_evaluate: "a slot built   *)
(* from key material that could never be reproduced would be a vault entry *)
(* nobody can reach")                                                      *)
(***************************************************************************)
SlotsOpen == \A s \in DOMAIN slots : slots[s].key = slots[s].salt

=============================================================================
