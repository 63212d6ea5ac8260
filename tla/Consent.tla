------------------------------- MODULE Consent -------------------------------
(***************************************************************************)
(* What the approval of guarded reads promises, without the helper process *)
(* that puts the question on the screen: a read waits for the answer to a  *)
(* prompt, which it opened or found open; it is granted only if the user   *)
(* said yes to that prompt and the key's guard, as it is by then, admits   *)
(* the caller; and it is answered.                                         *)
(***************************************************************************)
CONSTANTS
    Reads,       \* requests to read, or to sign with, the one guarded key
    Caller,      \* the process instance and operation a read stands for
    Guards,
    Admits,      \* <<guard, caller>> if the guard's evaluation passes
    None

VARIABLES
    guard,       \* the key's guard record, None if it has none
    stage,       \* "new", "waiting", "granted" or "refused"
    prompt,      \* the prompt a read waits for, named by the read it was opened for
    open,        \* the prompts a read may still join
    consent      \* what the user said

consentVars == <<guard, stage, prompt, open, consent>>

Allowed(r) == guard = None \/ <<guard, Caller[r]>> \in Admits

ConsentInit ==
    /\ guard \in Guards \cup {None}
    /\ stage = [r \in Reads |-> "new"]
    /\ prompt = [r \in Reads |-> None]
    /\ open = {}
    /\ consent = [r \in Reads |-> None]

SetGuard ==
    /\ guard' \in Guards \cup {None}
    /\ UNCHANGED <<stage, prompt, open, consent>>

(***************************************************************************)
(* A key without a guard is read at once; a guard that does not admit the  *)
(* caller refuses at once.                                                 *)
(***************************************************************************)
Direct(r) ==
    /\ stage[r] = "new"
    /\ \/ guard = None /\ stage' = [stage EXCEPT ![r] = "granted"]
       \/ ~Allowed(r) /\ stage' = [stage EXCEPT ![r] = "refused"]
    /\ UNCHANGED <<guard, prompt, open, consent>>

Ask(r) ==
    /\ stage[r] = "new"
    /\ stage' = [stage EXCEPT ![r] = "waiting"]
    /\ \/ /\ prompt' = [prompt EXCEPT ![r] = r]
          /\ open' \in {open, open \cup {r}}
       \/ /\ \E p \in open : Caller[p] = Caller[r] /\ prompt' = [prompt EXCEPT ![r] = p]
          /\ UNCHANGED open
    /\ UNCHANGED <<guard, consent>>

(***************************************************************************)
(* The user answers a prompt, once.                                        *)
(***************************************************************************)
Decide(p) ==
    /\ prompt[p] = p /\ consent[p] = None
    /\ \E v \in {"yes", "no"} : consent' = [consent EXCEPT ![p] = v]
    /\ UNCHANGED <<guard, stage, prompt, open>>

Close(p) ==
    /\ p \in open
    /\ open' = open \ {p}
    /\ UNCHANGED <<guard, stage, prompt, consent>>

Grant(r) ==
    /\ stage[r] = "waiting" /\ consent[prompt[r]] = "yes" /\ Allowed(r)
    /\ stage' = [stage EXCEPT ![r] = "granted"]
    /\ UNCHANGED <<guard, prompt, open, consent>>

(***************************************************************************)
(* Nobody answered, the answer was no, something broke: all fail closed.   *)
(* The refusal of one prompt may reach all who wait for it at once.        *)
(***************************************************************************)
Refuse(rs) ==
    /\ rs # {} /\ \A r \in rs : stage[r] = "waiting"
    /\ stage' = [r \in Reads |-> IF r \in rs THEN "refused" ELSE stage[r]]
    /\ UNCHANGED <<guard, prompt, open, consent>>

ConsentNext ==
    \/ SetGuard
    \/ \E r \in Reads : Direct(r) \/ Ask(r) \/ Decide(r) \/ Close(r) \/ Grant(r)
    \/ \E rs \in SUBSET Reads : Refuse(rs)

Answers(r) == Grant(r) \/ \E rs \in SUBSET Reads : r \in rs /\ Refuse(rs)

ConsentSpec ==
    /\ ConsentInit /\ [][ConsentNext]_consentVars
    /\ \A r \in Reads : WF_consentVars(Answers(r))

=============================================================================
