------------------------------ MODULE MCDaemon ------------------------------
(***************************************************************************)
(* Instances of the daemon: a declared (persist = true) key, which the     *)
(* configuration always gives a command, and keys it does not mention.     *)
(***************************************************************************)
EXTENDS Daemon

CONSTANTS c1, p1, p2, v1, v2, f1

Forever  == [soft |-> None, hard |-> None]
SoftOnly == [soft |-> 1, hard |-> None]
HardOnly == [soft |-> None, hard |-> 1]

MCTtls        == {Forever}
MCTtlsShort   == {Forever, SoftOnly}
MCTtlsHard    == {HardOnly}
MCConfigured  == [k \in Keys |-> IF k \in PersistedKeys
                                 THEN [source |-> c1, ttl |-> Forever] ELSE None]
MCEverybody   == [k \in Keys |-> Peers]
MCUnguarded   == [v \in Values |-> None]
MCGuards      == {{p1}}
MCPrincipals  == {{p1}, {p2}}
MCV1Guarded   == [v \in Values |-> IF v = v1 THEN {p1} ELSE None]

=============================================================================
