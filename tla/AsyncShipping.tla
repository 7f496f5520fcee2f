---------------------------- MODULE AsyncShipping ----------------------------
(***************************************************************************)
(* What asynchronous log shipping promises, whatever queues and            *)
(* connections lie between: a standby may miss records, but it gets no     *)
(* record twice, and those of one life of the leader in their order, but   *)
(* for a record the leader gave up while it was on its way: that one may   *)
(* come after newer ones.                                                  *)
(***************************************************************************)
EXTENDS Integers, Sequences

CONSTANTS
    Standbys,
    Lives     \* the leader's lives, one per start

VARIABLES
    stream,  \* the records the leader emitted: for each, in which of its lives
    got,     \* per standby: the records it applied, as places in the stream
    late     \* per standby: the records the leader gave up on their way

vars == <<stream, got, late>>

Init ==
    /\ stream = <<>>
    /\ got = [r \in Standbys |-> <<>>]
    /\ late = [r \in Standbys |-> {}]

(* The leader emits one more record.                                        *)
Emit(life) ==
    /\ stream' = Append(stream, life)
    /\ UNCHANGED <<got, late>>

(* A record comes after all the standby has of the same life.               *)
Follows(r, i) == \A k \in DOMAIN got[r] : stream[got[r][k]] = stream[i] => got[r][k] < i

(* The leader no longer waits for a record to arrive, and sends newer ones. *)
GiveUp(r, i) ==
    /\ i \in DOMAIN stream
    /\ Follows(r, i)
    /\ late' = [late EXCEPT ![r] = @ \union {i}]
    /\ UNCHANGED <<stream, got>>

(* A standby applies a record it does not have.                             *)
Deliver(r, i) ==
    /\ i \in DOMAIN stream
    /\ Follows(r, i) \/ (i \in late[r] /\ \A k \in DOMAIN got[r] : got[r][k] # i)
    /\ got' = [got EXCEPT ![r] = Append(@, i)]
    /\ UNCHANGED <<stream, late>>

Next ==
    \/ \E life \in Lives : Emit(life)
    \/ \E r \in Standbys, i \in DOMAIN stream : GiveUp(r, i) \/ Deliver(r, i)

Spec == Init /\ [][Next]_vars

=============================================================================
