------------------------------ MODULE PgProtocol ------------------------------
(***************************************************************************)
(* What a client of the extended query protocol may rely on, whatever      *)
(* slots and pointers the server keeps: statements and portals are maps by *)
(* name, an Execute runs the text of its portal with the values of the     *)
(* Bind, and a batch in which a message failed, an Execute that the engine *)
(* refuses included, is skipped up to Sync.                                *)
(* One liberty is taken: a portal whose statement is parsed anew or closed *)
(* may change its text (but never its values).                             *)
(***************************************************************************)
EXTENDS Integers, FiniteSets

CONSTANTS
    Clients, Names, Texts, Values,
    MaxStatements, MaxPortals,   \* how many names a session may hold
    NoText,
    PutIn(_, _)                  \* a text with values in the place of its parameters

VARIABLES
    statements,   \* per client and name: the text parsed under it, or NoText
    bound,        \* per client and name: [text, values], or NoText
    skipping,     \* per client: a message of the batch has failed
    ran,          \* per client: what its last message had the engine run
    reply         \* per client: the type of its last message and how it went

vars == <<statements, bound, skipping, ran, reply>>

Nothing == [n \in Names |-> NoText]

Init ==
    /\ statements = [c \in Clients |-> Nothing]
    /\ bound = [c \in Clients |-> Nothing]
    /\ skipping = [c \in Clients |-> FALSE]
    /\ ran = [c \in Clients |-> NoText]
    /\ reply = [c \in Clients |-> <<"X", "done">>]

-----------------------------------------------------------------------------
Held(f) == {n \in Names : f[n] # NoText}
Says(c, type, how, what) ==
    /\ reply' = [reply EXCEPT ![c] = <<type, how>>]
    /\ ran' = [ran EXCEPT ![c] = what]
Done(c, type) == Says(c, type, "done", NoText)
Skipping(c, b) == skipping' = [skipping EXCEPT ![c] = b]

(* The portals of statement n, and those whose statement is gone, may follow *)
(* the statements; their values stay, and so do all the other portals.       *)
MayMove(c, n, p) ==
    /\ bound[c][p] # NoText
    /\ bound[c][p].text \in {statements[c][n], NoText}
PortalsFollow(c, n) ==
    \A d \in Clients, p \in Names :
        \/ bound'[d][p] = bound[d][p]
        \/ d = c /\ MayMove(c, n, p) /\ bound'[d][p] # NoText
                 /\ bound'[d][p].values = bound[d][p].values

(* A message that fails: nothing is run and the rest of the batch is skipped. *)
Fail(c, type, how) ==
    /\ Says(c, type, how, NoText)
    /\ Skipping(c, TRUE)
    /\ UNCHANGED <<statements, bound>>
Malformed(c, type) == ~skipping[c] /\ Fail(c, type, "malformed")
Skip(c, type) ==
    /\ skipping[c]
    /\ Says(c, type, "skipped", NoText)
    /\ UNCHANGED <<statements, bound, skipping>>

Parse(c, n, text) ==
    \/ /\ Done(c, "P") /\ ~skipping[c]
       /\ statements' = [statements EXCEPT ![c][n] = text]
       /\ PortalsFollow(c, n)
       /\ UNCHANGED skipping
    \/ /\ Fail(c, "P", "failed") /\ ~skipping[c]
       /\ statements[c][n] = NoText
       /\ Cardinality(Held(statements[c])) = MaxStatements

Bind(c, p, n, values) ==
    \/ /\ Done(c, "B") /\ ~skipping[c]
       /\ statements[c][n] # NoText
       /\ bound' = [bound EXCEPT ![c][p] = [text |-> statements[c][n], values |-> values]]
       /\ UNCHANGED <<statements, skipping>>
    \/ /\ Fail(c, "B", "failed") /\ ~skipping[c]
       /\ \/ statements[c][n] = NoText
          \/ bound[c][p] = NoText /\ Cardinality(Held(bound[c])) = MaxPortals

Runnable(c, p) == bound[c][p] # NoText /\ bound[c][p].text # NoText
Executed(c, p, how) ==
    /\ ~skipping[c] /\ Runnable(c, p)
    /\ Says(c, "E", how, PutIn(bound[c][p].text, bound[c][p].values))
    /\ UNCHANGED <<statements, bound>>
Execute(c, p) ==
    \/ Executed(c, p, "done") /\ UNCHANGED skipping
    \/ Executed(c, p, "failed") /\ Skipping(c, TRUE)
    \/ Fail(c, "E", "failed") /\ ~skipping[c] /\ ~Runnable(c, p)

CloseStatement(c, n) ==
    /\ Done(c, "C") /\ ~skipping[c]
    /\ statements' = [statements EXCEPT ![c][n] = NoText]
    /\ PortalsFollow(c, n)
    /\ UNCHANGED skipping
ClosePortal(c, p) ==
    /\ Done(c, "C") /\ ~skipping[c]
    /\ bound' = [bound EXCEPT ![c][p] = NoText]
    /\ UNCHANGED <<statements, skipping>>
Describe(c) ==
    /\ Done(c, "D") /\ ~skipping[c]
    /\ UNCHANGED <<statements, bound, skipping>>

(* A simple query needs no portal and is never skipped.                      *)
Query(c, text) ==
    /\ \E how \in {"done", "failed"} : Says(c, "Q", how, PutIn(text, <<>>))
    /\ UNCHANGED <<statements, bound, skipping>>
Sync(c) == Done(c, "S") /\ Skipping(c, FALSE) /\ UNCHANGED <<statements, bound>>
Flush(c) == Done(c, "H") /\ UNCHANGED <<statements, bound, skipping>>

(* A session that ends leaves nothing to the next one.                       *)
End(c) ==
    /\ Done(c, "X") /\ Skipping(c, FALSE)
    /\ statements' = [statements EXCEPT ![c] = Nothing]
    /\ bound' = [bound EXCEPT ![c] = Nothing]

Next == \E c \in Clients :
    \/ \E n \in Names, text \in Texts : Parse(c, n, text)
    \/ \E p, n \in Names, values \in Values : Bind(c, p, n, values)
    \/ \E p \in Names : Execute(c, p) \/ ClosePortal(c, p) \/ CloseStatement(c, p)
    \/ \E text \in Texts : Query(c, text)
    \/ \E type \in {"P", "B", "D", "E", "C"} : Skip(c, type)
    \/ \E type \in {"P", "B", "D", "E"} : Malformed(c, type)
    \/ Describe(c) \/ Sync(c) \/ Flush(c) \/ End(c)

Spec == Init /\ [][Next]_vars

=============================================================================
