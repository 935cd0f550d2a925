------------------------------ MODULE Directory ------------------------------
(***************************************************************************)
(* What a table of uniquely named rows promises the clients of its routes: *)
(* an answer of success means that the row was created, renamed or removed *)
(* by this call, at one moment, and once; a refusal means that there was a *)
(* reason for it at some moment of the call, and that nothing changed; an  *)
(* error says nothing, but the call has either been carried out or not.    *)
(***************************************************************************)
EXTENDS Naturals

CONSTANTS Client, Id, Key

VARIABLES rows,   \* id -> name
          call    \* the call of each client

NoId == 0

Quiet == [op |-> "none", id |-> NoId, key |-> "", answer |-> "none"]

Call == [op : {"create", "rename", "remove"}, id : Id \cup {NoId}, key : Key,
         answer : {"pending", "done", "exists", "missing", "rejected", "error"}]

Taken(i, k) == \E j \in DOMAIN rows \ {i} : rows[j] = k

Pending(c, op) == call[c].op = op /\ call[c].answer = "pending"

Init == rows = [i \in {} |-> ""] /\ call = [c \in Client |-> Quiet]

\* A client whose last call is answered asks for something else, or leaves.
Ask(c) ==
  /\ call[c].answer # "pending"
  /\ call' = [call EXCEPT ![c] = call'[c]]
  /\ call'[c] = Quiet \/ (call'[c] \in Call /\ call'[c].answer = "pending")
  /\ UNCHANGED rows

Answer(c, i, a) == call' = [call EXCEPT ![c].id = i, ![c].answer = a]

Create(c, i) ==
  /\ Pending(c, "create")
  /\ i \notin DOMAIN rows
  /\ ~Taken(NoId, call[c].key)
  /\ rows' = [j \in DOMAIN rows \cup {i} |-> IF j = i THEN call[c].key ELSE rows[j]]

Rename(c, i) ==
  /\ Pending(c, "rename")
  /\ i = call[c].id /\ i \in DOMAIN rows
  /\ ~Taken(i, call[c].key)
  /\ rows' = [rows EXCEPT ![i] = call[c].key]

Remove(c, i) ==
  /\ Pending(c, "remove")
  /\ i = call[c].id /\ i \in DOMAIN rows
  /\ rows' = [j \in DOMAIN rows \ {i} |-> rows[j]]

Change(c, i) == Create(c, i) \/ Rename(c, i) \/ Remove(c, i)

\* The answer to a create names the row that was created.
Succeed(c) == \E i \in Id : Change(c, i) /\ Answer(c, i, "done")

\* The name, or the id the client proposed, is in use.
RefuseCreate(c) ==
  /\ Pending(c, "create")
  /\ Taken(NoId, call[c].key) \/ call[c].id \in DOMAIN rows
  /\ Answer(c, call[c].id, "exists")
  /\ UNCHANGED rows

RefuseId(c) ==
  /\ Pending(c, "rename") \/ Pending(c, "remove")
  /\ call[c].id \notin DOMAIN rows
  /\ Answer(c, call[c].id, "missing")
  /\ UNCHANGED rows

\* The request makes no sense.
Reject(c) ==
  /\ call[c].answer = "pending"
  /\ Answer(c, call[c].id, "rejected")
  /\ UNCHANGED rows

GiveUp(c) ==
  /\ call[c].answer = "pending"
  /\ Answer(c, call[c].id, "error")
  /\ UNCHANGED rows \/ \E i \in Id : Change(c, i)

Next ==
  \E c \in Client :
    \/ Ask(c) \/ Succeed(c) \/ RefuseCreate(c) \/ RefuseId(c)
    \/ Reject(c) \/ GiveUp(c)

Spec == Init /\ [][Next]_<<rows, call>>
==============================================================================
