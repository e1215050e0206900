------------------------------ MODULE SSEIndex ------------------------------
(***************************************************************************)
(* What a searchable-encryption index promises its single user, with no    *)
(* client, server, key or ciphertext in sight: documents are attached to   *)
(* and detached from keywords, and a search answers with exactly the       *)
(* documents attached at that moment.  FFVSE.tla shows that the client     *)
(* and server of src/EuroS&P22-FFVSE keep this promise.                    *)
(***************************************************************************)
CONSTANTS Keyword,   \* keywords
          Id,        \* document identifiers (15-byte strings in the code)
          None       \* "nothing yet"

VARIABLES live,      \* live[w]: the documents attached to w
          updated,   \* the keywords that have been updated at least once
          result     \* the verdict of the last completed search

Verdict == [kw : Keyword, verdict : {"Accept", "Reject"}, ids : SUBSET Id]

Init == /\ live = [w \in Keyword |-> {}]
        /\ updated = {}
        /\ result = None

\* op "1" attaches id to w, op "0" detaches it; either may be redundant.
Apply(ids, op, id) == IF op = "1" THEN ids \cup {id} ELSE ids \ {id}

Update(w, op, id) == /\ live' = [live EXCEPT ![w] = Apply(@, op, id)]
                     /\ updated' = updated \cup {w}
                     /\ UNCHANGED result

\* A keyword that was never updated has no index to verify: it is rejected.
Search(w) == /\ result' = IF w \in updated
                            THEN [kw |-> w, verdict |-> "Accept", ids |-> live[w]]
                            ELSE [kw |-> w, verdict |-> "Reject", ids |-> {}]
             /\ UNCHANGED <<live, updated>>

Next == \E w \in Keyword : \/ \E op \in {"0", "1"}, id \in Id : Update(w, op, id)
                           \/ Search(w)

vars == <<live, updated, result>>
Spec == Init /\ [][Next]_vars
=============================================================================
