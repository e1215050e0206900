------------------------------ MODULE PlainMap ------------------------------
(***************************************************************************)
(* What a map promises: a find returns the value of the last insert of its *)
(* key, or nothing.  A call begins, takes effect at once, and returns.     *)
(* OMAP.tla shows that the oblivious map of src/ROSE-2 keeps this promise; *)
(* Rose2.tla uses two of them as functions.                                *)
(***************************************************************************)
CONSTANTS Key, Value, None

VARIABLES dict,   \* key |-> value, for the keys inserted so far
          call,   \* the operation under way, or None
          answer  \* what it answered, None until it has taken effect
vars == <<dict, call, answer>>

Calls == [do : {"find"}, key : Key, value : {None}]
         \cup [do : {"insert"}, key : Key, value : Value]

Init == dict = <<>> /\ call = None /\ answer = None

Call(c) == /\ call = None
           /\ call' = c
           /\ UNCHANGED <<dict, answer>>

Pending(do) == call # None /\ call.do = do /\ answer = None

Find == /\ Pending("find")
        /\ answer' = [value |-> IF call.key \in DOMAIN dict THEN dict[call.key] ELSE None]
        /\ UNCHANGED <<dict, call>>

Insert == /\ Pending("insert")
          /\ dict' = [k \in DOMAIN dict \cup {call.key} |->
                        IF k = call.key THEN call.value ELSE dict[k]]
          /\ answer' = [value |-> None]
          /\ UNCHANGED call

Return == /\ answer # None
          /\ call' = None /\ answer' = None
          /\ UNCHANGED dict

Next == (\E c \in Calls : Call(c)) \/ Find \/ Insert \/ Return

Spec == Init /\ [][Next]_vars
=============================================================================
