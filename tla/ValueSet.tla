------------------------------ MODULE ValueSet ------------------------------
(***************************************************************************)
(* What a hash set promises: a set of values that are inserted and looked  *)
(* up, with true answers.  answer is the last answer that was given.       *)
(***************************************************************************)
CONSTANT Values

VARIABLES content, answer

Answers == [op : {"none", "insert", "find"}, val : Values, yes : BOOLEAN]

Init == content = {} /\ answer \in {a \in Answers : a.op = "none"}

Insert(v) ==
  /\ content' = content \cup {v}
  /\ answer' = [op |-> "insert", val |-> v, yes |-> v \notin content]

Find(v) ==
  /\ answer' = [op |-> "find", val |-> v, yes |-> v \in content]
  /\ UNCHANGED content

Next == \E v \in Values : Insert(v) \/ Find(v)

Spec == Init /\ [][Next]_<<content, answer>>
=============================================================================
