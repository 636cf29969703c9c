--------------------------------- MODULE Oracle ---------------------------------
(***************************************************************************)
(* What an entry point of the recursive checks promises: one step asks a   *)
(* question, one step gives an answer the definition allows.               *)
(***************************************************************************)
CONSTANTS
  Queries,      \* the questions callers ask
  NoQuery,      \* no question is open
  Answers,      \* everything a call can end with
  Verdict(_)    \* the answers a question allows

VARIABLES query, result

Init == query = NoQuery /\ result = "idle"

Ask == /\ result = "idle"
       /\ query' \in Queries
       /\ result' = "busy"

Answer == /\ result = "busy"
          /\ result' \in Verdict(query)
          /\ UNCHANGED query

Return == /\ result \in Answers
          /\ query' = NoQuery
          /\ result' = "idle"

Next == Ask \/ Answer \/ Return

(* Whatever is answered is allowed, and what has been asked is answered.   *)
Safety == Init /\ [][Next]_<<query, result>>

Spec == Safety /\ WF_<<query, result>>(Answer)
=============================================================================
