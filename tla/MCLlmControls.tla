----------------------------- MODULE MCLlmControls -----------------------------
(* Three classifications at once: two of one citizen, two of the same text. *)
EXTENDS LlmControls, TLC

CONSTANTS c1, c2, c3, u1, u2, t1, t2

ScopeOfCalls == (c1 :> u1) @@ (c2 :> u1) @@ (c3 :> u2)
TextOfCalls == (c1 :> t1) @@ (c2 :> t2) @@ (c3 :> t1)

(* Bound of the instance: an exchange raises at most once, and before a new  *)
(* window.  A call at the provider always has another step to take.           *)
Bound == LET raised == {c \in Calls : at[c] = "raised"}
         IN Cardinality(raised) <= 1 /\ (raised # {} => window = 0)

BoundedSpec == Init /\ [][Next /\ Bound']_vars /\ \A c \in Calls : WF_vars(Step(c))

=============================================================================
