--------------------------- MODULE MCLlmAdmission ---------------------------
(* Three calls: two of one user in one workspace, and one in another.      *)
EXTENDS LlmAdmission, TLC

CONSTANTS c1, c2, c3, w1, w2, u1, u2, Allowance, Tokens

MCCalls == {c1, c2, c3}
MCWorkspaceOf == [c \in MCCalls |-> IF c = c3 THEN w2 ELSE w1]
MCUserOf == [c \in MCCalls |-> IF c = c3 THEN u2 ELSE u1]
MCOneWorkspace == [c \in MCCalls |-> w1]
MCOneUser == [c \in MCCalls |-> u1]
SameCaller == Permutations({c1, c2})
MCPerMinute == [w \in {w1, w2} |-> Allowance]
MCBudget == [w \in {w1, w2} |-> Tokens]
=============================================================================
