-------------------------- MODULE MCQuestionPractice --------------------------
EXTENDS QuestionPractice, TLC

CONSTANTS t1, t2, a1, a2, q1, q2, k1, k2, x1, x2

KeyOf == [q \in Questions |-> [x \in Texts |-> k1]]
\* Hand-made edits: of key and statistics, and of text and status.
Edits == {[key |-> k2, weight |-> Weightless], [text |-> x2, status |-> "conflict"]}
\* Threads are alike, and so are attempts.
Alike == Permutations({t1, t2}) \cup Permutations({a1, a2})

=============================================================================
