------------------------------ MODULE MCReset ------------------------------
(* The operations together with what happened before the last reset. *)
EXTENDS MCOperations

VARIABLE earlier   \* operations accepted in this generation before a reset

ResetSpec ==
  /\ Init /\ theme \in Themes
  /\ earlier = {}
  /\ [][/\ ThemedNext
        /\ earlier' = IF generation' # generation THEN {}
                      ELSE IF history' = {} THEN earlier \cup {h \in history : h.accepted}
                      ELSE earlier]_<<vars, theme, earlier>>

\* shadow.py:217 says that a homeowner reset invalidates pre-reset operations:
\* no operation accepted before a reset is accepted once more after it in the
\* same configuration generation.
ResetInvalidatesEarlier ==
  \A h \in earlier : \A op \in Receipts :
     op.id = h.id /\ op.sequence = h.sequence => ~Acceptable(op)
=============================================================================
