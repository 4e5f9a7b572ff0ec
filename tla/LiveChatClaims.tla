--------------------------- MODULE LiveChatClaims ---------------------------
(* What the code's own words claim of a pane, and a run refutes.           *)
EXTENDS LiveChat

(* A text is stored in the conversation whose tab it was typed under        *)
(* (conversation-pane.tsx:453: switching tabs "re-joins socket room so live *)
(* messages route to the active tab").                                      *)
TypedWhereShown == \A i \in MessageIds : messages[i].under = messages[i].chan
=============================================================================
