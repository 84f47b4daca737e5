----------------------------- MODULE Anonymizer -----------------------------
(***************************************************************************)
(* bifrost/anonymizer.py: private addresses and user names leave the       *)
(* machine as tokens, numbered within one event, and come back in the      *)
(* decision. A token is the sequence of characters after its prefix.       *)
(***************************************************************************)
EXTENDS Naturals, SequencesExt

Digits(n) == IF n < 10 THEN <<48 + n>> ELSE <<48 + (n \div 10), 48 + (n % 10)>>
Backslash == 92

(* INTERNAL_HOST_<chr(64 + n)>, REDACTED_USER_<n>.                         *)
Token(kind, n) == IF kind = "address" THEN <<64 + n>> ELSE Digits(n)

(* deanonymize_decision replaces token after token, in their order, in the *)
(* JSON text: the first one that begins the text wins. JSON writes a       *)
(* backslash twice, so that the text is JSON no longer when its first half *)
(* is replaced, and the decision stays as it is.                           *)
FirstReplaced(kind, n) ==
  CHOOSE k \in 1..n :
    /\ IsPrefix(Token(kind, k), Token(kind, n))
    /\ \A j \in 1..(k - 1) : ~IsPrefix(Token(kind, j), Token(kind, n))

(* What becomes of the token of the n-th name: the name, another name with *)
(* a digit after it, or the token.                                         *)
Deanonymized(kind, n) ==
  IF kind = "address" /\ Token(kind, n) = <<Backslash>> THEN "token"
  ELSE IF FirstReplaced(kind, n) = n THEN "name" ELSE "another"
=============================================================================
