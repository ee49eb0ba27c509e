----------------------------- MODULE AccessLine -----------------------------
(***************************************************************************)
(* parse_string of hw22/aparser.c: a line of an access log cut up by nine  *)
(* calls of strtok_r.  A line is a sequence of quotes, spaces and words;   *)
(* an empty token stands for NULL and for an empty string.                 *)
(***************************************************************************)
EXTENDS Integers, SequencesExt

CONSTANTS
  Q, S,     \* the characters that separate: a quote and a space
  Number    \* the words that are numbers, with their value

ASSUME LineAssumption ==
  /\ Q # S /\ {Q, S} \cap DOMAIN Number = {}
  /\ \A w \in DOMAIN Number : Number[w] \in Nat

Delimiters == <<Q, S, S, Q, S, S, Q, Q, Q>>

\* strtok_r: skips delimiters, and goes on behind the one that ends the token.
strtok(s, d) ==
  LET from == { i \in DOMAIN s : s[i] # d }
      first == Min(from)
      last == Min({ i \in DOMAIN s : i > first /\ s[i] = d } \cup {Len(s) + 1}) - 1
  IN IF from = {} THEN [token |-> <<>>, rest |-> <<>>]
     ELSE [token |-> SubSeq(s, first, last), rest |-> SubSeq(s, last + 2, Len(s))]

Tokens(line) ==
  FoldLeft(LAMBDA so_far, d : LET t == strtok(so_far.rest, d) IN
                               [tokens |-> Append(so_far.tokens, t.token), rest |-> t.rest],
           [tokens |-> <<>>, rest |-> line], Delimiters).tokens

IsSize(token) == Len(token) = 1 /\ token[1] \in DOMAIN Number

\* What is found before the first failure is kept.
parse_string(line) ==
  LET t == Tokens(line)
      sized == IsSize(t[6])
  IN [url |-> t[3],
      bytes |-> IF sized THEN Number[t[6][1]] ELSE 0,
      referer |-> IF sized THEN t[9] ELSE <<>>]
=============================================================================
