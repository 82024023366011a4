---------------------------- MODULE BearerTokens ----------------------------
(***************************************************************************)
(* The two lists of bearer tokens, API_TOKENS and CONFIRM_TOKENS: how such *)
(* a variable is read, and which token passes.  A string is a sequence of  *)
(* one-character strings.  The definitions are pure; what they are checked *)
(* against is a reference definition of an entry, which does not split.    *)
(***************************************************************************)
EXTENDS SequencesExt

Comma == ","
Space == " "

\* str::split(','), of s up to each of its characters: a comma begins a new
\* piece, anything else is added to the last.
splits(s) ==
  LET parts[n \in 0..Len(s)] ==
        IF n = 0 THEN <<<<>>>>
        ELSE IF s[n] = Comma THEN Append(parts[n - 1], <<>>)
        ELSE [parts[n - 1] EXCEPT ![Len(parts[n - 1])] = Append(@, s[n])]
  IN  parts

split(s) == splits(s)[Len(s)]

\* str::trim
trim(s) == LET ink == {i \in DOMAIN s : s[i] # Space} IN
           IF ink = {} THEN <<>> ELSE SubSeq(s, Min(ink), Max(ink))

\* Mutant: empty entries are kept.
parse_tokens_KeepsEmpty(s) == {trim(entry) : entry \in Range(split(s))}

\* Tokens are trimmed and empty ones are dropped.
parse_tokens(s) == {trim(entry) : entry \in Range(split(s))} \ {<<>>}

\* What a request carries is compared as it is.
check_token(token, tokens) == \E candidate \in tokens : candidate = token

-----------------------------------------------------------------------------

Blank(s, from, to) == \A i \in from..to : s[i] = Space
Border(s, i) == i \in {0, Len(s) + 1} \/ s[i] = Comma

\* A token of a list: what is between two commas or ends, without the space
\* around it, and something is.
IsEntry(t, s) ==
  \E i, j \in DOMAIN s :
    /\ i <= j
    /\ t = SubSeq(s, i, j)
    /\ \A n \in i..j : s[n] # Comma
    /\ Space \notin {s[i], s[j]}
    /\ \E l \in 0 .. i - 1 : Border(s, l) /\ Blank(s, l + 1, i - 1)
    /\ \E r \in j + 1 .. Len(s) + 1 : Border(s, r) /\ Blank(s, j + 1, r - 1)
=============================================================================
