------------------------- MODULE MCPolicyLinkName -------------------------
(***************************************************************************)
(* Bounded inputs for PolicyLinkName: user names shorter than "${user}",  *)
(* every proposed name of one to three letters over {a, b}, and allow     *)
(* lists of at most two tokens, with empty tokens, that use every form    *)
(* the matcher distinguishes: exact, trailing wildcard, leading wildcard, *)
(* "*" alone and ${user} tokens.                                           *)
(***************************************************************************)
EXTENDS PolicyLinkName

Letters == {"a", "b"}
Str(s) == [i \in 1..Len(s) |-> SubSeq(s, i, i)]

MCUsers == {<<>>, Str("a"), Str("ab")}
MCNames == UNION {[1..n -> Letters] : n \in 1..3}
AllowTokens == {<<>>, Str("a"), Str("ab"), Str("b*"), Str("a*"), Str("*"), Str("*b"),
                DUser, DUser \o Str("b"), Str("a") \o DUser}
MCAllowLists == {t1 \o <<Comma>> \o t2 : t1, t2 \in AllowTokens} \cup AllowTokens
\* The same lists without the tokens that start with '*' ("*" and "*b").
NoLeadingStarLists == {l \in MCAllowLists :
                         \A t \in SpecTokens(l) : t[1] # Wildcard}
=============================================================================
