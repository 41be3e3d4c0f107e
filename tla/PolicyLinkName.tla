--------------------------- MODULE PolicyLinkName ---------------------------
(***************************************************************************)
(* Link-name approval of the policy gate (policy.c): the CSV matcher       *)
(* _qd_policy_approve_link_name with the reverse user substitution         *)
(* _qd_policy_link_user_name_subst, and the reference definition of spec   *)
(* 4.5 it is compared with.  Strings are sequences of one-character        *)
(* strings; a C string's terminating zero byte is NUL.                     *)
(*                                                                         *)
(* The state is one link attach: the authenticated user, the allow list   *)
(* of the user's settings, the proposed source or target name, and the    *)
(* decision the code takes for them.  Each step is a further attach on   *)
(* the same connection: same user, same settings, a new name.            *)
(***************************************************************************)
EXTENDS Integers, Sequences, SequencesExt

CONSTANTS
  Users,       \* authenticated user names (non-empty and empty)
  AllowLists,  \* the settings' sources / targets CSV strings
  Names        \* proposed link source / target addresses

NUL == "NUL"            \* the terminating zero byte
Comma == ","            \* QPALN_COMMA_SEP
Wildcard == "*"         \* QPALN_WILDCARD
DUser == <<"$", "{", "u", "s", "e", "r", "}">>   \* duser[] = "${user}"

(* _qd_policy_link_user_name_subst: the proposed name with the first      *)
(* occurrence (strstr) of the user name replaced by "${user}"; ok is      *)
(* FALSE where the C function returns NULL.  The 300-byte output buffer   *)
(* is never reached by the names checked here.                            *)
UserNameSubst(uname, proposed) ==
  IF Len(uname) = 0 \/ uname \notin SubSeqs(proposed)
  THEN [ok |-> FALSE, s |-> <<>>]
  ELSE [ok |-> TRUE, s |-> ReplaceFirstSubSeq(DUser, uname, proposed)]

(* strtok_r(pa, ","): the non-empty comma-free runs of s, left to right;  *)
(* cur is the token being read.                                            *)
RECURSIVE StrTok(_, _)
StrTok(s, cur) ==
  CASE s = <<>> -> IF cur = <<>> THEN <<>> ELSE <<cur>>
    [] Head(s) = Comma /\ cur = <<>> -> StrTok(Tail(s), <<>>)
    [] Head(s) = Comma -> <<cur>> \o StrTok(Tail(s), <<>>)
    [] OTHER -> StrTok(Tail(s), Append(cur, Head(s)))

(* strncmp(a, b, n) == 0: the first n characters agree, comparison        *)
(* stopping after a terminating zero byte both strings have.              *)
StrNCmpEqual(a, b, n) ==
  LET TakeZ(s) == SubSeq(s \o <<NUL>>, 1, IF n < Len(s) + 1 THEN n ELSE Len(s) + 1)
  IN  TakeZ(a) = TakeZ(b)

(* The token loop of _qd_policy_approve_link_name: a token starting with  *)
(* '*' approves; otherwise the proposed name, and then its user-           *)
(* substituted variant, are compared with strncmp over matchlen, which is  *)
(* the proposed name's length, or the token's length less one when the    *)
(* token ends with '*'.                                                    *)
TokenApproves(tok, proposed, prop2) ==
  LET matchlen == IF tok[Len(tok)] = Wildcard THEN Len(tok) - 1 ELSE Len(proposed)
  IN  \/ tok[1] = Wildcard
      \/ StrNCmpEqual(tok, proposed, matchlen)
      \/ prop2.ok /\ StrNCmpEqual(tok, prop2.s, matchlen)

(* Fault model: matchlen of a trailing-wildcard token keeps the '*'.       *)
ApproveLinkNameStarCounted(username, allowed, proposed) ==
  /\ Len(proposed) > 0
  /\ Len(allowed) > 0
  /\ LET prop2 == UserNameSubst(username, proposed)
         toks  == StrTok(allowed, <<>>)
     IN  \E i \in 1..Len(toks) :
           LET tok == toks[i]
           IN  \/ tok[1] = Wildcard
               \/ StrNCmpEqual(tok, proposed, Len(tok))
               \/ prop2.ok /\ StrNCmpEqual(tok, prop2.s, Len(tok))

(* _qd_policy_approve_link_name: an empty proposed name or an empty allow *)
(* list is refused; otherwise the first approving token wins.  An allow   *)
(* list of commas only has no token (the code asserts one) and refuses.   *)
ApproveLinkName(username, allowed, proposed) ==
  /\ Len(proposed) > 0
  /\ Len(allowed) > 0
  /\ LET prop2 == UserNameSubst(username, proposed)
         toks  == StrTok(allowed, <<>>)
     IN  \E i \in 1..Len(toks) : TokenApproves(toks[i], proposed, prop2)

-----------------------------------------------------------------------------
(* Spec 4.5, CSV mode: for each comma-separated token, "*" alone matches  *)
(* anything, a token ending in "*" is a prefix, any other token must be   *)
(* equal; the name and its user-substituted variant are both tested.      *)

SpecTokens(allowed) ==
  LET n == Len(allowed)
      Token(i, j) == /\ i <= j
                     /\ \A k \in i..j : allowed[k] # Comma
                     /\ i = 1 \/ allowed[i - 1] = Comma
                     /\ j = n \/ allowed[j + 1] = Comma
  IN  {SubSeq(allowed, ij[1], ij[2]) :
         ij \in {ij \in (1..n) \X (1..n) : Token(ij[1], ij[2])}}

SpecMatches(tok, name) ==
  \/ tok = <<Wildcard>>
  \/ Last(tok) = Wildcard /\ IsPrefix(Front(tok), name)
  \/ tok = name

SpecApprove(username, allowed, proposed) ==
  /\ Len(proposed) > 0
  /\ \E tok \in SpecTokens(allowed) :
       \/ SpecMatches(tok, proposed)
       \/ /\ Len(username) > 0
          /\ username \in SubSeqs(proposed)
          /\ SpecMatches(tok, ReplaceFirstSubSeq(DUser, username, proposed))

-----------------------------------------------------------------------------
VARIABLES user, allowed, proposed, approved

vars == <<user, allowed, proposed, approved>>

(* A link attach with a source or target name, judged by the CSV lists of *)
(* the connection's settings (qd_policy_approve_link_name without parse   *)
(* trees).                                                                 *)
Attach(u, a, p) ==
  /\ user' = u
  /\ allowed' = a
  /\ proposed' = p
  /\ approved' = ApproveLinkName(u, a, p)

Init ==
  \E u \in Users, a \in AllowLists, p \in Names :
    /\ user = u
    /\ allowed = a
    /\ proposed = p
    /\ approved = ApproveLinkName(u, a, p)

Next == \E p \in Names : Attach(user, allowed, p)

Spec == Init /\ [][Next]_vars

-----------------------------------------------------------------------------
(* A name the allow list describes (spec 4.5) is never refused: the       *)
(* strncmp-based loop of _qd_policy_approve_link_name, with its matchlen  *)
(* arithmetic for trailing wildcards and its second pass over the          *)
(* user-substituted name, accepts every listed name.                       *)
NeverRefusesListed ==
  SpecApprove(user, allowed, proposed) => approved

(* Spec 4.5 and 8.6: only names the allow list describes are approved.     *)
OnlyListedApproved ==
  approved => SpecApprove(user, allowed, proposed)

=============================================================================
