----------------------------- MODULE Invitation -----------------------------
(***************************************************************************)
(* What the invitation codes of Delta Chat promise, seen from outside: a   *)
(* code is printed once, can be honoured or not at any time afterwards,    *)
(* and somebody gets in only by presenting a printed code that is honoured *)
(* at that moment.  Devices, tokens, sync messages and the steps of the    *)
(* handshake do not appear here; SecureJoin implements this specification. *)
(***************************************************************************)
CONSTANTS Codes,      \* the codes that can be printed
          PlaceOf     \* PlaceOf[c]: the chat a code leads to

VARIABLES printed,    \* codes that were printed
          honoured,   \* codes that open their place now
          presented,  \* codes that somebody scanned
          let_in,     \* places the inviter has let the scanner into
          inside      \* places the scanner knows to be in

aVars == <<printed, honoured, presented, let_in, inside>>

AInit == /\ printed = {} /\ honoured = {} /\ presented = {}
         /\ let_in = {} /\ inside = {}

\* A code is printed and is honoured from then on.
Issue(c) == /\ c \notin printed
            /\ printed' = printed \union {c}
            /\ honoured' = honoured \union {c}
            /\ UNCHANGED <<presented, let_in, inside>>

\* The inviter changes her mind about some printed codes.
Reconsider == /\ honoured' \in SUBSET printed
              /\ UNCHANGED <<printed, presented, let_in, inside>>

Present(c) == /\ c \in printed
              /\ presented' = presented \union {c}
              /\ UNCHANGED <<printed, honoured, let_in, inside>>

LetIn(c) == /\ c \in presented \intersect honoured
            /\ let_in' = let_in \union {PlaceOf[c]}
            /\ UNCHANGED <<printed, honoured, presented, inside>>

Enter(p) == /\ p \in let_in
            /\ inside' = inside \union {p}
            /\ UNCHANGED <<printed, honoured, presented, let_in>>

ANext == \/ \E c \in Codes : Issue(c) \/ Present(c) \/ LetIn(c)
         \/ Reconsider
         \/ \E p \in let_in : Enter(p)

ASpec == AInit /\ [][ANext]_aVars
=============================================================================
