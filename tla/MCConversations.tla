-------------------------- MODULE MCConversations --------------------------
(***************************************************************************)
(* Small instances of Conversations for TLC.                               *)
(***************************************************************************)
EXTENDS Conversations, TLC

CONSTANTS p1, p2, book, chat, blank

Messages == {book, chat, blank}

\* Two messages of one sender, one of which books, and an empty one without an
\* id.
SenderOf == book :> p1 @@ chat :> p1 @@ blank :> p2
TextOf   == book :> "book" @@ chat :> "chat" @@ blank :> "empty"

\* Requests and customer ids are interchangeable.
Symmetry == Permutations(Request) \cup Permutations(Customer)
=============================================================================
