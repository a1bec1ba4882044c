------------------------------ MODULE MCDesktop ------------------------------
(***************************************************************************)
(* Desktop for TLC: two accounts, rooms, users, transactions and queries,  *)
(* three pictures and a file, and budgets that let the interesting         *)
(* interleavings of each part happen.                                      *)
(***************************************************************************)
EXTENDS Desktop

TwoAccounts == <<"alice", "bob">>

\* I am in one room; another begins as unknown.
OneRoomJoined == [r1 |-> "join", r2 |-> "none"]

\* A search of three pages, and one of a single page.
ThreePagesOrOne == [q1 |-> 3, q2 |-> 1]

\* One search finds everybody; one user may do more than I.
TwoSearches == {{"u1"}, {"u1", "u2"}}
OneAdmin    == {[u1 |-> 75, u2 |-> 0]}

SmallBudgets ==
    [accounts    |-> [response |-> 1, authError |-> 1, login |-> 1, failure |-> 1, quit |-> 1],
     list        |-> [change |-> 1, response |-> 2, command |-> 2, open |-> 1],
     tools       |-> [click |-> 2, fault |-> 1, use |-> 2],
     preferences |-> 2,
     reactions   |-> [click |-> 3, other |-> 1, fault |-> 1]]

SmallDialogBudgets ==
    [directory   |-> [type |-> 1, ask |-> 4, fault |-> 1],
     threads     |-> [click |-> 3, fault |-> 1],
     people      |-> [click |-> 2, open |-> 2, type |-> 1, fault |-> 1],
     profile     |-> [edit |-> 2, save |-> 2, fault |-> 1],
     attachments |-> [click |-> 4, fault |-> 1]]

\* Pages of two events, of a message with an edit and a reaction, or of several messages.
Message     == [kind |-> "message", to |-> 0]
Edit(m)     == [kind |-> "edit", to |-> m]
Reaction(m) == [kind |-> "reaction", to |-> m]

IngestStarts ==
    {[log  |-> <<Message, Edit(1), Reaction(1)>>,
      fuel |-> [news |-> 1, click |-> 2, open |-> 1, fault |-> 1]],
     [log  |-> <<Message, Reaction(1), Message>>,
      fuel |-> [news |-> 2, click |-> 2, open |-> 0, fault |-> 0]],
     [log  |-> <<Message, Reaction(1)>>,
      fuel |-> [news |-> 2, click |-> 1, open |-> 1, fault |-> 0]]}
=============================================================================
