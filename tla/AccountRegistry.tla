-------------------------- MODULE AccountRegistry --------------------------
(***************************************************************************)
(* What the accounts promise: an account appears with all its keys at once *)
(* and stays; no two accounts ever share an e-mail, a Google identity or a *)
(* username; and a Self context appears together with its account.         *)
(***************************************************************************)
CONSTANTS
    Ids,      \* accounts
    Columns,  \* the unique columns of table users
    Keys,     \* values of those columns
    None

VARIABLES users, selves

vars == <<users, selves>>

Exists(a) == users[a] # None

\* The rows of all accounts but a stay, and a's shares no key with them.
Sets(a) ==
    /\ users' \in [Ids -> [Columns -> Keys \cup {None}] \cup {None}]
    /\ users'[a] # None
    /\ \A b \in Ids \ {a} : users'[b] = users[b]
    /\ \A b \in Ids \ {a}, c \in Columns :
          Exists(b) /\ users[b][c] # None => users'[a][c] # users[b][c]

Init ==
    /\ users = [a \in Ids |-> None]
    /\ selves = {}

Open(a) == ~Exists(a) /\ Sets(a) /\ selves' \in {selves, selves \cup {a}}

Change(a) == Exists(a) /\ Sets(a) /\ UNCHANGED selves

Next == \E a \in Ids : Open(a) \/ Change(a)

Spec == Init /\ [][Next]_vars
=============================================================================
