----------------------------- MODULE MCAccounts -----------------------------
(***************************************************************************)
(* Accounts on a small instance: an administrator and one other user, and  *)
(* room for a third; one name has an apostrophe in it.                     *)
(***************************************************************************)
EXTENDS Accounts, TLC

CONSTANTS w1, w2, ann, bob, cat, odd, p1, p2

TwoWorkers == {w1, w2}
PlainNames == {ann, bob, cat}
FourNames  == PlainNames \cup {odd}
TwoSecrets == {p1, p2}

Form(n, p, admin) == [name |-> n, password |-> p, isAdmin |-> admin]

EightForms ==
  {Form(ann, p1, FALSE), Form(ann, p1, TRUE), Form(ann, p2, FALSE),
   Form(bob, p1, FALSE), Form(bob, p2, FALSE),
   Form(cat, p2, FALSE), Form(cat, p2, TRUE), Form(odd, p1, FALSE)}

First == <<Form(ann, p1, TRUE), Form(bob, p2, FALSE)>>

\* A statement with the odd name in it may empty the table, or give rights.
Emptied  == <<NoUser, NoUser, NoUser>>
Promoted == <<Form(ann, p1, TRUE), Form(cat, p2, TRUE), NoUser>>

Tables == {Emptied, Promoted}

Symmetry == Permutations(TwoWorkers)

=============================================================================
