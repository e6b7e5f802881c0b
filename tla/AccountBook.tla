---------------------------- MODULE AccountBook ----------------------------
(***************************************************************************)
(* What AccountManager promises its caller ("the account will be saved in  *)
(* the local file system", "list all account", "Delete an account",        *)
(* src/docs/account.md), without keys, files and dictionaries: a list of   *)
(* accounts in memory and a set of accounts that a restart brings back.    *)
(* AccountManager implements it for keystore files that carry their        *)
(* address, with every failure that is reported and a stop at any point.   *)
(***************************************************************************)
CONSTANTS Accounts, None

VARIABLES
    open,       \* the process runs
    kept,       \* it has a directory
    book,       \* the accounts it lists
    safe,       \* the accounts the directory would give back
    busy,       \* an operation that stores is under way
    rewriting   \* the account whose record is being rewritten, or None

bookVars == <<open, kept, book, safe, busy, rewriting>>

Init ==
    /\ open = FALSE /\ kept = FALSE /\ busy = FALSE /\ rewriting = None
    /\ book = {} /\ safe \subseteq Accounts

(* A manager with a directory lists all that is safe. *)
Open ==
    /\ ~open /\ open' = TRUE
    /\ kept' \in BOOLEAN
    /\ book' = IF kept' THEN safe ELSE {}
    /\ UNCHANGED <<safe, busy, rewriting>>

Begin ==
    /\ open /\ ~busy /\ busy' = TRUE
    /\ UNCHANGED <<open, kept, book, safe, rewriting>>

(* Records are rewritten one at a time.  The one that is may be lost if    *)
(* the process stops now, unless there is another of the same account.     *)
Erase(a) ==
    /\ busy /\ kept /\ rewriting = None
    /\ rewriting' = a /\ safe' \in {safe, safe \ {a}}
    /\ UNCHANGED <<open, kept, book, busy>>

Rewrite ==
    /\ rewriting # None
    /\ rewriting' = None /\ safe' = safe \cup {rewriting}
    /\ UNCHANGED <<open, kept, book, busy>>

(* The operation returns: its account is listed, and with a directory the  *)
(* whole list is safe.                                                     *)
Commit(a) ==
    /\ busy /\ rewriting = None
    /\ busy' = FALSE /\ book' = book \cup {a}
    /\ kept => book' \subseteq safe
    /\ UNCHANGED <<open, kept, safe, rewriting>>

(* The operation throws: the list is as before. *)
Fail ==
    /\ busy /\ rewriting = None
    /\ busy' = FALSE
    /\ UNCHANGED <<open, kept, book, safe, rewriting>>

(* The record goes with the account, unless there is another one of it or  *)
(* the record is not in a directory.                                       *)
Delete(a) ==
    /\ open /\ ~busy /\ a \in book
    /\ book' = book \ {a} /\ safe' \in {safe, safe \ {a}}
    /\ UNCHANGED <<open, kept, busy, rewriting>>

Close ==
    /\ open
    /\ open' = FALSE /\ kept' = FALSE /\ busy' = FALSE /\ rewriting' = None
    /\ book' = {}
    /\ UNCHANGED safe

Next ==
    \/ Open \/ Begin \/ Rewrite \/ Fail \/ Close
    \/ \E a \in Accounts : Erase(a) \/ Commit(a) \/ Delete(a)

Spec == Init /\ [][Next]_bookVars
=============================================================================
