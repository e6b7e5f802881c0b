---------------------------- MODULE NewKeyPair -----------------------------
(***************************************************************************)
(* KeyManager::newKeyPair (src/libdevcore/KeyManager.cpp): several threads *)
(* create random keys until one of them has the vanity that was asked for. *)
(* They share keepGoing and p, plain variables of the caller's stack.      *)
(*                                                                         *)
(* Data abstraction.  A member of p is the key it was copied from.  The    *)
(* six tests of a[0] .. a[3] are the set Wanted.  The counter done is left *)
(* out: it is only shown.                                                  *)
(***************************************************************************)
EXTENDS Naturals, FiniteSets

CONSTANTS
    Helpers,     \* the threads it starts, hardware_concurrency() - 1
    Caller,      \* the thread that called
    RandomKeys,  \* what KeyPair::create() may give
    Wanted       \* those with the vanity _type

(* hardware_concurrency() is not 0, and some key has the vanity. *)
ASSUME NewKeyPairAssumption ==
    /\ IsFiniteSet(Helpers) /\ Caller \notin Helpers
    /\ Wanted \subseteq RandomKeys /\ Wanted # {}

Workers == Helpers \cup {Caller}
Members == {"m_secret", "m_public", "m_address"}

VARIABLES
    p,          \* member -> the key it comes from
    keepGoing,
    at,         \* worker -> where it is in f
    lp,         \* worker -> the key it created last
    stores,     \* worker -> what it has still to assign
    returned    \* newKeyPair returned p

searchVars == <<p, keepGoing, at, lp, stores, returned>>

Goto(w, place) == at' = [at EXCEPT ![w] = place]

SearchInit ==
    /\ \E k \in RandomKeys : p = [m \in Members |-> k]
    /\ keepGoing = TRUE
    /\ at = [w \in Workers |-> IF w = Caller THEN "start" ELSE "not started"]
    /\ lp \in [Workers -> RandomKeys]
    /\ stores = [w \in Workers |-> {}]
    /\ returned = FALSE

(* new std::thread(f), one after the other, then f() itself. *)
Start(h) ==
    /\ at[Caller] = "start" /\ at[h] = "not started"
    /\ Goto(h, "while")
    /\ UNCHANGED <<p, keepGoing, lp, stores, returned>>

StartSelf ==
    /\ at[Caller] = "start" /\ \A h \in Helpers : at[h] # "not started"
    /\ Goto(Caller, "while")
    /\ UNCHANGED <<p, keepGoing, lp, stores, returned>>

While(w) ==
    /\ at[w] = "while"
    /\ Goto(w, IF keepGoing THEN "create" ELSE "if")
    /\ UNCHANGED <<p, keepGoing, lp, stores, returned>>

(* Mutant of Create: the loop is not left with the key that was found. *)
CreateOnAndOn(w, k) ==
    /\ at[w] = "create"
    /\ lp' = [lp EXCEPT ![w] = k]
    /\ Goto(w, "while")
    /\ UNCHANGED <<p, keepGoing, stores, returned>>

Create(w, k) ==
    /\ at[w] = "create"
    /\ lp' = [lp EXCEPT ![w] = k]
    /\ Goto(w, IF k \in Wanted THEN "if" ELSE "while")
    /\ UNCHANGED <<p, keepGoing, stores, returned>>

(* Mutant of If: p is assigned however the loop was left. *)
IfAlways(w) ==
    /\ at[w] = "if"
    /\ stores' = [stores EXCEPT ![w] = Members \cup {"keepGoing"}]
    /\ Goto(w, "assign")
    /\ UNCHANGED <<p, keepGoing, lp, returned>>

If(w) ==
    /\ at[w] = "if"
    /\ stores' = [stores EXCEPT ![w] = {"keepGoing"} \cup (IF keepGoing THEN Members ELSE {})]
    /\ Goto(w, "assign")
    /\ UNCHANGED <<p, keepGoing, lp, returned>>

(* p = lp, member by member, and keepGoing = false: nothing orders these   *)
(* stores for the other threads.                                           *)
Assign(w, v) ==
    /\ at[w] = "assign" /\ v \in stores[w]
    /\ stores' = [stores EXCEPT ![w] = @ \ {v}]
    /\ IF v = "keepGoing" THEN keepGoing' = FALSE /\ UNCHANGED p
       ELSE p' = [p EXCEPT ![v] = lp[w]] /\ UNCHANGED keepGoing
    /\ IF stores[w] = {v} THEN Goto(w, "end") ELSE UNCHANGED at
    /\ UNCHANGED <<lp, returned>>

(* Every helper is joined. *)
Return ==
    /\ ~returned /\ \A w \in Workers : at[w] = "end"
    /\ returned' = TRUE
    /\ UNCHANGED <<p, keepGoing, at, lp, stores>>

Step(w) ==
    \/ While(w) \/ If(w)
    \/ \E k \in RandomKeys : Create(w, k)
    \/ \E v \in Members \cup {"keepGoing"} : Assign(w, v)

SearchNext ==
    \/ \E h \in Helpers : Start(h)
    \/ StartSelf
    \/ \E w \in Workers : Step(w)
    \/ Return

(* Every thread is scheduled, and a thread that creates one random key     *)
(* after the other creates a wanted one at last.                           *)
SearchFairness ==
    /\ WF_searchVars((\E h \in Helpers : Start(h)) \/ StartSelf)
    /\ WF_searchVars(Return)
    /\ \A w \in Workers :
          WF_searchVars(Step(w)) /\ SF_searchVars(\E k \in Wanted : Create(w, k))

SearchSpec == SearchInit /\ [][SearchNext]_searchVars /\ SearchFairness

-----------------------------------------------------------------------------
(* Properties *)

(* "@returns new random keypair with given vanity" (KeyManager.h): nothing *)
(* in what is returned comes from the pair p started with, or from a key   *)
(* that a thread held when another one ended the search.                   *)
VanityKept == returned => \A m \in Members : p[m] \in Wanted

(* One thread that finds a key ends the search of all of them, and every   *)
(* one is joined.                                                          *)
SearchEnds == <>returned

(* "@returns new random keypair" (KeyManager.h): secret, public key and    *)
(* address that are returned belong to one key.                            *)
PairWhole == returned => \A m, n \in Members : p[m] = p[n]
=============================================================================
