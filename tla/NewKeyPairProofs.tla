-------------------------- MODULE NewKeyPairProofs --------------------------
(***************************************************************************)
(* Proof that newKeyPair returns nothing but members of wanted keys, for   *)
(* any number of threads and keys.  The inductive invariant says what each *)
(* thread knows: one at "if" holds a wanted key or the search is over; one *)
(* that assigns members holds a wanted key; and once the search is over,   *)
(* every member of p is wanted or about to be assigned.                    *)
(***************************************************************************)
EXTENDS NewKeyPair, TLAPS

Places == {"not started", "start", "while", "create", "if", "assign", "end"}

SearchTypeOK ==
    /\ p \in [Members -> RandomKeys]
    /\ keepGoing \in BOOLEAN
    /\ at \in [Workers -> Places]
    /\ lp \in [Workers -> RandomKeys]
    /\ stores \in [Workers -> SUBSET (Members \cup {"keepGoing"})]
    /\ returned \in BOOLEAN

(* What worker w holds at each place. *)
WorkerOK(w) ==
    /\ at[w] = "if" => lp[w] \in Wanted \/ ~keepGoing
    /\ stores[w] \cap Members # {} => lp[w] \in Wanted
    /\ stores[w] # {} => at[w] = "assign"
    /\ at[w] = "end" => ~keepGoing
    /\ at[w] = "assign" /\ keepGoing =>
          /\ "keepGoing" \in stores[w]
          /\ \A m \in Members : m \in stores[w] \/ p[m] \in Wanted

(* Once the search is over every member is wanted, or will be.             *)
SearchOver ==
    ~keepGoing => \A m \in Members : p[m] \in Wanted \/ \E w \in Workers : m \in stores[w]

SearchInv ==
    /\ SearchTypeOK
    /\ \A w \in Workers : WorkerOK(w)
    /\ SearchOver
    /\ returned => \A w \in Workers : at[w] = "end"

(* Every variable has its type, and no member of p is assigned but from a  *)
(* thread that holds a wanted key: the initial state.                      *)
LEMMA SearchInvInit == SearchInit => SearchInv
  <1> SUFFICES ASSUME SearchInit PROVE SearchInv
    OBVIOUS
  <1>1. SearchTypeOK
    BY NewKeyPairAssumption DEF SearchInit, SearchTypeOK, Places, Workers, Members
  <1>2. \A w \in Workers : WorkerOK(w)
    BY DEF SearchInit, WorkerOK
  <1>3. SearchOver /\ ~returned
    BY DEF SearchInit, SearchOver
  <1> QED BY <1>1, <1>2, <1>3 DEF SearchInv

(* A step in which worker x moves and only at changes keeps what the       *)
(* others hold: Start, StartSelf and While.                                *)
LEMMA MoveKeeps ==
    ASSUME SearchInv, NEW x \in Workers, NEW place \in Places,
           Goto(x, place), UNCHANGED <<p, keepGoing, lp, stores, returned>>,
           at[x] \notin {"assign", "end"}, place \notin {"assign", "end"},
           place = "if" => ~keepGoing
    PROVE  SearchInv'
  <1>1. SearchTypeOK'
    BY DEF SearchInv, SearchTypeOK, Goto
  <1>2. ASSUME NEW w \in Workers PROVE WorkerOK(w)'
    BY <1>2 DEF SearchInv, SearchTypeOK, WorkerOK, Goto
  <1>3. SearchOver'
    BY DEF SearchInv, SearchOver
  <1>4. ~returned
    BY DEF SearchInv
  <1> QED BY <1>1, <1>2, <1>3, <1>4 DEF SearchInv

(* A created key, wanted or not. *)
LEMMA CreateKeeps ==
    ASSUME SearchInv, NEW x \in Workers, NEW k \in RandomKeys, Create(x, k)
    PROVE  SearchInv'
  <1>1. SearchTypeOK'
    BY DEF SearchInv, SearchTypeOK, Goto, Create, Places
  <1>2. ASSUME NEW w \in Workers PROVE WorkerOK(w)'
    BY <1>2 DEF SearchInv, SearchTypeOK, WorkerOK, Goto, Create
  <1>3. SearchOver'
    BY DEF SearchInv, SearchOver, Create
  <1>4. ~returned /\ ~returned'
    BY DEF SearchInv, Create
  <1> QED BY <1>1, <1>2, <1>3, <1>4 DEF SearchInv

(* A thread that left the loop prepares its stores. *)
LEMMA IfKeeps ==
    ASSUME SearchInv, NEW x \in Workers, If(x)
    PROVE  SearchInv'
  <1>1. SearchTypeOK'
    BY DEF SearchInv, SearchTypeOK, Goto, If, Places
  <1>2. ASSUME NEW w \in Workers PROVE WorkerOK(w)'
    <2>1. CASE w = x
      BY <2>1 DEF SearchInv, SearchTypeOK, WorkerOK, Goto, If, Members
    <2>2. CASE w # x
      BY <2>2, <1>2 DEF SearchInv, SearchTypeOK, WorkerOK, Goto, If
    <2> QED BY <2>1, <2>2
  <1>3. SearchOver'
    <2> SUFFICES ASSUME ~keepGoing, NEW m \in Members
                 PROVE  p[m] \in Wanted \/ \E w \in Workers : m \in stores'[w]
      BY DEF SearchOver, If
    <2>1. CASE p[m] \in Wanted
      BY <2>1
    <2>2. ASSUME NEW w \in Workers, m \in stores[w] PROVE m \in stores'[w]
      <3>1. w # x
        BY <2>2 DEF SearchInv, WorkerOK, If
      <3> QED BY <2>2, <3>1 DEF SearchInv, SearchTypeOK, If
    <2> QED BY <2>1, <2>2 DEF SearchInv, SearchOver
  <1>4. ~returned /\ ~returned'
    BY DEF SearchInv, If
  <1> QED BY <1>1, <1>2, <1>3, <1>4 DEF SearchInv

(* A store into a member of p. *)
LEMMA AssignMemberKeeps ==
    ASSUME SearchInv, NEW x \in Workers, NEW v \in Members, Assign(x, v)
    PROVE  SearchInv'
  <1>0. v # "keepGoing" /\ lp[x] \in Wanted /\ p' = [p EXCEPT ![v] = lp[x]] /\ UNCHANGED keepGoing
    BY DEF SearchInv, WorkerOK, Assign, Members
  <1>1. SearchTypeOK'
    BY <1>0 DEF SearchInv, SearchTypeOK, Goto, Assign, Places
  <1>2. \A m \in Members : p[m] \in Wanted => p'[m] \in Wanted
    BY <1>0 DEF SearchInv, SearchTypeOK
  <1>3. p'[v] \in Wanted
    BY <1>0 DEF SearchInv, SearchTypeOK
  <1>4. ASSUME NEW w \in Workers PROVE WorkerOK(w)'
    <2>1. CASE w = x
      BY <2>1, <1>0, <1>2, <1>3 DEF SearchInv, SearchTypeOK, WorkerOK, Goto, Assign
    <2>2. CASE w # x
      BY <2>2, <1>4, <1>0, <1>2 DEF SearchInv, SearchTypeOK, WorkerOK, Goto, Assign
    <2> QED BY <2>1, <2>2
  <1>5. SearchOver'
    <2> SUFFICES ASSUME ~keepGoing, NEW m \in Members
                 PROVE  p'[m] \in Wanted \/ \E w \in Workers : m \in stores'[w]
      BY <1>0 DEF SearchOver
    <2>1. CASE p[m] \in Wanted \/ m = v
      BY <2>1, <1>2, <1>3
    <2>2. ASSUME m # v, NEW w \in Workers, m \in stores[w] PROVE m \in stores'[w]
      BY <2>2 DEF SearchInv, SearchTypeOK, Assign
    <2> QED BY <2>1, <2>2 DEF SearchInv, SearchOver
  <1>6. ~returned /\ ~returned'
    BY DEF SearchInv, Assign
  <1> QED BY <1>1, <1>4, <1>5, <1>6 DEF SearchInv

(* The store that ends the search: the first one finds every member wanted *)
(* or among the stores of the same thread.                                 *)
LEMMA AssignKeepGoingKeeps ==
    ASSUME SearchInv, NEW x \in Workers, Assign(x, "keepGoing")
    PROVE  SearchInv'
  <1>0. keepGoing' = FALSE /\ UNCHANGED p /\ at[x] = "assign"
    BY DEF Assign
  <1>1. SearchTypeOK'
    BY <1>0 DEF SearchInv, SearchTypeOK, Goto, Assign, Places
  <1>2. ASSUME NEW w \in Workers PROVE WorkerOK(w)'
    <2>1. CASE w = x
      BY <2>1, <1>0 DEF SearchInv, SearchTypeOK, WorkerOK, Goto, Assign
    <2>2. CASE w # x
      BY <2>2, <1>2, <1>0 DEF SearchInv, SearchTypeOK, WorkerOK, Goto, Assign
    <2> QED BY <2>1, <2>2
  <1>3. SearchOver'
    <2> SUFFICES ASSUME NEW m \in Members
                 PROVE  p[m] \in Wanted \/ \E w \in Workers : m \in stores'[w]
      BY <1>0 DEF SearchOver
    <2>0. m # "keepGoing"
      BY DEF Members
    <2>1. p[m] \in Wanted \/ \E w \in Workers : m \in stores[w]
      BY <1>0 DEF SearchInv, SearchTypeOK, SearchOver, WorkerOK
    <2>2. ASSUME NEW w \in Workers, m \in stores[w] PROVE m \in stores'[w]
      BY <2>0, <2>2 DEF SearchInv, SearchTypeOK, Assign
    <2> QED BY <2>1, <2>2
  <1>4. ~returned /\ ~returned'
    BY <1>0 DEF SearchInv, Assign
  <1> QED BY <1>1, <1>2, <1>3, <1>4 DEF SearchInv

(* Every step keeps the invariant. *)
LEMMA SearchInvStep == SearchInv /\ [SearchNext]_searchVars => SearchInv'
  <1> SUFFICES ASSUME SearchInv, [SearchNext]_searchVars PROVE SearchInv'
    OBVIOUS
  <1>0. Caller \in Workers /\ Helpers \subseteq Workers
    BY DEF Workers
  <1>1. ASSUME NEW h \in Helpers, Start(h) PROVE SearchInv'
    BY <1>0, <1>1, MoveKeeps DEF Start, Places
  <1>2. CASE StartSelf
    BY <1>0, <1>2, MoveKeeps DEF StartSelf, Places
  <1>3. ASSUME NEW w \in Workers, Step(w) PROVE SearchInv'
    <2>1. CASE While(w)
      <3> DEFINE place == IF keepGoing THEN "create" ELSE "if"
      <3>1. place \in Places /\ place \notin {"assign", "end"} /\ (place = "if" => ~keepGoing)
        BY DEF Places
      <3>2. Goto(w, place) /\ at[w] = "while" /\ UNCHANGED <<p, keepGoing, lp, stores, returned>>
        BY <2>1 DEF While
      <3> HIDE DEF place
      <3> QED BY <3>1, <3>2, MoveKeeps
    <2>2. CASE If(w)
      BY <2>2, IfKeeps
    <2>3. CASE \E k \in RandomKeys : Create(w, k)
      BY <2>3, CreateKeeps
    <2>4. CASE \E v \in Members \cup {"keepGoing"} : Assign(w, v)
      BY <2>4, AssignMemberKeeps, AssignKeepGoingKeeps
    <2> QED BY <1>3, <2>1, <2>2, <2>3, <2>4 DEF Step
  <1>4. CASE Return
    BY <1>4 DEF Return, SearchInv, SearchTypeOK, WorkerOK, SearchOver
  <1>5. CASE UNCHANGED searchVars
    BY <1>5 DEF searchVars, SearchInv, SearchTypeOK, WorkerOK, SearchOver
  <1> QED BY <1>1, <1>2, <1>3, <1>4, <1>5 DEF SearchNext

(* The invariant gives the promise: when all threads have ended no store   *)
(* is left.                                                                *)
LEMMA SearchInvVanity == SearchInv => VanityKept
  <1> SUFFICES ASSUME SearchInv, returned, NEW m \in Members PROVE p[m] \in Wanted
    BY DEF VanityKept
  <1>1. \A w \in Workers : at[w] = "end" /\ stores[w] = {}
    BY DEF SearchInv, WorkerOK
  <1>2. ~keepGoing
    BY <1>1 DEF SearchInv, WorkerOK, Workers
  <1> QED BY <1>1, <1>2 DEF SearchInv, SearchOver

(* KeyManager::newKeyPair returns no member that does not come from a key  *)
(* with the vanity, whatever the number of threads, the keys they create   *)
(* and the order in which their stores take effect.                        *)
THEOREM VanityAlways == SearchSpec => []VanityKept
  <1>1. SearchInit => SearchInv
    BY SearchInvInit
  <1>2. SearchInv /\ [SearchNext]_searchVars => SearchInv'
    BY SearchInvStep
  <1>3. SearchInv => VanityKept
    BY SearchInvVanity
  <1> QED BY <1>1, <1>2, <1>3, PTL DEF SearchSpec
=============================================================================
