--------------------------- MODULE AuditLogProofs ---------------------------
(***************************************************************************)
(* Proofs about AuditLog, for any number of requests, any limit, any order *)
(* in which the rows are stored, with failing statements and restarts.     *)
(***************************************************************************)
EXTENDS AuditLog, FiniteSetTheorems, TLAPS

-----------------------------------------------------------------------------
\* Every variable of the audit log keeps its type: what save plucks are ids of
\* rows that were stored, and they are forgotten when it returns.
THEOREM TypeCorrect == Spec => []TypeOK
<1>1. Init => TypeOK
  BY TableAssumption DEF Init, TypeOK, Steps, Kinds
<1>2. TypeOK /\ [Next]_vars => TypeOK'
  <2> SUFFICES ASSUME TypeOK, [Next]_vars PROVE TypeOK'
    OBVIOUS
  <2> USE DEF TypeOK, Steps, Kinds
  <2>1. CASE UNCHANGED vars
    BY <2>1 DEF vars
  <2>2. CASE Crash
    BY <2>2 DEF Crash
  <2>3. ASSUME NEW w \in Writers, Begin(w) PROVE TypeOK'
    BY <2>3 DEF Begin, Goto
  <2>4. ASSUME NEW w \in Writers, Insert(w) PROVE TypeOK'
    <3>1. PICK e \in Entries : table' = table \cup {e} /\ ever' = ever \cup {e}
      BY <2>4 DEF Insert
    <3>2. IsFiniteSet(ever')
      BY <3>1, FS_AddElement
    <3> QED
      BY <2>4, <3>1, <3>2 DEF Insert, Goto
  <2>5. ASSUME NEW w \in Writers, Pluck(w) PROVE TypeOK'
    BY <2>5 DEF Pluck, Goto, Outcome
  <2>6. ASSUME NEW w \in Writers, Remove(w) PROVE TypeOK'
    BY <2>6 DEF Remove, Goto, Outcome
  <2>7. ASSUME NEW w \in Writers, Fail(w) PROVE TypeOK'
    BY <2>7 DEF Fail, Goto, Outcome
  <2>8. ASSUME NEW w \in Writers, Finish(w) PROVE TypeOK'
    BY <2>8 DEF Finish, Goto
  <2> QED
    BY <2>1, <2>2, <2>3, <2>4, <2>5, <2>6, <2>7, <2>8 DEF Next, Serve
<1> QED
  BY <1>1, <1>2, PTL DEF Spec

-----------------------------------------------------------------------------
(***************************************************************************)
(* The newest rows are kept.  NewestKept is not inductive: a request may   *)
(* be about to delete rows that were old when it looked.  What is          *)
(* inductive is that they still are, even if everything that any request   *)
(* has plucked were gone: Doomed rows have Max newer ones among Spared.    *)
(***************************************************************************)
Spared == table \ Doomed
Safe(S, e) == Cardinality(Newer(S, e)) >= Max
KeptInv == \A e \in Doomed \cup (ever \ table) : Safe(Spared, e)

\* More rows make no row newer than it is.
LEMMA SafeMonotone ==
  ASSUME NEW T, IsFiniteSet(T), NEW S \in SUBSET T, NEW e, Safe(S, e)
  PROVE  Safe(T, e)
<1>1. IsFiniteSet(Newer(T, e)) /\ IsFiniteSet(Newer(S, e))
  BY FS_Subset DEF Newer
<1>2. Newer(S, e) \in SUBSET Newer(T, e)
  BY DEF Newer
<1> QED
  BY <1>1, <1>2, FS_Subset, FS_CardinalityType, MaxAssumption DEF Safe

\* A row with Max newer ones is older than each of the Max newest.
LEMMA OlderThanNewest ==
  ASSUME NEW S, S \subseteq Int, IsFiniteSet(S), NEW K, NewestOf(S, Max, K),
         NEW e \in Int, Safe(S, e)
  PROVE  \A k \in K : e < k
<1> SUFFICES ASSUME NEW k \in K, ~(e < k) PROVE FALSE
  OBVIOUS
<1>1. k \in Int /\ k <= e
  BY DEF NewestOf
<1>2. Newer(S, e) \in SUBSET (K \ {k})
  <2> SUFFICES ASSUME NEW f \in S, f > e PROVE f \in K /\ f # k
    BY DEF Newer
  <2>1. f > k /\ ~(f < k) /\ f # k
    BY <1>1
  <2> QED
    BY <2>1 DEF NewestOf
<1>3. IsFiniteSet(K)
  BY FS_Subset DEF NewestOf
<1>4. IsFiniteSet(K \ {k}) /\ Cardinality(K \ {k}) = Max - 1
  BY <1>3, FS_RemoveElement DEF NewestOf
<1>5. Cardinality(Newer(S, e)) <= Max - 1 /\ IsFiniteSet(Newer(S, e))
  BY <1>2, <1>4, FS_Subset
<1> QED
  BY <1>5, FS_CardinalityType, MaxAssumption DEF Safe

\* A row older than each of Max rows is safe among them.
LEMMA OlderIsSafe ==
  ASSUME NEW K, Cardinality(K) = Max, NEW e, \A k \in K : k > e
  PROVE  Safe(K, e)
<1>1. Newer(K, e) = K
  BY DEF Newer
<1> QED
  BY <1>1, MaxAssumption DEF Safe

LEMMA KeptInit == Init => KeptInv
<1> SUFFICES ASSUME Init PROVE Doomed \cup (ever \ table) = {}
  BY DEF KeptInv
<1> QED
  BY DEF Init, Doomed

LEMMA KeptStep == TypeOK /\ TypeOK' /\ KeptInv /\ [Next]_vars => KeptInv'
<1> SUFFICES ASSUME TypeOK, TypeOK', KeptInv, [Next]_vars PROVE KeptInv'
  OBVIOUS
<1>a. IsFiniteSet(table) /\ IsFiniteSet(Spared) /\ IsFiniteSet(Spared')
  BY FS_Subset DEF TypeOK, Spared
<1>b. table \subseteq Int /\ ever \subseteq Int /\ Doomed \subseteq ever
  BY EntriesAssumption DEF TypeOK, Doomed
\* No new row is doomed or gone, and none is spared no longer.
<1>c. ASSUME Doomed' \cup (ever' \ table') \subseteq Doomed \cup (ever \ table),
             Spared \subseteq Spared'
      PROVE  KeptInv'
  <2> SUFFICES ASSUME NEW e \in Doomed' \cup (ever' \ table') PROVE Safe(Spared', e)
    BY DEF KeptInv, Safe, Newer
  <2> QED
    BY <1>a, <1>c, SafeMonotone DEF KeptInv
<1>1. CASE UNCHANGED vars
  BY <1>1, <1>c DEF vars, Doomed, Spared
<1>2. CASE Crash
  <2>1. Doomed' = {}
    BY <1>2 DEF Crash, Doomed
  <2> QED
    BY <1>2, <2>1, <1>c DEF Crash, Spared
<1>3. ASSUME NEW w \in Writers, Begin(w) \/ Finish(w) PROVE KeptInv'
  BY <1>3, <1>c DEF Begin, Finish, Doomed, Spared
<1>4. ASSUME NEW w \in Writers, Insert(w) PROVE KeptInv'
  <2>1. PICK x \in Entries : table' = table \cup {x} /\ ever' = ever \cup {x}
    BY <1>4 DEF Insert
  <2>2. Doomed' = Doomed
    BY <1>4 DEF Insert, Doomed
  <2> QED
    BY <2>1, <2>2, <1>b, <1>c DEF Spared
<1>5. ASSUME NEW w \in Writers, Pluck(w) PROVE KeptInv'
  <2>1. CASE UNCHANGED expired
    BY <1>5, <2>1, <1>c DEF Pluck, Doomed, Spared
  <2>2. ASSUME NEW K \in SUBSET table, NewestOf(table, Max, K),
               expired' = [expired EXCEPT ![w] = table \ K]
        PROVE  KeptInv'
    <3>1. expired[w] = {}
      BY <1>5 DEF Pluck, TypeOK
    <3>2. Doomed' = Doomed \cup (table \ K)
      <4>1. expired'[w] = table \ K /\ \A v \in Writers \ {w} : expired'[v] = expired[v]
        BY <2>2 DEF TypeOK
      <4> QED
        BY <3>1, <4>1 DEF Doomed
    <3>3. ASSUME NEW e \in Doomed \cup (ever \ table) PROVE \A k \in K : k > e
      <4>1. e \in Int /\ Safe(table, e)
        BY <1>a, <1>b, SafeMonotone DEF KeptInv, Spared
      <4>2. \A k \in K : e < k
        BY <1>a, <1>b, <2>2, <4>1, OlderThanNewest
      <4> QED
        BY <1>b, <2>2, <4>1, <4>2
    <3>4. K \cap Doomed = {}
      BY <3>3, <1>b
    <3>5. Spared' = K
      BY <1>5, <3>2, <3>4 DEF Pluck, Spared
    <3>6. ASSUME NEW e \in table \ K PROVE \A k \in K : k > e
      BY <2>2, <1>b DEF NewestOf
    <3>7. ASSUME NEW e \in Doomed' \cup (ever' \ table') PROVE Safe(K, e)
      <4>1. \A k \in K : k > e
        BY <1>5, <3>2, <3>3, <3>6 DEF Pluck
      <4> QED
        BY <4>1, <2>2, OlderIsSafe DEF NewestOf
    <3> QED
      BY <3>5, <3>7 DEF KeptInv, Safe, Newer
  <2> QED
    BY <1>5, <2>1, <2>2 DEF Pluck
<1>6. ASSUME NEW w \in Writers, Remove(w) \/ Fail(w) PROVE KeptInv'
  <2>1. expired' = [expired EXCEPT ![w] = {}] /\ ever' = ever
    BY <1>6 DEF Remove, Fail
  <2>2. expired'[w] = {} /\ \A v \in Writers \ {w} : expired'[v] = expired[v]
    BY <2>1 DEF TypeOK
  <2>3. Doomed' \subseteq Doomed /\ Doomed = Doomed' \cup expired[w]
    BY <2>2 DEF Doomed
  <2>4. table' = table \/ table' = table \ expired[w]
    BY <1>6 DEF Remove, Fail
  <2> QED
    BY <2>1, <2>3, <2>4, <1>c DEF Spared
<1> QED
  BY <1>1, <1>2, <1>3, <1>4, <1>5, <1>6 DEF Next, Serve

\* "The newest audit entries retained" (audit.go): whatever requests overlap,
\* fail or are cut off by a restart, and whatever order rows arrive in, a row
\* is only ever deleted when Max newer rows stay.
THEOREM NewestRetained == Spec => []NewestKept
<1>1. TypeOK /\ KeptInv => NewestKept
  <2> SUFFICES ASSUME TypeOK, KeptInv, NEW e \in ever \ table PROVE Safe(table, e)
    BY DEF NewestKept, Safe
  <2>1. IsFiniteSet(table) /\ Spared \in SUBSET table
    BY FS_Subset DEF TypeOK, Spared
  <2> QED
    BY <2>1, SafeMonotone DEF KeptInv
<1> QED
  BY <1>1, KeptInit, KeptStep, TypeCorrect, PTL DEF Spec

-----------------------------------------------------------------------------
(***************************************************************************)
(* The limit is exceeded by no more rows than there are requests at work.  *)
(* The bound on the table is not inductive: a DELETE of w may find its     *)
(* rows gone already.  What is inductive is the bound for every set of     *)
(* requests that are about to delete, as if they had.                      *)
(***************************************************************************)
Pending == {w \in Writers : pc[w] \in {"pluck", "remove"}}
Removing == {w \in Writers : pc[w] = "remove"}
Plucked(A) == UNION {expired[w] : w \in A}
Within(A) == Cardinality(table \ Plucked(A)) <= Max + Cardinality(Pending \ A)

BoundInv ==
  ~disturbed =>
    /\ \A A \in SUBSET Removing : Within(A)
    /\ \A w \in Writers : /\ Cardinality(expired[w]) <= Cardinality(Writers)
                          /\ pc[w] # "empty"

\* Enough bind parameters for as many rows as there are requests, and a table
\* that a run with the same limit left.
Provided == /\ IsFiniteSet(Writers) /\ Cardinality(Writers) <= MaxParams
            /\ Cardinality(Table0) <= Max

LEMMA BoundInit == Provided /\ Init => BoundInv
<1> SUFFICES ASSUME Provided, Init PROVE BoundInv
  OBVIOUS
<1>1. Removing = {} /\ Pending = {}
  BY DEF Init, Removing, Pending
<1>2. Plucked({}) = {} /\ table \ {} = Table0
  BY DEF Init, Plucked
<1>3. Cardinality({}) = 0 /\ Cardinality(Table0) \in Nat /\ Cardinality(Writers) \in Nat
  BY FS_EmptySet, FS_CardinalityType, TableAssumption DEF Provided
<1>4. Within({})
  <2>1. Pending \ {} = {}
    BY <1>1
  <2> QED
    BY <1>2, <1>3, <2>1, MaxAssumption DEF Within, Provided
<1>5. \A w \in Writers : expired[w] = {} /\ pc[w] = "idle"
  BY DEF Init
<1> QED
  BY <1>1, <1>3, <1>4, <1>5 DEF BoundInv

LEMMA BoundStep ==
  Provided /\ TypeOK /\ TypeOK' /\ BoundInv /\ [Next]_vars => BoundInv'
<1> SUFFICES ASSUME Provided, TypeOK, TypeOK', BoundInv, [Next]_vars, ~disturbed'
             PROVE  /\ \A A \in SUBSET Removing' : Within(A)'
                    /\ \A w \in Writers :
                         /\ Cardinality(expired'[w]) <= Cardinality(Writers)
                         /\ pc'[w] # "empty"
  BY DEF BoundInv
<1>a. /\ IsFiniteSet(table) /\ IsFiniteSet(table')
      /\ \A S : /\ IsFiniteSet(table \ S) /\ Cardinality(table \ S) \in Nat
               /\ IsFiniteSet(Pending \ S) /\ Cardinality(Pending \ S) \in Nat
               /\ IsFiniteSet(Pending' \ S) /\ Cardinality(Pending' \ S) \in Nat
  <2>1. IsFiniteSet(table) /\ IsFiniteSet(table')
    BY FS_Subset DEF TypeOK
  <2>2. Pending \in SUBSET Writers /\ Pending' \in SUBSET Writers
    BY DEF Pending
  <2>3. IsFiniteSet(Pending) /\ IsFiniteSet(Pending')
    BY <2>2, FS_Subset DEF Provided
  <2> QED
    BY <2>1, <2>3, FS_Difference, FS_CardinalityType
<1>b. Cardinality(Writers) \in Nat /\ Cardinality({}) = 0 /\ Max \in Nat
  BY FS_CardinalityType, FS_EmptySet, MaxAssumption DEF Provided
<1>c. ASSUME ~disturbed
      PROVE  /\ \A A \in SUBSET Removing : Within(A)
             /\ \A w \in Writers : /\ Cardinality(expired[w]) <= Cardinality(Writers)
                                   /\ pc[w] # "empty"
  BY <1>c DEF BoundInv
\* Steps that leave the table, the ids and the pending requests as they are.
<1>d. ASSUME table' = table, expired' = expired, Pending' = Pending,
             Removing' = Removing, ~disturbed
      PROVE  /\ \A A \in SUBSET Removing' : Within(A)'
             /\ \A w \in Writers : Cardinality(expired'[w]) <= Cardinality(Writers)
  BY <1>c, <1>d DEF Within, Plucked
<1>1. CASE UNCHANGED vars
  BY <1>1, <1>c, <1>d DEF vars, Pending, Removing
<1>2. CASE Crash \/ \E w \in Writers : Fail(w)
  BY <1>2 DEF Crash, Fail
<1>3. ASSUME NEW w \in Writers, Begin(w) \/ Finish(w)
      PROVE  /\ \A A \in SUBSET Removing' : Within(A)'
             /\ \A v \in Writers : /\ Cardinality(expired'[v]) <= Cardinality(Writers)
                                   /\ pc'[v] # "empty"
  <2>1. /\ UNCHANGED <<table, expired>> /\ ~disturbed
        /\ pc[w] \notin {"pluck", "remove"} /\ pc'[w] \in {"insert", "idle"}
        /\ \A v \in Writers \ {w} : pc'[v] = pc[v]
    BY <1>3 DEF Begin, Finish, Goto, TypeOK
  <2>2. Pending' = Pending /\ Removing' = Removing
    BY <2>1 DEF Pending, Removing
  <2> QED
    BY <1>c, <1>d, <2>1, <2>2
<1>4. ASSUME NEW w \in Writers, Insert(w)
      PROVE  /\ \A A \in SUBSET Removing' : Within(A)'
             /\ \A v \in Writers : /\ Cardinality(expired'[v]) <= Cardinality(Writers)
                                   /\ pc'[v] # "empty"
  <2>1. PICK x \in Entries : table' = table \cup {x}
    BY <1>4 DEF Insert
  <2>2. /\ UNCHANGED expired /\ ~disturbed /\ pc[w] = "insert" /\ pc'[w] = "pluck"
        /\ \A v \in Writers \ {w} : pc'[v] = pc[v]
    BY <1>4 DEF Insert, Goto, TypeOK
  <2>3. Pending' = Pending \cup {w} /\ Removing' = Removing /\ w \notin Pending \cup Removing
    BY <2>2 DEF Pending, Removing
  <2>4. ASSUME NEW A \in SUBSET Removing PROVE Within(A)'
    <3>1. table' \ Plucked(A) \in SUBSET ((table \ Plucked(A)) \cup {x})
      BY <2>1
    <3>2. Cardinality(table' \ Plucked(A)) <= Cardinality(table \ Plucked(A)) + 1
      <4> DEFINE S == table \ Plucked(A)
      <4>0. IsFiniteSet(S) /\ Cardinality(S) \in Nat
        BY <1>a
      <4>1. /\ IsFiniteSet(S \cup {x})
            /\ Cardinality(S \cup {x}) <= Cardinality(S) + 1
        <5> HIDE DEF S
        <5>1. /\ IsFiniteSet(S \cup {x})
              /\ Cardinality(S \cup {x})
                   = IF x \in S THEN Cardinality(S) ELSE Cardinality(S) + 1
          BY <4>0, FS_AddElement
        <5> QED
          BY <4>0, <5>1
      <4>2. /\ IsFiniteSet(table' \ Plucked(A))
            /\ Cardinality(table' \ Plucked(A)) <= Cardinality((table \ Plucked(A)) \cup {x})
        BY <3>1, <4>1, FS_Subset
      <4>3. /\ Cardinality(table' \ Plucked(A)) \in Nat
            /\ Cardinality((table \ Plucked(A)) \cup {x}) \in Nat
            /\ Cardinality(table \ Plucked(A)) \in Nat
        BY <4>0, <4>1, <4>2, FS_CardinalityType
      <4> QED
        BY <4>1, <4>2, <4>3
    <3>3. Cardinality(Pending' \ A) = Cardinality(Pending \ A) + 1
      <4>1. Pending' \ A = (Pending \ A) \cup {w} /\ w \notin Pending \ A
        BY <2>3
      <4> QED
        BY <4>1, <1>a, FS_AddElement
    <3>4. Plucked(A)' = Plucked(A)
      BY <2>2 DEF Plucked
    <3>5. Cardinality(table' \ Plucked(A)) \in Nat
      BY <1>a, FS_Difference, FS_CardinalityType
    <3>6. Cardinality(table \ Plucked(A)) <= Max + Cardinality(Pending \ A)
      BY <1>c, <2>2 DEF Within
    <3>7. Cardinality(table \ Plucked(A)) \in Nat /\ Cardinality(Pending \ A) \in Nat
      BY <1>a
    <3>8. Cardinality(table' \ Plucked(A)) <= Max + Cardinality(Pending' \ A)
      BY <1>b, <3>2, <3>3, <3>5, <3>6, <3>7
    <3> QED
      BY <3>4, <3>8 DEF Within
  <2> QED
    BY <1>c, <2>2, <2>3, <2>4
<1>5. ASSUME NEW w \in Writers, Pluck(w)
      PROVE  /\ \A A \in SUBSET Removing' : Within(A)'
             /\ \A v \in Writers : /\ Cardinality(expired'[v]) <= Cardinality(Writers)
                                   /\ pc'[v] # "empty"
  <2>1. /\ UNCHANGED table /\ ~disturbed /\ pc[w] = "pluck" /\ pc'[w] \in {"full", "remove"}
        /\ \A v \in Writers \ {w} : pc'[v] = pc[v]
    BY <1>5 DEF Pluck, Goto, Outcome, TypeOK
  <2>2. w \in Pending /\ w \notin Removing
    BY <2>1 DEF Pending, Removing
  <2>3. CASE Cardinality(table) <= Max /\ Goto(w, "full") /\ UNCHANGED expired
    <3>1. Removing' = Removing
      BY <2>1, <2>3 DEF Removing, Goto, TypeOK
    <3>2. ASSUME NEW A \in SUBSET Removing PROVE Within(A)'
      <4>1. Cardinality(table \ Plucked(A)) <= Cardinality(table) /\ Cardinality(table) \in Nat
        BY <1>a, FS_Subset, FS_CardinalityType
      <4>2. Plucked(A)' = Plucked(A)
        BY <2>3 DEF Plucked
      <4>3. Cardinality(table \ Plucked(A)) \in Nat /\ Cardinality(Pending' \ A) \in Nat
        BY <1>a
      <4>4. Cardinality(table' \ Plucked(A)) <= Max + Cardinality(Pending' \ A)
        BY <1>b, <2>1, <2>3, <4>1, <4>3
      <4> QED
        BY <4>2, <4>4 DEF Within
    <3> QED
      BY <1>c, <2>1, <2>3, <3>1, <3>2
  <2>4. ASSUME NEW K \in SUBSET table, NewestOf(table, Max, K),
               expired' = [expired EXCEPT ![w] = table \ K], Goto(w, "remove")
        PROVE  /\ \A A \in SUBSET Removing' : Within(A)'
               /\ \A v \in Writers : Cardinality(expired'[v]) <= Cardinality(Writers)
    <3>1. /\ expired'[w] = table \ K /\ pc'[w] = "remove"
          /\ \A v \in Writers \ {w} : expired'[v] = expired[v]
      BY <2>4 DEF TypeOK, Goto
    <3>2. Pending' = Pending /\ Removing' = Removing \cup {w}
      BY <2>1, <2>2, <3>1 DEF Pending, Removing
    <3>3. ASSUME NEW A \in SUBSET Removing', w \notin A PROVE Within(A)'
      <4>1. A \in SUBSET Removing /\ Plucked(A)' = Plucked(A)
        BY <3>1, <3>2, <3>3 DEF Plucked, Removing
      <4> QED
        BY <1>c, <2>1, <3>2, <4>1 DEF Within
    <3>4. ASSUME NEW A \in SUBSET Removing', w \in A PROVE Within(A)'
      <4>1. table' \ Plucked(A)' \in SUBSET K
        BY <2>1, <3>1, <3>4 DEF Plucked
      <4>2. IsFiniteSet(K) /\ Cardinality(K) = Max
        BY <1>a, <2>4, FS_Subset DEF NewestOf
      <4>3. Cardinality(table' \ Plucked(A)') <= Max /\ IsFiniteSet(table' \ Plucked(A)')
        BY <4>1, <4>2, FS_Subset
      <4>4. Cardinality(table' \ Plucked(A)') \in Nat
        BY <4>3, FS_CardinalityType
      <4>5. Cardinality(Pending' \ A) \in Nat
        BY <1>a
      <4>6. Cardinality(table' \ Plucked(A)') <= Max + Cardinality(Pending' \ A)
        BY <1>b, <4>3, <4>4, <4>5
      <4> QED
        BY <4>6 DEF Within
    <3>5. Cardinality(table \ K) <= Cardinality(Writers)
      <4>1. {} \in SUBSET Removing /\ Plucked({}) = {} /\ table \ {} = table /\ Pending \ {} = Pending
        BY DEF Plucked
      <4>2. Cardinality(table) <= Max + Cardinality(Pending)
        BY <1>c, <2>1, <4>1 DEF Within
      <4>3. Cardinality(Pending) <= Cardinality(Writers) /\ Cardinality(Pending) \in Nat
        <5>1. Pending \in SUBSET Writers
          BY DEF Pending
        <5> QED
          BY <5>1, FS_Subset, FS_CardinalityType DEF Provided
      <4>4. table \cap K = K
        OBVIOUS
      <4>5. Cardinality(table \ K) = Cardinality(table) - Max
        <5>1. Cardinality(K) = Max
          BY <2>4 DEF NewestOf
        <5>2. Cardinality(table \ K) = Cardinality(table) - Cardinality(table \cap K)
          BY <1>a, FS_Difference
        <5> QED
          BY <4>4, <5>1, <5>2
      <4> QED
        BY <1>a, <1>b, <4>2, <4>3, <4>5, FS_CardinalityType
    <3> QED
      BY <1>c, <2>1, <3>1, <3>3, <3>4, <3>5
  <2> QED
    BY <1>5, <1>c, <2>1, <2>3, <2>4 DEF Pluck, Outcome
<1>6. ASSUME NEW w \in Writers, Remove(w)
      PROVE  /\ \A A \in SUBSET Removing' : Within(A)'
             /\ \A v \in Writers : /\ Cardinality(expired'[v]) <= Cardinality(Writers)
                                   /\ pc'[v] # "empty"
  <2>1. /\ ~disturbed /\ pc[w] = "remove"
        /\ expired'[w] = {} /\ \A v \in Writers \ {w} : expired'[v] = expired[v]
    BY <1>6 DEF Remove, TypeOK
  <2>2. Cardinality(expired[w]) <= MaxParams
    <3>1. IsFiniteSet(expired[w])
      BY FS_Subset DEF TypeOK
    <3> QED
      BY <1>b, <1>c, <2>1, <3>1, FS_CardinalityType, ParamsAssumption DEF Provided
  <2>3. /\ table' = table \ expired[w] /\ pc'[w] = "full"
        /\ \A v \in Writers \ {w} : pc'[v] = pc[v]
    <3>1. Cardinality(expired[w]) \in Int
      <4>1. IsFiniteSet(expired[w])
        BY FS_Subset DEF TypeOK
      <4> QED
        BY <4>1, FS_CardinalityType
    <3>2. table' = table \ expired[w] /\ Goto(w, "full")
      BY <1>6, <2>2, <3>1, ParamsAssumption DEF Remove, Outcome
    <3> QED
      BY <3>2 DEF Goto, TypeOK
  <2>4. Removing' = Removing \ {w} /\ Pending' = Pending \ {w} /\ w \in Removing
    BY <2>1, <2>3 DEF Removing, Pending
  <2>5. ASSUME NEW A \in SUBSET Removing' PROVE Within(A)'
    <3>1. A \cup {w} \in SUBSET Removing
      BY <2>4
    <3>2. Plucked(A)' = Plucked(A) /\ Plucked(A \cup {w}) = Plucked(A) \cup expired[w]
      BY <2>1, <2>4 DEF Plucked, Removing
    <3>3. table' \ Plucked(A)' = table \ Plucked(A \cup {w})
      BY <2>3, <3>2
    <3>4. Pending' \ A = Pending \ (A \cup {w})
      BY <2>4
    <3> QED
      BY <1>c, <2>1, <3>1, <3>3, <3>4 DEF Within
  <2>6. \A v \in Writers : Cardinality(expired'[v]) <= Cardinality(Writers) /\ pc'[v] # "empty"
    BY <1>b, <1>c, <2>1, <2>3
  <2> QED
    BY <2>5, <2>6
<1> QED
  BY <1>1, <1>2, <1>3, <1>4, <1>5, <1>6 DEF Next, Serve

LEMMA BoundAlways == ASSUME Provided PROVE Spec => []BoundInv
<1>1. Init => BoundInv
  BY BoundInit
<1>2. TypeOK /\ TypeOK' /\ BoundInv /\ [Next]_vars => BoundInv'
  BY BoundStep
<1> QED
  BY <1>1, <1>2, TypeCorrect, PTL DEF Spec

\* As long as nothing fails, the table exceeds audit.max_entries by at most
\* the requests that have stored a row and not yet pruned.
THEOREM Overshoot == ASSUME Provided PROVE Spec => []OvershootBounded
<1>1. BoundInv => OvershootBounded
  <2> SUFFICES ASSUME BoundInv, ~disturbed
               PROVE  Cardinality(table) <= Max + Cardinality(Pending)
    BY DEF OvershootBounded, Pending
  <2>1. Plucked({}) = {} /\ table \ {} = table /\ Pending \ {} = Pending
    BY DEF Plucked
  <2>2. Within({})
    BY DEF BoundInv
  <2> QED
    BY <2>1, <2>2 DEF Within
<1> QED
  BY <1>1, BoundAlways, PTL

\* What is cut short is a login or a logout.
CutShort == \A w \in Writers : pc[w] = "empty" => kind[w] # "other"

LEMMA CutShortAlways == ASSUME Provided PROVE Spec => []CutShort
<1>1. Init => CutShort BY DEF Init, CutShort
<1>2. TypeOK /\ CutShort /\ [Next]_vars => CutShort'
  <2> SUFFICES ASSUME TypeOK, CutShort, [Next]_vars PROVE CutShort'
    OBVIOUS
  <2> USE DEF CutShort, TypeOK
  <2>1. CASE UNCHANGED vars BY <2>1 DEF vars
  <2>2. CASE Crash BY <2>2 DEF Crash
  <2>3. ASSUME NEW w \in Writers, Begin(w) \/ Insert(w) \/ Finish(w) PROVE CutShort'
    BY <2>3 DEF Begin, Insert, Finish, Goto
  <2>4. ASSUME NEW w \in Writers, Pluck(w) \/ Remove(w) \/ Fail(w) PROVE CutShort'
    <3>1. kind' = kind
      BY <2>4 DEF Pluck, Remove, Fail
    <3>2. \/ pc' = [pc EXCEPT ![w] = "remove"]
          \/ \E ok \in BOOLEAN : pc' = [pc EXCEPT ![w] = Outcome(w, ok)]
      BY <2>4 DEF Pluck, Remove, Fail, Goto
    <3>3. \A ok \in BOOLEAN : Outcome(w, ok) = "empty" => kind[w] # "other"
      BY DEF Outcome
    <3> QED BY <3>1, <3>2, <3>3
  <2> QED BY <2>1, <2>2, <2>3, <2>4 DEF Next, Serve
<1> QED BY <1>1, <1>2, TypeCorrect, PTL DEF Spec

\* The retention DELETE never outgrows a statement while nothing fails, so
\* every login gets its token, and other requests always get their answer.
THEOREM LoginsAnswered == ASSUME Provided PROVE Spec => []LoginGetsToken
<1>1. BoundInv /\ CutShort => LoginGetsToken
  BY DEF BoundInv, CutShort, LoginGetsToken
<1> QED
  BY <1>1, BoundAlways, CutShortAlways, PTL
=============================================================================
