-------------------------- MODULE StateStore_proofs --------------------------
(***************************************************************************)
(* What the state store keeps for any callers, pool size, windows of the   *)
(* audit trail and number of calls and troubles.                           *)
(***************************************************************************)
EXTENDS StateStore, TLAPS, FiniteSetTheorems

---------------------------------------------------------------------------
(* The two windows of the audit trail *)

\* Entries told apart by their numbers.
Numbered(entries) ==
    /\ entries \subseteq Nat \X BOOLEAN /\ IsFiniteSet(entries)
    /\ \A e, f \in entries : e[1] = f[1] => e = f

Above(entries, e) == {f \in entries : f[1] > e[1]}
Protected(entries) == {e \in entries : e[2]}

LEMMA NumberedSubset ==
    ASSUME NEW S, Numbered(S), NEW T \in SUBSET S
    PROVE  Numbered(T)
BY FS_Subset DEF Numbered

LEMMA AboveFacts ==
    ASSUME NEW S, Numbered(S), NEW e
    PROVE  /\ IsFiniteSet(Above(S, e)) /\ Cardinality(Above(S, e)) \in Nat
           /\ \A T \in SUBSET S : /\ IsFiniteSet(Above(T, e)) /\ Cardinality(Above(T, e)) \in Nat
                                  /\ Cardinality(Above(T, e)) <= Cardinality(Above(S, e))
<1>1. IsFiniteSet(Above(S, e))
  <2>1. IsFiniteSet(S) /\ Above(S, e) \in SUBSET S
    BY DEF Above, Numbered
  <2> QED BY <2>1, FS_Subset
<1>2. Cardinality(Above(S, e)) \in Nat
  BY <1>1, FS_CardinalityType
<1>3. ASSUME NEW T \in SUBSET S
      PROVE  /\ IsFiniteSet(Above(T, e)) /\ Cardinality(Above(T, e)) \in Nat
             /\ Cardinality(Above(T, e)) <= Cardinality(Above(S, e))
  <2>1. Above(T, e) \in SUBSET Above(S, e)
    BY DEF Above
  <2> QED BY <1>1, <2>1, FS_Subset, FS_CardinalityType
<1> QED BY <1>1, <1>2, <1>3

LEMMA NewestDef ==
    ASSUME NEW S, NEW n
    PROVE  /\ Newest(S, n) = {e \in S : Cardinality(Above(S, e)) < n}
           /\ Newest(S, n) \subseteq S
BY DEF Newest, Above

\* The number of entries above an entry numbers the entries from the newest on.
LEMMA RankIsInjective ==
    ASSUME NEW S, Numbered(S)
    PROVE  [e \in S |-> Cardinality(Above(S, e))] \in Injection(S, 0..(Cardinality(S) - 1))
<1> DEFINE rank == [e \in S |-> Cardinality(Above(S, e))]
<1>1. IsFiniteSet(S) /\ Cardinality(S) \in Nat
  BY FS_CardinalityType DEF Numbered
<1>2. ASSUME NEW e \in S PROVE rank[e] \in 0..(Cardinality(S) - 1)
  <2>1. Above(S, e) \in SUBSET (S \ {e})
    <3>1. e[1] \in Nat
      BY DEF Numbered
    <3> QED BY <3>1 DEF Above
  <2>2. IsFiniteSet(S \ {e}) /\ Cardinality(S \ {e}) = Cardinality(S) - 1
    BY <1>1, FS_RemoveElement
  <2>3. Cardinality(Above(S, e)) <= Cardinality(S) - 1 /\ Cardinality(Above(S, e)) \in Nat
    BY <2>1, <2>2, FS_Subset, AboveFacts
  <2> QED BY <1>1, <2>3
<1>3. ASSUME NEW e \in S, NEW f \in S, e # f PROVE rank[e] # rank[f]
  <2>1. ASSUME NEW x \in S, NEW y \in S, x[1] < y[1]
        PROVE  Cardinality(Above(S, x)) # Cardinality(Above(S, y))
    <3>1. /\ x[1] \in Nat /\ y[1] \in Nat /\ \A z \in S : z[1] \in Nat
      BY DEF Numbered
    <3>2. y \in Above(S, x) /\ y \notin Above(S, y) /\ Above(S, y) \in SUBSET Above(S, x)
      BY <2>1, <3>1 DEF Above
    <3>3. IsFiniteSet(Above(S, x))
      BY AboveFacts
    <3> QED BY <3>2, <3>3, FS_Subset
  <2>2. e[1] # f[1] /\ e[1] \in Nat /\ f[1] \in Nat
    BY <1>3 DEF Numbered
  <2>3. e[1] < f[1] \/ f[1] < e[1]
    BY <2>2
  <2> QED BY <2>1, <2>3
<1> HIDE DEF rank
<1>4. rank \in [S -> 0..(Cardinality(S) - 1)]
  BY <1>2 DEF rank
<1>5. rank \in Injection(S, 0..(Cardinality(S) - 1))
  BY <1>3, <1>4 DEF Injection, IsInjective
<1> QED BY <1>5 DEF rank

\* The n newest entries are n, or all there are.
LEMMA NewestCount ==
    ASSUME NEW S, Numbered(S), NEW n \in Nat
    PROVE  /\ IsFiniteSet(Newest(S, n))
           /\ Cardinality(Newest(S, n)) = IF n < Cardinality(S) THEN n ELSE Cardinality(S)
<1> DEFINE rank == [e \in S |-> Cardinality(Above(S, e))]
           N == Cardinality(S)
<1>0. IsFiniteSet(S) /\ N \in Nat
  BY FS_CardinalityType DEF Numbered
<1>1. rank \in Injection(S, 0..(N - 1))
  BY RankIsInjective
<1>2. IsFiniteSet(0..(N - 1)) /\ Cardinality(0..(N - 1)) = N
  BY <1>0, FS_Interval
<1>3. Newest(S, n) = {e \in S : rank[e] < n} /\ Newest(S, n) \in SUBSET S
  BY NewestDef
<1> HIDE DEF rank, N
<1>4. rank \in Surjection(S, 0..(N - 1))
  BY <1>0, <1>1, <1>2, FS_Injection DEF N
<1>5. /\ rank \in [S -> 0..(N - 1)]
      /\ \A e, f \in S : rank[e] = rank[f] => e = f
      /\ \A k \in 0..(N - 1) : \E e \in S : rank[e] = k
  BY <1>1, <1>4 DEF Injection, Surjection, IsInjective
<1>6. IsFiniteSet(Newest(S, n))
  BY <1>0, <1>3, FS_Subset
<1>7. CASE n < N
  <2> DEFINE part == [e \in Newest(S, n) |-> rank[e]]
  <2>1. part \in [Newest(S, n) -> 0..(n - 1)]
    <3>1. \A e \in Newest(S, n) : rank[e] \in 0..(N - 1) /\ rank[e] < n
      BY <1>3, <1>5
    <3> QED BY <1>0, <3>1
  <2>2. \A e, f \in Newest(S, n) : part[e] = part[f] => e = f
    BY <1>3, <1>5
  <2>3. \A k \in 0..(n - 1) : \E e \in Newest(S, n) : part[e] = k
    <3>1. SUFFICES ASSUME NEW k \in 0..(n - 1) PROVE \E e \in Newest(S, n) : rank[e] = k
      OBVIOUS
    <3>2. k \in 0..(N - 1) /\ k < n
      BY <1>0, <1>7
    <3>3. PICK e \in S : rank[e] = k
      BY <1>5, <3>2
    <3> QED BY <1>3, <3>2, <3>3
  <2> HIDE DEF part
  <2>4. part \in Bijection(Newest(S, n), 0..(n - 1))
    BY <2>1, <2>2, <2>3 DEF Bijection, Injection, Surjection, IsInjective
  <2>5. Cardinality(0..(n - 1)) = Cardinality(Newest(S, n))
    BY <1>6, <2>4, FS_Bijection DEF ExistsBijection
  <2>6. Cardinality(0..(n - 1)) = n
    BY FS_Interval
  <2> QED BY <1>6, <1>7, <2>5, <2>6 DEF N
<1>8. CASE ~(n < N)
  <2>1. Newest(S, n) = S
    <3>1. \A e \in S : rank[e] \in 0..(N - 1)
      BY <1>5
    <3>2. \A e \in S : rank[e] < n
      BY <1>0, <1>8, <3>1
    <3> QED BY <1>3, <3>2
  <2> QED BY <1>0, <1>8, <2>1 DEF N
<1> QED BY <1>7, <1>8

\* Pruning what a window does not show leaves the window as it is.
LEMMA NewestAbsorbs ==
    ASSUME NEW S, Numbered(S), NEW n \in Nat, NEW A, Newest(S, n) \subseteq A, A \subseteq S
    PROVE  Newest(A, n) = Newest(S, n)
<1>1. Numbered(A) /\ A \in SUBSET S
  BY NumberedSubset
<1>2. Newest(S, n) \in SUBSET Newest(A, n)
  <2>1. SUFFICES ASSUME NEW e \in Newest(S, n) PROVE e \in A /\ Cardinality(Above(A, e)) < n
    BY NewestDef
  <2>2. Cardinality(Above(S, e)) < n
    BY NewestDef
  <2>3. /\ Cardinality(Above(S, e)) \in Nat /\ Cardinality(Above(A, e)) \in Nat
        /\ Cardinality(Above(A, e)) <= Cardinality(Above(S, e))
    BY <1>1, AboveFacts
  <2> QED BY <2>2, <2>3
<1>3. /\ IsFiniteSet(Newest(A, n)) /\ IsFiniteSet(Newest(S, n))
      /\ Cardinality(Newest(A, n)) = IF n < Cardinality(A) THEN n ELSE Cardinality(A)
      /\ Cardinality(Newest(S, n)) = IF n < Cardinality(S) THEN n ELSE Cardinality(S)
  BY <1>1, NewestCount
<1>4. Cardinality(A) <= Cardinality(S) /\ Cardinality(A) \in Nat /\ Cardinality(S) \in Nat
  BY <1>1, FS_Subset, FS_CardinalityType DEF Numbered
<1>5. Cardinality(Newest(A, n)) <= Cardinality(Newest(S, n))
  BY <1>3, <1>4
<1>6. Cardinality(Newest(S, n)) <= Cardinality(Newest(A, n))
  BY <1>2, <1>3, FS_Subset
<1>7. Cardinality(Newest(A, n)) = Cardinality(Newest(S, n))
  BY <1>3, <1>4, <1>5, <1>6
<1> QED BY <1>2, <1>3, <1>7, FS_Subset

\* An entry more: the window shows nothing but it that it did not show before.
LEMMA NewestOfMore ==
    ASSUME NEW S, NEW e, Numbered(S \cup {e}), NEW n \in Nat
    PROVE  Newest(S \cup {e}, n) \subseteq Newest(S, n) \cup {e}
<1>1. SUFFICES ASSUME NEW x \in Newest(S \cup {e}, n), x # e PROVE x \in Newest(S, n)
  OBVIOUS
<1>2. x \in S /\ Cardinality(Above(S \cup {e}, x)) < n
  BY <1>1, NewestDef
<1>3. /\ Cardinality(Above(S, x)) <= Cardinality(Above(S \cup {e}, x))
      /\ Cardinality(Above(S, x)) \in Nat /\ Cardinality(Above(S \cup {e}, x)) \in Nat
  <2>1. S \in SUBSET (S \cup {e})
    OBVIOUS
  <2> QED BY <2>1, AboveFacts
<1> QED BY <1>2, <1>3, NewestDef

\* What both windows show.
Shown(entries) == Newest(entries, GeneralKept) \cup Newest(Protected(entries), ProtectedKept)

LEMMA RetainedBySqlIsShown == \A S : RetainedBySql(S) = Shown(S)
BY DEF RetainedBySql, Shown, Protected

\* appendAuditEvent prunes the table, and loses nothing either window would have shown.
LEMMA AppendShows ==
    ASSUME NEW L, NEW e, Numbered(L \cup {e})
    PROVE  RetainedBySql(Shown(L) \cup {e}) = Shown(L \cup {e})
<1> DEFINE A == Shown(L) \cup {e}
<1>0. /\ Shown(L) \subseteq L /\ Newest(L, GeneralKept) \subseteq Shown(L)
      /\ Newest(Protected(L), ProtectedKept) \subseteq Protected(Shown(L))
  <2>1. Newest(L, GeneralKept) \subseteq L /\ Newest(Protected(L), ProtectedKept) \subseteq Protected(L)
    BY NewestDef
  <2> QED BY <2>1 DEF Shown, Protected
<1>1. Newest(A, GeneralKept) = Newest(L \cup {e}, GeneralKept)
  <2>1. Newest(L \cup {e}, GeneralKept) \subseteq A /\ A \subseteq L \cup {e}
    BY <1>0, NewestOfMore, StoreAssumption
  <2> QED BY <2>1, NewestAbsorbs, StoreAssumption
<1>2. Newest(Protected(A), ProtectedKept) = Newest(Protected(L \cup {e}), ProtectedKept)
  <2>1. CASE e[2]
    <3>1. Protected(L \cup {e}) = Protected(L) \cup {e} /\ Protected(A) = Protected(Shown(L)) \cup {e}
      BY <2>1 DEF Protected
    <3>2. Numbered(Protected(L) \cup {e})
      <4>1. Protected(L) \cup {e} \in SUBSET (L \cup {e})
        BY DEF Protected
      <4> QED BY <4>1, NumberedSubset
    <3>3. /\ Newest(Protected(L) \cup {e}, ProtectedKept) \subseteq Protected(A)
          /\ Protected(A) \subseteq Protected(L) \cup {e}
      BY <1>0, <3>1, <3>2, NewestOfMore, StoreAssumption DEF Protected
    <3> QED BY <3>1, <3>2, <3>3, NewestAbsorbs, StoreAssumption
  <2>2. CASE ~e[2]
    <3>1. Protected(L \cup {e}) = Protected(L) /\ Protected(A) = Protected(Shown(L))
      BY <2>2 DEF Protected
    <3>2. Numbered(Protected(L))
      <4>1. Protected(L) \in SUBSET (L \cup {e})
        BY DEF Protected
      <4> QED BY <4>1, NumberedSubset
    <3>3. Protected(A) \subseteq Protected(L)
      BY <1>0, <3>1 DEF Protected
    <3> QED BY <1>0, <3>1, <3>2, <3>3, NewestAbsorbs, StoreAssumption
  <2> QED BY <2>1, <2>2
<1> QED BY <1>1, <1>2, RetainedBySqlIsShown DEF Shown

\* A whole-state write reads as many entries as both windows show, and writes the same back.
LEMMA StateShows ==
    ASSUME NEW L, Numbered(L)
    PROVE  RetainedByState(Shown(L)) = Shown(L)
<1> DEFINE A == Shown(L)
           read == Newest(A, GeneralKept + ProtectedKept)
<1>0. /\ A \subseteq L /\ Newest(L, GeneralKept) \subseteq A
      /\ Newest(Protected(L), ProtectedKept) \subseteq A /\ Protected(L) \subseteq L
      /\ Newest(Protected(L), ProtectedKept) \subseteq Protected(L)
  <2>1. Newest(L, GeneralKept) \subseteq L /\ Newest(Protected(L), ProtectedKept) \subseteq Protected(L)
    BY NewestDef
  <2> QED BY <2>1 DEF Shown, Protected
<1>1. Numbered(A) /\ Numbered(Protected(L)) /\ A \in SUBSET L /\ GeneralKept \in Nat /\ ProtectedKept \in Nat
  BY <1>0, NumberedSubset, StoreAssumption
<1>2. read \subseteq A
  BY NewestDef
<1> HIDE DEF A
<1>3. Newest(L, GeneralKept) \subseteq read
  <2>1. SUFFICES ASSUME NEW e \in Newest(L, GeneralKept)
                 PROVE  Cardinality(Above(A, e)) < GeneralKept + ProtectedKept
    BY <1>0, NewestDef
  <2>2. Cardinality(Above(L, e)) < GeneralKept
    BY NewestDef
  <2>3. /\ Cardinality(Above(A, e)) <= Cardinality(Above(L, e))
        /\ Cardinality(Above(A, e)) \in Nat /\ Cardinality(Above(L, e)) \in Nat
    BY <1>1, AboveFacts
  <2> QED BY <1>1, <2>2, <2>3
<1>4. Newest(Protected(L), ProtectedKept) \subseteq read
  <2>1. SUFFICES ASSUME NEW e \in Newest(Protected(L), ProtectedKept)
                 PROVE  Cardinality(Above(A, e)) < GeneralKept + ProtectedKept
    BY <1>0, NewestDef
  <2> DEFINE G == Newest(L, GeneralKept)
             P == Above(Protected(L), e)
  <2>2. Cardinality(P) < ProtectedKept
    BY NewestDef
  <2>3. /\ IsFiniteSet(P) /\ Cardinality(P) \in Nat
        /\ IsFiniteSet(G) /\ Cardinality(G) <= GeneralKept /\ Cardinality(G) \in Nat
    <3>1. IsFiniteSet(P) /\ Cardinality(P) \in Nat
      BY <1>1, AboveFacts
    <3>2. IsFiniteSet(G) /\ Cardinality(G) = IF GeneralKept < Cardinality(L) THEN GeneralKept ELSE Cardinality(L)
      BY <1>1, NewestCount
    <3>3. Cardinality(L) \in Nat
      BY FS_CardinalityType DEF Numbered
    <3> QED BY <1>1, <3>1, <3>2, <3>3
  <2>4. Above(A, e) \in SUBSET (G \cup P)
    <3>1. A = G \cup Newest(Protected(L), ProtectedKept)
      BY DEF A, Shown
    <3> QED BY <1>0, <3>1 DEF Above
  <2> HIDE DEF G, P
  <2>5. /\ IsFiniteSet(G \cup P) /\ Cardinality(G \cup P) <= Cardinality(G) + Cardinality(P)
        /\ Cardinality(G \cup P) \in Nat
    <3>1. IsFiniteSet(G \cup P) /\ Cardinality(G \cup P) = Cardinality(G) + Cardinality(P) - Cardinality(G \cap P)
      BY <2>3, FS_Union
    <3>2. Cardinality(G \cap P) \in Nat
      BY <2>3, FS_Intersection, FS_CardinalityType
    <3>3. Cardinality(G \cup P) \in Nat
      BY <3>1, FS_CardinalityType
    <3> QED BY <2>3, <3>1, <3>2, <3>3
  <2>6. Cardinality(Above(A, e)) <= Cardinality(G \cup P) /\ Cardinality(Above(A, e)) \in Nat
    BY <2>4, <2>5, FS_Subset, FS_CardinalityType
  <2> QED BY <1>1, <2>2, <2>3, <2>5, <2>6
<1>5. Newest(read, GeneralKept) = Newest(L, GeneralKept)
  <2>1. read \subseteq L
    BY <1>0, <1>2
  <2> QED BY <1>1, <1>3, <2>1, NewestAbsorbs
<1>6. Newest(Protected(read), ProtectedKept) = Newest(Protected(L), ProtectedKept)
  <2>1. Newest(Protected(L), ProtectedKept) \subseteq Protected(read) /\ Protected(read) \subseteq Protected(L)
    BY <1>0, <1>2, <1>4 DEF Protected
  <2> QED BY <1>1, <2>1, NewestAbsorbs
<1>7. RetainedByState(A) = Newest(read, GeneralKept) \cup Newest(Protected(read), ProtectedKept)
  BY DEF RetainedByState, Protected
<1> QED BY <1>5, <1>6, <1>7 DEF Shown, A

---------------------------------------------------------------------------
(* Types, as far as the properties need them *)

RowNames == {"schedule", "user", "config", "destination", "as_run"}
Ciphers == [key : Nat, entered : Nat]
Secrets == [totp : Ciphers, stream : Ciphers, config : Ciphers, relay : Ciphers]
Entries == Nat \X BOOLEAN
Stores == [rows : [RowNames -> Nat], secrets : Secrets, audit : SUBSET Entries]
Logs == [calls : 0..MaxCalls, applied : [Ids -> Nat], returned : [Ids -> {"none", "ok", "error"}],
         audit : SUBSET Entries, overwrites : Nat]
Seens == [rows : [RowNames -> Nat], totp : Nat, config : Nat, audit : SUBSET Entries]
LiveSteps == {"boot", "connect", "waits", "locked", "computed", "relay"}
Statements == {"read", "insert", "reread", "overwrite", "last"}
AllOperations == {"whole", "user", "config", "destination", "enter_key", "protected", "audit",
                  "as_run", "relay"}
SavesWhatItRead == {"whole", "user", "config"}

\* A call carries a state it has read if it is one that writes what it read.
CallRecords == [step : LiveSteps, op : AllOperations, id : Ids, attempt : Nat,
                seen : Seens \cup {NotRead}, at : Statements]
IsCall(r) == r \in CallRecords /\ (r.op \in SavesWhatItRead => r.seen \in Seens)

CallTypes ==
    /\ calls = [c \in Callers |-> calls[c]]
    /\ \A c \in Callers : calls[c] = Idle \/ IsCall(calls[c])

StateTypes ==
    /\ store \in Stores /\ log \in Logs /\ CallTypes
    /\ writeLock \in Callers \cup {Free} /\ appSecret \in {1, 2}
    /\ relayCache \in [Processes -> Nat]

\* Whoever has the lock computes or is about to commit, and nobody else does.
LockInv ==
    /\ \A c \in Callers :
          /\ calls[c].step \in {"locked", "computed"} => writeLock = c /\ calls[c].op \notin {"as_run", "relay"}
          /\ calls[c].step = "waits" => calls[c].op # "relay"
    /\ writeLock # Free => calls[writeLock].step \in {"locked", "computed"}

LEMMA IdleIsNoCall == Idle.step = "idle" /\ \A r : IsCall(r) => r # Idle
<1>1. Idle.step = "idle"
  BY DEF Idle
<1>2. ASSUME NEW r, IsCall(r) PROVE r # Idle
  <2>1. r.step \in LiveSteps
    BY <1>2 DEF IsCall, CallRecords
  <2>2. r.step # "idle"
    BY <2>1 DEF LiveSteps
  <2> QED BY <1>1, <2>2
<1> QED BY <1>1, <1>2

LEMMA SomeoneLive ==
    ASSUME CallTypes, NEW c \in Callers, calls[c].step \in LiveSteps
    PROVE  IsCall(calls[c])
<1>1. calls[c] # Idle
  BY IdleIsNoCall DEF LiveSteps
<1> QED BY <1>1 DEF CallTypes

\* Some fields of a call change.
LEMMA StepUpdates ==
    ASSUME NEW r, IsCall(r), NEW s \in LiveSteps
    PROVE  LET n == [r EXCEPT !.step = s]
           IN  IsCall(n) /\ n.step = s /\ n.id = r.id /\ n.op = r.op /\ n.seen = r.seen /\ n.at = r.at
<1> DEFINE S == Seens \cup {NotRead}
           n == [r EXCEPT !.step = s]
<1>1. r \in [step : LiveSteps, op : AllOperations, id : Ids, attempt : Nat, seen : S, at : Statements]
  BY DEF IsCall, CallRecords
<1> HIDE DEF S
<1>2. /\ n \in [step : LiveSteps, op : AllOperations, id : Ids, attempt : Nat, seen : S, at : Statements]
      /\ n.step = s /\ n.id = r.id /\ n.op = r.op /\ n.seen = r.seen /\ n.at = r.at
  BY <1>1
<1> HIDE DEF n
<1> QED BY <1>2 DEF IsCall, CallRecords, S, n

LEMMA AttemptUpdates ==
    ASSUME NEW r, IsCall(r), NEW s \in LiveSteps
    PROVE  LET n == [r EXCEPT !.step = s, !.attempt = @ + 1]
           IN  IsCall(n) /\ n.step = s /\ n.id = r.id /\ n.op = r.op /\ n.seen = r.seen /\ n.at = r.at
<1> DEFINE S == Seens \cup {NotRead}
           With(a) == [r EXCEPT !.step = s, !.attempt = a]
           n == With(r.attempt + 1)
<1>1. r \in [step : LiveSteps, op : AllOperations, id : Ids, attempt : Nat, seen : S, at : Statements]
  BY DEF IsCall, CallRecords
<1> HIDE DEF S
<1>2. \A a \in Nat :
      /\ With(a) \in [step : LiveSteps, op : AllOperations, id : Ids, attempt : Nat, seen : S, at : Statements]
      /\ With(a).step = s /\ With(a).id = r.id /\ With(a).op = r.op /\ With(a).seen = r.seen
      /\ With(a).at = r.at
  BY <1>1
<1>3. r.attempt + 1 \in Nat
  BY <1>1
<1> HIDE DEF With
<1>4. /\ n \in [step : LiveSteps, op : AllOperations, id : Ids, attempt : Nat, seen : S, at : Statements]
      /\ n.step = s /\ n.id = r.id /\ n.op = r.op /\ n.seen = r.seen /\ n.at = r.at
  BY <1>2, <1>3
<1> HIDE DEF n
<1>5. IsCall(n)
  BY <1>4 DEF IsCall, CallRecords, S
<1> QED BY <1>4, <1>5 DEF n, With

LEMMA AtUpdates ==
    ASSUME NEW r, IsCall(r), NEW a \in Statements
    PROVE  LET n == [r EXCEPT !.at = a]
           IN  IsCall(n) /\ n.step = r.step /\ n.id = r.id /\ n.op = r.op /\ n.seen = r.seen /\ n.at = a
<1> DEFINE S == Seens \cup {NotRead}
           n == [r EXCEPT !.at = a]
<1>1. r \in [step : LiveSteps, op : AllOperations, id : Ids, attempt : Nat, seen : S, at : Statements]
  BY DEF IsCall, CallRecords
<1> HIDE DEF S
<1>2. /\ n \in [step : LiveSteps, op : AllOperations, id : Ids, attempt : Nat, seen : S, at : Statements]
      /\ n.step = r.step /\ n.id = r.id /\ n.op = r.op /\ n.seen = r.seen /\ n.at = a
  BY <1>1
<1> HIDE DEF n
<1> QED BY <1>2 DEF IsCall, CallRecords, S, n

Reading(r, s, q) == [r EXCEPT !.step = s, !.seen = q]

LEMMA SeenUpdates ==
    ASSUME NEW r, IsCall(r), NEW s \in LiveSteps, NEW q \in Seens \cup {NotRead},
           r.op \in SavesWhatItRead => q \in Seens
    PROVE  LET n == Reading(r, s, q)
           IN  IsCall(n) /\ n.step = s /\ n.id = r.id /\ n.op = r.op /\ n.seen = q /\ n.at = r.at
<1> DEFINE S == Seens \cup {NotRead}
           n == [r EXCEPT !.step = s, !.seen = q]
<1>1. r \in [step : LiveSteps, op : AllOperations, id : Ids, attempt : Nat, seen : S, at : Statements]
  BY DEF IsCall, CallRecords
<1>2. q \in S
  OBVIOUS
<1> HIDE DEF S
<1>3. /\ n \in [step : LiveSteps, op : AllOperations, id : Ids, attempt : Nat, seen : S, at : Statements]
      /\ n.step = s /\ n.id = r.id /\ n.op = r.op /\ n.seen = q /\ n.at = r.at
  BY <1>1, <1>2
<1> HIDE DEF n
<1> QED BY <1>3 DEF IsCall, CallRecords, S, n, Reading

\* One caller's call changes.
LEMMA OneCall ==
    ASSUME CallTypes, NEW c \in Callers, NEW n, n = Idle \/ IsCall(n), calls' = [calls EXCEPT ![c] = n]
    PROVE  /\ CallTypes' /\ calls'[c] = n /\ \A d \in Callers : d # c => calls'[d] = calls[d]
<1>1. \A d \in Callers : calls'[d] = IF d = c THEN n ELSE calls[d]
  BY DEF CallTypes
<1>2. calls' = [d \in Callers |-> calls'[d]]
  BY DEF CallTypes
<1> QED BY <1>1, <1>2 DEF CallTypes

\* Some fields of the history change.
LEMMA LogFields ==
    ASSUME NEW C, NEW A, NEW R, NEW U, NEW W,
           NEW l \in [calls : C, applied : A, returned : R, audit : U, overwrites : W],
           NEW f \in A, NEW g \in R, NEW u \in U
    PROVE  LET n == [l EXCEPT !.returned = g, !.applied = f, !.audit = u]
           IN  /\ n \in [calls : C, applied : A, returned : R, audit : U, overwrites : W]
               /\ n.calls = l.calls /\ n.overwrites = l.overwrites
               /\ n.applied = f /\ n.audit = u /\ n.returned = g
OBVIOUS

LEMMA LogUpdates ==
    ASSUME log \in Logs, NEW i \in Ids, NEW r \in {"none", "ok", "error"}
    PROVE  LET n == [log EXCEPT !.returned[i] = r]
           IN  /\ n \in Logs /\ n.calls = log.calls /\ n.applied = log.applied /\ n.audit = log.audit
               /\ n.overwrites = log.overwrites
               /\ n.returned[i] = r /\ \A j \in Ids : j # i => n.returned[j] = log.returned[j]
BY DEF Logs

LEMMA LoggedUpdates ==
    ASSUME log \in Logs, NEW c, calls[c].id \in Ids, NEW r \in {"none", "ok", "error"},
           AuditEntry(c) \in Entries
    PROVE  LET i == calls[c].id
               n == Logged(c, r)
           IN  /\ n \in Logs /\ n.calls = log.calls /\ n.overwrites = log.overwrites
               /\ n.applied = [log.applied EXCEPT ![i] = @ + 1]
               /\ n.audit = IF calls[c].op \in {"audit", "protected"} THEN log.audit \cup {AuditEntry(c)}
                            ELSE log.audit
               /\ n.returned[i] = r /\ \A j \in Ids : j # i => n.returned[j] = log.returned[j]
<1> DEFINE i == calls[c].id
           audit == IF calls[c].op \in {"audit", "protected"} THEN log.audit \cup {AuditEntry(c)} ELSE log.audit
           L == Logged(c, r)
           applied == [log.applied EXCEPT ![i] = @ + 1]
           returned == [log.returned EXCEPT ![i] = r]
<1>1. audit \in SUBSET Entries
  BY DEF Logs
<1>2. Logged(c, r) = [log EXCEPT !.returned[i] = r, !.applied[i] = @ + 1, !.audit = audit]
  BY DEF Logged
<1> HIDE DEF i, audit
<1>3. i \in Ids
  BY DEF i
<1>4. /\ log \in [calls : 0..MaxCalls, applied : [Ids -> Nat], returned : [Ids -> {"none", "ok", "error"}],
                   audit : SUBSET Entries, overwrites : Nat]
      /\ [log.applied EXCEPT ![i] = @ + 1] \in [Ids -> Nat]
      /\ [log.returned EXCEPT ![i] = r] \in [Ids -> {"none", "ok", "error"}]
  BY <1>3 DEF Logs
<1>5. \A j \in Ids : [log.returned EXCEPT ![i] = r][j] = IF j = i THEN r ELSE log.returned[j]
  BY <1>3, <1>4
<1>6. L = [log EXCEPT !.returned = returned, !.applied = applied, !.audit = audit]
  BY <1>2, <1>4
<1> HIDE DEF L, applied, returned
<1>7. \A f \in [Ids -> Nat], g \in [Ids -> {"none", "ok", "error"}] :
      LET n == [log EXCEPT !.returned = g, !.applied = f, !.audit = audit]
      IN  n \in Logs /\ n.calls = log.calls /\ n.overwrites = log.overwrites
          /\ n.applied = f /\ n.audit = audit /\ n.returned = g
  BY <1>1, <1>4, LogFields DEF Logs
<1>8. /\ L \in Logs /\ L.calls = log.calls /\ L.overwrites = log.overwrites
      /\ L.applied = applied /\ L.audit = audit /\ L.returned = returned
  BY <1>4, <1>6, <1>7 DEF applied, returned
<1>9. returned[i] = r /\ \A j \in Ids : j # i => returned[j] = log.returned[j]
  BY <1>3, <1>5 DEF returned
<1> QED BY <1>8, <1>9 DEF i, audit, L, applied


---------------------------------------------------------------------------
(* What a call writes *)

LEMMA CipherFacts ==
    ASSUME appSecret \in {1, 2}
    PROVE  /\ Empty \in Ciphers
           /\ \A n \in Nat : Encrypted(n) \in Ciphers /\ Encrypted(n).entered = n /\ Opens(Encrypted(n))
           /\ \A k \in Ciphers : Read(k) \in Nat
           /\ \A n \in Nat, k \in Ciphers : PreservedTwoFactor(n, k) \in Ciphers
<1>1. Empty \in Ciphers
  BY DEF Empty, Ciphers
<1>2. ASSUME NEW n \in Nat PROVE Encrypted(n) \in Ciphers /\ Encrypted(n).entered = n /\ Opens(Encrypted(n))
  <2>1. Encrypted(n) \in Ciphers /\ Encrypted(n).entered = n /\ Encrypted(n).key = appSecret
    BY DEF Encrypted, Ciphers
  <2>2. Empty.key = 0 /\ appSecret # 0
    BY DEF Empty
  <2>3. Encrypted(n) # Empty
    BY <2>1, <2>2
  <2> QED BY <2>1, <2>3 DEF Opens
<1>3. ASSUME NEW k \in Ciphers PROVE Read(k) \in Nat
  BY DEF Read, Ciphers
<1>4. ASSUME NEW n \in Nat, NEW k \in Ciphers PROVE PreservedTwoFactor(n, k) \in Ciphers
  BY <1>1, <1>2 DEF PreservedTwoFactor
<1> QED BY <1>1, <1>2, <1>3, <1>4

\* Some fields of the secrets, and of the store, change.
LEMMA SecretFields ==
    ASSUME NEW C, NEW s \in [totp : C, stream : C, config : C, relay : C], NEW k \in C
    PROVE  /\ LET n == [s EXCEPT !.totp = k]
              IN  /\ n \in [totp : C, stream : C, config : C, relay : C]
                  /\ n.totp = k /\ n.stream = s.stream /\ n.config = s.config /\ n.relay = s.relay
           /\ LET n == [s EXCEPT !.stream = k]
              IN  /\ n \in [totp : C, stream : C, config : C, relay : C]
                  /\ n.totp = s.totp /\ n.stream = k /\ n.config = s.config /\ n.relay = s.relay
           /\ LET n == [s EXCEPT !.config = k]
              IN  /\ n \in [totp : C, stream : C, config : C, relay : C]
                  /\ n.totp = s.totp /\ n.stream = s.stream /\ n.config = k /\ n.relay = s.relay
           /\ LET n == [s EXCEPT !.relay = k]
              IN  /\ n \in [totp : C, stream : C, config : C, relay : C]
                  /\ n.totp = s.totp /\ n.stream = s.stream /\ n.config = s.config /\ n.relay = k
           /\ \A j \in C : LET n == [s EXCEPT !.totp = k, !.config = j]
              IN  /\ n \in [totp : C, stream : C, config : C, relay : C]
                  /\ n.totp = k /\ n.stream = s.stream /\ n.config = j /\ n.relay = s.relay
OBVIOUS

LEMMA StoreFields ==
    ASSUME NEW R, NEW S, NEW A, NEW st \in [rows : R, secrets : S, audit : A],
           NEW r \in R, NEW s \in S, NEW a \in A
    PROVE  LET n == [st EXCEPT !.rows = r, !.secrets = s, !.audit = a]
           IN  n \in [rows : R, secrets : S, audit : A] /\ n.rows = r /\ n.secrets = s /\ n.audit = a
OBVIOUS

LEMMA RetainedTypes ==
    ASSUME NEW A \in SUBSET Entries
    PROVE  RetainedByState(A) \in SUBSET Entries /\ RetainedBySql(A) \in SUBSET Entries
<1>1. /\ \A B : \A n : Newest(B, n) \subseteq B
      /\ Newest(A, GeneralKept + ProtectedKept) \subseteq A
  BY NewestDef
<1> QED BY <1>1 DEF RetainedByState, RetainedBySql

LEMMA TwoRows ==
    \A r \in [RowNames -> Nat] : \A n, m \in Nat :
        LET w == [[r EXCEPT !["schedule"] = n] EXCEPT !["as_run"] = m]
        IN  /\ w \in [RowNames -> Nat] /\ w["as_run"] = m
            /\ \A x \in RowNames \ {"schedule", "as_run"} : w[x] = r[x]
BY DEF RowNames

\* What a commit leaves of rows, secrets and the audit trail.
LEMMA WrittenRows ==
    ASSUME store \in Stores, appSecret \in {1, 2}, NEW c, IsCall(calls[c]), AuditEntry(c) \in Entries,
           calls[c].op \notin {"as_run", "relay"}
    PROVE  LET op == calls[c].op
               seen == calls[c].seen
               old == store.secrets
               new == Written(c).secrets
           IN  /\ Written(c) \in Stores
               /\ op = "whole" => \A r \in RowNames \ {"schedule", "as_run"} : Written(c).rows[r] = seen.rows[r]
               /\ op = "whole" => Written(c).rows["as_run"] = store.rows["as_run"]
               /\ new.relay = old.relay
               /\ op # "enter_key" => new.stream = old.stream
               /\ new.totp = IF op \in {"whole", "user"} THEN PreservedTwoFactor(seen.totp, old.totp) ELSE old.totp
               /\ new.config = CASE op = "config" -> Encrypted(seen.config)
                                 [] op = "whole" /\ (old.config = Empty \/ Opens(old.config)) -> Encrypted(seen.config)
                                 [] OTHER -> old.config
               /\ Written(c).audit = CASE op = "whole" -> RetainedByState(seen.audit)
                                       [] op \in {"audit", "protected"} ->
                                              RetainedBySql(store.audit \cup {AuditEntry(c)})
                                       [] OTHER -> store.audit
<1> DEFINE op == calls[c].op
           seen == calls[c].seen
           id == calls[c].id
           old == store.secrets
           R == [RowNames -> Nat]
           A == SUBSET Entries
           Whole(r, s, a) == [rows |-> r, secrets |-> s, audit |-> a]
           New(r, s, a) == [store EXCEPT !.rows = r, !.secrets = s, !.audit = a]
           With(r, q, n) == [r EXCEPT ![q] = n]
<1>1. /\ store \in [rows : R, secrets : Secrets, audit : A]
      /\ store.rows \in R /\ old \in Secrets /\ store.audit \in A /\ id \in Nat
      /\ old.totp \in Ciphers /\ old.stream \in Ciphers /\ old.config \in Ciphers /\ old.relay \in Ciphers
      /\ op \in AllOperations /\ op \notin {"as_run", "relay"}
  <2>1. id \in Nat /\ op \in AllOperations
    BY DEF IsCall, CallRecords, Ids
  <2>2. store \in [rows : R, secrets : Secrets, audit : A] /\ old \in Secrets
    BY DEF Stores
  <2>3. old.totp \in Ciphers /\ old.stream \in Ciphers /\ old.config \in Ciphers /\ old.relay \in Ciphers
    BY <2>2 DEF Secrets
  <2> QED BY <2>1, <2>2, <2>3
<1>2. op \in SavesWhatItRead => /\ seen.rows \in R /\ seen.totp \in Nat /\ seen.config \in Nat /\ seen.audit \in A
  BY DEF IsCall, Seens
<1>3. \A r \in R, s \in Secrets, a \in A :
          /\ Whole(r, s, a) \in Stores
          /\ Whole(r, s, a).rows = r /\ Whole(r, s, a).secrets = s /\ Whole(r, s, a).audit = a
          /\ New(r, s, a) \in Stores
          /\ New(r, s, a).rows = r /\ New(r, s, a).secrets = s /\ New(r, s, a).audit = a
  BY <1>1, StoreFields DEF Stores
<1>4. \A r \in R, n \in Nat, q \in RowNames :
          /\ With(r, q, n) \in R /\ With(r, q, n)[q] = n
          /\ \A x \in RowNames : x # q => With(r, q, n)[x] = r[x]
  OBVIOUS
<1> HIDE DEF R, A, Whole, New, With
<1>5. CASE op = "whole"
  <2> DEFINE totp == PreservedTwoFactor(seen.totp, old.totp)
             config == IF old.config = Empty \/ Opens(old.config) THEN Encrypted(seen.config) ELSE old.config
             rows == With(With(seen.rows, "schedule", id), "as_run", store.rows["as_run"])
             secrets == [old EXCEPT !.totp = totp, !.config = config]
  <2>1. Written(c) = Whole(rows, secrets, RetainedByState(seen.audit))
    BY <1>1, <1>5 DEF Written, PersistState, Secrets, Stores, Whole, With
  <2>2. totp \in Ciphers /\ config \in Ciphers
    BY <1>1, <1>2, <1>5, CipherFacts DEF SavesWhatItRead
  <2> HIDE DEF totp, config
  <2>3. secrets \in Secrets /\ secrets.totp = totp /\ secrets.stream = old.stream /\ secrets.config = config
        /\ secrets.relay = old.relay
    BY <1>1, <2>2, SecretFields DEF Secrets
  <2>4. /\ rows \in R /\ rows["as_run"] = store.rows["as_run"]
        /\ \A r \in RowNames \ {"schedule", "as_run"} : rows[r] = seen.rows[r]
    <3>1. seen.rows \in R /\ store.rows["as_run"] \in Nat
      BY <1>1, <1>2, <1>5 DEF SavesWhatItRead, R, RowNames
    <3>2. "schedule" \in RowNames /\ "as_run" \in RowNames
      BY DEF RowNames
    <3>3. \A r \in R, n \in Nat, m \in Nat :
             LET w == With(With(r, "schedule", n), "as_run", m)
             IN  w \in R /\ w["as_run"] = m /\ \A x \in RowNames \ {"schedule", "as_run"} : w[x] = r[x]
      BY TwoRows DEF R, With
    <3>4. id \in Nat
      BY <1>1
    <3> DEFINE r == seen.rows
               m == store.rows["as_run"]
    <3>5. r \in R /\ m \in Nat /\ rows = With(With(r, "schedule", id), "as_run", m)
      BY <3>1
    <3> HIDE DEF r, m, rows
    <3>6. rows \in R /\ rows["as_run"] = m /\ \A x \in RowNames \ {"schedule", "as_run"} : rows[x] = r[x]
      BY <3>3, <3>4, <3>5
    <3> QED BY <3>6 DEF r, m
  <2>5. RetainedByState(seen.audit) \in A
    BY <1>2, <1>5, RetainedTypes DEF SavesWhatItRead, A
  <2> HIDE DEF rows, secrets
  <2>6. Written(c) \in Stores
    BY <1>3, <2>1, <2>3, <2>4, <2>5
  <2>7. /\ Written(c).rows = rows /\ Written(c).secrets = secrets
        /\ Written(c).audit = RetainedByState(seen.audit)
    BY <1>3, <2>1, <2>3, <2>4, <2>5
  <2> QED BY <1>5, <2>3, <2>4, <2>6, <2>7 DEF totp, config
<1>6. CASE op = "user"
  <2> DEFINE totp == PreservedTwoFactor(seen.totp, old.totp)
             rows == With(store.rows, "user", id)
             secrets == [old EXCEPT !.totp = totp]
  <2>1. Written(c) = New(rows, secrets, store.audit)
    BY <1>1, <1>6 DEF Written, SaveUser, Stores, Secrets, R, A, New, With
  <2>2. totp \in Ciphers
    BY <1>1, <1>2, <1>6, CipherFacts DEF SavesWhatItRead
  <2> HIDE DEF totp
  <2>3. secrets \in Secrets /\ secrets.totp = totp /\ secrets.stream = old.stream /\ secrets.config = old.config
        /\ secrets.relay = old.relay
    BY <1>1, <2>2, SecretFields DEF Secrets
  <2>4. rows \in R
    BY <1>1, <1>4 DEF RowNames
  <2> HIDE DEF rows, secrets
  <2>5. Written(c) \in Stores /\ Written(c).secrets = secrets /\ Written(c).audit = store.audit
    BY <1>1, <1>3, <2>1, <2>3, <2>4
  <2> QED BY <1>6, <2>3, <2>5 DEF totp
<1>7. CASE op = "config"
  <2> DEFINE config == Encrypted(seen.config)
             rows == With(store.rows, "config", id)
             secrets == [old EXCEPT !.config = config]
  <2>1. Written(c) = New(rows, secrets, store.audit)
    BY <1>1, <1>7 DEF Written, SaveConfig, Stores, Secrets, R, A, New, With
  <2>2. config \in Ciphers
    BY <1>1, <1>2, <1>7, CipherFacts DEF SavesWhatItRead
  <2> HIDE DEF config
  <2>3. secrets \in Secrets /\ secrets.totp = old.totp /\ secrets.stream = old.stream /\ secrets.config = config
        /\ secrets.relay = old.relay
    BY <1>1, <2>2, SecretFields DEF Secrets
  <2>4. rows \in R
    BY <1>1, <1>4 DEF RowNames
  <2> HIDE DEF rows, secrets
  <2>5. Written(c) \in Stores /\ Written(c).secrets = secrets /\ Written(c).audit = store.audit
    BY <1>1, <1>3, <2>1, <2>3, <2>4
  <2> QED BY <1>7, <2>3, <2>5 DEF config
<1>8. CASE op \in {"destination", "enter_key"}
  <2> DEFINE stream == IF op = "enter_key" THEN Encrypted(id) ELSE old.stream
             rows == With(store.rows, "destination", id)
             secrets == [old EXCEPT !.stream = stream]
  <2>1. Written(c) = New(rows, secrets, store.audit)
    BY <1>1, <1>8 DEF Written, SaveDestination, Stores, Secrets, R, A, New, With
  <2>2. stream \in Ciphers
    BY <1>1, CipherFacts
  <2>3. op = "destination" => stream = old.stream
    OBVIOUS
  <2> HIDE DEF stream
  <2>4. secrets \in Secrets /\ secrets.totp = old.totp /\ secrets.stream = stream /\ secrets.config = old.config
        /\ secrets.relay = old.relay
    BY <1>1, <2>2, SecretFields DEF Secrets
  <2>5. rows \in R
    BY <1>1, <1>4 DEF RowNames
  <2> HIDE DEF rows, secrets
  <2>6. Written(c) \in Stores /\ Written(c).secrets = secrets /\ Written(c).audit = store.audit
    BY <1>1, <1>3, <2>1, <2>4, <2>5
  <2> QED BY <1>8, <2>3, <2>4, <2>6
<1>9. CASE op \in {"audit", "protected"}
  <2> DEFINE audit == RetainedBySql(store.audit \cup {AuditEntry(c)})
  <2>1. Written(c) = New(store.rows, old, audit)
    BY <1>1, <1>9 DEF Written, AppendAudit, Stores, R, A, New
  <2>2. audit \in A
    BY <1>1, RetainedTypes DEF A
  <2> HIDE DEF audit
  <2>3. Written(c) \in Stores /\ Written(c).secrets = old /\ Written(c).audit = audit
    BY <1>1, <1>3, <2>1, <2>2
  <2> QED BY <1>9, <2>3 DEF audit
<1> QED BY <1>1, <1>5, <1>6, <1>7, <1>8, <1>9 DEF AllOperations


---------------------------------------------------------------------------
(* The inductive invariant *)

IsLive(c) == calls[c] # Idle

\* Every call has a number of its own and is not applied before it ends.
IdsInv ==
    /\ \A c \in Callers : IsLive(c) => calls[c].id <= log.calls /\ log.applied[calls[c].id] = 0
    /\ \A c, d \in Callers : IsLive(c) /\ IsLive(d) /\ c # d => calls[c].id # calls[d].id
    /\ \A i \in Ids : /\ log.applied[i] <= 1
                      /\ i > log.calls => log.applied[i] = 0
                      /\ log.returned[i] = "ok" => log.applied[i] = 1

\* What has been read is what is stored, but for the rows and the key written outside the lock.
IsStored(seen) ==
    /\ \A r \in RowNames \ {"as_run"} : seen.rows[r] = store.rows[r]
    /\ seen.totp = Read(store.secrets.totp) /\ seen.config = Read(store.secrets.config)
    /\ seen.audit = store.audit

SeenInv ==
    \A c \in Callers : calls[c].step = "computed" /\ calls[c].op = "whole" => IsStored(calls[c].seen)

\* The trail is what the windows show of all that was ever appended.
AuditInv ==
    /\ Numbered(log.audit) /\ \A e \in log.audit : e[1] <= Cardinality(log.audit)
    /\ store.audit = Shown(log.audit)

\* A save of a user that read a secret has one it can read to replace.
UserInv ==
    \A c \in Callers : IsLive(c) /\ calls[c].op = "user" /\ calls[c].seen.totp # 0 => Opens(store.secrets.totp)

\* A key in a container's cache is the one stored, unless two callers have replaced it.
RelayInv ==
    /\ \A c \in Callers : IsLive(c) =>
          /\ calls[c].step # "relay" => calls[c].at = "read"
          /\ calls[c].at \in {"reread", "overwrite"} => store.secrets.relay # Empty
          /\ calls[c].at = "overwrite" /\ log.overwrites = 0 => ~Opens(store.secrets.relay)
    /\ log.overwrites < 2 =>
          \A p \in Processes : relayCache[p] # 0 =>
              Opens(store.secrets.relay) /\ store.secrets.relay.entered = relayCache[p]

StoreInv == StateTypes /\ LockInv /\ IdsInv /\ SeenInv /\ AuditInv /\ UserInv /\ RelayInv

---------------------------------------------------------------------------
(* The shapes of a step *)

\* A container takes the key stored, or forgets its own; a change of APP_SECRET restarts them all.
Adopts(Q) ==
    \/ Q = Callers /\ log'.overwrites = 0 /\ \A p \in Processes : relayCache'[p] = 0
    \/ /\ appSecret' = appSecret /\ log'.overwrites = log.overwrites
       /\ \A p \in Processes :
             \/ relayCache'[p] \in {0, relayCache[p]}
             \/ Opens(store.secrets.relay) /\ relayCache'[p] = store.secrets.relay.entered

\* The next statement on the relay's key.
KeyMoves(c, n) ==
    LET same == store'.secrets.relay = store.secrets.relay /\ log'.overwrites = log.overwrites
    IN  \/ same /\ calls[c].step # "relay" /\ n.at = calls[c].at
        \/ same /\ n.step = "relay" /\ n.at = "insert"
        \/ same /\ n.step = "relay" /\ n.at = "overwrite" /\ calls[c].at = "reread" /\ ~Opens(store.secrets.relay)
        \/ /\ n.step = "relay" /\ n.at = "reread" /\ log'.overwrites = log.overwrites
           /\ store'.secrets.relay = InsertIfAbsent(store.secrets.relay, Encrypted(calls[c].id))
        \/ /\ n.step = "relay" /\ n.at = "last" /\ calls[c].at = "overwrite"
           /\ log'.overwrites = log.overwrites + 1
           /\ store'.secrets.relay = Encrypted(calls[c].id)

\* Calls end, with an error or for an answer of another kind, and nothing is written.
Quits(Q) ==
    /\ Q \in SUBSET Callers
    /\ calls' = [d \in Callers |-> IF d \in Q THEN Idle ELSE calls[d]]
    /\ writeLock' = IF writeLock \in Q THEN Free ELSE writeLock
    /\ store' = store /\ appSecret' \in {1, 2}
    /\ relayCache' \in [Processes -> Nat] /\ Adopts(Q)
    /\ log' \in Logs /\ log'.calls = log.calls /\ log'.applied = log.applied /\ log'.audit = log.audit
    /\ \A i \in Ids : log'.returned[i] \in {log.returned[i], "error"}

\* A call goes on or starts again; nothing is written but the relay's key.
Moves(c, n) ==
    /\ c \in Callers /\ IsLive(c) /\ IsCall(n) /\ n.id = calls[c].id /\ n.op = calls[c].op
    /\ calls' = [calls EXCEPT ![c] = n]
    /\ n.step = "computed" /\ n.op = "whole" => IsStored(n.seen)
    /\ n.op = "user" => n.seen = calls[c].seen
    /\ KeyMoves(c, n)
    /\ n.step = "waits" => n.op # "relay"
    /\ IF n.step \in {"locked", "computed"}
       THEN writeLock \in {Free, c} /\ writeLock' = c /\ n.op \notin {"as_run", "relay"}
       ELSE writeLock' = IF writeLock = c THEN Free ELSE writeLock
    /\ store' \in Stores /\ store'.rows = store.rows /\ store'.audit = store.audit
    /\ store'.secrets.totp = store.secrets.totp /\ store'.secrets.config = store.secrets.config
    /\ store'.secrets.stream = store.secrets.stream
    /\ log' \in Logs /\ log'.calls = log.calls /\ log'.applied = log.applied /\ log'.audit = log.audit
    /\ log'.returned = log.returned
    /\ UNCHANGED <<appSecret, relayCache>>

Begins(c, n) ==
    /\ c \in Callers /\ ~IsLive(c) /\ IsCall(n) /\ n.step = "boot" /\ n.id = log.calls + 1 /\ log.calls < MaxCalls
    /\ n.at = "read" /\ (n.op = "user" => n.seen = Hydrated) /\ log'.overwrites = log.overwrites
    /\ calls' = [calls EXCEPT ![c] = n]
    /\ log' \in Logs /\ log'.calls = log.calls + 1 /\ log'.applied = log.applied /\ log'.audit = log.audit
    /\ log'.returned = log.returned
    /\ UNCHANGED <<store, writeLock, appSecret, relayCache>>

\* A commit, under the lock or the as-run log's, whose answer arrives or is lost.
Ends(c, answer) ==
    /\ c \in Callers /\ IsLive(c) /\ calls' = [calls EXCEPT ![c] = Idle]
    /\ answer \in {"ok", "error"} /\ log' = Logged(c, answer)
    /\ UNCHANGED <<appSecret, relayCache>>

Writes(c, answer) ==
    /\ Ends(c, answer) /\ calls[c].step = "computed"
    /\ store' = Written(c) /\ writeLock' = Free

WritesAsRun(c) ==
    /\ Ends(c, "ok") /\ calls[c].step = "waits" /\ calls[c].op = "as_run"
    /\ store' = [store EXCEPT !.rows.as_run = calls[c].id] /\ writeLock' = writeLock

Step ==
    \/ \E Q \in SUBSET Callers : Quits(Q)
    \/ \E c \in Callers, n \in CallRecords : Moves(c, n) \/ Begins(c, n)
    \/ \E c \in Callers : WritesAsRun(c) \/ \E answer \in {"ok", "error"} : Writes(c, answer)

LEMMA LiveIsCall ==
    ASSUME CallTypes, NEW c \in Callers
    PROVE  /\ IsLive(c) => IsCall(calls[c]) /\ calls[c].step \in LiveSteps /\ calls[c].id \in Ids
           /\ calls[c].step # "idle" => IsLive(c)
<1>1. calls[c] = Idle \/ IsCall(calls[c])
  BY DEF CallTypes
<1>2. IsCall(calls[c]) => calls[c].step \in LiveSteps /\ calls[c].id \in Ids
  BY DEF IsCall, CallRecords
<1>3. Idle.step = "idle"
  BY DEF Idle
<1> QED BY <1>1, <1>2, <1>3 DEF IsLive

LEMMA HydratedTypes ==
    ASSUME StateTypes
    PROVE  Hydrated \in Seens /\ IsStored(Hydrated)
<1>1. /\ store.rows \in [RowNames -> Nat] /\ store.audit \in SUBSET Entries
      /\ store.secrets.totp \in Ciphers /\ store.secrets.config \in Ciphers
  <2>1. store.rows \in [RowNames -> Nat] /\ store.audit \in SUBSET Entries /\ store.secrets \in Secrets
    BY DEF StateTypes, Stores
  <2> QED BY <2>1 DEF Secrets
<1>2. Read(store.secrets.totp) \in Nat /\ Read(store.secrets.config) \in Nat
  BY <1>1, CipherFacts DEF StateTypes
<1> QED BY <1>1, <1>2 DEF Hydrated, Seens, IsStored


\* The lock is held in two steps only.
LEMMA HoldsInTwoSteps ==
    ASSUME StateTypes, LockInv, NEW c \in Callers
    PROVE  /\ calls[c].step \in {"locked", "computed"} => writeLock = c
           /\ calls[c].step \notin {"locked", "computed"} => writeLock # c
           /\ c # Free
BY StoreAssumption DEF LockInv, Free

LEMMA NobodyQuits == calls = [d \in Callers |-> IF d \in {} THEN Idle ELSE calls[d]] \/ ~CallTypes
BY DEF CallTypes

LEMMA OneQuits ==
    ASSUME CallTypes, NEW c \in Callers
    PROVE  [calls EXCEPT ![c] = Idle] = [d \in Callers |-> IF d \in {c} THEN Idle ELSE calls[d]]
BY DEF CallTypes

LEMMA NothingIsQuits ==
    ASSUME StateTypes, UNCHANGED <<store, calls, writeLock, appSecret, relayCache, log>>
    PROVE  Quits({})
<1>1. calls' = [d \in Callers |-> IF d \in {} THEN Idle ELSE calls[d]]
  BY NobodyQuits DEF StateTypes
<1> QED BY <1>1 DEF Quits, Adopts, StateTypes

\* An error is returned.
LEMMA ErrorIsQuits ==
    ASSUME StateTypes, NEW c \in Callers, IsLive(c),
           calls' = [calls EXCEPT ![c] = Idle], log' = [log EXCEPT !.returned[calls[c].id] = "error"],
           writeLock' = IF writeLock = c THEN Free ELSE writeLock,
           UNCHANGED <<store, appSecret, relayCache>>
    PROVE  Quits({c})
<1>1. calls' = [d \in Callers |-> IF d \in {c} THEN Idle ELSE calls[d]]
  BY OneQuits DEF StateTypes
<1>2. calls[c].id \in Ids
  BY LiveIsCall DEF StateTypes
<1>3. /\ log' \in Logs /\ log'.calls = log.calls /\ log'.applied = log.applied /\ log'.audit = log.audit
      /\ log'.returned[calls[c].id] = "error" /\ log'.overwrites = log.overwrites
      /\ \A j \in Ids : j # calls[c].id => log'.returned[j] = log.returned[j]
  BY <1>2, LogUpdates DEF StateTypes
<1>4. \A i \in Ids : log'.returned[i] \in {log.returned[i], "error"}
  BY <1>3
<1> QED BY <1>1, <1>3, <1>4 DEF Quits, Adopts, StateTypes

\* A call goes on to its next step, the lock as it was.
LEMMA OnIsMoves ==
    ASSUME StateTypes, LockInv, NEW c \in Callers, IsLive(c), calls[c].step \notin {"locked", "computed"},
           NEW n, IsCall(n), n.id = calls[c].id, n.op = calls[c].op, calls' = [calls EXCEPT ![c] = n],
           n.seen = calls[c].seen, n.at = calls[c].at, calls[c].step # "relay",
           n.step \notin {"locked", "computed"}, n.step = "waits" => n.op # "relay",
           UNCHANGED <<store, writeLock, appSecret, relayCache, log>>
    PROVE  Moves(c, n)
<1>1. writeLock # c
  BY HoldsInTwoSteps
<1> QED BY <1>1 DEF Moves, KeyMoves, StateTypes

LEMMA StartCallIsStarts ==
    ASSUME StateTypes, NEW c \in Callers, StartCall(c)
    PROVE  \E n \in CallRecords : Begins(c, n)
<1>1. PICK op \in Operations(ProcessOf[c]) :
          calls' = [calls EXCEPT ![c] = [step |-> "boot", op |-> op, id |-> log.calls + 1, attempt |-> 1,
                                          seen |-> IF op \in {"whole", "user", "config"} THEN Hydrated ELSE NotRead,
                                          at |-> "read"]]
  BY DEF StartCall
<1>2. calls[c] = Idle /\ log.calls < MaxCalls /\ log' = [log EXCEPT !.calls = @ + 1]
      /\ UNCHANGED <<store, writeLock, appSecret, relayCache>>
  BY DEF StartCall
<1> DEFINE s == IF op \in {"whole", "user", "config"} THEN Hydrated ELSE NotRead
           n == [step |-> "boot", op |-> op, id |-> log.calls + 1, attempt |-> 1, seen |-> s, at |-> "read"]
<1>3. op \in AllOperations
  BY DEF Operations, AllOperations
<1>4. s \in Seens \cup {NotRead} /\ (op \in SavesWhatItRead => s \in Seens)
  BY HydratedTypes DEF SavesWhatItRead
<1>5. log.calls \in 0..MaxCalls /\ MaxCalls \in Nat
  BY StoreAssumption DEF StateTypes, Logs
<1>6. log.calls + 1 \in Ids /\ log.calls + 1 \in 0..MaxCalls
  BY <1>2, <1>5 DEF Ids
<1>7. log' \in Logs /\ log'.calls = log.calls + 1 /\ log'.applied = log.applied /\ log'.audit = log.audit
      /\ log'.returned = log.returned /\ log'.overwrites = log.overwrites
  BY <1>2, <1>6 DEF StateTypes, Logs
<1>8. "boot" \in LiveSteps /\ "read" \in Statements
  BY DEF LiveSteps, Statements
<1> HIDE DEF s
<1>9. n \in CallRecords
  BY <1>3, <1>4, <1>6, <1>8 DEF CallRecords
<1>10. n.step = "boot" /\ n.id = log.calls + 1 /\ n.op = op /\ n.seen = s /\ n.at = "read"
       /\ (op = "user" => s = Hydrated)
  BY DEF s
<1>11. calls' = [calls EXCEPT ![c] = n]
  BY <1>1 DEF s
<1> HIDE DEF n
<1>12. Begins(c, n)
  BY <1>2, <1>4, <1>7, <1>9, <1>10, <1>11 DEF Begins, IsLive, IsCall
<1> QED BY <1>9, <1>12


LEMMA AwaitIsStep ==
    ASSUME StateTypes, LockInv, NEW c \in Callers, AwaitDatabase(c)
    PROVE  Step
<1>1. IsLive(c) /\ IsCall(calls[c]) /\ calls[c].step = "boot" /\ "connect" \in LiveSteps
  BY LiveIsCall DEF AwaitDatabase, StateTypes, LiveSteps
<1>2. CASE UNCHANGED calls
  <2>1. Quits({})
    BY <1>2, NothingIsQuits DEF AwaitDatabase
  <2> QED BY <2>1 DEF Step
<1>3. CASE To(c, "connect")
  <2> DEFINE n == [calls[c] EXCEPT !.step = "connect"]
  <2>1. /\ IsCall(n) /\ n.step = "connect" /\ n.id = calls[c].id /\ n.op = calls[c].op
        /\ n.seen = calls[c].seen /\ n.at = calls[c].at
    BY <1>1, StepUpdates
  <2>2. calls' = [calls EXCEPT ![c] = n]
    BY <1>3 DEF To
  <2> HIDE DEF n
  <2>3. Moves(c, n)
    BY <1>1, <2>1, <2>2, OnIsMoves DEF AwaitDatabase
  <2> QED BY <2>1, <2>3 DEF Step, IsCall
<1> QED BY <1>2, <1>3 DEF AwaitDatabase

LEMMA ConnectIsStep ==
    ASSUME StateTypes, LockInv, NEW c \in Callers, Connect(c)
    PROVE  Step
<1> DEFINE s == IF calls[c].op = "relay" THEN "relay" ELSE "waits"
           n == [calls[c] EXCEPT !.step = s]
<1>1. IsLive(c) /\ IsCall(calls[c]) /\ calls[c].step = "connect" /\ s \in LiveSteps \ {"locked", "computed"}
      /\ (s = "waits" => calls[c].op # "relay")
  BY LiveIsCall DEF Connect, StateTypes, LiveSteps
<1>2. calls' = [calls EXCEPT ![c] = n]
  BY DEF Connect, To
<1> HIDE DEF s
<1>3. /\ IsCall(n) /\ n.step = s /\ n.id = calls[c].id /\ n.op = calls[c].op
      /\ n.seen = calls[c].seen /\ n.at = calls[c].at
  BY <1>1, StepUpdates
<1> HIDE DEF n
<1>4. Moves(c, n)
  BY <1>1, <1>2, <1>3, OnIsMoves DEF Connect
<1> QED BY <1>3, <1>4 DEF Step, IsCall

LEMMA TimeoutIsStep ==
    ASSUME StateTypes, LockInv, NEW c \in Callers, ConnectTimesOut(c) \/ SecondConnectionTimesOut(c)
    PROVE  Step
<1>1. IsLive(c) /\ writeLock' = IF writeLock = c THEN Free ELSE writeLock
  <2>1. CASE ConnectTimesOut(c)
    BY <2>1, LiveIsCall, HoldsInTwoSteps DEF ConnectTimesOut, StateTypes
  <2>2. CASE SecondConnectionTimesOut(c)
    BY <2>2, LiveIsCall, HoldsInTwoSteps DEF SecondConnectionTimesOut, StateTypes
  <2> QED BY <2>1, <2>2
<1>2. /\ calls' = [calls EXCEPT ![c] = Idle] /\ log' = [log EXCEPT !.returned[calls[c].id] = "error"]
      /\ UNCHANGED <<store, appSecret, relayCache>>
  BY DEF ConnectTimesOut, SecondConnectionTimesOut, Return
<1>3. Quits({c})
  BY <1>1, <1>2, ErrorIsQuits
<1> QED BY <1>3 DEF Step

LEMMA TakeLockIsStep ==
    ASSUME StateTypes, LockInv, NEW c \in Callers, TakeLock(c)
    PROVE  Step
<1> DEFINE n == [calls[c] EXCEPT !.step = "locked"]
<1>1. IsLive(c) /\ IsCall(calls[c]) /\ calls[c].op \notin {"as_run", "relay"} /\ "locked" \in LiveSteps
  BY LiveIsCall DEF TakeLock, StateTypes, LiveSteps, LockInv
<1>2. /\ IsCall(n) /\ n.step = "locked" /\ n.id = calls[c].id /\ n.op = calls[c].op
      /\ n.seen = calls[c].seen /\ n.at = calls[c].at
  BY <1>1, StepUpdates
<1>3. calls' = [calls EXCEPT ![c] = n]
  BY DEF TakeLock, To
<1> HIDE DEF n
<1>4. Moves(c, n)
  BY <1>1, <1>2, <1>3 DEF Moves, KeyMoves, TakeLock, StateTypes
<1> QED BY <1>2, <1>4 DEF Step, IsCall

LEMMA ComputeIsStep ==
    ASSUME StateTypes, LockInv, NEW c \in Callers, Compute(c)
    PROVE  Step
<1> DEFINE q == ReadsUnderLock(c)
           n == [calls[c] EXCEPT !.step = "computed", !.seen = q]
<1>1. /\ IsLive(c) /\ IsCall(calls[c]) /\ calls[c].op \notin {"as_run", "relay"} /\ writeLock = c
      /\ "computed" \in LiveSteps
  BY LiveIsCall DEF Compute, StateTypes, LiveSteps, LockInv
<1>2. /\ q \in Seens \cup {NotRead} /\ (calls[c].op \in SavesWhatItRead => q \in Seens)
      /\ (calls[c].op = "whole" => IsStored(q)) /\ (calls[c].op = "user" => q = calls[c].seen)
  <2>1. calls[c].seen \in Seens \cup {NotRead} /\ (calls[c].op \in SavesWhatItRead => calls[c].seen \in Seens)
    BY <1>1 DEF IsCall, CallRecords
  <2> QED BY <2>1, HydratedTypes DEF ReadsUnderLock
<1>3. calls' = [calls EXCEPT ![c] = n]
  BY DEF Compute
<1> HIDE DEF q
<1>4. /\ IsCall(n) /\ n.step = "computed" /\ n.id = calls[c].id /\ n.op = calls[c].op /\ n.seen = q
      /\ n.at = calls[c].at
  <2>1. n = Reading(calls[c], "computed", q)
    BY DEF Reading
  <2> QED BY <1>1, <1>2, <2>1, SeenUpdates
<1> HIDE DEF n
<1>5. Moves(c, n)
  BY <1>1, <1>2, <1>3, <1>4 DEF Moves, KeyMoves, Compute, StateTypes
<1> QED BY <1>4, <1>5 DEF Step, IsCall

LEMMA CommitIsStep ==
    ASSUME StateTypes, NEW c \in Callers, Commit(c) \/ CommitAsRun(c)
    PROVE  Step
<1>1. CASE Commit(c)
  <2>1. IsLive(c)
    BY <1>1, LiveIsCall DEF Commit, StateTypes
  <2>2. Writes(c, "ok")
    BY <1>1, <2>1 DEF Commit, Commits, Writes, Ends
  <2> QED BY <2>2 DEF Step
<1>2. CASE CommitAsRun(c)
  <2>1. IsLive(c)
    BY <1>2, LiveIsCall DEF CommitAsRun, StateTypes
  <2>2. WritesAsRun(c)
    BY <1>2, <2>1 DEF CommitAsRun, WritesAsRun, Ends
  <2> QED BY <2>2 DEF Step
<1> QED BY <1>1, <1>2

LEMMA DeadlockIsStep ==
    ASSUME StateTypes, LockInv, NEW c \in Callers, Deadlock(c)
    PROVE  Step
<1>1. /\ IsLive(c) /\ IsCall(calls[c]) /\ writeLock = c /\ writeLock' = Free /\ "connect" \in LiveSteps
  BY LiveIsCall, HoldsInTwoSteps DEF Deadlock, StateTypes, LiveSteps
<1>2. CASE MayRetry(c, "deadlock")
  <2> DEFINE n == [calls[c] EXCEPT !.step = "connect", !.attempt = @ + 1]
  <2>1. /\ IsCall(n) /\ n.step = "connect" /\ n.id = calls[c].id /\ n.op = calls[c].op
        /\ n.seen = calls[c].seen /\ n.at = calls[c].at
    BY <1>1, AttemptUpdates
  <2>2. calls' = [calls EXCEPT ![c] = n]
    BY <1>2 DEF Deadlock, AfterError, StateTypes, CallTypes
  <2>3. log' = log
    BY <1>2 DEF Deadlock, ReturnedAfterError
  <2> HIDE DEF n
  <2>4. Moves(c, n)
    BY <1>1, <2>1, <2>2, <2>3 DEF Moves, KeyMoves, Deadlock, StateTypes
  <2> QED BY <2>1, <2>4 DEF Step, IsCall
<1>3. CASE ~MayRetry(c, "deadlock")
  <2>1. calls' = [calls EXCEPT ![c] = Idle] /\ log' = [log EXCEPT !.returned[calls[c].id] = "error"]
    BY <1>3 DEF Deadlock, AfterError, ReturnedAfterError
  <2>2. Quits({c})
    BY <1>1, <2>1, ErrorIsQuits DEF Deadlock
  <2> QED BY <2>2 DEF Step
<1> QED BY <1>2, <1>3

LEMMA BootFailsIsStep ==
    ASSUME StateTypes, LockInv, NEW p \in Processes, BootFails(p)
    PROVE  Step
<1> DEFINE Q == {c \in Callers : ProcessOf[c] = p /\ calls[c].step = "boot"}
           returned == [i \in Ids |-> IF \E c \in Q : calls[c].id = i THEN "error" ELSE log.returned[i]]
<1>1. /\ Q \in SUBSET Callers /\ writeLock \notin Q
  BY HoldsInTwoSteps
<1>2. /\ calls' = [c \in Callers |-> IF c \in Q THEN Idle ELSE calls[c]]
      /\ log' = [log EXCEPT !.returned = returned]
      /\ UNCHANGED <<store, writeLock, appSecret, relayCache>>
  BY DEF BootFails
<1>3. \A i \in Ids : returned[i] \in {log.returned[i], "error"}
  OBVIOUS
<1>4. log.returned \in [Ids -> {"none", "ok", "error"}] /\ log \in Logs
  BY DEF StateTypes, Logs
<1>5. returned \in [Ids -> {"none", "ok", "error"}]
  BY <1>4
<1> HIDE DEF Q, returned
<1>6. /\ log' \in Logs /\ log'.calls = log.calls /\ log'.applied = log.applied /\ log'.audit = log.audit
      /\ log'.returned = returned /\ log'.overwrites = log.overwrites
  BY <1>2, <1>4, <1>5 DEF Logs
<1>7. Quits(Q)
  BY <1>1, <1>2, <1>3, <1>6 DEF Quits, Adopts, StateTypes
<1> QED BY <1>1, <1>7 DEF Step


LEMMA LoseConnectionIsStep ==
    ASSUME StateTypes, LockInv, NEW c \in Callers, AuditEntry(c) \in Entries,
           NEW committed \in BOOLEAN, LoseConnection(c, committed)
    PROVE  Step
<1>1. /\ IsLive(c) /\ IsCall(calls[c]) /\ calls[c].id \in Ids /\ writeLock = c /\ calls[c].step = "computed"
  BY LiveIsCall, HoldsInTwoSteps DEF LoseConnection, StateTypes
<1>2. ~MayRetry(c, "lost")
  BY DEF MayRetry
<1>3. calls' = [calls EXCEPT ![c] = Idle]
  BY <1>2 DEF LoseConnection, AfterError
<1>4. UNCHANGED <<appSecret, relayCache>> /\ writeLock' = Free
  BY DEF LoseConnection, Commits
<1>5. CASE committed
  <2> DEFINE i == calls[c].id
             was == log.returned[i]
             mid == Logged(c, was)
  <2>1. log' = [mid EXCEPT !.returned[i] = "error"] /\ store' = Written(c)
    BY <1>2, <1>5 DEF LoseConnection, Commits, ReturnedAfterError
  <2>2. was \in {"none", "ok", "error"}
    BY <1>1 DEF StateTypes, Logs
  <2>3. Logged(c, "error") = [mid EXCEPT !.returned[i] = "error"]
    <3>1. log \in [calls : 0..MaxCalls, applied : [Ids -> Nat], returned : [Ids -> {"none", "ok", "error"}],
                   audit : SUBSET Entries, overwrites : Nat]
      BY DEF StateTypes, Logs
    <3>2. [[log.returned EXCEPT ![i] = was] EXCEPT ![i] = "error"] = [log.returned EXCEPT ![i] = "error"]
      BY <1>1, <3>1
    <3> DEFINE applied == [log.applied EXCEPT ![i] = @ + 1]
               audit == IF calls[c].op \in {"audit", "protected"} THEN log.audit \cup {AuditEntry(c)} ELSE log.audit
               Made(g) == [log EXCEPT !.returned = g, !.applied = applied, !.audit = audit]
    <3>3. \A w : Logged(c, w) = Made([log.returned EXCEPT ![i] = w])
      BY <3>1 DEF Logged
    <3>4. \A g, h : Made(g).returned = g /\ [Made(g) EXCEPT !.returned = h] = Made(h)
      <4> HIDE DEF applied, audit
      <4> QED BY <3>1
    <3> HIDE DEF Made
    <3>5. [mid EXCEPT !.returned[i] = "error"] = [mid EXCEPT !.returned = [mid.returned EXCEPT ![i] = "error"]]
      OBVIOUS
    <3> QED BY <3>2, <3>3, <3>4, <3>5
  <2>4. Ends(c, "error")
    BY <1>1, <1>3, <1>4, <2>1, <2>3 DEF Ends
  <2>5. Writes(c, "error")
    BY <1>1, <1>4, <2>1, <2>4 DEF Writes
  <2> QED BY <2>5 DEF Step
<1>6. CASE ~committed
  <2>1. store' = store /\ log' = [log EXCEPT !.returned[calls[c].id] = "error"]
    BY <1>2, <1>6 DEF LoseConnection, ReturnedAfterError
  <2>2. Quits({c})
    BY <1>1, <1>3, <1>4, <2>1, ErrorIsQuits
  <2> QED BY <2>2 DEF Step
<1> QED BY <1>5, <1>6

LEMMA RestartIsStep ==
    ASSUME StateTypes, NEW p \in Processes, ContainerRestarts(p) \/ RotateSecret
    PROVE  Step
<1>1. ASSUME NEW procs \in SUBSET Processes, Restart(procs)
      PROVE  LET Q == {c \in Callers : ProcessOf[c] \in procs}
             IN  /\ calls' = [c \in Callers |-> IF c \in Q THEN Idle ELSE calls[c]]
                 /\ writeLock' = IF writeLock \in Q THEN Free ELSE writeLock
                 /\ store' = store /\ relayCache' \in [Processes -> Nat]
                 /\ \A q \in Processes : relayCache'[q] = IF q \in procs THEN 0 ELSE relayCache[q]
  <2>1. relayCache' = [q \in Processes |-> IF q \in procs THEN 0 ELSE relayCache[q]]
    BY <1>1 DEF Restart
  <2>2. relayCache' \in [Processes -> Nat]
    BY <2>1 DEF StateTypes
  <2> QED BY <1>1, <2>1, <2>2 DEF Restart
<1>2. CASE ContainerRestarts(p)
  <2> DEFINE Q == {c \in Callers : ProcessOf[c] \in {p}}
  <2>1. {p} \in SUBSET Processes /\ Restart({p}) /\ UNCHANGED <<appSecret, log>>
    BY <1>2 DEF ContainerRestarts
  <2>2. Q \in SUBSET Callers
    OBVIOUS
  <2>3. /\ calls' = [c \in Callers |-> IF c \in Q THEN Idle ELSE calls[c]]
        /\ writeLock' = IF writeLock \in Q THEN Free ELSE writeLock
        /\ store' = store /\ relayCache' \in [Processes -> Nat]
        /\ \A q \in Processes : relayCache'[q] \in {0, relayCache[q]}
    BY <1>1, <2>1
  <2> HIDE DEF Q
  <2>4. Quits(Q)
    BY <2>1, <2>2, <2>3 DEF Quits, Adopts, StateTypes
  <2> QED BY <2>2, <2>4 DEF Step
<1>3. CASE RotateSecret
  <2> DEFINE Q == {c \in Callers : ProcessOf[c] \in Processes}
  <2>1. Restart(Processes) /\ appSecret' = 3 - appSecret /\ log' = [log EXCEPT !.overwrites = 0]
    BY <1>3 DEF RotateSecret
  <2>2. Q = Callers
    BY DEF Processes
  <2>3. /\ calls' = [c \in Callers |-> IF c \in Q THEN Idle ELSE calls[c]]
        /\ writeLock' = IF writeLock \in Q THEN Free ELSE writeLock
        /\ store' = store /\ relayCache' \in [Processes -> Nat]
        /\ \A q \in Processes : relayCache'[q] = 0
    BY <1>1, <2>1
  <2> HIDE DEF Q
  <2>4. appSecret' \in {1, 2}
    BY <2>1 DEF StateTypes
  <2>5. /\ log' \in Logs /\ log'.calls = log.calls /\ log'.applied = log.applied /\ log'.audit = log.audit
        /\ log'.returned = log.returned /\ log'.overwrites = 0
    BY <2>1 DEF StateTypes, Logs
  <2>6. Quits(Q)
    BY <2>2, <2>3, <2>4, <2>5 DEF Quits, Adopts
  <2> QED BY <2>2, <2>6 DEF Step
<1> QED BY <1>2, <1>3

LEMMA RelayIsStep ==
    ASSUME StateTypes, LockInv, NEW c \in Callers, RelayStep(c)
    PROVE  Step
<1> DEFINE relay == store.secrets.relay
           candidate == Encrypted(calls[c].id)
           Next(at) == calls' = [calls EXCEPT ![c].at = at] /\ UNCHANGED relayCache
<1>1. /\ IsLive(c) /\ IsCall(calls[c]) /\ calls[c].step = "relay" /\ writeLock # c /\ calls[c].id \in Ids
      /\ UNCHANGED <<writeLock, appSecret>>
  BY LiveIsCall, HoldsInTwoSteps DEF RelayStep, StateTypes
<1>2. store \in [rows : [RowNames -> Nat], secrets : Secrets, audit : SUBSET Entries] /\ store.secrets \in Secrets
      /\ relay \in Ciphers
  <2>1. store \in [rows : [RowNames -> Nat], secrets : Secrets, audit : SUBSET Entries] /\ store.secrets \in Secrets
    BY DEF StateTypes, Stores
  <2> QED BY <2>1 DEF Secrets
<1>3. candidate \in Ciphers
  BY <1>1, CipherFacts DEF StateTypes, Ids
<1>4. CASE Opens(relay) /\ Adopt(c, relay.entered) /\ UNCHANGED <<store, log>>
  <2>1. calls' = [d \in Callers |-> IF d \in {c} THEN Idle ELSE calls[d]]
    BY <1>4, OneQuits DEF Adopt, StateTypes
  <2>2. relay.entered \in Nat
    BY <1>2 DEF Ciphers
  <2>3. relayCache' \in [Processes -> Nat]
    BY <1>4, <2>2 DEF Adopt, StateTypes
  <2>4. \A p \in Processes : relayCache'[p] \in {relayCache[p], relay.entered}
    BY <1>4, <2>2 DEF Adopt, StateTypes
  <2>5. Quits({c})
    BY <1>1, <1>4, <2>1, <2>3, <2>4 DEF Quits, Adopts, StateTypes
  <2> QED BY <2>5 DEF Step
<1>5. ASSUME NEW at \in Statements, Next(at), NEW k \in Ciphers,
             (store' = store /\ k = relay) \/ store' = [store EXCEPT !.secrets.relay = k],
             log' = log \/ log' = [log EXCEPT !.overwrites = @ + 1],
             \/ log' = log /\ k = relay /\ at = "insert"
             \/ log' = log /\ k = relay /\ at = "overwrite" /\ calls[c].at = "reread" /\ ~Opens(relay)
             \/ log' = log /\ k = InsertIfAbsent(relay, candidate) /\ at = "reread"
             \/ log' # log /\ k = candidate /\ at = "last" /\ calls[c].at = "overwrite"
      PROVE  Step
  <2> DEFINE n == [calls[c] EXCEPT !.at = at]
             secrets == [store.secrets EXCEPT !.relay = k]
  <2>1. /\ IsCall(n) /\ n.step = "relay" /\ n.id = calls[c].id /\ n.op = calls[c].op
        /\ n.seen = calls[c].seen /\ n.at = at
    BY <1>1, AtUpdates
  <2>2. calls' = [calls EXCEPT ![c] = n] /\ UNCHANGED relayCache
    BY <1>5
  <2> HIDE DEF n
  <2>3. secrets \in Secrets /\ secrets.totp = store.secrets.totp /\ secrets.config = store.secrets.config
        /\ secrets.stream = store.secrets.stream /\ secrets.relay = k
    BY <1>2, SecretFields DEF Secrets
  <2>4. [store EXCEPT !.secrets.relay = k] = [store EXCEPT !.rows = store.rows, !.secrets = secrets, !.audit = store.audit]
    BY <1>2
  <2> HIDE DEF secrets
  <2>5. LET st == [store EXCEPT !.rows = store.rows, !.secrets = secrets, !.audit = store.audit]
        IN  st \in Stores /\ st.rows = store.rows /\ st.audit = store.audit /\ st.secrets = secrets
    <3>1. store.rows \in [RowNames -> Nat] /\ store.audit \in SUBSET Entries
      BY <1>2
    <3> QED BY <1>2, <2>3, <3>1, StoreFields DEF Stores
  <2>6. /\ store' \in Stores /\ store'.rows = store.rows /\ store'.audit = store.audit
        /\ store'.secrets.totp = store.secrets.totp /\ store'.secrets.config = store.secrets.config
        /\ store'.secrets.stream = store.secrets.stream /\ store'.secrets.relay = k
    <3>1. CASE store' = store /\ k = relay
      BY <3>1 DEF StateTypes
    <3>2. CASE store' = [store EXCEPT !.secrets.relay = k]
      BY <2>3, <2>4, <2>5, <3>2
    <3> QED BY <1>5, <3>1, <3>2
  <2>7. /\ log' \in Logs /\ log'.calls = log.calls /\ log'.applied = log.applied /\ log'.audit = log.audit
        /\ log'.returned = log.returned /\ (log' # log => log'.overwrites = log.overwrites + 1)
    <3>1. log \in Logs /\ log.overwrites + 1 \in Nat
      BY DEF StateTypes, Logs
    <3> QED BY <1>5, <3>1 DEF Logs
  <2>8. KeyMoves(c, n)
    BY <1>5, <2>1, <2>6, <2>7 DEF KeyMoves
  <2>9. Moves(c, n)
    BY <1>1, <2>1, <2>2, <2>6, <2>7, <2>8 DEF Moves
  <2> QED BY <2>1, <2>9 DEF Step, IsCall
<1>6. /\ "insert" \in Statements /\ "reread" \in Statements /\ "overwrite" \in Statements /\ "last" \in Statements
  BY DEF Statements
<1>7. CASE calls[c].at = "insert" /\ Next("reread")
           /\ store' = [store EXCEPT !.secrets.relay = InsertIfAbsent(@, candidate)] /\ UNCHANGED log
  <2>1. InsertIfAbsent(relay, candidate) \in Ciphers
    BY <1>2, <1>3 DEF InsertIfAbsent
  <2> QED BY <1>5, <1>6, <1>7, <2>1
<1>8. CASE calls[c].at = "overwrite" /\ Next("last") /\ store' = [store EXCEPT !.secrets.relay = candidate]
           /\ log' = [log EXCEPT !.overwrites = @ + 1]
  <2>1. log' # log
    <3>1. log.overwrites \in Nat
      BY DEF StateTypes, Logs
    <3>2. log'.overwrites = log.overwrites + 1
      BY <1>8 DEF StateTypes, Logs
    <3> QED BY <3>1, <3>2
  <2> QED BY <1>3, <1>5, <1>6, <1>8, <2>1
<1>9. CASE Next("insert") /\ UNCHANGED <<store, log>>
  BY <1>2, <1>5, <1>6, <1>9
<1>10. CASE calls[c].at = "reread" /\ ~Opens(relay) /\ Next("overwrite") /\ UNCHANGED <<store, log>>
  BY <1>2, <1>5, <1>6, <1>10
<1> QED BY <1>4, <1>7, <1>8, <1>9, <1>10 DEF RelayStep

LEMMA EntryType ==
    ASSUME StoreInv, NEW c
    PROVE  /\ AuditEntry(c) \in Entries /\ AuditEntry(c)[1] = Cardinality(log.audit) + 1
           /\ Cardinality(log.audit) \in Nat /\ log.audit \in SUBSET Entries
<1>1. IsFiniteSet(log.audit) /\ log.audit \in SUBSET Entries
  BY DEF StoreInv, AuditInv, Numbered, StateTypes, Logs
<1>2. Cardinality(log.audit) \in Nat
  BY <1>1, FS_CardinalityType
<1> DEFINE b == calls[c].op = "protected"
           n == Cardinality(log.audit) + 1
<1>3. b \in BOOLEAN /\ n \in Nat
  BY <1>2
<1>4. AuditEntry(c) = <<n, b>>
  BY DEF AuditEntry
<1> HIDE DEF n, b
<1>5. AuditEntry(c) \in Entries /\ AuditEntry(c)[1] = n
  BY <1>3, <1>4 DEF Entries
<1> QED BY <1>1, <1>2, <1>5 DEF n

LEMMA NextIsStep ==
    ASSUME StoreInv, [StoreNext]_storeVars
    PROVE  Step
<1>0. StateTypes /\ LockInv
  BY DEF StoreInv
<1>1. CASE UNCHANGED storeVars
  <2>1. Quits({})
    BY <1>0, <1>1, NothingIsQuits DEF storeVars
  <2> QED BY <2>1 DEF Step
<1>2. ASSUME NEW c \in Callers, StartCall(c) PROVE Step
  BY <1>0, <1>2, StartCallIsStarts DEF Step
<1>3. ASSUME NEW c \in Callers, CallStep(c) PROVE Step
  BY <1>0, <1>3, AwaitIsStep, ConnectIsStep, TimeoutIsStep, TakeLockIsStep, ComputeIsStep, CommitIsStep, RelayIsStep
     DEF CallStep
<1>4. ASSUME NEW c \in Callers, Deadlock(c) PROVE Step
  BY <1>0, <1>4, DeadlockIsStep
<1>5. ASSUME NEW c \in Callers, NEW committed \in BOOLEAN, LoseConnection(c, committed) PROVE Step
  BY <1>0, <1>5, EntryType, LoseConnectionIsStep
<1>6. ASSUME NEW p \in Processes, BootSucceeds(p) PROVE Step
  <2>1. Quits({})
    BY <1>0, <1>6, NothingIsQuits DEF BootSucceeds
  <2> QED BY <2>1 DEF Step
<1>7. ASSUME NEW p \in Processes, BootFails(p) PROVE Step
  BY <1>0, <1>7, BootFailsIsStep
<1>8. ASSUME NEW p \in Processes, ContainerRestarts(p) PROVE Step
  BY <1>0, <1>8, RestartIsStep
<1>9. ASSUME RotateSecret PROVE Step
  <2>1. CASE Processes # {}
    <3>1. PICK p \in Processes : TRUE
      BY <2>1
    <3> QED BY <1>0, <1>9, <3>1, RestartIsStep
  <2>2. CASE Processes = {}
    <3>1. Callers = {}
      BY <2>2 DEF Processes
    <3>2. /\ log' \in Logs /\ log'.calls = log.calls /\ log'.applied = log.applied /\ log'.audit = log.audit
          /\ log'.returned = log.returned /\ log'.overwrites = 0
      BY <1>0, <1>9 DEF RotateSecret, StateTypes, Logs
    <3>3. relayCache' \in [Processes -> Nat]
      BY <2>2, <1>9 DEF RotateSecret, Restart
    <3>4. calls' = [d \in Callers |-> IF d \in {} THEN Idle ELSE calls[d]]
      BY <3>1, <1>9 DEF RotateSecret, Restart
    <3>5. writeLock' = writeLock /\ store' = store
      BY <3>1, <1>9 DEF RotateSecret, Restart
    <3>6. appSecret' \in {1, 2}
      BY <1>0, <1>9 DEF RotateSecret, StateTypes
    <3>7. Quits({})
      BY <2>2, <3>1, <3>2, <3>3, <3>4, <3>5, <3>6 DEF Quits, Adopts
    <3> QED BY <3>7 DEF Step
  <2> QED BY <2>1, <2>2
<1> QED BY <1>1, <1>2, <1>3, <1>4, <1>5, <1>6, <1>7, <1>8, <1>9 DEF StoreNext

---------------------------------------------------------------------------
(* Every shape keeps the invariant *)

\* The key matters to what has been cached and to who is about to replace it.
LEMMA RelayStays ==
    ASSUME StoreInv, appSecret' = appSecret, store'.secrets.relay = store.secrets.relay,
           log'.overwrites = log.overwrites, relayCache' = relayCache,
           \A d \in Callers : IsLive(d)' => IsLive(d) /\ calls'[d] = calls[d]
    PROVE  RelayInv'
BY DEF StoreInv, RelayInv, Opens

\* A secret of a user's that opens does so after a write, too.
LEMMA UserStays ==
    ASSUME StoreInv, appSecret' = appSecret, Opens(store.secrets.totp) => Opens(store.secrets.totp)',
           \A d \in Callers : IsLive(d)' => IsLive(d) /\ calls'[d] = calls[d]
    PROVE  UserInv'
BY DEF StoreInv, UserInv

LEMMA QuitsKeeps ==
    ASSUME StoreInv, NEW Q \in SUBSET Callers, Quits(Q)
    PROVE  StoreInv'
<1>0. StateTypes /\ LockInv /\ IdsInv /\ SeenInv /\ AuditInv /\ CallTypes
  BY DEF StoreInv, StateTypes
<1>1. \A d \in Callers : /\ d \in Q => calls'[d] = Idle
                         /\ d \notin Q => calls'[d] = calls[d]
  BY DEF Quits
<1>2. Idle.step = "idle"
  BY DEF Idle
<1>3. StateTypes'
  <2>1. CallTypes'
    <3>1. calls' = [d \in Callers |-> calls'[d]]
      BY DEF Quits
    <3> QED BY <1>0, <1>1, <3>1 DEF CallTypes
  <2>2. store' \in Stores /\ log' \in Logs /\ appSecret' \in {1, 2} /\ relayCache' \in [Processes -> Nat]
    BY <1>0 DEF Quits, StateTypes
  <2>3. writeLock' \in Callers \cup {Free}
    BY <1>0 DEF Quits, StateTypes
  <2> QED BY <2>1, <2>2, <2>3 DEF StateTypes
<1>4. LockInv'
  <2>1. writeLock' = IF writeLock \in Q THEN Free ELSE writeLock
    BY DEF Quits
  <2>2. writeLock \in Callers \cup {Free}
    BY <1>0 DEF StateTypes
  <2> QED BY <1>0, <1>1, <1>2, <2>1, <2>2 DEF LockInv
<1>5. IdsInv'
  <2>1. log'.calls = log.calls /\ log'.applied = log.applied
        /\ \A i \in Ids : log'.returned[i] \in {log.returned[i], "error"}
    BY DEF Quits
  <2>2. \A d \in Callers : IsLive(d)' => IsLive(d) /\ calls'[d] = calls[d]
    BY <1>1 DEF IsLive
  <2> QED BY <1>0, <2>1, <2>2 DEF IdsInv
<1>6. SeenInv'
  <2>1. SUFFICES ASSUME NEW d \in Callers, calls'[d].step = "computed", calls'[d].op = "whole"
                 PROVE  IsStored(calls[d].seen)'
    BY DEF SeenInv
  <2>2. d \notin Q /\ calls'[d] = calls[d]
    BY <1>1, <1>2, <2>1
  <2>3. IsStored(calls[d].seen)
    BY <1>0, <2>1, <2>2 DEF SeenInv
  <2>4. appSecret' = appSecret /\ store' = store
    BY <2>2 DEF Quits, Adopts
  <2> QED BY <2>2, <2>3, <2>4 DEF IsStored, Read, Opens
<1>7. AuditInv'
  BY <1>0 DEF AuditInv, Quits
<1>8. \A d \in Callers : IsLive(d)' => d \notin Q /\ IsLive(d) /\ calls'[d] = calls[d]
  BY <1>1 DEF IsLive
<1>9. UserInv' /\ RelayInv'
  <2>1. store' = store
    BY DEF Quits
  <2>2. CASE Q = Callers /\ log'.overwrites = 0 /\ \A p \in Processes : relayCache'[p] = 0
    <3>1. \A d \in Callers : ~IsLive(d)'
      BY <1>8, <2>2
    <3> QED BY <2>2, <3>1 DEF UserInv, RelayInv
  <2>3. CASE /\ appSecret' = appSecret /\ log'.overwrites = log.overwrites
             /\ \A p \in Processes :
                   \/ relayCache'[p] \in {0, relayCache[p]}
                   \/ Opens(store.secrets.relay) /\ relayCache'[p] = store.secrets.relay.entered
    <3>1. \A k : Opens(k)' <=> Opens(k)
      BY <2>3 DEF Opens
    <3>2. UserInv'
      BY <1>8, <2>1, <2>3, UserStays DEF Opens
    <3>3. RelayInv'
      <4>1. RelayInv
        BY DEF StoreInv
      <4> QED BY <1>8, <2>1, <2>3, <4>1 DEF RelayInv, Opens
    <3> QED BY <3>2, <3>3
  <2> QED BY <2>2, <2>3 DEF Quits, Adopts
<1> QED BY <1>3, <1>4, <1>5, <1>6, <1>7, <1>9 DEF StoreInv

\* The key is inserted where there is none and replaced where it does not open.
LEMMA RelayMoves ==
    ASSUME StoreInv, NEW c \in Callers, NEW n, Moves(c, n), calls'[c] = n, n # Idle,
           \A d \in Callers : d # c => calls'[d] = calls[d]
    PROVE  RelayInv'
<1> DEFINE old == store.secrets.relay
           new == store'.secrets.relay
<1>1. RelayInv /\ IsLive(c) /\ appSecret' = appSecret /\ relayCache' = relayCache /\ KeyMoves(c, n)
      /\ appSecret \in {1, 2} /\ log.overwrites \in Nat
  BY DEF StoreInv, StateTypes, Logs, Moves
<1>2. \A k : Opens(k)' <=> Opens(k)
  BY <1>1 DEF Opens
<1>3. \A d \in Callers : d # c /\ IsLive(d)' => IsLive(d) /\ calls'[d] = calls[d]
  BY DEF IsLive
<1>4. \A k : Encrypted(k) # Empty /\ Opens(Encrypted(k))
  <2>1. TAKE k
  <2>2. Encrypted(k).key = appSecret /\ Empty.key = 0
    BY DEF Encrypted, Empty
  <2>3. Encrypted(k) # Empty
    BY <1>1, <2>2
  <2> QED BY <2>2, <2>3 DEF Opens
<1>5. \A k : Opens(k) => k # Empty
  BY DEF Opens
<1>6. CASE new = old /\ log'.overwrites = log.overwrites
           /\ \/ calls[c].step # "relay" /\ n.at = calls[c].at
              \/ n.step = "relay" /\ n.at = "insert"
              \/ n.step = "relay" /\ n.at = "overwrite" /\ calls[c].at = "reread" /\ ~Opens(old)
  <2>1. /\ n.step # "relay" => n.at = "read"
        /\ n.at \in {"reread", "overwrite"} => old # Empty
        /\ n.at = "overwrite" /\ log.overwrites = 0 => ~Opens(old)
    BY <1>1, <1>6 DEF RelayInv
  <2> QED BY <1>1, <1>2, <1>3, <1>6, <2>1 DEF RelayInv
<1>7. CASE n.step = "relay" /\ n.at = "reread" /\ log'.overwrites = log.overwrites
           /\ new = InsertIfAbsent(old, Encrypted(calls[c].id))
  <2>1. new # Empty /\ (old # Empty => new = old)
    BY <1>4, <1>7 DEF InsertIfAbsent
  <2>2. \A d \in Callers : d # c /\ IsLive(d)' =>
            /\ calls'[d].step # "relay" => calls'[d].at = "read"
            /\ calls'[d].at = "overwrite" => old # Empty
            /\ calls'[d].at = "overwrite" /\ log.overwrites = 0 => ~Opens(old)
    BY <1>1, <1>3 DEF RelayInv
  <2>3. log.overwrites < 2 =>
          \A p \in Processes : relayCache[p] # 0 => Opens(new) /\ new.entered = relayCache[p]
    BY <1>1, <1>5, <2>1 DEF RelayInv
  <2> QED BY <1>1, <1>2, <1>7, <2>1, <2>2, <2>3 DEF RelayInv
<1>8. CASE /\ n.step = "relay" /\ n.at = "last" /\ calls[c].at = "overwrite"
           /\ log'.overwrites = log.overwrites + 1 /\ new = Encrypted(calls[c].id)
  <2>1. new # Empty /\ log'.overwrites # 0
    BY <1>1, <1>4, <1>8
  <2>2. log'.overwrites < 2 => \A p \in Processes : relayCache[p] = 0
    BY <1>1, <1>8 DEF RelayInv
  <2>3. \A d \in Callers : d # c /\ IsLive(d)' => (calls'[d].step # "relay" => calls'[d].at = "read")
    BY <1>1, <1>3 DEF RelayInv
  <2> QED BY <1>1, <1>8, <2>1, <2>2, <2>3 DEF RelayInv
<1> QED BY <1>1, <1>6, <1>7, <1>8 DEF KeyMoves

LEMMA MovesKeeps ==
    ASSUME StoreInv, NEW c \in Callers, NEW n, Moves(c, n)
    PROVE  StoreInv'
<1>0. StateTypes /\ LockInv /\ IdsInv /\ SeenInv /\ AuditInv /\ CallTypes
  BY DEF StoreInv, StateTypes
<1>1. CallTypes' /\ calls'[c] = n /\ \A d \in Callers : d # c => calls'[d] = calls[d]
  BY <1>0, OneCall DEF Moves
<1>2. IsLive(c) /\ IsCall(n) /\ n # Idle /\ n.id = calls[c].id /\ n.op = calls[c].op
  BY IdleIsNoCall DEF Moves
<1>3. writeLock \in Callers \cup {Free} /\ c # Free
  BY <1>0, HoldsInTwoSteps DEF StateTypes
<1>4. StateTypes'
  BY <1>0, <1>1, <1>3 DEF Moves, StateTypes
<1>5. LockInv'
  <2>1. n.step = "waits" => n.op # "relay"
    BY DEF Moves
  <2>2. CASE n.step \in {"locked", "computed"}
    <3>1. writeLock \in {Free, c} /\ writeLock' = c /\ n.op \notin {"as_run", "relay"}
      BY <2>2 DEF Moves
    <3>2. \A d \in Callers : d # c => calls[d].step \notin {"locked", "computed"}
      BY <1>0, <1>3, <3>1, HoldsInTwoSteps DEF LockInv, Free
    <3> QED BY <1>0, <1>1, <2>1, <2>2, <3>1, <3>2 DEF LockInv
  <2>3. CASE n.step \notin {"locked", "computed"}
    <3>1. writeLock' = IF writeLock = c THEN Free ELSE writeLock
      BY <2>3 DEF Moves
    <3> QED BY <1>0, <1>1, <1>3, <2>1, <2>3, <3>1 DEF LockInv
  <2> QED BY <2>2, <2>3
<1>6. IdsInv'
  <2>1. log'.calls = log.calls /\ log'.applied = log.applied /\ log'.returned = log.returned
    BY DEF Moves
  <2>2. \A d \in Callers : IsLive(d)' => IsLive(d) /\ calls'[d].id = calls[d].id
    BY <1>1, <1>2 DEF IsLive
  <2> QED BY <1>0, <2>1, <2>2 DEF IdsInv
<1>7. SeenInv'
  <2>1. SUFFICES ASSUME NEW d \in Callers, calls'[d].step = "computed", calls'[d].op = "whole"
                 PROVE  IsStored(calls[d].seen)'
    BY DEF SeenInv
  <2>2. IsStored(calls'[d].seen)
    <3>1. CASE d = c
      BY <1>1, <2>1, <3>1 DEF Moves
    <3>2. CASE d # c
      BY <1>0, <1>1, <2>1, <3>2 DEF SeenInv
    <3> QED BY <3>1, <3>2
  <2>3. /\ store'.rows = store.rows /\ store'.audit = store.audit /\ appSecret' = appSecret
        /\ store'.secrets.totp = store.secrets.totp /\ store'.secrets.config = store.secrets.config
    BY DEF Moves
  <2> QED BY <2>2, <2>3 DEF IsStored, Read, Opens
<1>8. AuditInv'
  BY <1>0 DEF AuditInv, Moves
<1>9. UserInv'
  <2>1. UserInv
    BY DEF StoreInv
  <2>2. \A d \in Callers : IsLive(d)' => IsLive(d) /\ calls'[d].op = calls[d].op
                                        /\ (calls'[d].op = "user" => calls'[d].seen = calls[d].seen)
    BY <1>1, <1>2 DEF IsLive, Moves
  <2>3. store'.secrets.totp = store.secrets.totp /\ appSecret' = appSecret
    BY DEF Moves
  <2> QED BY <2>1, <2>2, <2>3 DEF UserInv, Opens
<1>10. RelayInv'
  BY <1>1, <1>2, RelayMoves
<1> QED BY <1>4, <1>5, <1>6, <1>7, <1>8, <1>9, <1>10 DEF StoreInv

LEMMA BeginsKeeps ==
    ASSUME StoreInv, NEW c \in Callers, NEW n, Begins(c, n)
    PROVE  StoreInv'
<1>0. StateTypes /\ LockInv /\ IdsInv /\ SeenInv /\ AuditInv /\ CallTypes
  BY DEF StoreInv, StateTypes
<1>1. CallTypes' /\ calls'[c] = n /\ \A d \in Callers : d # c => calls'[d] = calls[d]
  BY <1>0, OneCall DEF Begins
<1>2. /\ ~IsLive(c) /\ IsCall(n) /\ n.step = "boot" /\ n.id = log.calls + 1 /\ log.calls < MaxCalls
      /\ UNCHANGED <<store, writeLock, appSecret, relayCache>>
      /\ log' \in Logs /\ log'.calls = log.calls + 1 /\ log'.applied = log.applied /\ log'.audit = log.audit
      /\ log'.returned = log.returned
  BY DEF Begins
<1>3. log.calls \in Nat /\ n.id \in Ids /\ Ids \subseteq Nat
  BY <1>0, <1>2 DEF StateTypes, Logs, IsCall, CallRecords, Ids
<1>4. calls[c].step = "idle"
  BY <1>2 DEF IsLive, Idle
<1>5. StateTypes'
  BY <1>0, <1>1, <1>2 DEF StateTypes
<1>6. LockInv'
  <2>1. writeLock \in Callers \cup {Free} /\ c # Free
    BY <1>0, HoldsInTwoSteps DEF StateTypes
  <2> QED BY <1>0, <1>1, <1>2, <1>4, <2>1 DEF LockInv
<1>7. IdsInv'
  <2>1. \A d \in Callers : IsLive(d) => calls[d].id \in Ids /\ calls[d].id <= log.calls
    BY <1>0, LiveIsCall DEF IdsInv
  <2>2. \A d \in Callers : d # c /\ IsLive(d)' => IsLive(d) /\ calls'[d].id = calls[d].id
    BY <1>1 DEF IsLive
  <2>3. \A d \in Callers : IsLive(d)' => calls'[d].id <= log'.calls /\ log'.applied[calls'[d].id] = 0
    <3>1. log.applied[n.id] = 0
      BY <1>0, <1>2, <1>3 DEF IdsInv
    <3>2. \A d \in Callers : d # c /\ IsLive(d)' => calls'[d].id <= log.calls + 1 /\ log.applied[calls'[d].id] = 0
      BY <1>0, <1>3, <2>1, <2>2 DEF IdsInv, Ids
    <3> QED BY <1>1, <1>2, <1>3, <3>1, <3>2
  <2>4. \A d, e \in Callers : IsLive(d)' /\ IsLive(e)' /\ d # e => calls'[d].id # calls'[e].id
    <3>1. \A d \in Callers : d # c /\ IsLive(d)' => calls'[d].id \in Nat /\ calls'[d].id <= log.calls
      BY <1>3, <2>1, <2>2
    <3>2. \A d \in Callers : d # c /\ IsLive(d)' => calls'[d].id # n.id
      BY <1>2, <1>3, <3>1
    <3>3. \A d, e \in Callers : d # c /\ e # c /\ IsLive(d)' /\ IsLive(e)' /\ d # e => calls'[d].id # calls'[e].id
      BY <1>0, <2>2 DEF IdsInv
    <3> QED BY <1>1, <3>2, <3>3
  <2>5. \A i \in Ids : i > log'.calls => i > log.calls
    BY <1>2, <1>3
  <2> QED BY <1>0, <1>2, <2>3, <2>4, <2>5 DEF IdsInv
<1>8. SeenInv'
  <2>1. \A d \in Callers : calls'[d].step = "computed" => calls'[d] = calls[d]
    BY <1>1, <1>2
  <2> QED BY <1>0, <1>2, <2>1 DEF SeenInv, IsStored, Read, Opens
<1>9. AuditInv'
  BY <1>0, <1>2 DEF AuditInv
<1>10. \A d \in Callers : d # c /\ IsLive(d)' => IsLive(d) /\ calls'[d] = calls[d]
  BY <1>1 DEF IsLive
<1>11. UserInv'
  <2>1. UserInv /\ (n.op = "user" => n.seen = Hydrated)
    BY DEF StoreInv, Begins
  <2>2. n.op = "user" /\ n.seen.totp # 0 => Opens(store.secrets.totp)
    BY <2>1 DEF Hydrated, Read
  <2> QED BY <1>1, <1>2, <1>10, <2>1, <2>2 DEF UserInv, Opens
<1>12. RelayInv'
  <2>1. RelayInv /\ n.at = "read" /\ log'.overwrites = log.overwrites
    BY DEF StoreInv, Begins
  <2> QED BY <1>1, <1>2, <1>10, <2>1 DEF RelayInv, Opens
<1> QED BY <1>5, <1>6, <1>7, <1>8, <1>9, <1>11, <1>12 DEF StoreInv


\* A commit counts its call once, and appends its entry to the trail if it is one of the trail's.
LEMMA EndsFacts ==
    ASSUME StoreInv, NEW c \in Callers, NEW answer, Ends(c, answer)
    PROVE  LET i == calls[c].id
           IN  /\ CallTypes' /\ calls'[c] = Idle /\ \A d \in Callers : d # c => calls'[d] = calls[d]
               /\ log' \in Logs /\ IdsInv'
               /\ log'.audit = IF calls[c].op \in {"audit", "protected"} THEN log.audit \cup {AuditEntry(c)}
                               ELSE log.audit
               /\ \A j \in Ids : j # i => log'.applied[j] = log.applied[j]
               /\ i \in Ids /\ IsCall(calls[c]) /\ UNCHANGED <<appSecret, relayCache>>
               /\ log'.overwrites = log.overwrites /\ log.applied[i] = 0 /\ log'.applied[i] = 1
<1> DEFINE i == calls[c].id
<1>0. StateTypes /\ IdsInv /\ CallTypes
  BY DEF StoreInv, StateTypes
<1>1. IsLive(c) /\ IsCall(calls[c]) /\ i \in Ids
  BY <1>0, LiveIsCall DEF Ends
<1>2. CallTypes' /\ calls'[c] = Idle /\ \A d \in Callers : d # c => calls'[d] = calls[d]
  BY <1>0, OneCall DEF Ends
<1>3. /\ log' \in Logs /\ log'.calls = log.calls /\ log'.overwrites = log.overwrites
      /\ log'.applied = [log.applied EXCEPT ![i] = @ + 1]
      /\ log'.audit = IF calls[c].op \in {"audit", "protected"} THEN log.audit \cup {AuditEntry(c)} ELSE log.audit
      /\ log'.returned[i] = answer /\ \A j \in Ids : j # i => log'.returned[j] = log.returned[j]
  <2>1. log' = Logged(c, answer) /\ answer \in {"none", "ok", "error"}
    BY DEF Ends
  <2>2. AuditEntry(c) \in Entries /\ log \in Logs
    BY <1>0, EntryType DEF StateTypes
  <2> QED BY <1>1, <2>1, <2>2, LoggedUpdates
<1>4. log.applied \in [Ids -> Nat] /\ log.applied[i] = 0 /\ i <= log.calls /\ log.calls \in Nat /\ i \in Nat
  BY <1>0, <1>1 DEF StateTypes, Logs, IdsInv, Ids
<1>5. log'.applied[i] = 1 /\ \A j \in Ids : j # i => log'.applied[j] = log.applied[j]
  BY <1>1, <1>3, <1>4
<1> HIDE DEF i
<1>6. IdsInv'
  <2>1. \A d \in Callers : IsLive(d)' => d # c /\ IsLive(d) /\ calls'[d] = calls[d]
    BY <1>2 DEF IsLive
  <2>2. \A d \in Callers : IsLive(d)' => calls'[d].id \in Ids /\ calls'[d].id # i
    BY <1>0, <1>1, <2>1, LiveIsCall DEF IdsInv, i
  <2>3. \A d \in Callers : IsLive(d)' => calls'[d].id <= log'.calls /\ log'.applied[calls'[d].id] = 0
    BY <1>0, <1>3, <1>5, <2>1, <2>2 DEF IdsInv
  <2>4. \A d, e \in Callers : IsLive(d)' /\ IsLive(e)' /\ d # e => calls'[d].id # calls'[e].id
    BY <1>0, <2>1 DEF IdsInv
  <2>5. \A j \in Ids : /\ log'.applied[j] <= 1
                       /\ j > log'.calls => log'.applied[j] = 0
                       /\ log'.returned[j] = "ok" => log'.applied[j] = 1
    <3>1. SUFFICES ASSUME NEW j \in Ids
                   PROVE  /\ log'.applied[j] <= 1
                          /\ j > log'.calls => log'.applied[j] = 0
                          /\ log'.returned[j] = "ok" => log'.applied[j] = 1
      OBVIOUS
    <3>2. CASE j = i
      BY <1>3, <1>4, <1>5, <3>2
    <3>3. CASE j # i
      BY <1>0, <1>3, <1>5, <3>3 DEF IdsInv
    <3> QED BY <3>2, <3>3
  <2> QED BY <2>3, <2>4, <2>5 DEF IdsInv
<1>7. UNCHANGED <<appSecret, relayCache>>
  BY DEF Ends
<1> QED BY <1>1, <1>2, <1>3, <1>4, <1>5, <1>6, <1>7 DEF i

LEMMA WritesKeeps ==
    ASSUME StoreInv, NEW c \in Callers, NEW answer, Writes(c, answer)
    PROVE  StoreInv'
<1> DEFINE op == calls[c].op
<1>0. StateTypes /\ LockInv /\ IdsInv /\ SeenInv /\ AuditInv /\ CallTypes
  BY DEF StoreInv, StateTypes
<1>1. /\ CallTypes' /\ calls'[c] = Idle /\ \A d \in Callers : d # c => calls'[d] = calls[d]
      /\ log' \in Logs /\ IdsInv' /\ IsCall(calls[c]) /\ UNCHANGED <<appSecret, relayCache>>
      /\ log'.audit = IF op \in {"audit", "protected"} THEN log.audit \cup {AuditEntry(c)} ELSE log.audit
      /\ log'.overwrites = log.overwrites
  BY EndsFacts DEF Writes
<1>2. calls[c].step = "computed" /\ store' = Written(c) /\ writeLock' = Free /\ writeLock = c
      /\ op \notin {"as_run", "relay"} /\ Idle.step = "idle"
  BY <1>0 DEF Writes, LockInv, Idle
<1>3. AuditEntry(c) \in Entries /\ AuditEntry(c)[1] = Cardinality(log.audit) + 1 /\ Cardinality(log.audit) \in Nat
  BY EntryType
<1>4. /\ Written(c) \in Stores /\ Written(c).secrets.relay = store.secrets.relay
      /\ Written(c).secrets.totp =
             IF op \in {"whole", "user"} THEN PreservedTwoFactor(calls[c].seen.totp, store.secrets.totp)
             ELSE store.secrets.totp
      /\ Written(c).audit = CASE op = "whole" -> RetainedByState(calls[c].seen.audit)
                              [] op \in {"audit", "protected"} -> RetainedBySql(store.audit \cup {AuditEntry(c)})
                              [] OTHER -> store.audit
  BY <1>0, <1>1, <1>2, <1>3, WrittenRows DEF StateTypes
<1> HIDE DEF op
<1>5. StateTypes'
  BY <1>0, <1>1, <1>2, <1>4 DEF StateTypes
<1>6. \A d \in Callers : calls'[d].step \notin {"locked", "computed"}
  BY <1>0, <1>1, <1>2 DEF LockInv
<1>7. LockInv'
  <2>1. \A d \in Callers : calls'[d].step = "waits" => calls'[d].op # "relay"
    BY <1>0, <1>1, <1>2 DEF LockInv
  <2> QED BY <1>2, <1>6, <2>1 DEF LockInv
<1>8. SeenInv'
  BY <1>6 DEF SeenInv
<1>9. AuditInv'
  <2>1. CASE op = "whole"
    <3>1. calls[c].seen.audit = store.audit
      BY <1>0, <1>2, <2>1 DEF SeenInv, IsStored, op
    <3>2. RetainedByState(store.audit) = store.audit
      BY <1>0, StateShows DEF AuditInv
    <3> QED BY <1>0, <1>1, <1>2, <1>4, <2>1, <3>1, <3>2 DEF AuditInv
  <2>2. CASE op \in {"audit", "protected"}
    <3> DEFINE L == log.audit
               e == AuditEntry(c)
    <3>1. /\ Numbered(L) /\ (\A f \in L : f[1] <= Cardinality(L)) /\ store.audit = Shown(L)
          /\ e \in Entries /\ e[1] = Cardinality(L) + 1 /\ Cardinality(L) \in Nat
      BY <1>0, <1>3 DEF AuditInv
    <3> HIDE DEF L, e
    <3>2. \A f \in L : f[1] \in Nat /\ f[1] # e[1]
      BY <3>1 DEF Numbered
    <3>3. Numbered(L \cup {e}) /\ Cardinality(L \cup {e}) = Cardinality(L) + 1
      <4>1. e \notin L /\ IsFiniteSet(L)
        BY <3>1, <3>2 DEF Numbered
      <4>2. IsFiniteSet(L \cup {e}) /\ Cardinality(L \cup {e}) = Cardinality(L) + 1
        BY <4>1, FS_AddElement
      <4>3. L \cup {e} \subseteq Nat \X BOOLEAN
        BY <3>1 DEF Numbered, Entries
      <4>4. \A f, g \in L \cup {e} : f[1] = g[1] => f = g
        BY <3>1, <3>2 DEF Numbered
      <4> QED BY <4>2, <4>3, <4>4 DEF Numbered
    <3>4. \A f \in L \cup {e} : f[1] <= Cardinality(L \cup {e})
      BY <3>1, <3>2, <3>3
    <3>5. RetainedBySql(Shown(L) \cup {e}) = Shown(L \cup {e})
      BY <3>3, AppendShows
    <3>6. log'.audit = L \cup {e}
      BY <1>1, <2>2 DEF L, e
    <3>7. store'.audit = RetainedBySql(Shown(L) \cup {e})
      BY <1>2, <1>4, <2>2, <3>1 DEF e
    <3> QED BY <3>3, <3>4, <3>5, <3>6, <3>7 DEF AuditInv
  <2>3. CASE op \notin {"whole", "audit", "protected"}
    BY <1>0, <1>1, <1>2, <1>4, <2>3 DEF AuditInv
  <2> QED BY <2>1, <2>2, <2>3
<1>10. \A d \in Callers : IsLive(d)' => IsLive(d) /\ calls'[d] = calls[d]
  BY <1>1 DEF IsLive
<1>11. UserInv'
  <2>1. op \in {"whole", "user"} => calls[c].seen \in Seens
    BY <1>1 DEF IsCall, SavesWhatItRead, op
  <2>2. op \in {"whole", "user"} => calls[c].seen.totp \in Nat
    BY <2>1 DEF Seens
  <2>3. \A m \in Nat : \A k : Opens(k) => Opens(PreservedTwoFactor(m, k))
    BY <1>0, CipherFacts DEF StateTypes, PreservedTwoFactor, Opens
  <2>4. Opens(store.secrets.totp) => Opens(Written(c).secrets.totp)
    BY <1>4, <2>2, <2>3
  <2>5. \A k : Opens(k)' <=> Opens(k)
    BY <1>1 DEF Opens
  <2>6. Opens(store.secrets.totp) => Opens(store.secrets.totp)'
    BY <1>1, <1>2, <2>4 DEF Opens
  <2> QED BY <1>1, <1>10, <2>6, UserStays
<1>12. RelayInv'
  BY <1>1, <1>2, <1>4, <1>10, RelayStays
<1> QED BY <1>1, <1>5, <1>7, <1>8, <1>9, <1>11, <1>12 DEF StoreInv

LEMMA AsRunWrites ==
    ASSUME StateTypes, NEW i \in Nat
    PROVE  LET st == [store EXCEPT !.rows.as_run = i]
           IN  /\ st \in Stores /\ st.secrets = store.secrets /\ st.audit = store.audit
               /\ \A r \in RowNames \ {"as_run"} : st.rows[r] = store.rows[r]
<1> DEFINE rows == [store.rows EXCEPT !["as_run"] = i]
           st == [store EXCEPT !.rows = rows, !.secrets = store.secrets, !.audit = store.audit]
<1>1. /\ store \in [rows : [RowNames -> Nat], secrets : Secrets, audit : SUBSET Entries]
      /\ store.rows \in [RowNames -> Nat] /\ store.secrets \in Secrets /\ store.audit \in SUBSET Entries
  BY DEF StateTypes, Stores
<1>2. [store EXCEPT !.rows.as_run = i] = st
  BY <1>1
<1>3. rows \in [RowNames -> Nat] /\ \A r \in RowNames \ {"as_run"} : rows[r] = store.rows[r]
  BY <1>1
<1> HIDE DEF rows
<1>4. st \in Stores /\ st.rows = rows /\ st.secrets = store.secrets /\ st.audit = store.audit
  BY <1>1, <1>3, StoreFields DEF Stores
<1> HIDE DEF st
<1> QED BY <1>2, <1>3, <1>4

LEMMA AsRunKeeps ==
    ASSUME StoreInv, NEW c \in Callers, WritesAsRun(c)
    PROVE  StoreInv'
<1>0. StateTypes /\ LockInv /\ IdsInv /\ SeenInv /\ AuditInv /\ CallTypes
  BY DEF StoreInv, StateTypes
<1>1. /\ CallTypes' /\ calls'[c] = Idle /\ \A d \in Callers : d # c => calls'[d] = calls[d]
      /\ log' \in Logs /\ IdsInv' /\ calls[c].id \in Nat /\ UNCHANGED <<appSecret, relayCache>>
      /\ log'.audit = log.audit /\ log'.overwrites = log.overwrites
  <2>1. Ends(c, "ok") /\ calls[c].op = "as_run"
    BY DEF WritesAsRun
  <2>2. calls[c].id \in Ids => calls[c].id \in Nat
    BY DEF Ids
  <2>3. calls[c].op \notin {"audit", "protected"}
    BY <2>1
  <2> QED BY <2>1, <2>2, <2>3, EndsFacts
<1>2. calls[c].step = "waits" /\ writeLock' = writeLock /\ Idle.step = "idle"
  BY DEF WritesAsRun, Idle
<1>3. /\ store' \in Stores /\ store'.secrets = store.secrets /\ store'.audit = store.audit
      /\ \A r \in RowNames \ {"as_run"} : store'.rows[r] = store.rows[r]
  BY <1>0, <1>1, AsRunWrites DEF WritesAsRun
<1>4. StateTypes'
  BY <1>0, <1>1, <1>2, <1>3 DEF StateTypes
<1>5. LockInv'
  <2>1. writeLock \in Callers \cup {Free} /\ writeLock # c
    BY <1>0, <1>2, HoldsInTwoSteps DEF StateTypes
  <2> QED BY <1>0, <1>1, <1>2, <2>1 DEF LockInv
<1>6. SeenInv'
  <2>1. \A d \in Callers : calls'[d].step = "computed" => calls'[d] = calls[d]
    BY <1>1, <1>2
  <2>2. \A seen : IsStored(seen) => IsStored(seen)'
    BY <1>1, <1>3 DEF IsStored, Read, Opens
  <2>3. SUFFICES ASSUME NEW d \in Callers, calls'[d].step = "computed", calls'[d].op = "whole"
                 PROVE  IsStored(calls[d].seen)'
    BY DEF SeenInv
  <2>4. calls'[d] = calls[d] /\ IsStored(calls[d].seen)
    BY <1>0, <2>1, <2>3 DEF SeenInv
  <2> QED BY <1>1, <1>3, <2>4 DEF IsStored, Read, Opens
<1>7. AuditInv'
  BY <1>0, <1>1, <1>3 DEF AuditInv
<1>8. UserInv' /\ RelayInv'
  <2>1. \A d \in Callers : IsLive(d)' => IsLive(d) /\ calls'[d] = calls[d]
    BY <1>1 DEF IsLive
  <2>2. Opens(store.secrets.totp) => Opens(store.secrets.totp)'
    BY <1>1, <1>3 DEF Opens
  <2> QED BY <1>1, <1>3, <2>1, <2>2, UserStays, RelayStays
<1> QED BY <1>1, <1>4, <1>5, <1>6, <1>7, <1>8 DEF StoreInv

\* The trail a behaviour starts with.
LEMMA FirstTrail ==
    /\ FirstEntries \in SUBSET Entries /\ IsFiniteSet(FirstEntries) /\ Cardinality(FirstEntries) = 2
    /\ Numbered(FirstEntries) /\ (\A e \in FirstEntries : e[1] <= 2)
    /\ Shown(FirstEntries) = FirstEntries
<1> DEFINE p == <<1, TRUE>>
           q == <<2, FALSE>>
<1>1. \A n \in Nat : \A b \in BOOLEAN : <<n, b>> \in Entries /\ <<n, b>>[1] = n /\ <<n, b>>[2] = b
  BY DEF Entries
<1>2. 1 \in Nat /\ 2 \in Nat /\ TRUE \in BOOLEAN /\ FALSE \in BOOLEAN
  OBVIOUS
<1>3. p \in Entries /\ p[1] = 1 /\ p[2] = TRUE
  BY <1>1, <1>2, Zenon
<1>4. q \in Entries /\ q[1] = 2 /\ q[2] = FALSE
  BY <1>1, <1>2, Zenon
<1>5. FirstEntries = {p, q}
  BY DEF FirstEntries
<1>6. p[2] /\ ~q[2]
  BY <1>3, <1>4, Zenon
<1> HIDE DEF p, q
<1>7. p # q
  BY <1>3, <1>4
<1>8. IsFiniteSet({p, q}) /\ Cardinality({p, q}) = 2
  <2>1. IsFiniteSet({p}) /\ Cardinality({p}) = 1
    BY FS_Singleton
  <2>2. q \notin {p}
    BY <1>7
  <2>3. IsFiniteSet({p} \cup {q}) /\ Cardinality({p} \cup {q}) = 1 + 1
    BY <2>1, <2>2, FS_AddElement
  <2>4. {p} \cup {q} = {p, q}
    OBVIOUS
  <2> QED BY <2>3, <2>4
<1>9. Numbered({p, q}) /\ \A e \in {p, q} : e[1] <= 2
  BY <1>3, <1>4, <1>8 DEF Numbered, Entries
<1>10. Shown({p, q}) = {p, q}
  <2>1. Above({p, q}, q) = {}
    BY <1>3, <1>4 DEF Above
  <2>2. Protected({p, q}) = {p}
    BY <1>6 DEF Protected
  <2>3. Above({p}, p) = {}
    BY <1>3 DEF Above
  <2>4. Cardinality({}) = 0 /\ 0 < GeneralKept /\ 0 < ProtectedKept
    BY FS_EmptySet, StoreAssumption
  <2>5. q \in Newest({p, q}, GeneralKept) /\ p \in Newest({p}, ProtectedKept)
    BY <2>1, <2>3, <2>4, NewestDef
  <2>6. Newest({p, q}, GeneralKept) \subseteq {p, q} /\ Newest({p}, ProtectedKept) \subseteq {p}
    BY NewestDef
  <2> QED BY <2>2, <2>5, <2>6 DEF Shown
<1> QED BY <1>3, <1>4, <1>5, <1>8, <1>9, <1>10

LEMMA InitHolds == StoreInit => StoreInv
<1>1. SUFFICES ASSUME StoreInit PROVE StoreInv
  OBVIOUS
<1>2. PICK relay \in {Empty, [key |-> 1, entered |-> MaxCalls + 1]} :
       store = [rows |-> [r \in {"schedule", "user", "config", "destination", "as_run"} |-> 0],
                secrets |-> [totp |-> [key |-> 1, entered |-> MaxCalls + 1], stream |-> Empty,
                             config |-> [key |-> 1, entered |-> MaxCalls + 1], relay |-> relay],
                audit |-> FirstEntries]
  BY <1>1 DEF StoreInit
<1>3. MaxCalls \in Nat
  BY StoreAssumption
<1>4. \A d \in Callers : calls[d] = Idle
  BY <1>1 DEF StoreInit
<1>5. FirstEntries \in SUBSET Entries
  BY FirstTrail
<1>6. log \in Logs /\ log.calls = 0 /\ log.applied = [i \in Ids |-> 0] /\ log.returned = [i \in Ids |-> "none"]
      /\ log.audit = FirstEntries
  BY <1>1, <1>3, <1>5 DEF StoreInit, Logs
<1>7. StateTypes
  <2>1. Empty \in Ciphers /\ [key |-> 1, entered |-> MaxCalls + 1] \in Ciphers
    BY <1>3 DEF Empty, Ciphers
  <2>2. store.secrets \in Secrets
    <3> DEFINE k == [key |-> 1, entered |-> MaxCalls + 1]
    <3>1. k \in Ciphers /\ relay \in Ciphers
      BY <2>1
    <3>2. store.secrets = [totp |-> k, stream |-> Empty, config |-> k, relay |-> relay]
      BY <1>2
    <3> HIDE DEF k
    <3> QED BY <2>1, <3>1, <3>2 DEF Secrets
  <2>3. store.rows \in [RowNames -> Nat] /\ store.audit = FirstEntries
    BY <1>2 DEF RowNames
  <2>4. store = [rows |-> store.rows, secrets |-> store.secrets, audit |-> store.audit]
    BY <1>2
  <2>5. store \in Stores
    BY <1>5, <2>2, <2>3, <2>4 DEF Stores
  <2>6. CallTypes
    BY <1>1 DEF StoreInit, CallTypes
  <2> QED BY <1>1, <1>6, <2>5, <2>6 DEF StoreInit, StateTypes
<1>8. LockInv
  BY <1>1, <1>4 DEF LockInv, StoreInit, Idle
<1>9. IdsInv
  BY <1>4, <1>6 DEF IdsInv, IsLive
<1>10. SeenInv
  BY <1>4 DEF SeenInv, Idle
<1>11. AuditInv
  <2>1. store.audit = FirstEntries
    BY <1>2
  <2> QED BY <1>6, <2>1, FirstTrail DEF AuditInv
<1>12. UserInv /\ RelayInv
  BY <1>1, <1>4 DEF UserInv, RelayInv, IsLive, StoreInit
<1> QED BY <1>7, <1>8, <1>9, <1>10, <1>11, <1>12 DEF StoreInv

LEMMA StepKeeps == StoreInv /\ [StoreNext]_storeVars => StoreInv'
<1>1. SUFFICES ASSUME StoreInv, [StoreNext]_storeVars PROVE StoreInv'
  OBVIOUS
<1>2. Step
  BY <1>1, NextIsStep
<1> QED BY <1>1, <1>2, QuitsKeeps, MovesKeeps, BeginsKeeps, WritesKeeps, AsRunKeeps DEF Step

\* The invariant of every behaviour.
THEOREM StoreIsSound == StoreSpec => []StoreInv
BY InitHolds, StepKeeps, PTL DEF StoreSpec

---------------------------------------------------------------------------
(* The theorems *)

\* Whoever holds the write lock is about to write, and the key is one of the two there are
\* (db acquireStateWriteLock).
THEOREM StoreKeepsTypes == StoreSpec => []StoreTypeOK
<1>1. StoreInv => StoreTypeOK
  <2>1. SUFFICES ASSUME StoreInv PROVE StoreTypeOK
    OBVIOUS
  <2>2. StateTypes /\ LockInv /\ CallTypes
    BY <2>1 DEF StoreInv, StateTypes
  <2>3. \A c \in Callers : calls[c].step \in LiveSteps \cup {"idle"}
    BY <2>2 DEF CallTypes, IsCall, CallRecords, Idle
  <2> QED BY <2>2, <2>3 DEF StoreTypeOK, StateTypes, LockInv, LiveSteps
<1> QED BY <1>1, StoreIsSound, PTL

\* However calls interleave and fail, none is applied twice, one that said so is applied, and the
\* audit trail shows the newest entries and the newest protected ones of all that were appended
\* (db withSerializedStateWrite, appendAuditEvent, core selectRetainedAuditEvents).
THEOREM EveryWriteIsOnRecord == StoreSpec => []WritesAreOnRecord
<1>1. StoreInv => WritesAreOnRecord
  <2>1. SUFFICES ASSUME StoreInv PROVE WritesAreOnRecord
    OBVIOUS
  <2>2. IdsInv /\ store.audit = Shown(log.audit)
    BY <2>1 DEF StoreInv, AuditInv
  <2>3. Shown(log.audit) = Newest(log.audit, GeneralKept) \cup Newest({e \in log.audit : e[2]}, ProtectedKept)
    BY DEF Shown, Protected
  <2> QED BY <2>2, <2>3 DEF IdsInv, WritesAreOnRecord
<1> QED BY <1>1, StoreIsSound, PTL

\* Who is counted as applied in a step is who commits in it.
LEMMA WhoCommits ==
    ASSUME StoreInv, Step, NEW c \in Callers, IsLive(c), Committing(c)
    PROVE  WritesAsRun(c) \/ \E answer \in {"ok", "error"} : Writes(c, answer)
<1>1. log'.applied # log.applied /\ log'.applied[calls[c].id] # log.applied[calls[c].id]
  BY DEF Committing
<1>2. calls[c].id \in Ids /\ \A d \in Callers : IsLive(d) /\ d # c => calls[d].id # calls[c].id
  BY LiveIsCall DEF StoreInv, StateTypes, IdsInv
<1>3. \A d \in Callers : \A answer : Ends(d, answer) => d = c
  BY <1>1, <1>2, EndsFacts DEF Ends
<1> QED BY <1>1, <1>3 DEF Step, Quits, Moves, Begins, Writes, WritesAsRun

LEMMA WritingIsCommitting ==
    ASSUME StoreInv, NEW c \in Callers, NEW answer, Writes(c, answer)
    PROVE  IsLive(c) /\ Committing(c)
<1>1. log.applied[calls[c].id] = 0 /\ log'.applied[calls[c].id] = 1
  BY EndsFacts DEF Writes
<1> QED BY <1>1 DEF Writes, Ends, Committing

\* What a commit leaves of the secrets.
LEMMA WrittenSecrets ==
    ASSUME StoreInv, NEW c \in Callers, NEW answer, Writes(c, answer)
    PROVE  LET op == calls[c].op
               seen == calls[c].seen
               old == store.secrets
               new == store'.secrets
           IN  /\ new.relay = old.relay
               /\ op # "enter_key" => new.stream = old.stream
               /\ new.totp = IF op \in {"whole", "user"} THEN PreservedTwoFactor(seen.totp, old.totp) ELSE old.totp
               /\ new.config = CASE op = "config" -> Encrypted(seen.config)
                                 [] op = "whole" /\ (old.config = Empty \/ Opens(old.config)) -> Encrypted(seen.config)
                                 [] OTHER -> old.config
               /\ op = "whole" => /\ \A r \in RowNames \ {"schedule", "as_run"} : store'.rows[r] = seen.rows[r]
                                  /\ store'.rows["as_run"] = store.rows["as_run"] /\ IsStored(seen)
<1>1. StateTypes /\ LockInv /\ SeenInv
  BY DEF StoreInv
<1>2. IsCall(calls[c]) /\ AuditEntry(c) \in Entries
  BY EndsFacts, EntryType DEF Writes
<1>3. calls[c].step = "computed" /\ store' = Written(c) /\ calls[c].op \notin {"as_run", "relay"}
  BY <1>1 DEF Writes, LockInv
<1>4. calls[c].op = "whole" => IsStored(calls[c].seen)
  BY <1>1, <1>3 DEF SeenInv
<1> QED BY <1>1, <1>2, <1>3, <1>4, WrittenRows DEF StateTypes

\* A write of the whole state undoes no save of somebody else's, whenever that was committed: the
\* lock is held from the read it is made of to the commit, and the one writer that needs no lock
\* writes what it leaves alone (db updateAppState, persistState).
THEOREM WholeWritesKeep == StoreSpec => WholeWritesKeepOthersSaves
<1>1. ASSUME StoreInv, [StoreNext]_storeVars, NEW c \in Callers, calls[c] # Idle, Committing(c), calls[c].op = "whole"
      PROVE  /\ \A r \in DOMAIN store.rows \ {"schedule"} : store'.rows[r] = store.rows[r]
             /\ \A s \in DOMAIN store.secrets :
                   store.secrets[s] = Empty \/ store'.secrets[s].entered = store.secrets[s].entered
  <2> DEFINE seen == calls[c].seen
             old == store.secrets
             new == store'.secrets
  <2>1. PICK answer \in {"ok", "error"} : Writes(c, answer)
    BY <1>1, NextIsStep, WhoCommits DEF IsLive, WritesAsRun
  <2>2. /\ new.relay = old.relay /\ new.stream = old.stream
        /\ new.totp = PreservedTwoFactor(seen.totp, old.totp)
        /\ new.config = IF old.config = Empty \/ Opens(old.config) THEN Encrypted(seen.config) ELSE old.config
        /\ \A r \in RowNames \ {"schedule", "as_run"} : store'.rows[r] = seen.rows[r]
        /\ store'.rows["as_run"] = store.rows["as_run"] /\ IsStored(seen)
    BY <1>1, <2>1, WrittenSecrets
  <2>3. /\ \A r \in RowNames \ {"as_run"} : seen.rows[r] = store.rows[r]
        /\ seen.totp = Read(old.totp) /\ seen.config = Read(old.config)
    BY <2>2 DEF IsStored
  <2>4. store.rows \in [RowNames -> Nat] /\ old \in Secrets
    BY <1>1 DEF StoreInv, StateTypes, Stores
  <2>5. \A m : Encrypted(m).entered = m
    BY DEF Encrypted
  <2>6. \A r \in DOMAIN store.rows \ {"schedule"} : store'.rows[r] = store.rows[r]
    BY <2>2, <2>3, <2>4
  <2>7. old.totp = Empty \/ new.totp.entered = old.totp.entered
    BY <2>2, <2>3, <2>5 DEF PreservedTwoFactor, Read
  <2>8. old.config = Empty \/ new.config.entered = old.config.entered
    BY <2>2, <2>3, <2>5 DEF Read
  <2>9. DOMAIN old = {"totp", "stream", "config", "relay"}
    BY <2>4 DEF Secrets
  <2> QED BY <2>2, <2>6, <2>7, <2>8, <2>9
<1>2. StoreInv /\ [StoreNext]_storeVars =>
          [\A c \in Callers : calls[c] # Idle /\ Committing(c) /\ calls[c].op = "whole" =>
              /\ \A r \in DOMAIN store.rows \ {"schedule"} : store'.rows[r] = store.rows[r]
              /\ \A s \in DOMAIN store.secrets :
                    store.secrets[s] = Empty \/ store'.secrets[s].entered = store.secrets[s].entered]_store
  BY <1>1
<1> QED BY <1>2, StoreIsSound, PTL DEF StoreSpec, WholeWritesKeepOthersSaves

\* A secret nobody can read survives every write but the one that enters a new one, and the relay
\* key is the same in every container that has one, unless two callers replaced an unreadable one
\* (db preservedTwoFactorSecret, persistState, updateDestinationRecord, readRelayInternalKey).
THEOREM SecretsAlwaysSurvive == StoreSpec => SecretsSurvive
<1>1. ASSUME StoreInv, [StoreNext]_storeVars, NEW s \in {"totp", "stream", "config"},
             store.secrets[s] # Empty, ~Opens(store.secrets[s]), store'.secrets[s] # store.secrets[s]
      PROVE  \E c \in Callers : calls[c] # Idle /\ Committing(c) /\ calls[c].op \in {"config", "enter_key"}
  <2>1. StateTypes /\ UserInv /\ Step
    BY <1>1, NextIsStep DEF StoreInv
  <2>2. ~\E Q \in SUBSET Callers : Quits(Q)
    BY <1>1 DEF Quits
  <2>3. ~\E c \in Callers, n \in CallRecords : Moves(c, n) \/ Begins(c, n)
    BY <1>1 DEF Moves, Begins
  <2>4. ~\E c \in Callers : WritesAsRun(c)
    <3>1. SUFFICES ASSUME NEW c \in Callers, WritesAsRun(c) PROVE FALSE
      OBVIOUS
    <3>2. calls[c].id \in Nat
      BY <1>1, <3>1, EndsFacts DEF WritesAsRun, Ids
    <3>3. store'.secrets = store.secrets
      BY <2>1, <3>1, <3>2, AsRunWrites DEF WritesAsRun
    <3> QED BY <1>1, <3>3
  <2>5. PICK c \in Callers, answer \in {"ok", "error"} : Writes(c, answer)
    BY <2>1, <2>2, <2>3, <2>4 DEF Step
  <2> DEFINE op == calls[c].op
             seen == calls[c].seen
             old == store.secrets
             new == store'.secrets
  <2>6. /\ new.relay = old.relay
        /\ op # "enter_key" => new.stream = old.stream
        /\ new.totp = IF op \in {"whole", "user"} THEN PreservedTwoFactor(seen.totp, old.totp) ELSE old.totp
        /\ new.config = CASE op = "config" -> Encrypted(seen.config)
                          [] op = "whole" /\ (old.config = Empty \/ Opens(old.config)) -> Encrypted(seen.config)
                          [] OTHER -> old.config
        /\ op = "whole" => IsStored(seen)
    BY <1>1, <2>5, WrittenSecrets
  <2>7. IsLive(c) /\ Committing(c)
    BY <1>1, <2>5, WritingIsCommitting
  <2>8. s = "totp" => FALSE
    <3>1. SUFFICES ASSUME s = "totp" PROVE FALSE
      OBVIOUS
    <3>2. old.totp # Empty /\ ~Opens(old.totp) /\ new.totp # old.totp
      BY <1>1, <3>1
    <3>3. op = "whole" => seen.totp = 0
      BY <2>6, <3>2 DEF IsStored, Read
    <3>4. op = "user" => seen.totp = 0
      BY <2>1, <2>7, <3>2 DEF UserInv
    <3> QED BY <2>6, <3>2, <3>3, <3>4 DEF PreservedTwoFactor
  <2>9. s = "stream" => op = "enter_key"
    BY <1>1, <2>6
  <2>10. s = "config" => op = "config"
    BY <1>1, <2>6
  <2> QED BY <2>7, <2>8, <2>9, <2>10 DEF IsLive
<1>2. ASSUME StoreInv', NEW p \in Processes, NEW q \in Processes, log'.overwrites < 2,
             0 \notin {relayCache'[p], relayCache'[q]}
      PROVE  relayCache'[p] = relayCache'[q]
  BY <1>2 DEF StoreInv, RelayInv
<1>3. StoreInv /\ StoreInv' /\ [StoreNext]_storeVars =>
      [/\ \A s \in {"totp", "stream", "config"} :
              store.secrets[s] # Empty /\ ~Opens(store.secrets[s]) /\ store'.secrets[s] # store.secrets[s] =>
                  \E c \in Callers : calls[c] # Idle /\ Committing(c) /\ calls[c].op \in {"config", "enter_key"}
       /\ \A p, q \in Processes : log'.overwrites < 2 /\ 0 \notin {relayCache'[p], relayCache'[q]}
                                      => relayCache'[p] = relayCache'[q]]_<<store, relayCache>>
  BY <1>1, <1>2
<1> QED BY <1>3, StoreIsSound, PTL DEF StoreSpec, SecretsSurvive
=============================================================================
