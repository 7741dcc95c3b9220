--------------------------- MODULE ClientACLProofs ---------------------------
(***************************************************************************)
(* Lemmas about the access list (ClientACL), for any clients and a list of *)
(* any length: what its operations keep, whatever holds of its entries.    *)
(***************************************************************************)
EXTENDS ClientACL, FiniteSetTheorems, SequenceTheorems, WellFoundedInduction, TLAPS

(* The least of some numbers is one of them. *)
LEMMA LeastIsLeast ==
  ASSUME NEW S \in SUBSET Nat, S # {}
  PROVE  Least(S) \in S /\ \A m \in S : Least(S) <= m
<1>1. PICK n \in S : \A m \in S : ~(<<m, n>> \in OpToRel(<, Nat))
  BY NatLessThanWellFounded, WFMin
<1>2. ASSUME NEW m \in S
      PROVE  n <= m
  <2>1. <<m, n>> \in Nat \X Nat /\ ~(<<m, n>> \in OpToRel(<, Nat))
    BY <1>1
  <2>2. ~(m < n)
    BY <2>1 DEF OpToRel
  <2> QED
    BY <2>2
<1> QED
  BY <1>2 DEF Least

(* A finite set of numbers has a first, a second and so on up to its last. *)
LEMMA NthIsThere ==
  ASSUME NEW S \in SUBSET Nat, IsFiniteSet(S), NEW k \in 1 .. Cardinality(S)
  PROVE  Nth(S, k) \in S /\ Cardinality({j \in S : j <= Nth(S, k)}) = k
<1> DEFINE UpTo(i) == {j \in S : j <= i}
           Is(i, n) == i \in S /\ Cardinality(UpTo(i)) = n
           Missing == {n \in 1 .. Cardinality(S) : ~ \E i \in S : Is(i, n)}
<1>0. Cardinality(S) \in Nat
  BY FS_CardinalityType
<1>1. ASSUME Missing # {}
      PROVE  FALSE
  <2> DEFINE m == Least(Missing)
             Above(i) == {j \in S : ~(j <= i)}
  <2>1. Missing \subseteq Nat
    BY <1>0
  <2>2. m \in Missing /\ \A n \in Missing : m <= n
    <3> HIDE DEF Missing
    <3> QED
      BY <1>1, <2>1, LeastIsLeast
  <2>3. m \in 1 .. Cardinality(S) /\ ~ \E i \in S : Is(i, m)
    BY <2>2
  <2> HIDE DEF m
  <2>4. CASE m = 1
    <3>1. S # {}
      BY <2>3, <1>0, FS_EmptySet
    <3>2. PICK a \in S : \A j \in S : a <= j
      BY <3>1, LeastIsLeast
    <3>3. UpTo(a) = {a}
      <4>1. \A j \in S : j \in Nat /\ (j <= a <=> j = a)
        BY <3>2
      <4> QED
        BY <4>1
    <3>4. Cardinality(UpTo(a)) = 1
      BY <3>3, FS_Singleton
    <3> QED
      BY <2>3, <2>4, <3>4
  <2>5. CASE m # 1
    <3>1. m - 1 \in 1 .. Cardinality(S) /\ m - 1 < m
      BY <1>0, <2>3, <2>5
    <3>2. m - 1 \notin Missing
      BY <2>2, <3>1, <1>0
    <3>3. PICK i \in S : Is(i, m - 1)
      BY <3>1, <3>2
    <3>4. Above(i) # {}
      <4>1. SUFFICES ASSUME Above(i) = {}
                     PROVE  FALSE
        OBVIOUS
      <4>2. UpTo(i) = S
        BY <4>1
      <4> QED
        BY <1>0, <2>3, <3>3, <4>2
    <3>5. PICK a \in Above(i) : \A j \in Above(i) : a <= j
      <4>1. Above(i) \subseteq Nat
        OBVIOUS
      <4> QED
        BY <3>4, <4>1, LeastIsLeast
    <3>6. UpTo(a) = UpTo(i) \cup {a} /\ a \notin UpTo(i)
      <4>1. \A j \in S : j \in Nat /\ (j <= a <=> j <= i \/ j = a)
        BY <3>5
      <4> QED
        BY <3>5, <4>1
    <3>7. IsFiniteSet(UpTo(i))
      BY FS_Subset
    <3>8. Cardinality(UpTo(a)) = m - 1 + 1
      <4>1. Cardinality(UpTo(i)) = m - 1
        BY <3>3
      <4> HIDE DEF UpTo
      <4>2. Cardinality(UpTo(i) \cup {a}) = Cardinality(UpTo(i)) + 1
        BY <3>6, <3>7, FS_AddElement
      <4> QED
        BY <3>6, <4>1, <4>2
    <3>9. Is(a, m)
      BY <2>3, <3>5, <3>8
    <3> QED
      BY <2>3, <3>5, <3>9
  <2> QED
    BY <2>4, <2>5
<1>2. PICK i \in S : Cardinality({j \in S : j <= i}) = k
  BY <1>1
<1> QED
  BY <1>2 DEF Nth

------------------------------------------------------------------------------
(* The access list, with entries of a set E. *)
Lists(E) ==
  {list \in [clients: [Slots -> E], num: 0 .. MaxClients] :
     \A i \in Used(list) : list.clients[i].id \in Ids}

(* Slots are numbers. *)
LEMMA SlotsAreNumbers ==
  ASSUME NEW E, NEW list \in Lists(E)
  PROVE  /\ Used(list) \subseteq Slots /\ Slots \subseteq Nat
         /\ list.num \in Nat /\ list.num <= MaxClients /\ MaxClients \in Nat \ {0}
         /\ IsFiniteSet(Slots)
BY ACLAssumption, FS_Interval DEF Lists, Used, Slots

(* getClient finds an entry with one of the keys. *)
LEMMA ClientIsFound ==
  ASSUME NEW E, NEW list \in Lists(E), NEW key, key \cap Members(list) # {}
  PROVE  /\ IndexOf(list, key) \in Used(list)
         /\ list.clients[IndexOf(list, key)].id \in key
<1> DEFINE S == {i \in Used(list) : list.clients[i].id \in key}
<1>1. S # {} /\ S \subseteq Nat
  BY SlotsAreNumbers DEF Members
<1>2. Least(S) \in S
  <2> HIDE DEF S
  <2> QED
    BY <1>1, LeastIsLeast
<1> QED
  BY <1>2 DEF IndexOf

(* The least active of those that are no admins, as long as there is one.  *)
LEMMA OldestIsNoAdmin ==
  ASSUME NEW E, NEW list \in Lists(E), list.num = MaxClients,
         \A e \in E : e.last_activity \in Nat
  PROVE  /\ Oldest(list) \in Slots
         /\ \/ Role(list.clients[Oldest(list)].permissions) # Admin
            \/ \A i \in Slots : Role(list.clients[i].permissions) = Admin
<1> DEFINE Evictable == {i \in Used(list) : Role(list.clients[i].permissions) # Admin}
           At(i)     == list.clients[i].last_activity
           Idlest    == {i \in Evictable : \A j \in Evictable : At(i) <= At(j)}
<1>1. Used(list) = Slots
  BY SlotsAreNumbers DEF Slots, Used
<1>2. Evictable \subseteq Slots /\ Slots \subseteq Nat /\ MaxClients - 1 \in Slots
  BY SlotsAreNumbers DEF Slots
<1>3. \A i \in Slots : At(i) \in Nat
  BY DEF Lists
<1>4. CASE Evictable = {}
  BY <1>1, <1>2, <1>4 DEF Oldest
<1>5. CASE Evictable # {}
  <2>1. Idlest # {}
    <3> DEFINE Times == {At(i) : i \in Evictable}
    <3>1. Times \subseteq Nat /\ Times # {}
      BY <1>2, <1>3, <1>5
    <3>2. PICK t \in Times : \A m \in Times : t <= m
      <4> HIDE DEF Times
      <4> QED
        BY <3>1, LeastIsLeast
    <3> QED
      BY <3>2
  <2>2. Idlest \subseteq Nat
    BY <1>2
  <2>3. Least(Idlest) \in Idlest
    <3> HIDE DEF Idlest
    <3> QED
      BY <2>1, <2>2, LeastIsLeast
  <2>4. Oldest(list) = Least(Idlest)
    BY <1>5 DEF Oldest
  <2> QED
    BY <1>2, <2>3, <2>4
<1> QED
  BY <1>4, <1>5

(* putClient: the list keeps its form, the client is on it, and all others *)
(* stay where they are but the one that gives way.                         *)
LEMMA PutKeeps ==
  ASSUME NEW E, NEW list \in Lists(E), \A e \in E : e.last_activity \in Nat,
         NEW id \in Ids, NEW perms, NewClient(id, perms) \in E
  PROVE  /\ putClient(list, id, perms) \in Lists(E)
         /\ SlotFor(list, id) \in Used(putClient(list, id, perms))
         /\ putClient(list, id, perms).clients[SlotFor(list, id)].id = id
         /\ id \in Members(putClient(list, id, perms))
         /\ putClient(list, id, perms).num >= list.num
         /\ \A i \in Used(list) :
              \/ putClient(list, id, perms).clients[i] = list.clients[i]
              \/ i = Oldest(list) /\ list.num = MaxClients
<1> DEFINE put == putClient(list, id, perms)
           at  == SlotFor(list, id)
<1>0. /\ list \in [clients: [Slots -> E], num: 0 .. MaxClients]
      /\ \A i \in Used(list) : list.clients[i].id \in Ids
  BY DEF Lists
<1>1. CASE id \in Members(list)
  <2>1. put = list /\ at = IndexOf(list, {id})
    BY <1>1 DEF putClient, SlotFor
  <2>2. at \in Used(list) /\ list.clients[at].id = id
    BY <1>1, <2>1, ClientIsFound
  <2> QED
    BY <1>1, <2>1, <2>2, SlotsAreNumbers
<1>2. CASE id \notin Members(list)
  <2>1. /\ put.clients = [list.clients EXCEPT ![at] = NewClient(id, perms)]
        /\ put.num = IF list.num < MaxClients THEN list.num + 1 ELSE list.num
        /\ put = [clients |-> put.clients, num |-> put.num]
    BY <1>2 DEF putClient
  <2>2. at = IF list.num < MaxClients THEN list.num ELSE Oldest(list)
    BY <1>2 DEF SlotFor
  <2>3. list.num < MaxClients \/ list.num = MaxClients
    BY SlotsAreNumbers
  <2>4. at \in Slots /\ at < put.num /\ put.num \in 0 .. MaxClients /\ put.num >= list.num
    <3>1. CASE list.num < MaxClients
      BY <2>1, <2>2, <3>1, SlotsAreNumbers DEF Slots
    <3>2. CASE list.num = MaxClients
      <4>1. Oldest(list) \in Slots
        BY <3>2, OldestIsNoAdmin
      <4> QED
        BY <2>1, <2>2, <3>2, <4>1, SlotsAreNumbers DEF Slots
    <3> QED
      BY <2>3, <3>1, <3>2
  <2>5. put.clients \in [Slots -> E] /\ put.clients[at] = NewClient(id, perms)
    BY <1>0, <2>1, <2>4
  <2>6. NewClient(id, perms).id = id
    BY DEF NewClient
  <2>7. Used(put) \subseteq Used(list) \cup {at} /\ at \in Used(put)
    BY <2>1, <2>2, <2>3, <2>4, SlotsAreNumbers DEF Used, Slots
  <2>8. \A i \in Slots : i # at => put.clients[i] = list.clients[i]
    BY <1>0, <2>1
  <2>9. \A i \in Used(put) : put.clients[i].id \in Ids
    BY <1>0, <2>5, <2>6, <2>7, <2>8, SlotsAreNumbers
  <2>10. put \in Lists(E)
    BY <2>1, <2>4, <2>5, <2>9 DEF Lists
  <2>11. \A i \in Used(list) : i = at => i = Oldest(list) /\ list.num = MaxClients
    BY <2>2, <2>3, SlotsAreNumbers DEF Used
  <2>12. id \in Members(put)
    BY <2>5, <2>6, <2>7 DEF Members
  <2> HIDE DEF put, at
  <2> QED
    BY <2>4, <2>5, <2>6, <2>7, <2>8, <2>10, <2>11, <2>12, SlotsAreNumbers DEF put, at
<1> QED
  BY <1>1, <1>2

(* The deletion of an entry. *)
LEMMA DeleteKeeps ==
  ASSUME NEW E, NEW list \in Lists(E), NEW key, key \cap Members(list) # {}
  PROVE  Delete(list, key) \in Lists(E) /\ Delete(list, key).num = list.num - 1
<1> DEFINE d == IndexOf(list, key)
           new == Delete(list, key)
<1>0. /\ list \in [clients: [Slots -> E], num: 0 .. MaxClients]
      /\ \A i \in Used(list) : list.clients[i].id \in Ids
  BY DEF Lists
<1>1. d \in Used(list)
  BY ClientIsFound
<1>2. /\ new.clients = [i \in Slots |-> IF d <= i /\ i + 1 < list.num
                                       THEN list.clients[i + 1] ELSE list.clients[i]]
      /\ new.num = list.num - 1
      /\ new = [clients |-> new.clients, num |-> new.num]
  BY DEF Delete
<1>3. new.num \in 0 .. MaxClients
  BY <1>1, <1>2, SlotsAreNumbers DEF Used, Slots
<1>4. \A i \in Slots : i + 1 < list.num => i + 1 \in Used(list)
  BY SlotsAreNumbers DEF Used, Slots
<1>5. \A i \in Slots : new.clients[i] \in {list.clients[j] : j \in Slots}
  BY <1>2, <1>4, SlotsAreNumbers
<1>6. new.clients \in [Slots -> E]
  BY <1>0, <1>2, <1>5
<1>7. \A i \in Used(new) : new.clients[i] \in {list.clients[j] : j \in Used(list)}
  <2> TAKE i \in Used(new)
  <2>1. i \in Slots /\ i < list.num - 1
    BY <1>2 DEF Used
  <2>2. i + 1 \in Used(list) /\ i \in Used(list)
    BY <2>1, <1>4, SlotsAreNumbers DEF Used
  <2> QED
    BY <1>2, <2>1, <2>2
<1>8. \A i \in Used(new) : new.clients[i].id \in Ids
  BY <1>0, <1>7
<1> QED
  BY <1>2, <1>3, <1>6, <1>8 DEF Lists

(* A whole key names a client. *)
LEMMA WholeKey ==
  ASSUME NEW list, NEW key, NEW p, MayApply(list, key, p), Role(p) # Guest
  PROVE  key # {}
<1>1. SUFFICES ASSUME key = {} PROVE FALSE
  OBVIOUS
<1>2. Cardinality(key) = 1
  BY DEF MayApply
<1>3. Cardinality(key) = 0
  BY <1>1, FS_EmptySet
<1>4. 1 # 0
  OBVIOUS
<1> QED
  BY <1>2, <1>3, <1>4, Zenon

(* setperm: an entry is deleted, or one has another role, and was put on   *)
(* the list first if it was not there.                                     *)
LEMMA PermissionsKeep ==
  ASSUME NEW E, NEW list \in Lists(E), \A e \in E : e.last_activity \in Nat,
         \A id \in Ids : NewClient(id, Guest) \in E,
         NEW p, \A e \in E : [e EXCEPT !.permissions = p] \in E,
         \A e \in E : e = [e EXCEPT !.permissions = e.permissions],
         NEW key \in SUBSET Ids, MayApply(list, key, p)
  PROVE  /\ applyPermissions(list, key, p) \in Lists(E)
         /\ \/ applyPermissions(list, key, p).num < list.num
            \/ \A i \in Used(list) :
                 \/ list.clients[i].id \in Members(applyPermissions(list, key, p))
                 \/ i = Oldest(list) /\ list.num = MaxClients
<1>1. CASE Role(p) = Guest
  <2>1. key \cap Members(list) # {}
    BY <1>1 DEF MayApply
  <2>2. Delete(list, key) \in Lists(E) /\ Delete(list, key).num = list.num - 1
    BY <2>1, DeleteKeeps
  <2> QED
    BY <1>1, <2>2, SlotsAreNumbers DEF applyPermissions
<1>2. CASE Role(p) # Guest
  <2>1. key # {}
    BY <1>2, WholeKey
  <2> DEFINE id  == CHOOSE id \in key : TRUE
             put == putClient(list, id, Guest)
             at  == SlotFor(list, id)
             e   == [put.clients[at] EXCEPT !.permissions = p]
             new == applyPermissions(list, key, p)
  <2>2. id \in Ids
    BY <2>1
  <2>3. new = [put EXCEPT !.clients[at].permissions = p]
    BY <1>2 DEF applyPermissions
  <2> HIDE DEF id
  <2>4. /\ put \in Lists(E) /\ at \in Used(put) /\ put.clients[at].id = id
        /\ \A i \in Used(list) : \/ put.clients[i] = list.clients[i]
                                 \/ i = Oldest(list) /\ list.num = MaxClients
        /\ put.num >= list.num
    BY <2>2, PutKeeps
  <2> HIDE DEF put, at, new
  <2>5. /\ put \in [clients: [Slots -> E], num: 0 .. MaxClients]
        /\ \A i \in Used(put) : put.clients[i].id \in Ids
        /\ at \in Slots /\ Used(put) \subseteq Slots
    BY <2>4, SlotsAreNumbers DEF Lists
  <2>6. e \in E /\ e.id = id
    <3>1. put.clients[at] \in E
      BY <2>5
    <3>2. e \in E
      BY <3>1
    <3>3. e.id = put.clients[at].id
      OBVIOUS
    <3> QED
      BY <2>4, <3>2, <3>3
  <2> HIDE DEF e
  <2>7. new = [clients |-> [put.clients EXCEPT ![at] = e], num |-> put.num]
    BY <2>3, <2>5 DEF e
  <2>8. \A i \in Used(put) : new.clients[i].id = put.clients[i].id
    BY <2>4, <2>5, <2>6, <2>7
  <2>9. Used(new) = Used(put)
    BY <2>7 DEF Used
  <2>10. new \in Lists(E)
    BY <2>5, <2>6, <2>7, <2>8, <2>9 DEF Lists
  <2>11. \A i \in Used(list) : i \in Used(put)
    BY <2>4, <2>5, SlotsAreNumbers DEF Used, Slots
  <2>12. \A i \in Used(list) : \/ list.clients[i].id \in Members(new)
                               \/ i = Oldest(list) /\ list.num = MaxClients
    BY <2>4, <2>8, <2>9, <2>11 DEF Members
  <2> QED
    BY <2>10, <2>12 DEF new
<1> QED
  BY <1>1, <1>2

(* What save() writes, as far as an interrupted write of it got, and what  *)
(* load() makes of it.                                                     *)
LEMMA SavedKeeps ==
  ASSUME NEW E, NEW list \in Lists(E)
  PROVE  /\ Saved(list) \in Seq({list.clients[i] : i \in Used(list)})
         /\ Len(Saved(list)) <= MaxClients
<1> DEFINE A == Admins(list)
<1>1. A \subseteq Used(list) /\ A \subseteq Slots /\ A \subseteq Nat
  BY SlotsAreNumbers DEF Admins
<1>2. IsFiniteSet(A) /\ Cardinality(A) \in Nat /\ Cardinality(A) <= MaxClients
  <2>1. IsFiniteSet(Slots) /\ Cardinality(Slots) = MaxClients
    <3>1. Cardinality(0 .. MaxClients - 1) = MaxClients
      BY ACLAssumption, FS_Interval
    <3> QED
      BY <3>1, SlotsAreNumbers DEF Slots
  <2> QED
    BY <1>1, <2>1, FS_Subset, FS_CardinalityType
<1>3. \A k \in 1 .. Cardinality(A) : Nth(A, k) \in A
  <2> HIDE DEF A
  <2> QED
    BY <1>1, <1>2, NthIsThere
<1>4. Saved(list) = [k \in 1 .. Cardinality(A) |-> list.clients[Nth(A, k)]]
  BY DEF Saved
<1>5. \A k \in 1 .. Cardinality(A) : Saved(list)[k] \in {list.clients[i] : i \in Used(list)}
  BY <1>1, <1>3, <1>4
<1> HIDE DEF A
<1> QED
  BY <1>2, <1>4, <1>5

------------------------------------------------------------------------------
(* No client is on the list twice. *)
Distinct(list) ==
  \A i, j \in Used(list) : list.clients[i].id = list.clients[j].id => i = j

(* putClient writes one entry at most, of a client that is not on the list: *)
(* the one behind the last, or that of another client.                     *)
LEMMA PutWritesOne ==
  ASSUME NEW E, NEW list \in Lists(E), \A e \in E : e.last_activity \in Nat,
         NEW id \in Ids, NEW perms, NewClient(id, perms) \in E
  PROVE  /\ \A i \in Slots : i # SlotFor(list, id) =>
              putClient(list, id, perms).clients[i] = list.clients[i]
         /\ Used(list) \subseteq Used(putClient(list, id, perms))
         /\ Used(putClient(list, id, perms)) \subseteq Used(list) \cup {SlotFor(list, id)}
         /\ SlotFor(list, id) \notin Used(list) => SlotFor(list, id) = list.num
         /\ \/ putClient(list, id, perms) = list
            \/ /\ id \notin Members(list)
               /\ putClient(list, id, perms).clients[SlotFor(list, id)] = NewClient(id, perms)
<1> DEFINE put == putClient(list, id, perms)
           at  == SlotFor(list, id)
<1>1. list \in [clients: [Slots -> E], num: 0 .. MaxClients]
  BY DEF Lists
<1>2. at \in Used(put) /\ put.num >= list.num /\ put \in Lists(E)
  BY PutKeeps
<1>3. CASE id \in Members(list)
  BY <1>2, <1>3, SlotsAreNumbers DEF putClient
<1>4. CASE id \notin Members(list)
  <2>1. /\ put.clients = [list.clients EXCEPT ![at] = NewClient(id, perms)]
        /\ put.num = IF list.num < MaxClients THEN list.num + 1 ELSE list.num
    BY <1>4 DEF putClient
  <2>2. at = IF list.num < MaxClients THEN list.num ELSE Oldest(list)
    BY <1>4 DEF SlotFor
  <2>3. at \in Slots /\ Slots \subseteq Nat /\ list.num \in Nat /\ MaxClients \in Nat
    BY <1>2, SlotsAreNumbers
  <2>4. Used(list) \subseteq Used(put) /\ Used(put) \subseteq Used(list) \cup {at}
    <3>1. CASE list.num < MaxClients
      <4>1. put.num = list.num + 1 /\ at = list.num
        BY <2>1, <2>2, <3>1
      <4>2. \A i \in Slots : i \in Nat /\ (i < list.num + 1 <=> i < list.num \/ i = list.num)
        BY <2>3
      <4> HIDE DEF put, at
      <4> QED
        BY <2>3, <4>1, <4>2 DEF Used
    <3>2. CASE ~(list.num < MaxClients)
      <4>1. put.num = list.num
        BY <2>1, <3>2
      <4> QED
        BY <4>1 DEF Used
    <3> QED
      BY <3>1, <3>2
  <2>5. at \notin Used(list) => at = list.num
    <3>1. CASE list.num < MaxClients
      BY <2>2, <3>1
    <3>2. CASE ~(list.num < MaxClients)
      BY <1>2, <2>1, <2>3, <3>2 DEF Used
    <3> QED
      BY <3>1, <3>2
  <2>6. /\ put.clients[at] = NewClient(id, perms)
        /\ \A i \in Slots : i # at => put.clients[i] = list.clients[i]
    BY <1>1, <2>1, <2>3
  <2> QED
    BY <1>4, <2>4, <2>5, <2>6
<1> QED
  BY <1>3, <1>4

(* Lists without doubles stay so. *)
LEMMA PutStaysDistinct ==
  ASSUME NEW E, NEW list \in Lists(E), \A e \in E : e.last_activity \in Nat,
         NEW id \in Ids, NEW perms, NewClient(id, perms) \in E, Distinct(list)
  PROVE  Distinct(putClient(list, id, perms))
<1> DEFINE put == putClient(list, id, perms)
           at  == SlotFor(list, id)
<1>1. /\ \A i \in Slots : i # at => put.clients[i] = list.clients[i]
      /\ Used(put) \subseteq Used(list) \cup {at}
      /\ put = list \/ (id \notin Members(list) /\ put.clients[at] = NewClient(id, perms))
  BY PutWritesOne
<1>2. \A i \in Used(list) : i \in Slots /\ list.clients[i].id \in Members(list)
  BY DEF Members, Used
<1>3. CASE put = list
  BY <1>3
<1>4. CASE put # list
  <2>1. put.clients[at].id = id /\ id \notin Members(list)
    BY <1>1, <1>4 DEF NewClient
  <2> HIDE DEF put, at
  <2>2. \A i \in Used(put) : i # at => i \in Used(list) /\ put.clients[i].id = list.clients[i].id
                                     /\ put.clients[i].id # id
    BY <1>1, <1>2, <2>1
  <2>3. Distinct(put)
    BY <2>1, <2>2 DEF Distinct
  <2> QED
    BY <2>3 DEF put
<1> QED
  BY <1>3, <1>4

LEMMA DeleteStaysDistinct ==
  ASSUME NEW E, NEW list \in Lists(E), NEW key, key \cap Members(list) # {}, Distinct(list)
  PROVE  Distinct(Delete(list, key))
<1> DEFINE d   == IndexOf(list, key)
           new == Delete(list, key)
           From(i) == IF d <= i THEN i + 1 ELSE i
<1>1. d \in Used(list) /\ Used(list) \subseteq Nat /\ list.num \in Nat
  BY ClientIsFound, SlotsAreNumbers
<1>2. \A i \in Used(new) : From(i) \in Used(list) /\ new.clients[i] = list.clients[From(i)]
  <2> TAKE i \in Used(new)
  <2>1. i \in Slots /\ i < list.num - 1 /\ i \in Nat
    BY SlotsAreNumbers DEF Used, Delete
  <2>2. From(i) \in Used(list)
    BY <1>1, <2>1, SlotsAreNumbers DEF Used, Slots
  <2>3. new.clients[i] = IF d <= i /\ i + 1 < list.num THEN list.clients[i + 1] ELSE list.clients[i]
    BY <2>1 DEF Delete
  <2>4. i + 1 < list.num
    BY <1>1, <2>1
  <2> QED
    BY <2>2, <2>3, <2>4
<1>3. \A i, j \in Used(new) : From(i) = From(j) => i = j
  <2>1. \A i \in Used(new) : i \in Nat
    BY SlotsAreNumbers DEF Used
  <2> QED
    BY <1>1, <2>1
<1> HIDE DEF new, From
<1>4. Distinct(new)
  BY <1>2, <1>3 DEF Distinct
<1> QED
  BY <1>4 DEF new

LEMMA PermissionsStayDistinct ==
  ASSUME NEW E, NEW list \in Lists(E), \A e \in E : e.last_activity \in Nat,
         \A id \in Ids : NewClient(id, Guest) \in E,
         NEW key \in SUBSET Ids, NEW p, MayApply(list, key, p), Distinct(list)
  PROVE  Distinct(applyPermissions(list, key, p))
<1>1. CASE Role(p) = Guest
  BY <1>1, DeleteStaysDistinct DEF applyPermissions, MayApply
<1>2. CASE Role(p) # Guest
  <2> DEFINE id  == CHOOSE id \in key : TRUE
             put == putClient(list, id, Guest)
             at  == SlotFor(list, id)
             new == [put EXCEPT !.clients[at].permissions = p]
  <2>1. key # {}
    BY <1>2, WholeKey
  <2>2. id \in Ids
    BY <2>1
  <2>3. applyPermissions(list, key, p) = new
    BY <1>2 DEF applyPermissions
  <2> HIDE DEF id
  <2>4. put \in Lists(E) /\ at \in Used(put) /\ Distinct(put)
    BY <2>2, PutKeeps, PutStaysDistinct
  <2> HIDE DEF put, at
  <2>5. /\ put \in [clients: [Slots -> E], num: 0 .. MaxClients]
        /\ at \in Slots /\ Used(put) \subseteq Slots
    BY <2>4, SlotsAreNumbers DEF Lists
  <2>6. new = [clients |-> [put.clients EXCEPT ![at] = [@ EXCEPT !.permissions = p]], num |-> put.num]
    BY <2>5
  <2>7. Used(new) = Used(put) /\ \A i \in Used(put) : new.clients[i].id = put.clients[i].id
    BY <2>5, <2>6 DEF Used
  <2> HIDE DEF new
  <2>8. Distinct(new)
    BY <2>4, <2>7 DEF Distinct
  <2> QED
    BY <2>3, <2>8
<1> QED
  BY <1>1, <1>2
=============================================================================
