-------------------------- MODULE RoomServerProofs --------------------------
(***************************************************************************)
(* Proofs about RoomServer for any clients, any length of the ring, of the *)
(* access list and of the delay, any commands and any budgets.             *)
(***************************************************************************)
EXTENDS RoomServer, ClientACLProofs

(* A list with an entry replaced. *)
LEMMA WithKeeps ==
  ASSUME NEW E, NEW list \in Lists(E), NEW c \in Members(list), NEW e \in E, e.id = c
  PROVE  /\ With(list, c, e) \in Lists(E)
         /\ With(list, c, e).num = list.num
         /\ Members(With(list, c, e)) = Members(list)
         /\ \A i \in Used(list) : With(list, c, e).clients[i].id = list.clients[i].id
<1> DEFINE at == IndexOf(list, {c})
           new == With(list, c, e)
<1>0. /\ list \in [clients: [Slots -> E], num: 0 .. MaxClients]
      /\ \A i \in Used(list) : list.clients[i].id \in Ids
  BY DEF Lists
<1>1. at \in Used(list) /\ list.clients[at].id = c /\ Used(list) \subseteq Slots
  BY ClientIsFound, SlotsAreNumbers
<1>2. /\ new.clients = [list.clients EXCEPT ![at] = e] /\ new.num = list.num
      /\ new = [clients |-> new.clients, num |-> new.num]
  <2>1. new = [list EXCEPT !.clients[at] = e]
    BY DEF With
  <2> HIDE DEF at, new
  <2> QED
    BY <1>0, <2>1
<1>3. \A i \in Used(list) : new.clients[i].id = list.clients[i].id
  BY <1>0, <1>1, <1>2
<1>4. Used(new) = Used(list)
  BY <1>2 DEF Used
<1>5. new.clients \in [Slots -> E]
  BY <1>0, <1>1, <1>2
<1>6. new \in Lists(E)
  BY <1>0, <1>2, <1>3, <1>4, <1>5 DEF Lists
<1>7. Members(new) = Members(list)
  BY <1>3, <1>4 DEF Members
<1> QED
  BY <1>2, <1>3, <1>6, <1>7

(* Roles are permissions without flags. *)
LEMMA RolesAreRoles ==
  /\ \A role \in Roles : Role(role) = role /\ role \in Permissions
  /\ Guest \in Roles /\ Admin \in Roles /\ ReadWrite \in Roles
<1>1. \A role \in Roles : Role(role) = role
  BY DEF Roles, Role, Guest, ReadOnly, ReadWrite, Admin
<1>2. \A role \in Roles : role + 0 \in Permissions /\ role + 0 = role
  BY DEF Permissions, Roles, Guest, ReadOnly, ReadWrite, Admin
<1> QED
  BY <1>1, <1>2 DEF Roles

------------------------------------------------------------------------------
(* The invariant.                                                          *)
(*                                                                         *)
(* No post will have the time stamp t any more, unless the clock is behind *)
(* a time stamp it gave before the last start.                             *)
Past(t) == t \in Nat /\ (t <= last_unique \/ t <= horizon)

(* A client has all posts of others in the ring that are not newer than t. *)
Has(c, t) ==
  \A k \in Ring : posts[k].post_timestamp \in horizon + 1 .. t /\ posts[k].author # c
                    => posts[k] \in Got(c)

(* There is no other post of the same time stamp in the ring. *)
Same(post) ==
  \A k \in Ring : posts[k].post_timestamp = post.post_timestamp /\ post.post_timestamp > horizon
                    => posts[k] = post

(* What holds of every entry of the array, in use or not: what it counts   *)
(* as received has been, and it waits for the ACK of its last push.        *)
Good ==
  {e \in ClientInfo(Acks) :
     /\ e.permissions \in Roles
     /\ e.id = NoId => e.last_activity = 0
     /\ Past(e.sync_since)
     /\ e.id \in Ids => Has(e.id, e.sync_since)
     /\ e.pending_ack # NoAck => /\ e.pending_ack[1] = e.id
                                 /\ e.pending_ack[2].post_timestamp = e.push_post_timestamp}

(* An entry in the file, where posts do not matter: a restart drops them.  *)
Kept == {e \in ClientInfo(Acks) : e.permissions \in Roles /\ e.id \in Ids /\ Past(e.sync_since)}

(* The posts are found in the order of their time stamps. *)
StampAt(k) == posts[RingPos(k)].post_timestamp
Ordered    == \A j, k \in Ring : j < k /\ StampAt(j) # 0 => StampAt(j) < StampAt(k)

(* The ring has been empty at the last start. *)
Stamped == \A k \in Ring : posts[k].post_timestamp <= last_unique

(* Who gets a post, or is about to, has those before it. *)
HeardFine(c, h) == Past(h[1].post_timestamp) /\ Has(c, h[1].post_timestamp)
AirFine(p) ==
  /\ p.ack[1] = p.client /\ Past(p.ack[2].post_timestamp)
  /\ Has(p.client, p.ack[2].post_timestamp - 1) /\ Same(p.ack[2])
  /\ p.kind = "answer" => p.ack[2] \in Got(p.client)

RoomInv ==
  /\ TypeOK
  /\ acl \in Lists(Good)
  /\ file \in Seq(Kept)
  /\ Stamped /\ Ordered
  /\ \A c \in Ids : \A h \in heard[c] : HeardFine(c, h)
  /\ \A p \in air : AirFine(p)

(* The types apart from those of access list and file. *)
Plain ==
  /\ posts \in [Ring -> Post] /\ next_post_idx \in Ring
  /\ next_client_idx \in Slots
  /\ now \in Nat \ {0} /\ last_unique \in Nat /\ horizon \in Nat
  /\ dirty \in BOOLEAN
  /\ Len(file) <= MaxClients
  /\ air \subseteq Packets
  /\ heard \in [Ids -> SUBSET (Post \X Attempts)]
  /\ left \in [Kinds -> Nat]

LEMMA PlainIsEnough ==
  ASSUME Plain', acl' \in Lists(Good'), file' \in Seq(Kept')
  PROVE  TypeOK'
<1>1. acl' \in AccessLists(Acks)
  BY DEF Lists, Good, AccessLists
<1>2. Kept' \subseteq ClientInfo(Acks)
  BY DEF Kept
<1>3. file' \in Seq(ClientInfo(Acks))
  BY <1>2, SeqMonotonic
<1> QED
  BY <1>1, <1>3 DEF Plain, TypeOK

(* In a step, nothing becomes possible again, and nobody has less. *)
Grows ==
  /\ \A t \in Nat : Past(t) => Past(t)'
  /\ \A c \in Ids, t \in Nat : Past(t) /\ Has(c, t) => Has(c, t)'
  /\ \A post \in Post : Past(post.post_timestamp) /\ Same(post) => Same(post)'

LEMMA GoodStaysGood ==
  ASSUME Grows
  PROVE  Good \subseteq Good' /\ Kept \subseteq Kept'
<1>1. ASSUME NEW e \in ClientInfo(Acks), Past(e.sync_since)
      PROVE  /\ e.sync_since \in Nat /\ Past(e.sync_since)'
             /\ \A c \in Ids : Has(c, e.sync_since) => Has(c, e.sync_since)'
  <2>1. e.sync_since \in Nat
    BY DEF ClientInfo
  <2> QED
    BY <1>1, <2>1 DEF Grows
<1>2. Kept \subseteq Kept'
  BY <1>1 DEF Kept
<1>3. Good \subseteq Good'
  <2> SUFFICES ASSUME NEW e \in Good
               PROVE  e \in Good'
    OBVIOUS
  <2>1. /\ e \in ClientInfo(Acks) /\ e.permissions \in Roles
        /\ e.id = NoId => e.last_activity = 0
        /\ Past(e.sync_since)
        /\ e.id \in Ids => Has(e.id, e.sync_since)
        /\ e.pending_ack # NoAck => /\ e.pending_ack[1] = e.id
                                    /\ e.pending_ack[2].post_timestamp = e.push_post_timestamp
    BY DEF Good
  <2>2. Past(e.sync_since)' /\ (e.id \in Ids => Has(e.id, e.sync_since)')
    BY <1>1, <2>1
  <2> QED
    BY <2>1, <2>2 DEF Good
<1> QED
  BY <1>2, <1>3

(* What a step has to do for the invariant. *)
LEMMA StepKeepsInv ==
  ASSUME RoomInv, Grows, Plain', acl' \in Lists(Good) \/ acl' \in Lists(Good'),
         file' \in Seq(Kept),
         Stamped', Ordered',
         \A c \in Ids : heard[c] \subseteq heard'[c],
         \A c \in Ids : \A h \in heard'[c] \ heard[c] : HeardFine(c, h)',
         \A p \in air' \ air : AirFine(p)'
  PROVE  RoomInv'
<1>1. Good \subseteq Good' /\ Kept \subseteq Kept'
  BY GoodStaysGood
<1>2. acl' \in Lists(Good')
  BY <1>1 DEF Lists
<1>3. file' \in Seq(Kept')
  BY <1>1, SeqMonotonic
<1>4. TypeOK'
  BY <1>2, <1>3, PlainIsEnough
<1>5. \A c \in Ids : \A h \in heard[c] : HeardFine(c, h)'
  <2> TAKE c \in Ids
  <2> TAKE h \in heard[c]
  <2> DEFINE t == h[1].post_timestamp
  <2>1. t \in Nat /\ Past(t) /\ Has(c, t)
    BY DEF RoomInv, Past, HeardFine
  <2>2. Past(t)' /\ Has(c, t)'
    <3> HIDE DEF t
    <3>1. PICK u \in Nat : u = t
      BY <2>1
    <3> QED
      BY <2>1, <3>1 DEF Grows
  <2> QED
    BY <2>2 DEF HeardFine
<1>6. \A p \in air : AirFine(p)'
  <2> TAKE p \in air
  <2>1. p \in Packets /\ AirFine(p)
    BY DEF RoomInv, TypeOK
  <2>2. /\ p.client \in Ids /\ p.ack[2] \in Post /\ p.ack[2].post_timestamp \in Nat
        /\ heard \in [Ids -> SUBSET (Post \X Attempts)]
    BY <2>1 DEF RoomInv, TypeOK, Packets, Acks, Post
  <2>3. PICK t \in Nat, c \in Ids, post \in Post :
          t = post.post_timestamp /\ c = p.client /\ post = p.ack[2]
    BY <2>2
  <2>4. Past(t) /\ Has(c, t - 1) /\ Same(post)
    BY <2>1, <2>3 DEF AirFine
  <2>5. Past(t)' /\ Same(post)'
    BY <2>3, <2>4 DEF Grows
  <2>6. Has(c, t - 1)'
    <3>1. CASE t = 0
      <4>1. horizon' \in Nat
        BY DEF Plain
      <4> QED
        BY <3>1, <4>1 DEF Has
    <3>2. CASE t # 0
      <4>1. t - 1 \in Nat /\ Past(t - 1)
        BY <2>4, <3>2 DEF Past, RoomInv, TypeOK
      <4> QED
        BY <2>4, <4>1 DEF Grows
    <3> QED
      BY <3>1, <3>2
  <2>7. p.kind = "answer" => (p.ack[2] \in Got(p.client))'
    BY <2>1, <2>2 DEF AirFine, Got
  <2> QED
    BY <2>1, <2>3, <2>5, <2>6, <2>7 DEF AirFine
<1> QED
  BY <1>2, <1>3, <1>4, <1>5, <1>6 DEF RoomInv

(* A step that leaves the ring alone. *)
LEMMA QuietStep ==
  ASSUME RoomInv, UNCHANGED <<ring, horizon>>, last_unique' \in Nat, last_unique <= last_unique',
         \A c \in Ids : heard[c] \subseteq heard'[c]
  PROVE  Grows /\ Stamped' /\ Ordered'
<1>1. /\ last_unique \in Nat /\ horizon \in Nat /\ horizon' = horizon
      /\ posts' = posts /\ next_post_idx' = next_post_idx /\ posts \in [Ring -> Post]
  BY DEF RoomInv, TypeOK, ring
<1>2. \A t \in Nat : Past(t) => Past(t)'
  BY <1>1 DEF Past
<1>3. \A c \in Ids, t \in Nat : Has(c, t) => Has(c, t)'
  BY <1>1 DEF Has, Got
<1>4. \A post \in Post : Same(post) => Same(post)'
  BY <1>1 DEF Same
<1>5. Ordered'
  BY <1>1 DEF RoomInv, Ordered, StampAt, RingPos
<1>6. Stamped'
  <2>1. \A k \in Ring : posts[k].post_timestamp \in Nat
    BY <1>1 DEF Post
  <2> QED
    BY <1>1, <2>1 DEF RoomInv, Stamped
<1> QED
  BY <1>2, <1>3, <1>4, <1>5, <1>6 DEF Grows

(* Changes of an entry that keep it good. *)
LEMMA EntriesTyped ==
  ASSUME NEW e \in Good
  PROVE  /\ e \in ClientInfo(Acks) /\ e.last_activity \in Nat
         /\ e = [e EXCEPT !.permissions = e.permissions]
BY DEF Good, ClientInfo

LEMMA NewIsGood ==
  ASSUME RoomInv, NEW id \in Ids \cup {NoId}
  PROVE  NewClient(id, Guest) \in Good /\ NewClient(id, Guest).id = id
<1>1. NewClient(id, Guest) \in ClientInfo(Acks)
  BY RolesAreRoles DEF NewClient, ClientInfo
<1>2. Past(0) /\ (id \in Ids => Has(id, 0))
  BY DEF RoomInv, TypeOK, Past, Has
<1> QED
  BY <1>1, <1>2, RolesAreRoles DEF Good, NewClient

LEMMA RoleIsGood ==
  ASSUME NEW e \in Good, NEW role \in Roles
  PROVE  [e EXCEPT !.permissions = role] \in Good
BY RolesAreRoles DEF Good, ClientInfo

LEMMA ReachedIsGood ==
  ASSUME RoomInv, NEW e \in Good, e.id \in Ids
  PROVE  Reached(e) \in Good /\ Reached(e).id = e.id /\ Reached(e).permissions = e.permissions
BY ACLAssumption DEF RoomInv, TypeOK, Reached, Good, ClientInfo

LEMMA HeardIsGood ==
  ASSUME RoomInv, NEW e \in Good, e.id \in Ids, NEW ts \in Nat, NEW t \in Nat
  PROVE  Heard(e, ts, t) \in Good /\ Heard(e, ts, t).id = e.id
         /\ Heard(e, ts, t).permissions = e.permissions
BY ACLAssumption DEF Heard, Good, ClientInfo

(* What a client claims to have, it has. *)
LEMMA ClaimsAreTrue ==
  ASSUME RoomInv, NEW c \in Ids, NEW since \in Claims(c)
  PROVE  since \in Nat /\ Past(since) /\ Has(c, since)
<1>1. CASE since = 0
  BY <1>1 DEF RoomInv, TypeOK, Past, Has
<1>2. CASE since # 0
  <2>1. PICK h \in heard[c] : h[1].post_timestamp = since
    BY <1>2 DEF Claims, Got
  <2> QED
    BY <2>1 DEF RoomInv, HeardFine, Past
<1> QED
  BY <1>1, <1>2

LEMMA SinceIsGood ==
  ASSUME RoomInv, NEW e \in Good, e.id \in Ids, NEW since \in Claims(e.id)
  PROVE  LET new == [e EXCEPT !.pending_ack = NoAck, !.sync_since = since]
         IN  new \in Good /\ new.id = e.id /\ new.permissions = e.permissions
BY ClaimsAreTrue, ACLAssumption DEF Good, ClientInfo

LEMMA LoggedInIsGood ==
  ASSUME RoomInv, NEW e \in Good, e.id \in Ids, NEW ts \in Nat, NEW since \in Claims(e.id),
         NEW role \in Roles
  PROVE  LoggedIn(e, ts, since, role) \in Good /\ LoggedIn(e, ts, since, role).id = e.id
BY ClaimsAreTrue, RolesAreRoles, ACLAssumption DEF RoomInv, TypeOK, LoggedIn, Good, ClientInfo

LEMMA TimedOutIsGood ==
  ASSUME NEW e \in Good
  PROVE  LET new == [e EXCEPT !.push_failures = @ + 1, !.pending_ack = NoAck]
         IN  new \in Good /\ new.id = e.id /\ new.permissions = e.permissions
<1> DEFINE new == [e EXCEPT !.push_failures = @ + 1, !.pending_ack = NoAck]
<1>1. e \in ClientInfo(Acks) /\ e.push_failures + 1 \in Nat
  BY DEF Good, ClientInfo
<1>2. new \in ClientInfo(Acks) /\ new.pending_ack = NoAck
  BY <1>1 DEF ClientInfo
<1>3. /\ new.id = e.id /\ new.permissions = e.permissions
      /\ new.last_activity = e.last_activity /\ new.sync_since = e.sync_since
  BY <1>1 DEF ClientInfo
<1> QED
  BY <1>2, <1>3 DEF Good

(* An entry whose ACK comes from its client, which has the post.           *)
LEMMA AckedIsGood ==
  ASSUME RoomInv, NEW e \in Good, e.pending_ack # NoAck, e.id \in Ids,
         e.pending_ack[2] \in Got(e.id)
  PROVE  Acked(e) \in Good /\ Acked(e).id = e.id /\ Acked(e).permissions = e.permissions
<1>1. PICK h \in heard[e.id] : h[1] = e.pending_ack[2]
  BY DEF Got
<1>2. Past(e.push_post_timestamp) /\ Has(e.id, e.push_post_timestamp)
  BY <1>1 DEF RoomInv, HeardFine, Good
<1> QED
  BY <1>2, ACLAssumption DEF Acked, Good, ClientInfo

(* The entry of a client on the list. *)
LEMMA EntryIsGood ==
  ASSUME RoomInv, NEW c \in Members(acl)
  PROVE  Entry(c) \in Good /\ Entry(c).id = c /\ c \in Ids
<1>1. IndexOf(acl, {c}) \in Used(acl) /\ acl.clients[IndexOf(acl, {c})].id \in {c}
  BY ClientIsFound DEF RoomInv
<1> QED
  BY <1>1, SlotsAreNumbers DEF RoomInv, Entry, Lists

------------------------------------------------------------------------------
(* The steps. *)

LEMMA BudgetTyped ==
  ASSUME RoomInv, NEW kind \in Kinds, NEW n \in Nat, Use(kind, n)
  PROVE  left' \in [Kinds -> Nat]
<1>1. left \in [Kinds -> Nat] /\ left[kind] \in Nat /\ left[kind] - n \in Nat
  BY DEF RoomInv, TypeOK, Use
<1> QED
  BY <1>1 DEF Use

LEMMA UniqueIsNew ==
  ASSUME RoomInv, NEW last \in Nat
  PROVE  Unique(last) \in Nat /\ Unique(last) > last /\ Unique(last) >= now
BY DEF RoomInv, TypeOK, Unique

(* A step that leaves ring, file and clients alone. *)
LEMMA QuietKeepsInv ==
  ASSUME RoomInv, UNCHANGED <<ring, horizon, file, heard>>, acl' \in Lists(Good),
         now' \in Nat \ {0}, last_unique' \in Nat, last_unique <= last_unique',
         dirty' \in BOOLEAN, left' \in [Kinds -> Nat], next_client_idx' \in Slots,
         air' \subseteq Packets, \A p \in air' \ air : AirFine(p)'
  PROVE  RoomInv'
<1>1. posts' = posts /\ next_post_idx' = next_post_idx /\ file' = file /\ heard' = heard
  BY DEF ring
<1>2. Grows /\ Stamped' /\ Ordered'
  BY <1>1, QuietStep
<1>4. Plain'
  BY <1>1 DEF RoomInv, TypeOK, Plain
<1>5. file' \in Seq(Kept)
  BY <1>1 DEF RoomInv
<1> QED
  BY <1>1, <1>2, <1>4, <1>5, StepKeepsInv

(* The access list with an entry replaced by a good one. *)
LEMMA EntryReplaced ==
  ASSUME RoomInv, NEW c \in Members(acl), NEW e \in Good, e.id = c
  PROVE  With(acl, c, e) \in Lists(Good)
BY WithKeeps DEF RoomInv

LEMMA LoginStep ==
  ASSUME RoomInv, NEW c \in Ids, NEW ts \in Stamps, NEW since \in Claims(c),
         NEW password \in Passwords,
         Login(c, ts, since, password)
  PROVE  RoomInv'
<1> DEFINE put == putClient(acl, c, Guest)
           old == put.clients[IndexOf(put, {c})]
<1>1. put \in Lists(Good) /\ c \in Members(put)
  <2>1. NewClient(c, Guest) \in Good
    BY NewIsGood
  <2>2. \A e \in Good : e.last_activity \in Nat
    BY EntriesTyped
  <2> QED
    BY <2>1, <2>2, PutKeeps DEF RoomInv
<1>2. PICK role \in RoleFor(password) :
        IF ts <= old.last_timestamp
        THEN acl' = put /\ UNCHANGED <<dirty, last_unique>>
        ELSE /\ acl' = With(put, c, LoggedIn(old, ts, since, role))
             /\ dirty' = TRUE
             /\ last_unique' = Unique(last_unique)
  BY DEF Login
<1>3. role \in Roles
  BY <1>2, RolesAreRoles DEF RoleFor
<1> HIDE DEF put
<1>4. old \in Good /\ old.id = c
  <2>1. IndexOf(put, {c}) \in Used(put) /\ old.id \in {c}
    BY <1>1, ClientIsFound
  <2> QED
    BY <1>1, <2>1, SlotsAreNumbers DEF Lists
<1> HIDE DEF old
<1>5. LoggedIn(old, ts, since, role) \in Good /\ LoggedIn(old, ts, since, role).id = c
  BY <1>3, <1>4, LoggedInIsGood, RoomAssumption
<1>6. acl' \in Lists(Good)
  BY <1>1, <1>2, <1>5, WithKeeps
<1>7. last_unique' \in Nat /\ last_unique <= last_unique' /\ dirty' \in BOOLEAN
  <2>1. last_unique \in Nat /\ dirty \in BOOLEAN
    BY DEF RoomInv, TypeOK
  <2>2. Unique(last_unique) \in Nat /\ Unique(last_unique) > last_unique
    BY <2>1, UniqueIsNew
  <2>3. CASE ts <= old.last_timestamp
    BY <1>2, <2>1, <2>3
  <2>4. CASE ~(ts <= old.last_timestamp)
    BY <1>2, <2>1, <2>2, <2>4
  <2> QED
    BY <2>3, <2>4
<1>8. left' \in [Kinds -> Nat]
  BY BudgetTyped DEF Login, Input, Kinds, Passwords
<1> QED
  BY <1>6, <1>7, <1>8, QuietKeepsInv DEF RoomInv, TypeOK, Login, network

LEMMA BlankLoginStep ==
  ASSUME RoomInv, NEW c \in Ids, NEW ts \in Stamps, BlankLogin(c, ts)
  PROVE  RoomInv'
<1>1. last_unique' \in Nat /\ last_unique <= last_unique'
  BY UniqueIsNew DEF RoomInv, TypeOK, BlankLogin
<1>2. left' \in [Kinds -> Nat]
  BY BudgetTyped DEF BlankLogin, Input, Kinds
<1> QED
  BY <1>1, <1>2, QuietKeepsInv DEF RoomInv, TypeOK, BlankLogin, network, disk

LEMMA PathStep ==
  ASSUME RoomInv, NEW c \in Ids, PathArrives(c)
  PROVE  RoomInv'
<1>1. c \in Members(acl) /\ acl' = With(acl, c, Reached(Entry(c)))
  BY DEF PathArrives
<1>2. acl' \in Lists(Good)
  BY <1>1, EntryIsGood, ReachedIsGood, EntryReplaced
<1>3. left' \in [Kinds -> Nat]
  BY BudgetTyped DEF PathArrives, Input, Kinds
<1> QED
  BY <1>2, <1>3, QuietKeepsInv DEF RoomInv, TypeOK, PathArrives, network, disk, clock

LEMMA RequestStep ==
  ASSUME RoomInv, NEW c \in Ids, NEW ts \in Stamps, NEW keepAlive \in BOOLEAN,
         NEW since \in Claims(c), Request(c, ts, keepAlive, since)
  PROVE  RoomInv'
<1> DEFINE e == Heard(Entry(c), ts, now)
<1>1. c \in Members(acl)
  BY DEF Request
<1>2. e \in Good /\ e.id = c
  BY <1>1, EntryIsGood, HeardIsGood, RoomAssumption DEF RoomInv, TypeOK
<1>3. \A s \in Claims(c) : LET new == [e EXCEPT !.pending_ack = NoAck, !.sync_since = s]
                           IN  new \in Good /\ new.id = c
  <2> HIDE DEF e
  <2> QED
    BY <1>2, SinceIsGood
<1>4. 0 \in Claims(c)
  BY DEF Claims
<1>5. acl' \in Lists(Good)
  <2>1. CASE keepAlive /\ since > 0
    <3>1. acl' = With(acl, c, [e EXCEPT !.pending_ack = NoAck, !.sync_since = since])
      BY <2>1 DEF Request
    <3> QED
      BY <1>1, <1>3, <3>1, EntryReplaced
  <2>2. CASE keepAlive /\ ~(since > 0)
    <3>1. acl' = With(acl, c, [e EXCEPT !.pending_ack = NoAck, !.sync_since = e.sync_since])
      BY <2>2 DEF Request
    <3>2. [e EXCEPT !.pending_ack = NoAck, !.sync_since = e.sync_since] \in Good
      BY <1>2 DEF Good, ClientInfo
    <3> QED
      BY <1>1, <1>2, <3>1, <3>2, EntryReplaced DEF Good, ClientInfo
  <2>3. CASE ~keepAlive
    <3>1. acl' = With(acl, c, e)
      BY <2>3 DEF Request
    <3> QED
      BY <1>1, <1>2, <3>1, EntryReplaced
  <2> QED
    BY <2>1, <2>2, <2>3
<1>6. left' \in [Kinds -> Nat]
  BY BudgetTyped DEF Request, Input, Kinds
<1> QED
  BY <1>5, <1>6, QuietKeepsInv DEF RoomInv, TypeOK, Request, network, disk, clock

(* A text that is not posted, and a command. *)
LEMMA CommandStep ==
  ASSUME RoomInv, NEW c \in Ids, NEW ts \in Stamps, NEW cmd \in Commands,
         CommandArrives(c, ts, cmd[1], cmd[2])
  PROVE  RoomInv'
<1> DEFINE t    == last_unique'
           list == With(acl, c, Heard(Entry(c), ts, t))
<1>1. t \in Nat /\ last_unique <= t
  BY UniqueIsNew DEF RoomInv, TypeOK, CommandArrives
<1>2. c \in Members(acl)
  BY DEF CommandArrives
<1>3. list \in Lists(Good) /\ Members(list) = Members(acl)
  <2>1. Heard(Entry(c), ts, t) \in Good /\ Heard(Entry(c), ts, t).id = c
    BY <1>1, <1>2, EntryIsGood, HeardIsGood, RoomAssumption
  <2> QED
    BY <1>2, <2>1, WithKeeps DEF RoomInv
<1>4. acl' \in Lists(Good) /\ dirty' \in BOOLEAN
  <2>1. \/ acl' = list /\ dirty' = dirty
        \/ /\ acl' = applyPermissions(list, cmd[1], cmd[2]) /\ dirty' = TRUE
           /\ MayApply(acl, cmd[1], cmd[2])
    BY DEF CommandArrives
  <2> HIDE DEF list
  <2>2. CASE acl' = list /\ dirty' = dirty
    BY <1>3, <2>2 DEF RoomInv, TypeOK
  <2>3. CASE /\ acl' = applyPermissions(list, cmd[1], cmd[2]) /\ dirty' = TRUE
             /\ MayApply(acl, cmd[1], cmd[2])
    <3>1. cmd[1] \in SUBSET Ids /\ cmd[2] \in Roles
      BY RoomAssumption
    <3>2. MayApply(list, cmd[1], cmd[2])
      BY <1>3, <2>3 DEF MayApply
    <3>3. acl' \in Lists(Good)
      BY <1>3, <2>3, <3>1, <3>2, PermissionsKeep, EntriesTyped, NewIsGood, RoleIsGood
    <3> QED
      BY <2>3, <3>3
  <2> QED
    BY <2>1, <2>2, <2>3
<1>5. left' \in [Kinds -> Nat]
  BY BudgetTyped DEF CommandArrives, Input, Kinds
<1> QED
  BY <1>1, <1>4, <1>5, QuietKeepsInv DEF RoomInv, TypeOK, CommandArrives, network

LEMMA SetPermStep ==
  ASSUME RoomInv, NEW cmd \in Commands, SetPerm(cmd[1], cmd[2])
  PROVE  RoomInv'
<1>1. cmd[1] \in SUBSET Ids /\ cmd[2] \in Roles
  BY RoomAssumption
<1>2. acl' \in Lists(Good)
  BY <1>1, PermissionsKeep, EntriesTyped, NewIsGood, RoleIsGood DEF RoomInv, SetPerm
<1>3. left' \in [Kinds -> Nat]
  BY BudgetTyped DEF SetPerm, Input, Kinds
<1> QED
  BY <1>2, <1>3, QuietKeepsInv DEF RoomInv, TypeOK, SetPerm, network, clock

LEMMA SaveStep ==
  ASSUME RoomInv, SaveClients
  PROVE  RoomInv'
<1>1. /\ posts' = posts /\ next_post_idx' = next_post_idx /\ now' = now
      /\ last_unique' = last_unique /\ horizon' = horizon /\ heard' = heard
      /\ air' = air /\ acl' = acl
      /\ next_client_idx' = next_client_idx /\ left' = left /\ dirty' = FALSE
  BY DEF SaveClients, ring, clock, network
<1>2. Saved(acl) \in Seq(Kept) /\ Len(Saved(acl)) <= MaxClients
  <2>1. {acl.clients[i] : i \in Used(acl)} \subseteq Kept
    BY ZenonT(60), SlotsAreNumbers DEF RoomInv, Lists, Good, Kept
  <2>2. /\ Saved(acl) \in Seq({acl.clients[i] : i \in Used(acl)})
        /\ Len(Saved(acl)) <= MaxClients
    BY SavedKeeps DEF RoomInv
  <2> QED
    BY <2>1, <2>2, SeqMonotonic
<1>3. file' \in Seq(Kept) /\ Len(file') <= MaxClients
  BY <1>2 DEF SaveClients, RoomInv, TypeOK
<1>4. Grows /\ Stamped' /\ Ordered'
  BY <1>1, QuietStep DEF RoomInv, TypeOK, ring
<1>5. Plain'
  BY <1>1, <1>3 DEF RoomInv, TypeOK, Plain
<1> QED
  BY <1>1, <1>3, <1>4, <1>5, StepKeepsInv DEF RoomInv

LEMMA LoseStep ==
  ASSUME RoomInv, Lose
  PROVE  RoomInv'
<1>1. left' \in [Kinds -> Nat]
  BY BudgetTyped DEF Lose, Kinds
<1>2. air' \subseteq air
  BY DEF Lose
<1> QED
  BY <1>1, <1>2, QuietKeepsInv DEF RoomInv, TypeOK, Lose, ring, clock, disk

LEMMA TickStep ==
  ASSUME RoomInv, Tick
  PROVE  RoomInv'
BY QuietKeepsInv DEF RoomInv, TypeOK, Tick, ring, disk, network

(* Positions in the ring. *)
LEMMA RingPositions ==
  ASSUME next_post_idx \in Ring
  PROVE  /\ \A k \in Ring : /\ RingPos(k) = IF next_post_idx + k < MaxPosts
                                            THEN next_post_idx + k
                                            ELSE next_post_idx + k - MaxPosts
                            /\ RingPos(k) \in Ring
         /\ \A p \in Ring : \E k \in Ring : RingPos(k) = p
         /\ Ring \subseteq Nat
<1>1. next_post_idx \in Nat /\ next_post_idx < MaxPosts /\ MaxPosts \in Nat \ {0}
  BY RoomAssumption DEF Ring
<1>2. ASSUME NEW k \in Ring
      PROVE  /\ RingPos(k) = IF next_post_idx + k < MaxPosts
                             THEN next_post_idx + k
                             ELSE next_post_idx + k - MaxPosts
             /\ RingPos(k) \in Ring
  <2>1. k \in Nat /\ k < MaxPosts
    BY <1>1 DEF Ring
  <2>2. CASE next_post_idx + k < MaxPosts
    BY <1>1, <2>1, <2>2 DEF RingPos, Ring
  <2>3. CASE ~(next_post_idx + k < MaxPosts)
    <3>1. next_post_idx + k - MaxPosts \in 0 .. MaxPosts - 1
      BY <1>1, <2>1, <2>3
    <3>2. (next_post_idx + k) % MaxPosts = next_post_idx + k - MaxPosts
      BY <1>1, <2>1, <2>3, <3>1
    <3> QED
      BY <2>3, <3>1, <3>2 DEF RingPos, Ring
  <2> QED
    BY <2>2, <2>3
<1>3. ASSUME NEW p \in Ring
      PROVE  \E k \in Ring : RingPos(k) = p
  <2>1. p \in Nat /\ p < MaxPosts
    BY <1>1 DEF Ring
  <2>2. CASE p >= next_post_idx
    <3>1. p - next_post_idx \in Ring
      BY <1>1, <2>1, <2>2 DEF Ring
    <3> QED
      BY <1>1, <1>2, <2>1, <3>1
  <2>3. CASE p < next_post_idx
    <3>1. p + MaxPosts - next_post_idx \in Ring
      BY <1>1, <2>1, <2>3 DEF Ring
    <3> QED
      BY <1>1, <1>2, <2>1, <3>1
  <2> QED
    BY <1>1, <2>1, <2>2, <2>3
<1> QED
  BY <1>1, <1>2, <1>3 DEF Ring

(* A new post comes last and with a later time stamp. *)
LEMMA PostStep ==
  ASSUME RoomInv, NEW c \in Ids, NEW ts \in Nat, addPost(c, ts),
         last_unique' \in Nat, last_unique < last_unique', horizon' = horizon,
         heard' = heard
  PROVE  /\ Grows /\ Stamped' /\ Ordered'
         /\ posts' \in [Ring -> Post] /\ next_post_idx' \in Ring
<1> DEFINE new == last_unique'
           n   == next_post_idx
           p   == [author |-> c, text |-> ts, post_timestamp |-> new]
<1>0. /\ n \in Ring /\ posts \in [Ring -> Post] /\ horizon \in Nat /\ last_unique \in Nat
      /\ MaxPosts \in Nat \ {0} /\ n \in Nat /\ n < MaxPosts
  BY RoomAssumption DEF RoomInv, TypeOK, Ring
<1>1. posts' = [posts EXCEPT ![n] = p] /\ next_post_idx' = (n + 1) % MaxPosts
  BY DEF addPost
<1>2. p \in Post /\ p.post_timestamp = new
  BY DEF Post
<1>3. /\ posts' \in [Ring -> Post] /\ posts'[n].post_timestamp = new
      /\ \A k \in Ring : k # n => posts'[k] = posts[k]
  <2> HIDE DEF p
  <2> QED
    BY <1>0, <1>1, <1>2
<1>4. next_post_idx' = (IF n + 1 < MaxPosts THEN n + 1 ELSE 0) /\ next_post_idx' \in Ring
  <2>1. CASE n + 1 < MaxPosts
    BY <1>0, <1>1, <2>1 DEF Ring
  <2>2. CASE n + 1 = MaxPosts
    BY <1>0, <1>1, <2>2 DEF Ring
  <2> QED
    BY <1>0, <2>1, <2>2
<1>5. \A t \in Nat : Past(t) => Past(t)' /\ (t < new \/ t <= horizon)
  BY <1>0 DEF Past
<1>6. \A t \in Nat, d \in Ids : Past(t) /\ Has(d, t) => Has(d, t)'
  <2> SUFFICES ASSUME NEW t \in Nat, NEW d \in Ids, Past(t), Has(d, t), NEW k \in Ring,
                      posts'[k].post_timestamp \in horizon + 1 .. t, posts'[k].author # d
               PROVE  posts'[k] \in Got(d)
    BY DEF Has, Got
  <2>1. k # n
    BY <1>0, <1>3, <1>5
  <2> QED
    BY <1>3, <2>1 DEF Has
<1>7. \A post \in Post : Past(post.post_timestamp) /\ Same(post) => Same(post)'
  <2> SUFFICES ASSUME NEW post \in Post, Past(post.post_timestamp), Same(post), NEW k \in Ring,
                      posts'[k].post_timestamp = post.post_timestamp,
                      post.post_timestamp > horizon
               PROVE  posts'[k] = post
    BY DEF Same
  <2>1. post.post_timestamp \in Nat
    BY DEF Post
  <2>2. k # n
    BY <1>0, <1>3, <1>5, <2>1
  <2> QED
    BY <1>3, <2>2 DEF Same
<1>8. Stamped'
  <2> SUFFICES ASSUME NEW k \in Ring
               PROVE  posts'[k].post_timestamp <= new
    BY DEF Stamped
  <2>1. CASE k = n
    BY <1>3, <2>1
  <2>2. CASE k # n
    <3>1. posts[k].post_timestamp <= last_unique /\ posts[k].post_timestamp \in Nat
      BY <1>0 DEF RoomInv, Stamped, Post
    <3> QED
      BY <1>0, <1>3, <2>2, <3>1
  <2> QED
    BY <2>1, <2>2
<1>9. ASSUME NEW k \in Ring, k + 1 \in Ring
      PROVE  RingPos(k)' = RingPos(k + 1) /\ RingPos(k + 1) # n /\ RingPos(k + 1) \in Ring
  <2>1. k \in Nat /\ k + 1 < MaxPosts
    BY <1>0, <1>9 DEF Ring
  <2>2. /\ RingPos(k + 1) = IF n + (k + 1) < MaxPosts THEN n + (k + 1) ELSE n + (k + 1) - MaxPosts
        /\ RingPos(k + 1) \in Ring
    BY <1>0, <1>9, RingPositions
  <2>3. RingPos(k)' = (next_post_idx' + k) % MaxPosts
    BY DEF RingPos
  <2>4. CASE n + 1 < MaxPosts
    <3>1. RingPos(k)' = (n + (k + 1)) % MaxPosts
      BY <1>0, <1>4, <2>1, <2>3, <2>4
    <3> QED
      BY <1>0, <2>1, <2>2, <3>1 DEF RingPos
  <2>5. CASE n + 1 = MaxPosts
    BY <1>0, <1>4, <2>1, <2>2, <2>3, <2>5
  <2> QED
    BY <1>0, <2>4, <2>5
<1>10. RingPos(MaxPosts - 1)' = n
  <2>1. RingPos(MaxPosts - 1)' = (next_post_idx' + (MaxPosts - 1)) % MaxPosts
    BY DEF RingPos
  <2>2. CASE n + 1 < MaxPosts
    <3>1. next_post_idx' + (MaxPosts - 1) = n + MaxPosts
      BY <1>0, <1>4, <2>2
    <3>2. (n + MaxPosts) % MaxPosts = n
      BY <1>0
    <3> QED
      BY <2>1, <3>1, <3>2
  <2>3. CASE n + 1 = MaxPosts
    BY <1>0, <1>4, <2>1, <2>3
  <2> QED
    BY <1>0, <2>2, <2>3
<1>11. Ordered'
  <2> SUFFICES ASSUME NEW j \in Ring, NEW k \in Ring, j < k, StampAt(j)' # 0
               PROVE  StampAt(j)' < StampAt(k)'
    BY DEF Ordered
  <2>1. j \in Nat /\ k \in Nat /\ k < MaxPosts /\ j + 1 \in Ring
    BY <1>0 DEF Ring
  <2>2. StampAt(j)' = StampAt(j + 1)
    BY <1>3, <1>9, <2>1 DEF StampAt
  <2>3. CASE k + 1 \in Ring
    <3>1. StampAt(k)' = StampAt(k + 1)
      BY <1>3, <1>9, <2>3 DEF StampAt
    <3>2. j + 1 < k + 1
      BY <2>1
    <3> QED
      BY <2>1, <2>2, <2>3, <3>1, <3>2 DEF RoomInv, Ordered
  <2>4. CASE k + 1 \notin Ring
    <3>1. k = MaxPosts - 1
      BY <1>0, <2>1, <2>4 DEF Ring
    <3>2. StampAt(k)' = new
      BY <1>3, <1>10, <3>1 DEF StampAt
    <3>3. StampAt(j + 1) <= last_unique /\ StampAt(j + 1) \in Nat
      BY <1>0, <1>9, <2>1 DEF StampAt, RoomInv, Stamped, Post
    <3> QED
      BY <1>0, <2>2, <3>2, <3>3
  <2> QED
    BY <2>3, <2>4
<1> QED
  BY <1>3, <1>4, <1>5, <1>6, <1>7, <1>8, <1>11 DEF Grows

LEMMA TextStep ==
  ASSUME RoomInv, NEW c \in Ids, NEW ts \in Stamps, TextArrives(c, ts)
  PROVE  RoomInv'
<1> DEFINE received == Unique(last_unique)
<1>0. last_unique \in Nat /\ now \in Nat \ {0} /\ ts \in Nat
  BY RoomAssumption DEF RoomInv, TypeOK
<1>1. received \in Nat /\ received > last_unique /\ received >= now
  BY <1>0, UniqueIsNew
<1>2. /\ c \in Members(acl)
      /\ acl' = With(acl, c, Heard(Entry(c), ts, received))
      /\ \/ last_unique' = Unique(received) /\ addPost(c, ts)
         \/ last_unique' = received /\ UNCHANGED ring
      /\ UNCHANGED <<next_client_idx, now, horizon, disk, network>>
  BY DEF TextArrives
<1> HIDE DEF received
<1>3. acl' \in Lists(Good)
  <2>1. Heard(Entry(c), ts, received) \in Good /\ Heard(Entry(c), ts, received).id = c
    BY <1>0, <1>1, <1>2, EntryIsGood, HeardIsGood
  <2> QED
    BY <1>2, <2>1, EntryReplaced
<1>4. left' \in [Kinds -> Nat]
  BY BudgetTyped DEF TextArrives, Input, Kinds
<1>5. CASE last_unique' = received /\ UNCHANGED ring
  BY <1>0, <1>1, <1>2, <1>3, <1>4, <1>5, QuietKeepsInv DEF RoomInv, TypeOK, disk, network
<1>6. CASE last_unique' = Unique(received) /\ addPost(c, ts)
  <2>1. last_unique' \in Nat /\ last_unique < last_unique'
    <3>1. Unique(received) \in Nat /\ Unique(received) > received
      BY <1>1, UniqueIsNew
    <3> QED
      BY <1>0, <1>1, <1>6, <3>1
  <2>2. /\ Grows /\ Stamped' /\ Ordered'
        /\ posts' \in [Ring -> Post] /\ next_post_idx' \in Ring
    BY <1>0, <1>2, <1>6, <2>1, PostStep DEF network
  <2>3. Plain'
    BY <1>0, <1>2, <1>4, <2>1, <2>2 DEF RoomInv, TypeOK, Plain, disk, network
  <2> QED
    BY <1>2, <1>3, <2>2, <2>3, StepKeepsInv DEF RoomInv, disk, network
<1> QED
  BY <1>2, <1>5, <1>6

(* The post that is pushed next: whoever it is for has those before it.    *)
LEMMA NextPostIsNext ==
  ASSUME RoomInv, NEW e \in Good, e.id \in Ids, Unsynced(e) # {}
  PROVE  /\ NextPost(e) \in Post
         /\ Past(NextPost(e).post_timestamp)
         /\ Has(e.id, NextPost(e).post_timestamp - 1)
         /\ Same(NextPost(e))
<1>1. /\ next_post_idx \in Ring /\ posts \in [Ring -> Post] /\ now \in Nat
      /\ last_unique \in Nat /\ horizon \in Nat /\ Ordered
      /\ e.sync_since \in Nat /\ SyncDelay \in Nat /\ Has(e.id, e.sync_since)
  BY RoomAssumption DEF RoomInv, TypeOK, Good, ClientInfo
<1>2. PICK m \in Unsynced(e) : m = Least(Unsynced(e)) /\ \A j \in Unsynced(e) : m <= j
  <2>1. Unsynced(e) \subseteq Nat
    BY <1>1, RingPositions DEF Unsynced
  <2> QED
    BY <2>1, LeastIsLeast
<1>3. /\ m \in Ring /\ RingPos(m) \in Ring /\ IsFor(posts[RingPos(m)], e)
      /\ NextPost(e) = posts[RingPos(m)] /\ NextPost(e).post_timestamp = StampAt(m)
  BY <1>1, <1>2, RingPositions DEF Unsynced, NextPost, StampAt
<1>4. /\ StampAt(m) <= last_unique /\ StampAt(m) \in Nat /\ StampAt(m) > e.sync_since
      /\ now >= StampAt(m) + SyncDelay
  BY <1>1, <1>3 DEF RoomInv, Stamped, StampAt, Post, IsFor
<1>5. ASSUME NEW k \in Ring, posts[k].post_timestamp \in horizon + 1 .. StampAt(m) - 1,
             posts[k].author # e.id, posts[k].post_timestamp > e.sync_since
      PROVE  FALSE
  <2>1. PICK j \in Ring : RingPos(j) = k
    BY <1>1, RingPositions
  <2>2. IsFor(posts[k], e)
    BY <1>1, <1>4, <1>5 DEF IsFor
  <2>3. m <= j
    BY <1>2, <2>1, <2>2 DEF Unsynced
  <2>4. StampAt(j) < StampAt(m)
    BY <1>1, <1>4, <1>5, <2>1 DEF StampAt
  <2>5. m < j
    BY <1>1, <1>3, <1>4, <2>3, <2>4, RingPositions
  <2> QED
    BY <1>1, <1>3, <1>4, <1>5, <2>1, <2>4, <2>5 DEF Ordered, StampAt
<1>6. Has(e.id, StampAt(m) - 1)
  <2> SUFFICES ASSUME NEW k \in Ring, posts[k].post_timestamp \in horizon + 1 .. StampAt(m) - 1,
                      posts[k].author # e.id
               PROVE  posts[k] \in Got(e.id)
    BY DEF Has
  <2>1. posts[k].post_timestamp \in horizon + 1 .. e.sync_since
    BY <1>1, <1>4, <1>5
  <2> QED
    BY <1>1, <2>1 DEF Has
<1>7. Same(NextPost(e))
  <2> SUFFICES ASSUME NEW k \in Ring, posts[k].post_timestamp = StampAt(m)
               PROVE  posts[k] = posts[RingPos(m)]
    BY <1>3 DEF Same
  <2>1. PICK j \in Ring : RingPos(j) = k
    BY <1>1, RingPositions
  <2>2. StampAt(j) = StampAt(m) /\ StampAt(m) # 0
    BY <1>1, <1>4, <2>1 DEF StampAt
  <2>3. ~(j < m) /\ ~(m < j)
    BY <1>1, <1>3, <1>4, <2>2 DEF Ordered
  <2>4. j = m
    BY <1>1, <1>3, <2>3, RingPositions
  <2> QED
    BY <2>1, <2>4
<1> QED
  BY <1>1, <1>3, <1>4, <1>6, <1>7 DEF Past

(* A list whose waiting clients in T were timed out. *)
LEMMA TimedOutKeeps ==
  ASSUME RoomInv, NEW T, T \subseteq Waiting
  PROVE  /\ TimedOut(T) \in Lists(Good)
         /\ TimedOut(T).num = acl.num
         /\ \A i \in Slots : /\ TimedOut(T).clients[i].id = acl.clients[i].id
                             /\ TimedOut(T).clients[i].permissions = acl.clients[i].permissions
<1> DEFINE new     == TimedOut(T)
           clients == [i \in Slots |-> IF i \in T THEN Late(acl.clients[i]) ELSE acl.clients[i]]
<1>0. /\ acl \in [clients: [Slots -> Good], num: 0 .. MaxClients]
      /\ \A i \in Used(acl) : acl.clients[i].id \in Ids
  BY DEF RoomInv, Lists
<1>1. new = [clients |-> clients, num |-> acl.num]
  <2>1. new = [acl EXCEPT !.clients = clients]
    BY DEF TimedOut
  <2> HIDE DEF clients, new
  <2> QED
    BY <1>0, <2>1
<1>2. \A e \in Good : Late(e) \in Good /\ Late(e).id = e.id /\ Late(e).permissions = e.permissions
  BY TimedOutIsGood DEF Late
<1> HIDE DEF new
<1>3. \A i \in Slots : /\ new.clients[i] \in Good
                       /\ new.clients[i].id = acl.clients[i].id
                       /\ new.clients[i].permissions = acl.clients[i].permissions
  BY <1>0, <1>1, <1>2
<1>4. Used(new) = Used(acl)
  BY <1>1 DEF Used
<1>5. new.clients \in [Slots -> Good]
  BY <1>1, <1>3
<1>6. new \in Lists(Good)
  BY <1>0, <1>1, <1>3, <1>4, <1>5, SlotsAreNumbers DEF Lists, RoomInv
<1> QED
  BY <1>1, <1>3, <1>6 DEF new

(* Losses are counted. *)
LEMMA LossesAreNumbers ==
  ASSUME RoomInv, NEW T, T \subseteq Waiting, NEW e \in Good, e.id \in Ids,
         NEW n, NEW created
  PROVE  Losses(T, e, n, created) \in Nat /\ Cardinality(T \cap Answering) \in Nat
<1>1. IsFiniteSet(T \cap Answering)
  <2>1. T \cap Answering \subseteq Slots
    BY SlotsAreNumbers DEF RoomInv, Waiting
  <2> QED
    BY <2>1, FS_Subset, SlotsAreNumbers DEF RoomInv
<1>2. IsFiniteSet({x \in {"pool"} : ~created})
  BY FS_Singleton, FS_Subset
<1>3. IsFiniteSet({h \in heard[e.id] : h = <<NextPost(e), n>>})
  <2> DEFINE h0 == <<NextPost(e), n>>
  <2>1. {h \in heard[e.id] : h = h0} \subseteq {h0} /\ IsFiniteSet({h0})
    BY FS_Singleton
  <2> QED
    BY <2>1, FS_Subset
<1>4. /\ Cardinality(T \cap Answering) \in Nat
      /\ Cardinality({x \in {"pool"} : ~created}) \in Nat
      /\ Cardinality({h \in heard[e.id] : h = <<NextPost(e), n>>}) \in Nat
  BY <1>1, <1>2, <1>3, FS_CardinalityType
<1> QED
  BY <1>4 DEF Losses

(* A push that is sent. *)
LEMMA PushKeeps ==
  ASSUME RoomInv, NEW list \in Lists(Good), NEW i \in Slots, NEW n \in Attempts,
         NEW created \in BOOLEAN,
         list.clients[i].id \in Ids, Unsynced(list.clients[i]) # {},
         pushPostToClient(list, i, NextPost(list.clients[i]), n, created),
         UNCHANGED <<ring, heard, clock>>
  PROVE  /\ acl' \in Lists(Good) /\ air' \subseteq Packets
         /\ \A p \in air' \ air : AirFine(p)'
         /\ acl'.num = list.num
         /\ \A j \in Slots : /\ acl'.clients[j].id = list.clients[j].id
                             /\ acl'.clients[j].permissions = list.clients[j].permissions
<1> DEFINE e   == list.clients[i]
           post == NextPost(e)
           ts  == post.post_timestamp
           ack == IF created THEN <<e.id, post, n>> ELSE NoAck
           new == [e EXCEPT !.push_post_timestamp = ts, !.pending_ack = ack]
           p   == Push(e.id, post, n, ~e.out_path)
<1>0. /\ list \in [clients: [Slots -> Good], num: 0 .. MaxClients]
      /\ \A j \in Used(list) : list.clients[j].id \in Ids
      /\ Used(list) \subseteq Slots
  BY SlotsAreNumbers DEF Lists
<1>1. e \in Good /\ e.id \in Ids
  BY <1>0
<1>2. post \in Post /\ ts \in Nat /\ Past(ts) /\ Has(e.id, ts - 1) /\ Same(post)
  <2> HIDE DEF e
  <2>1. post \in Post /\ Past(ts) /\ Has(e.id, ts - 1) /\ Same(post)
    BY <1>1, NextPostIsNext DEF e
  <2> QED
    BY <2>1 DEF Post
<1>3. acl' = [list EXCEPT !.clients[i] = new] /\ air' = IF created THEN air \cup {p} ELSE air
  BY DEF pushPostToClient
<1> HIDE DEF post, e
<1>4. new \in Good /\ new.id = e.id /\ new.permissions = e.permissions
  <2>1. <<e.id, post, n>> \in Acks
    BY <1>1, <1>2 DEF Acks
  <2>2. ack \in Acks \cup {NoAck} /\ (ack # NoAck => ack[1] = e.id /\ ack[2].post_timestamp = ts)
    BY <2>1
  <2> HIDE DEF ack, ts
  <2> QED
    BY <1>1, <1>2, <2>2 DEF Good, ClientInfo
<1> HIDE DEF new
<1>5. acl' = [clients |-> [list.clients EXCEPT ![i] = new], num |-> list.num]
  BY <1>0, <1>3
<1>6. \A j \in Slots : /\ acl'.clients[j].id = list.clients[j].id
                       /\ acl'.clients[j].permissions = list.clients[j].permissions
                       /\ acl'.clients[j] \in Good
  BY <1>0, <1>4, <1>5 DEF e
<1>7. Used(acl') = Used(list) /\ acl'.num = list.num
  BY <1>5 DEF Used
<1>8. acl'.clients \in [Slots -> Good]
  BY <1>0, <1>4, <1>5
<1>9. acl' \in Lists(Good)
  BY <1>0, <1>5, <1>6, <1>7, <1>8 DEF Lists
<1>10. PICK c \in Ids, b \in Post, f \in BOOLEAN : c = e.id /\ b = post /\ f = ~(e.out_path)
  <2>1. (~(e.out_path)) \in BOOLEAN
    BY Zenon
  <2> QED
    BY <1>1, <1>2, <2>1
<1> DEFINE q == Push(c, b, n, f)
<1>11. q \in Packets /\ q.client = c /\ q.ack = <<c, b, n>> /\ q.kind = "push"
  <2>1. <<c, b, n>> \in Acks
    BY DEF Acks
  <2> QED
    BY <2>1 DEF Push, Packets
<1>12. air' = IF created THEN air \cup {q} ELSE air
  BY <1>3, <1>10
<1> HIDE DEF p, q
<1>13. Past(b.post_timestamp)' /\ Has(c, b.post_timestamp - 1)' /\ Same(b)'
  <2>1. Past(b.post_timestamp) /\ Has(c, b.post_timestamp - 1) /\ Same(b)
    BY <1>2, <1>10
  <2> QED
    BY <2>1 DEF Past, Has, Same, Got, ring, clock
<1>14. \A x \in air' \ air : x = q
  BY <1>12
<1>15. air' \subseteq Packets
  BY <1>11, <1>12 DEF RoomInv, TypeOK
<1>16. \A x \in air' \ air : AirFine(x)'
  BY <1>11, <1>13, <1>14 DEF AirFine
<1> QED
  BY <1>6, <1>7, <1>9, <1>15, <1>16

LEMMA PushTurnStep ==
  ASSUME RoomInv, NEW T, NEW n \in Attempts, NEW created \in BOOLEAN, PushTurn(T, n, created)
  PROVE  RoomInv'
<1> DEFINE list  == TimedOut(T)
           entry == list.clients[next_client_idx]
<1>1. /\ acl.num > 0 /\ T \subseteq Waiting
      /\ IF MayPushTo(entry) /\ Unsynced(entry) # {}
         THEN /\ Use(<<"loss", 0>>, Losses(T, entry, n, created))
              /\ pushPostToClient(list, next_client_idx, NextPost(entry), n, created)
         ELSE /\ Use(<<"loss", 0>>, Cardinality(T \cap Answering))
              /\ acl' = list /\ air' = air
      /\ next_client_idx' = (next_client_idx + 1) % acl.num
      /\ UNCHANGED <<ring, clock, disk, heard>>
  BY DEF PushTurn
<1>2. list \in Lists(Good)
  BY <1>1, TimedOutKeeps
<1>3. next_client_idx \in Slots /\ acl.num \in 1 .. MaxClients /\ MaxClients \in Nat
  BY <1>1, SlotsAreNumbers DEF RoomInv, TypeOK
<1>4. next_client_idx' \in Slots
  <2>1. next_client_idx + 1 \in Nat
    BY <1>3, SlotsAreNumbers DEF RoomInv
  <2>2. (next_client_idx + 1) % acl.num \in 0 .. acl.num - 1
    BY <1>3, <2>1
  <2> QED
    BY <1>1, <1>3, <2>2 DEF Slots
<1> HIDE DEF list
<1>5. entry \in Good
  BY <1>2, <1>3 DEF Lists
<1>6. CASE MayPushTo(entry) /\ Unsynced(entry) # {}
  <2>1. entry.id \in Ids
    BY <1>5, <1>6 DEF Good, ClientInfo, MayPushTo
  <2>2. left' \in [Kinds -> Nat]
    <3>1. Losses(T, entry, n, created) \in Nat
      <4> HIDE DEF entry
      <4> QED
        BY <1>1, <1>5, <2>1, LossesAreNumbers
    <3> QED
      BY <1>1, <1>6, <3>1, BudgetTyped DEF Kinds
  <2>3. pushPostToClient(list, next_client_idx, NextPost(entry), n, created)
    BY <1>1, <1>6
  <2>4. acl' \in Lists(Good) /\ air' \subseteq Packets /\ \A p \in air' \ air : AirFine(p)'
    BY <1>1, <1>2, <1>3, <1>6, <2>1, <2>3, PushKeeps
  <2> QED
    BY <1>1, <1>4, <2>2, <2>4, QuietKeepsInv DEF RoomInv, TypeOK, clock, disk
<1>7. CASE ~(MayPushTo(entry) /\ Unsynced(entry) # {})
  <2>1. acl' = list /\ air' = air /\ Use(<<"loss", 0>>, Cardinality(T \cap Answering))
    BY <1>1, <1>7
  <2>2. left' \in [Kinds -> Nat]
    <3>1. Cardinality(T \cap Answering) \in Nat
      <4>1. T \cap Answering \subseteq Slots
        BY <1>1, SlotsAreNumbers DEF RoomInv, Waiting
      <4> QED
        BY <4>1, FS_Subset, FS_CardinalityType, SlotsAreNumbers DEF RoomInv
    <3> QED
      BY <2>1, <3>1, BudgetTyped DEF Kinds
  <2> QED
    BY <1>1, <1>2, <1>4, <2>1, <2>2, QuietKeepsInv DEF RoomInv, TypeOK, clock, disk
<1> QED
  BY <1>6, <1>7

(* A post that reaches its client. *)
LEMMA PushArrivesStep ==
  ASSUME RoomInv, NEW p \in air, PushArrives(p)
  PROVE  RoomInv'
<1> DEFINE c  == p.client
           post == p.ack[2]
           ts == post.post_timestamp
           h  == <<p.ack[2], p.ack[3]>>
<1>0. /\ p \in Packets /\ AirFine(p) /\ heard \in [Ids -> SUBSET (Post \X Attempts)]
      /\ air \subseteq Packets
  BY DEF RoomInv, TypeOK
<1>1. c \in Ids /\ post \in Post /\ ts \in Nat /\ h \in Post \X Attempts
  BY <1>0 DEF Packets, Acks, Post
<1>2. /\ heard' = [heard EXCEPT ![c] = @ \cup {h}]
      /\ air' = (air \ {p}) \cup {q \in {Answer(p)} : h \notin heard[c]}
      /\ UNCHANGED <<acl, ring, next_client_idx, clock, disk, left>>
  BY DEF PushArrives
<1>3. Answer(p) \in Packets /\ Answer(p).ack = p.ack /\ Answer(p).client = c
  BY <1>0 DEF Answer, Packets
<1> HIDE DEF h
<1>4. /\ heard' \in [Ids -> SUBSET (Post \X Attempts)]
      /\ \A d \in Ids : heard[d] \subseteq heard'[d]
      /\ \A d \in Ids : \A g \in heard'[d] \ heard[d] : d = c /\ g = h
      /\ h \in heard'[c]
  BY <1>0, <1>1, <1>2
<1>5. Grows /\ Stamped' /\ Ordered'
  BY <1>2, <1>4, QuietStep DEF RoomInv, TypeOK, clock
<1>6. post \in Got(c)' /\ h[1] = post
  <2>1. h[1] = post
    BY DEF h
  <2> QED
    BY <1>4, <2>1 DEF Got
<1>7. Past(ts)' /\ Has(c, ts)' /\ Has(c, ts - 1)' /\ Same(post)'
  <2>1. Past(ts)' /\ Same(post)'
    <3>1. PICK b \in Post : b = post
      BY <1>1
    <3>2. Past(b.post_timestamp) /\ Same(b) /\ b.post_timestamp \in Nat
      BY <1>0, <1>1, <3>1 DEF AirFine
    <3>3. Past(b.post_timestamp)' /\ Same(b)'
      BY <1>5, <3>2 DEF Grows
    <3> QED
      BY <3>1, <3>3
  <2>2. posts' = posts /\ horizon' = horizon /\ horizon \in Nat
    BY <1>2 DEF ring, clock, RoomInv, TypeOK
  <2>3. \A k \in Ring : posts[k].post_timestamp \in Nat
    BY DEF Post, RoomInv, TypeOK
  <2>4. Got(c) \subseteq Got(c)'
    BY <1>1, <1>4 DEF Got
  <2>5. Has(c, ts - 1)'
    BY <1>0, <2>2, <2>4 DEF AirFine, Has
  <2>6. Has(c, ts)'
    <3> SUFFICES ASSUME NEW k \in Ring, posts'[k].post_timestamp \in horizon' + 1 .. ts,
                        posts'[k].author # c
                 PROVE  posts'[k] \in Got(c)'
      BY DEF Has
    <3>1. CASE posts'[k].post_timestamp = ts
      <4>1. posts'[k] = post
        BY <1>1, <2>1, <2>2, <3>1 DEF Same
      <4> QED
        BY <1>6, <4>1
    <3>2. CASE posts'[k].post_timestamp # ts
      <4>1. posts'[k].post_timestamp \in horizon' + 1 .. ts - 1
        BY <1>1, <2>2, <2>3, <3>2
      <4> QED
        BY <2>5, <4>1 DEF Has
    <3> QED
      BY <3>1, <3>2
  <2> QED
    BY <2>1, <2>5, <2>6
<1>8. \A d \in Ids : \A g \in heard'[d] \ heard[d] : HeardFine(d, g)'
  BY <1>4, <1>6, <1>7 DEF HeardFine
<1>9. \A q \in air' \ air : AirFine(q)'
  BY <1>0, <1>2, <1>3, <1>6, <1>7 DEF AirFine
<1>10. Plain'
  BY <1>0, <1>2, <1>3, <1>4 DEF RoomInv, TypeOK, Plain, ring, clock, disk
<1> QED
  BY <1>2, <1>4, <1>5, <1>8, <1>9, <1>10, StepKeepsInv DEF RoomInv, disk

(* An ACK comes from a client that has the post.                           *)
LEMMA AckKeeps ==
  ASSUME RoomInv, NEW list \in Lists(Good), NEW p \in Packets, AirFine(p), p.kind = "answer"
  PROVE  /\ processAck(list, p.ack) \in Lists(Good)
         /\ processAck(list, p.ack).num = list.num
         /\ \A j \in Slots :
              /\ processAck(list, p.ack).clients[j].id = list.clients[j].id
              /\ processAck(list, p.ack).clients[j].permissions = list.clients[j].permissions
<1> DEFINE ack == p.ack
           new == processAck(list, ack)
           i   == Least(Owing(list, ack))
           e   == list.clients[i]
<1>0. /\ list \in [clients: [Slots -> Good], num: 0 .. MaxClients]
      /\ \A j \in Used(list) : list.clients[j].id \in Ids
      /\ Used(list) \subseteq Slots /\ Slots \subseteq Nat
  BY SlotsAreNumbers DEF Lists
<1>1. ack \in Acks /\ ack # NoAck /\ ack[1] = p.client /\ ack[2] \in Got(p.client)
  BY RoomAssumption DEF AirFine, Packets
<1>2. CASE Owing(list, ack) = {}
  BY <1>2 DEF processAck
<1>3. CASE Owing(list, ack) # {}
  <2>1. i \in Owing(list, ack)
    <3>1. Owing(list, ack) \subseteq Nat
      BY <1>0 DEF Owing
    <3> QED
      BY <1>3, <3>1, LeastIsLeast
  <2>2. new = [list EXCEPT !.clients[i] = Acked(list.clients[i])]
    BY <1>3 DEF processAck
  <2> HIDE DEF i, new, ack
  <2>3. i \in Used(list) /\ i \in Slots /\ e.pending_ack = ack /\ e \in Good /\ e.id \in Ids
    BY <1>0, <2>1 DEF Owing
  <2> HIDE DEF e
  <2>4. e.id = p.client
    BY <1>1, <2>3 DEF Good
  <2>5. Acked(e) \in Good /\ Acked(e).id = e.id /\ Acked(e).permissions = e.permissions
    BY <1>1, <2>3, <2>4, AckedIsGood
  <2>6. new = [clients |-> [list.clients EXCEPT ![i] = Acked(e)], num |-> list.num]
    BY <1>0, <2>2 DEF e
  <2>7. \A j \in Slots : /\ new.clients[j].id = list.clients[j].id
                         /\ new.clients[j].permissions = list.clients[j].permissions
    BY <1>0, <2>5, <2>6 DEF e
  <2>8. Used(new) = Used(list) /\ new.num = list.num
    BY <2>6 DEF Used
  <2>9. new.clients \in [Slots -> Good]
    BY <1>0, <2>5, <2>6
  <2>10. new \in Lists(Good)
    BY <1>0, <2>6, <2>7, <2>8, <2>9 DEF Lists
  <2> QED
    BY <2>7, <2>8, <2>10 DEF new, ack
<1> QED
  BY <1>2, <1>3

(* The list an answer is looked up in.                                     *)
LEMMA AnswerArrivesStep ==
  ASSUME RoomInv, NEW p \in air, AnswerArrives(p)
  PROVE  RoomInv'
<1> DEFINE reached == With(acl, p.client, Reached(Entry(p.client)))
<1>1. p \in Packets /\ AirFine(p) /\ p.kind = "answer" /\ acl \in Lists(Good)
  BY DEF RoomInv, TypeOK, AnswerArrives
<1>2. ASSUME p.client \in Members(acl)
      PROVE  reached \in Lists(Good)
  BY <1>2, EntryIsGood, ReachedIsGood, EntryReplaced
<1>3. \/ acl' = processAck(acl, p.ack)
      \/ p.client \in Members(acl) /\ acl' = processAck(reached, p.ack)
      \/ acl' = acl
  BY DEF AnswerArrives
<1> HIDE DEF reached
<1>4. acl' \in Lists(Good)
  BY <1>1, <1>2, <1>3, AckKeeps
<1>5. air' \subseteq air
  BY DEF AnswerArrives
<1> QED
  BY <1>4, <1>5, QuietKeepsInv DEF RoomInv, TypeOK, AnswerArrives, clock, disk

(* A restart: the ring is empty, what clients have of it does not matter.  *)
LEMMA RestartStep ==
  ASSUME RoomInv, NEW written \in 0 .. MaxClients, NEW kept \in BOOLEAN, Restart(written, kept)
  PROVE  RoomInv'
<1>1. /\ file' = IF written < Len(Saved(acl)) THEN SubSeq(Saved(acl), 1, written) ELSE file
      /\ acl' = Loaded(file')
      /\ posts' = [k \in Ring |-> NoPost]
      /\ next_post_idx' = 0 /\ next_client_idx' = 0
      /\ now' = IF kept THEN now ELSE 1
      /\ last_unique' = 0 /\ dirty' = FALSE /\ air' = air /\ heard' = heard
      /\ horizon' = IF last_unique > horizon THEN last_unique ELSE horizon
      /\ Use(<<"boot", 0>>, 1)
  BY DEF Restart, network
<1>2. /\ last_unique \in Nat /\ horizon \in Nat /\ now' \in Nat \ {0}
      /\ horizon' \in Nat /\ horizon' >= horizon /\ horizon' >= last_unique
  BY <1>1 DEF RoomInv, TypeOK
<1>3. \A k \in Ring : posts'[k] = NoPost
  BY <1>1
<1>4. Grows
  <2>1. \A t \in Nat : Past(t) => Past(t)' /\ t <= horizon'
    BY <1>2 DEF Past
  <2>2. \A c \in Ids, t \in Nat : Has(c, t)'
    BY <1>2, <1>3 DEF Has, NoPost
  <2>3. \A post \in Post : Past(post.post_timestamp) => Same(post)'
    BY <1>2, <2>1 DEF Same, Post
  <2> QED
    BY <2>1, <2>2, <2>3 DEF Grows
<1>5. MaxPosts - 1 \in Nat /\ 0 \in Ring /\ 0 \in Slots /\ MaxClients \in Nat \ {0}
  BY RoomAssumption, ACLAssumption DEF Ring, Slots
<1>6. Ordered' /\ Stamped'
  <2>1. Stamped'
    BY <1>1, <1>3 DEF Stamped, NoPost
  <2>2. \A k \in Ring : RingPos(k)' \in Ring
    <3> TAKE k \in Ring
    <3>1. RingPos(k)' = (0 + k) % MaxPosts
      BY <1>1 DEF RingPos
    <3>2. k \in Nat /\ k < MaxPosts /\ MaxPosts \in Nat
      BY <1>5, RoomAssumption DEF Ring
    <3>3. (0 + k) % MaxPosts = k
      BY <3>2
    <3> QED
      BY <3>1, <3>3
  <2>3. \A k \in Ring : StampAt(k)' = 0
    BY <1>3, <2>2 DEF StampAt, NoPost
  <2> QED
    BY <2>1, <2>3 DEF Ordered
<1>7. file' \in Seq(Kept) /\ Len(file') <= MaxClients
  <2>1. Saved(acl) \in Seq(Kept) /\ Len(Saved(acl)) <= MaxClients
    <3>1. {acl.clients[i] : i \in Used(acl)} \subseteq Kept
      <4>1. \A i \in Used(acl) : acl.clients[i] \in Good /\ acl.clients[i].id \in Ids
        BY SlotsAreNumbers DEF RoomInv, Lists
      <4> QED
        BY <4>1 DEF Good, Kept
    <3>2. /\ Saved(acl) \in Seq({acl.clients[i] : i \in Used(acl)})
          /\ Len(Saved(acl)) <= MaxClients
      BY SavedKeeps DEF RoomInv
    <3> QED
      BY <3>1, <3>2, SeqMonotonic
  <2>2. CASE written < Len(Saved(acl))
    <3>1. Len(Saved(acl)) \in Nat
      BY <2>1, LenProperties
    <3>2. SubSeq(Saved(acl), 1, written) \in Seq(Kept) /\ Len(SubSeq(Saved(acl), 1, written)) = written
      BY <1>5, <2>1, <2>2, <3>1, SubSeqProperties
    <3> QED
      BY <1>1, <1>5, <2>2, <3>2
  <2>3. CASE ~(written < Len(Saved(acl)))
    BY <1>1, <2>3 DEF RoomInv, TypeOK
  <2> QED
    BY <2>2, <2>3
<1>8. acl' \in Lists(Good')
  <2> DEFINE n == Len(file')
  <2>1. n \in Nat /\ n <= MaxClients /\ \A i \in 0 .. n - 1 : file'[i + 1] \in Kept
    BY <1>7, LenProperties, ElementOfSeq
  <2> HIDE DEF n
  <2> DEFINE Read(k) == [NewClient(k.id, k.permissions) EXCEPT
                           !.sync_since = k.sync_since, !.out_path = k.out_path]
  <2>2. acl' = [clients |-> [i \in Slots |-> IF i < n THEN Read(file'[i + 1])
                                             ELSE NewClient(NoId, Guest)],
                num |-> n]
    <3>1. acl' = Loaded(file')
      BY <1>1
    <3>2. (IF n < MaxClients THEN n ELSE MaxClients) = n
      BY <1>5, <2>1
    <3> QED
      BY <3>1, <3>2 DEF Loaded, n
  <2>3. \A i \in Slots : acl'.clients[i] \in Good' /\ (i < n => acl'.clients[i].id \in Ids)
    <3> TAKE i \in Slots
    <3>0. i \in Nat
      BY <1>5 DEF Slots
    <3>1. CASE i < n
      <4> DEFINE k == file'[i + 1]
                 e == Read(k)
      <4>0. i \in 0 .. n - 1
        BY <2>1, <3>0, <3>1
      <4>1. k \in Kept /\ acl'.clients[i] = e
        <5> HIDE DEF Read
        <5> QED
          BY <2>1, <2>2, <3>1, <4>0
      <4>2. k \in ClientInfo(Acks) /\ k.permissions \in Roles /\ k.id \in Ids /\ Past(k.sync_since)
        BY <4>1 DEF Kept
      <4> HIDE DEF k
      <4>3. /\ e \in ClientInfo(Acks) /\ e.id = k.id /\ e.permissions = k.permissions
            /\ e.sync_since = k.sync_since /\ e.pending_ack = NoAck /\ e.last_activity = 0
        BY <4>2 DEF NewClient, ClientInfo
      <4>4. k.sync_since \in Nat
        BY <4>2 DEF ClientInfo
      <4>5. PICK s \in Nat, c \in Ids : s = k.sync_since /\ c = k.id
        BY <4>2, <4>4
      <4>6. Past(s)' /\ Has(c, s)'
        <5>1. Past(s)'
          BY <1>4, <4>2, <4>5 DEF Grows
        <5>2. Has(c, s)'
          BY <1>2, <1>3 DEF Has, NoPost
        <5> QED
          BY <5>1, <5>2
      <4> HIDE DEF e
      <4>7. PICK x : x = e
        OBVIOUS
      <4>8. x \in Good'
        BY <4>2, <4>3, <4>5, <4>6, <4>7 DEF Good
      <4> QED
        BY <4>1, <4>2, <4>3, <4>7, <4>8
    <3>2. CASE ~(i < n)
      <4>1. acl'.clients[i] = NewClient(NoId, Guest)
        BY <2>2, <3>2
      <4>2. NewClient(NoId, Guest) \in Good
        BY NewIsGood
      <4>3. Good \subseteq Good'
        BY <1>4, GoodStaysGood
      <4> QED
        BY <3>2, <4>1, <4>2, <4>3
    <3> QED
      BY <3>1, <3>2
  <2>4. /\ acl'.num = n
        /\ acl' = [clients |-> acl'.clients, num |-> n]
        /\ acl'.clients \in [Slots -> Good']
    <3>1. acl'.num = n /\ acl' = [clients |-> acl'.clients, num |-> n]
      BY <2>2
    <3>2. DOMAIN acl'.clients = Slots /\ acl'.clients = [i \in Slots |-> acl'.clients[i]]
      BY <2>2
    <3>3. acl'.clients \in [Slots -> Good']
      BY <2>3, <3>2
    <3> QED
      BY <3>1, <3>3
  <2>5. \A i \in Used(acl') : acl'.clients[i].id \in Ids
    BY <2>3, <2>4 DEF Used
  <2>6. n \in 0 .. MaxClients
    BY <1>5, <2>1
  <2> QED
    BY <2>4, <2>5, <2>6 DEF Lists
<1>9. left' \in [Kinds -> Nat]
  BY <1>1, BudgetTyped DEF Kinds
<1>10. Plain'
  <2>1. NoPost \in Post
    BY DEF NoPost, Post
  <2> QED
    BY <1>1, <1>2, <1>5, <1>7, <1>9, <2>1 DEF RoomInv, TypeOK, Plain
<1> QED
  BY <1>1, <1>4, <1>6, <1>7, <1>8, <1>10, StepKeepsInv

(* The start. *)
LEMMA InitRoomInv == Init => RoomInv
<1> SUFFICES ASSUME Init
             PROVE  RoomInv
  OBVIOUS
<1>1. /\ acl = EmptyList /\ posts = [k \in Ring |-> NoPost]
      /\ next_post_idx = 0 /\ next_client_idx = 0 /\ now = 1 /\ last_unique = 0 /\ horizon = 0
      /\ dirty = FALSE /\ file = <<>> /\ air = {} /\ heard = [c \in Ids |-> {}]
      /\ left \in [Kinds -> Nat]
  BY RoomAssumption DEF Init
<1>2. 0 \in Ring /\ 0 \in Slots /\ MaxClients \in Nat \ {0} /\ MaxPosts \in Nat \ {0}
  BY RoomAssumption, ACLAssumption DEF Ring, Slots
<1>3. /\ NewClient(NoId, Guest) \in Good
      /\ NewClient(NoId, Guest) \in ClientInfo(Acks)
  <2>1. NewClient(NoId, Guest) \in ClientInfo(Acks)
    BY RolesAreRoles DEF NewClient, ClientInfo
  <2>2. Past(0)
    BY <1>1 DEF Past
  <2> QED
    BY <2>1, <2>2, RolesAreRoles, ACLAssumption DEF Good, NewClient
<1>4. acl \in Lists(Good) /\ acl \in AccessLists(Acks)
  <2>1. acl = [clients |-> [i \in Slots |-> NewClient(NoId, Guest)], num |-> 0]
    BY <1>1 DEF EmptyList
  <2>2. Used(acl) = {}
    BY <2>1, <1>2 DEF Used, Slots
  <2>3. 0 \in 0 .. MaxClients
    BY <1>2
  <2> QED
    BY <1>3, <2>1, <2>2, <2>3 DEF Lists, AccessLists
<1>5. /\ file \in Seq(Kept) /\ file \in Seq(ClientInfo(Acks)) /\ Len(file) <= MaxClients
  BY <1>1, <1>2, EmptySeq
<1>6. TypeOK
  <2>1. NoPost \in Post
    BY DEF NoPost, Post
  <2>2. posts \in [Ring -> Post] /\ heard \in [Ids -> SUBSET (Post \X Attempts)]
    BY <1>1, <2>1
  <2>3. now \in Nat \ {0} /\ last_unique \in Nat /\ horizon \in Nat /\ air \subseteq Packets
    BY <1>1
  <2>4. dirty \in BOOLEAN
    BY <1>1, Zenon
  <2> QED
    BY <1>1, <1>2, <1>4, <1>5, <2>2, <2>3, <2>4 DEF TypeOK
<1>7. Stamped /\ Ordered
  <2>1. \A k \in Ring : RingPos(k) \in Ring
    BY <1>1, <1>2, RingPositions
  <2> QED
    BY <1>1, <2>1 DEF Stamped, NoPost, Ordered, StampAt
<1> QED
  BY <1>1, <1>4, <1>5, <1>6, <1>7 DEF RoomInv

LEMMA ClientStep ==
  ASSUME RoomInv, NEW c \in Ids, FromClient(c)
  PROVE  RoomInv'
<1>1. CASE \E ts \in Stamps : BlankLogin(c, ts)
  BY <1>1, BlankLoginStep
<1>2. CASE PathArrives(c)
  BY <1>2, PathStep
<1>3. CASE \E ts \in Stamps, since \in Claims(c), password \in Passwords :
             Login(c, ts, since, password)
  BY <1>3, LoginStep
<1>4. CASE \E ts \in Stamps, since \in Claims(c), keepAlive \in BOOLEAN :
             Request(c, ts, keepAlive, since)
  BY <1>4, RequestStep
<1>5. CASE \E ts \in Stamps : TextArrives(c, ts)
  BY <1>5, TextStep
<1>6. CASE \E ts \in Stamps, cmd \in Commands : CommandArrives(c, ts, cmd[1], cmd[2])
  BY <1>6, CommandStep
<1> QED
  BY <1>1, <1>2, <1>3, <1>4, <1>5, <1>6 DEF FromClient

LEMMA NextKeepsInv == RoomInv /\ [Next]_vars => RoomInv'
<1> SUFFICES ASSUME RoomInv, [Next]_vars
             PROVE  RoomInv'
  OBVIOUS
<1>1. CASE \E c \in Ids : FromClient(c)
  BY <1>1, ClientStep
<1>2. CASE \E cmd \in Commands : SetPerm(cmd[1], cmd[2])
  BY <1>2, SetPermStep
<1>3. CASE \E T \in SUBSET Slots, n \in Attempts, created \in BOOLEAN : PushTurn(T, n, created)
  BY <1>3, PushTurnStep
<1>4. CASE SaveClients
  BY <1>4, SaveStep
<1>5. CASE Arrive
  BY <1>5, PushArrivesStep, AnswerArrivesStep DEF Arrive
<1>6. CASE Lose
  BY <1>6, LoseStep
<1>7. CASE Tick
  BY <1>7, TickStep
<1>8. CASE \E written \in 0 .. MaxClients, kept \in BOOLEAN : Restart(written, kept)
  BY <1>8, RestartStep
<1>9. CASE UNCHANGED vars
  <2>1. UNCHANGED <<ring, file, heard, acl, now, last_unique, horizon, dirty, left, next_client_idx, air>>
    BY <1>9 DEF vars, clock, disk, network
  <2> QED
    BY <2>1, QuietKeepsInv DEF RoomInv, TypeOK
<1> QED
  BY <1>1, <1>2, <1>3, <1>4, <1>5, <1>6, <1>7, <1>8, <1>9 DEF Next

LEMMA RoomInvHolds == Spec => []RoomInv
BY InitRoomInv, NextKeepsInv, PTL DEF Spec

------------------------------------------------------------------------------
(* The state of server and clients has its types. *)
THEOREM TypeCorrect == Spec => []TypeOK
<1>1. RoomInv => TypeOK
  BY DEF RoomInv
<1> QED
  BY <1>1, RoomInvHolds, PTL

(* What the server takes a client to have, the client has: 'since' passes  *)
(* over no post of another client that is still in the ring and was        *)
(* stamped later than all posts before the last start, whatever is lost,   *)
(* comes late or is pushed again, and wherever the clock falls back to at  *)
(* restarts (processAck, loop, load).                                      *)
THEOREM NoPostIsSkipped == Spec => []NoPostSkipped
<1>1. ASSUME RoomInv
      PROVE  NoPostSkipped
  <2> SUFFICES ASSUME NEW i \in Used(acl), NEW k \in Ring,
                      posts[k].post_timestamp \in horizon + 1 .. acl.clients[i].sync_since,
                      posts[k].author # acl.clients[i].id
               PROVE  posts[k] \in Got(acl.clients[i].id)
    BY DEF NoPostSkipped
  <2>1. acl.clients[i] \in Good /\ acl.clients[i].id \in Ids
    BY <1>1, SlotsAreNumbers DEF RoomInv, Lists
  <2>2. Has(acl.clients[i].id, acl.clients[i].sync_since)
    BY <2>1 DEF Good
  <2> QED
    BY <2>2 DEF Has
<1> QED
  BY <1>1, RoomInvHolds, PTL

------------------------------------------------------------------------------
(* Administrators on a list are on the new one, or there is nobody else. *)
Stay(list, new) ==
  \A i \in Used(list) : list.clients[i].permissions = Admin =>
     \/ list.clients[i].id \in Members(new)
     \/ \A j \in Slots : list.clients[j].permissions = Admin

LEMMA SameMembersStay ==
  ASSUME NEW list, NEW new, Members(list) \subseteq Members(new)
  PROVE  Stay(list, new)
BY DEF Stay, Members

(* Entries that are changed in place. *)
LEMMA ChangedStay ==
  ASSUME NEW list \in Lists(Good), NEW new, new.num = list.num,
         \A j \in Slots : new.clients[j].id = list.clients[j].id
  PROVE  Members(new) = Members(list)
BY SlotsAreNumbers DEF Members, Used

(* The one who gives way is no administrator if there is another.          *)
LEMMA OldestStays ==
  ASSUME RoomInv, NEW list \in Lists(Good), NEW new,
         \A i \in Used(list) : \/ list.clients[i].id \in Members(new)
                               \/ i = Oldest(list) /\ list.num = MaxClients
  PROVE  Stay(list, new)
<1> SUFFICES ASSUME NEW i \in Used(list), list.clients[i].permissions = Admin,
                    list.clients[i].id \notin Members(new)
             PROVE  \A j \in Slots : list.clients[j].permissions = Admin
  BY DEF Stay
<1>1. i = Oldest(list) /\ list.num = MaxClients
  OBVIOUS
<1>2. \A j \in Slots : list.clients[j].permissions \in Roles
  BY DEF Lists, Good
<1>3. \/ Role(list.clients[i].permissions) # Admin
      \/ \A j \in Slots : Role(list.clients[j].permissions) = Admin
  BY <1>1, EntriesTyped, OldestIsNoAdmin
<1>4. Role(Admin) = Admin
  BY RolesAreRoles
<1> QED
  BY <1>2, <1>3, <1>4, RolesAreRoles

LEMMA PutStays ==
  ASSUME RoomInv, NEW c \in Ids
  PROVE  Stay(acl, putClient(acl, c, Guest))
<1> DEFINE put == putClient(acl, c, Guest)
<1>1. acl \in Lists(Good) /\ NewClient(c, Guest) \in Good
  BY NewIsGood DEF RoomInv
<1>2. /\ put \in Lists(Good) /\ put.num >= acl.num
      /\ \A i \in Used(acl) : \/ put.clients[i] = acl.clients[i]
                              \/ i = Oldest(acl) /\ acl.num = MaxClients
  BY <1>1, EntriesTyped, PutKeeps
<1> HIDE DEF put
<1>3. Used(acl) \subseteq Used(put)
  BY <1>1, <1>2, SlotsAreNumbers DEF Used, Slots
<1>4. \A i \in Used(acl) : \/ acl.clients[i].id \in Members(put)
                           \/ i = Oldest(acl) /\ acl.num = MaxClients
  BY <1>2, <1>3 DEF Members
<1> QED
  BY <1>1, <1>4, OldestStays DEF put

LEMMA LoginStays ==
  ASSUME RoomInv, NEW c \in Ids, NEW ts, NEW since, NEW password,
         NEW role \in Roles, NEW put, NEW old,
         put = putClient(acl, c, Guest), old = put.clients[IndexOf(put, {c})]
  PROVE  Stay(acl, With(put, c, LoggedIn(old, ts, since, role)))
<1> DEFINE e   == LoggedIn(old, ts, since, role)
           new == With(put, c, e)
<1>1. put \in Lists(Good) /\ c \in Members(put) /\ Stay(acl, put)
  BY NewIsGood, EntriesTyped, PutKeeps, PutStays DEF RoomInv
<1>2. IndexOf(put, {c}) \in Used(put) /\ old.id \in {c} /\ old \in Good
  <2>1. IndexOf(put, {c}) \in Used(put) /\ put.clients[IndexOf(put, {c})].id \in {c}
    BY <1>1, ClientIsFound
  <2> QED
    BY <1>1, <2>1, SlotsAreNumbers DEF Lists
<1>3. e.id = old.id
  BY <1>2 DEF LoggedIn, Good, ClientInfo
<1>4. put \in Lists({put.clients[j] : j \in Slots} \cup {e})
  BY <1>1 DEF Lists
<1> HIDE DEF e
<1>5. Members(new) = Members(put)
  BY <1>1, <1>2, <1>3, <1>4, WithKeeps
<1> QED
  BY <1>1, <1>5 DEF Stay, e

LEMMA HeardStays ==
  ASSUME RoomInv, NEW c \in Members(acl), NEW e \in Good, e.id = c
  PROVE  Stay(acl, With(acl, c, e))
BY WithKeeps, SameMembersStay DEF RoomInv

(* setperm, to a list that is the access list but for who was heard.       *)
LEMMA PermissionsStay ==
  ASSUME RoomInv, NEW cmd \in Commands, NEW list \in Lists(Good), list.num = acl.num,
         \A i \in Slots : /\ list.clients[i].id = acl.clients[i].id
                          /\ list.clients[i].permissions = acl.clients[i].permissions,
         MayApply(list, cmd[1], cmd[2]),
         applyPermissions(list, cmd[1], cmd[2]).num >= acl.num
  PROVE  Stay(acl, applyPermissions(list, cmd[1], cmd[2]))
<1> DEFINE new == applyPermissions(list, cmd[1], cmd[2])
<1>1. cmd[1] \in SUBSET Ids /\ cmd[2] \in Roles
  BY RoomAssumption
<1>0. /\ \A e \in Good : e.last_activity \in Nat /\ e = [e EXCEPT !.permissions = e.permissions]
      /\ \A id \in Ids : NewClient(id, Guest) \in Good
      /\ \A e \in Good, role \in Roles : [e EXCEPT !.permissions = role] \in Good
  BY EntriesTyped, NewIsGood, RoleIsGood
<1>2. /\ new \in Lists(Good)
      /\ \/ new.num < list.num
         \/ \A i \in Used(list) : \/ list.clients[i].id \in Members(new)
                                  \/ i = Oldest(list) /\ list.num = MaxClients
  BY ZenonT(60), <1>0, <1>1, PermissionsKeep
<1>3. new \in Lists(Good)
  BY <1>2
<1> HIDE DEF new
<1>4. ~(new.num < list.num)
  BY <1>3, SlotsAreNumbers DEF new
<1>5. Stay(list, new)
  BY <1>2, <1>4, OldestStays
<1>6. Used(list) = Used(acl) /\ Used(acl) \subseteq Slots
  BY SlotsAreNumbers DEF Used, RoomInv
<1> QED
  BY <1>5, <1>6 DEF Stay, new

LEMMA HeardInPlace ==
  ASSUME RoomInv, NEW c \in Members(acl), NEW e, e.id = c, e.permissions = Entry(c).permissions
  PROVE  \A i \in Slots : /\ With(acl, c, e).clients[i].id = acl.clients[i].id
                          /\ With(acl, c, e).clients[i].permissions = acl.clients[i].permissions
<1> DEFINE at  == IndexOf(acl, {c})
           new == With(acl, c, e)
<1>1. at \in Slots /\ acl.clients[at].id = c /\ Entry(c) = acl.clients[at]
  BY ClientIsFound, SlotsAreNumbers DEF RoomInv, Entry
<1>2. acl \in [clients: [Slots -> Good], num: 0 .. MaxClients]
  BY DEF RoomInv, Lists
<1>3. new = [acl EXCEPT !.clients[at] = e]
  BY DEF With
<1> HIDE DEF at, new
<1>4. new.clients = [acl.clients EXCEPT ![at] = e]
  BY <1>2, <1>3
<1> QED
  BY <1>1, <1>2, <1>4 DEF new

LEMMA CommandStays ==
  ASSUME RoomInv, NEW c \in Ids, NEW ts \in Stamps, NEW cmd \in Commands,
         CommandArrives(c, ts, cmd[1], cmd[2]), acl'.num >= acl.num
  PROVE  Stay(acl, acl')
<1> DEFINE e(t)    == Heard(Entry(c), ts, t)
           list(t) == With(acl, c, e(t))
<1>1. PICK t : t = last_unique'
  OBVIOUS
<1>2. t \in Nat /\ ts \in Nat /\ c \in Members(acl)
  BY <1>1, UniqueIsNew, RoomAssumption DEF RoomInv, TypeOK, CommandArrives
<1>3. e(t) \in Good /\ e(t).id = c /\ e(t).permissions = Entry(c).permissions
  BY <1>2, EntryIsGood, HeardIsGood
<1>4. \/ acl' = list(t)
      \/ /\ acl' = applyPermissions(list(t), cmd[1], cmd[2])
         /\ MayApply(acl, cmd[1], cmd[2])
  BY <1>1 DEF CommandArrives
<1> HIDE DEF e
<1>5. /\ list(t) \in Lists(Good) /\ list(t).num = acl.num /\ Members(list(t)) = Members(acl)
      /\ \A i \in Slots : /\ list(t).clients[i].id = acl.clients[i].id
                          /\ list(t).clients[i].permissions = acl.clients[i].permissions
  BY <1>2, <1>3, WithKeeps, HeardInPlace DEF RoomInv
<1> HIDE DEF list
<1>6. CASE acl' = list(t)
  BY ZenonT(60), <1>5, <1>6 DEF Stay, Members
<1>7. CASE /\ acl' = applyPermissions(list(t), cmd[1], cmd[2])
           /\ MayApply(acl, cmd[1], cmd[2])
  <2>1. MayApply(list(t), cmd[1], cmd[2])
    BY <1>5, <1>7 DEF MayApply
  <2> QED
    BY <1>5, <1>7, <2>1, PermissionsStay
<1> QED
  BY <1>4, <1>6, <1>7

LEMMA ClientStays ==
  ASSUME RoomInv, NEW c \in Ids, FromClient(c), acl'.num >= acl.num
  PROVE  Stay(acl, acl')
<1>1. CASE \E ts \in Stamps : BlankLogin(c, ts)
  BY <1>1 DEF BlankLogin, Stay, Members
<1>2. CASE PathArrives(c)
  <2>1. c \in Members(acl) /\ acl' = With(acl, c, Reached(Entry(c)))
    BY <1>2 DEF PathArrives
  <2> QED
    BY <2>1, EntryIsGood, ReachedIsGood, HeardStays
<1>3. CASE \E ts \in Stamps, since \in Claims(c), password \in Passwords :
             Login(c, ts, since, password)
  <2> PICK ts \in Stamps, since \in Claims(c), password \in Passwords :
             Login(c, ts, since, password)
    BY <1>3
  <2> DEFINE put == putClient(acl, c, Guest)
             old == put.clients[IndexOf(put, {c})]
  <2>1. PICK role \in RoleFor(password) :
          acl' = put \/ acl' = With(put, c, LoggedIn(old, ts, since, role))
    BY DEF Login
  <2>2. role \in Roles
    BY <2>1, RolesAreRoles DEF RoleFor
  <2>3. Stay(acl, With(put, c, LoggedIn(old, ts, since, role))) /\ Stay(acl, put)
    <3> HIDE DEF put, old
    <3> QED
      BY <2>2, LoginStays, PutStays DEF put, old
  <2> HIDE DEF put, old
  <2> QED
    BY <2>1, <2>3
<1>4. CASE \E ts \in Stamps, since \in Claims(c), keepAlive \in BOOLEAN :
             Request(c, ts, keepAlive, since)
  <2> PICK ts \in Stamps, since \in Claims(c), keepAlive \in BOOLEAN :
             Request(c, ts, keepAlive, since)
    BY <1>4
  <2> DEFINE e == Heard(Entry(c), ts, now)
  <2>1. c \in Members(acl)
    BY DEF Request
  <2>2. e \in Good /\ e.id = c
    <3>1. Entry(c) \in Good /\ Entry(c).id = c
      BY <2>1, EntryIsGood
    <3>2. ts \in Nat /\ now \in Nat
      BY RoomAssumption DEF RoomInv, TypeOK
    <3> QED
      BY <3>1, <3>2, HeardIsGood
  <2>3. PICK new : acl' = With(acl, c, new) /\ new.id = e.id
    <3>1. PICK new \in {e} \cup {[e EXCEPT !.pending_ack = NoAck, !.sync_since = s] :
                                   s \in {since, e.sync_since}} : acl' = With(acl, c, new)
      BY DEF Request
    <3>2. new.id = e.id
      <4> HIDE DEF e
      <4> QED
        BY <2>2, <3>1 DEF Good, ClientInfo
    <3> QED
      BY <3>1, <3>2
  <2>4. acl \in Lists({acl.clients[j] : j \in Slots} \cup {new})
    BY DEF RoomInv, Lists
  <2> HIDE DEF e
  <2>5. Members(acl') = Members(acl)
    BY <2>1, <2>2, <2>3, <2>4, WithKeeps
  <2> QED
    BY <2>5 DEF Stay, Members
<1>5. CASE \E ts \in Stamps : TextArrives(c, ts)
  <2> PICK ts \in Stamps : TextArrives(c, ts)
    BY <1>5
  <2>1. c \in Members(acl) /\ acl' = With(acl, c, Heard(Entry(c), ts, Unique(last_unique)))
    BY DEF TextArrives
  <2>2. Unique(last_unique) \in Nat /\ ts \in Nat
    BY UniqueIsNew, RoomAssumption DEF RoomInv, TypeOK
  <2> QED
    BY <2>1, <2>2, EntryIsGood, HeardIsGood, HeardStays
<1>6. CASE \E ts \in Stamps, cmd \in Commands : CommandArrives(c, ts, cmd[1], cmd[2])
  BY <1>6, CommandStays
<1> QED
  BY <1>1, <1>2, <1>3, <1>4, <1>5, <1>6 DEF FromClient

LEMMA PushTurnStays ==
  ASSUME RoomInv, NEW T, NEW n \in Attempts, NEW created \in BOOLEAN, PushTurn(T, n, created)
  PROVE  Stay(acl, acl')
<1> DEFINE list  == TimedOut(T)
           entry == list.clients[next_client_idx]
<1>1. /\ T \subseteq Waiting /\ UNCHANGED <<ring, heard, clock>>
      /\ \/ acl' = list
         \/ /\ MayPushTo(entry) /\ Unsynced(entry) # {}
            /\ pushPostToClient(list, next_client_idx, NextPost(entry), n, created)
  BY DEF PushTurn
<1>2. /\ list \in Lists(Good) /\ list.num = acl.num
      /\ \A i \in Slots : list.clients[i].id = acl.clients[i].id
  BY <1>1, TimedOutKeeps
<1>3. next_client_idx \in Slots
  BY DEF RoomInv, TypeOK
<1> HIDE DEF list
<1>4. acl'.num = acl.num /\ \A i \in Slots : acl'.clients[i].id = acl.clients[i].id
  <2>1. CASE acl' = list
    BY <1>2, <2>1
  <2>2. CASE /\ MayPushTo(entry) /\ Unsynced(entry) # {}
             /\ pushPostToClient(list, next_client_idx, NextPost(entry), n, created)
    <3>1. entry \in Good
      BY <1>2, <1>3 DEF Lists
    <3>2. entry.id \in Ids
      BY <2>2, <3>1 DEF Good, ClientInfo, MayPushTo
    <3>3. /\ acl'.num = list.num
          /\ \A i \in Slots : acl'.clients[i].id = list.clients[i].id
      BY <1>1, <1>2, <1>3, <2>2, <3>2, PushKeeps
    <3> QED
      BY <1>2, <3>3
  <2> QED
    BY <1>1, <2>1, <2>2
<1>5. Members(acl') = Members(acl)
  BY <1>4, SlotsAreNumbers DEF Members, Used, RoomInv
<1> QED
  BY <1>5 DEF Stay, Members

LEMMA AnswerStays ==
  ASSUME RoomInv, NEW p \in air, AnswerArrives(p)
  PROVE  Stay(acl, acl')
<1> DEFINE reached == With(acl, p.client, Reached(Entry(p.client)))
<1>1. p \in Packets /\ AirFine(p) /\ p.kind = "answer" /\ acl \in Lists(Good)
  BY DEF RoomInv, TypeOK, AnswerArrives
<1>2. ASSUME p.client \in Members(acl)
      PROVE  reached \in Lists(Good) /\ Members(reached) = Members(acl)
  BY <1>2, EntryIsGood, ReachedIsGood, WithKeeps DEF RoomInv
<1>3. \/ acl' = processAck(acl, p.ack)
      \/ p.client \in Members(acl) /\ acl' = processAck(reached, p.ack)
      \/ acl' = acl
  BY DEF AnswerArrives
<1> HIDE DEF reached
<1>4. \A list \in Lists(Good) : Members(processAck(list, p.ack)) = Members(list)
  BY <1>1, AckKeeps, ChangedStay
<1>5. Members(acl') = Members(acl)
  BY <1>1, <1>2, <1>3, <1>4
<1> QED
  BY <1>5 DEF Stay, Members

(* Without a restart or a command that deletes it, an administrator's      *)
(* entry goes only when there is nobody else to give way (putClient).      *)
THEOREM AdministratorsStay == Spec => AdminsStay
<1> DEFINE A == left'[<<"boot", 0>>] = left[<<"boot", 0>>] /\ acl'.num >= acl.num =>
                  \A i \in Used(acl) : acl.clients[i].permissions = Admin =>
                    \/ acl.clients[i].id \in Members(acl')
                    \/ \A j \in Slots : acl.clients[j].permissions = Admin
<1>1. ASSUME RoomInv, [Next]_vars
      PROVE  [A]_vars
  <2> SUFFICES ASSUME Next, left'[<<"boot", 0>>] = left[<<"boot", 0>>], acl'.num >= acl.num
               PROVE  Stay(acl, acl')
    BY <1>1 DEF Stay
  <2>1. CASE \E c \in Ids : FromClient(c)
    BY <1>1, <2>1, ClientStays
  <2>2. CASE \E cmd \in Commands : SetPerm(cmd[1], cmd[2])
    BY <1>1, <2>2, PermissionsStay DEF SetPerm, RoomInv
  <2>3. CASE \E T \in SUBSET Slots, n \in Attempts, created \in BOOLEAN : PushTurn(T, n, created)
    BY <1>1, <2>3, PushTurnStays
  <2>4. CASE SaveClients \/ Lose \/ Tick \/ \E p \in air : PushArrives(p)
    BY <2>4 DEF SaveClients, Lose, Tick, PushArrives, Stay, Members
  <2>5. CASE \E p \in air : AnswerArrives(p)
    BY <1>1, <2>5, AnswerStays
  <2>6. CASE \E written \in 0 .. MaxClients, kept \in BOOLEAN : Restart(written, kept)
    <3>1. left \in [Kinds -> Nat] /\ left' = [left EXCEPT ![<<"boot", 0>>] = @ - 1]
      BY <1>1, <2>6 DEF RoomInv, TypeOK, Restart, Use
    <3>2. left[<<"boot", 0>>] \in Nat /\ left'[<<"boot", 0>>] = left[<<"boot", 0>>] - 1
      BY <3>1 DEF Kinds
    <3> QED
      BY <3>2
  <2> QED
    BY <2>1, <2>2, <2>3, <2>4, <2>5, <2>6 DEF Next, Arrive
<1>2. [][RoomInv /\ [Next]_vars]_vars => AdminsStay
  <2>1. RoomInv /\ [Next]_vars => [A]_vars
    BY <1>1
  <2> QED
    BY <2>1, PTL DEF AdminsStay
<1> QED
  BY <1>2, RoomInvHolds, PTL DEF Spec

------------------------------------------------------------------------------
(* A text is posted once. *)

(* A client has one entry. *)
OneEach(list) ==
  \A i, j \in Used(list) : list.clients[i].id = list.clients[j].id => i = j

(* Of whom a list has from another one, it knows no older time stamp.      *)
Recalls(list, new) ==
  \A j \in Used(new) :
    new.clients[j].id \in Members(list) =>
      \E i \in Used(list) :
        /\ list.clients[i].id = new.clients[j].id
        /\ list.clients[i].last_timestamp <= new.clients[j].last_timestamp

Fresh(list, new) == OneEach(new) /\ Recalls(list, new)

LEMMA SameIsFresh ==
  ASSUME NEW list, OneEach(list), \A i \in Used(list) : list.clients[i].last_timestamp \in Nat
  PROVE  Fresh(list, list)
BY DEF Fresh, Recalls, Members

(* Entries that are changed in place, their time stamps growing.           *)
LEMMA GrowingIsFresh ==
  ASSUME NEW E, \A e \in E : e.last_timestamp \in Nat,
         NEW list \in Lists(E), NEW mid \in Lists(E), Fresh(list, mid), NEW new,
         new.num = mid.num,
         \A j \in Used(mid) : /\ new.clients[j].id = mid.clients[j].id
                              /\ new.clients[j].last_timestamp \in Nat
                              /\ mid.clients[j].last_timestamp <= new.clients[j].last_timestamp
  PROVE  Fresh(list, new)
<1>1. Used(new) = Used(mid)
  BY DEF Used
<1>2. OneEach(new)
  BY <1>1 DEF Fresh, OneEach
<1>3. ASSUME NEW j \in Used(new), new.clients[j].id \in Members(list)
      PROVE  \E i \in Used(list) : /\ list.clients[i].id = new.clients[j].id
                                   /\ list.clients[i].last_timestamp <= new.clients[j].last_timestamp
  <2>1. PICK i \in Used(list) :
          /\ list.clients[i].id = mid.clients[j].id
          /\ list.clients[i].last_timestamp <= mid.clients[j].last_timestamp
    BY <1>1, <1>3 DEF Fresh, Recalls
  <2>2. list.clients[i].last_timestamp \in Nat /\ mid.clients[j].last_timestamp \in Nat
    BY <1>1, SlotsAreNumbers DEF Lists
  <2> QED
    BY <1>1, <2>1, <2>2
<1> QED
  BY <1>2, <1>3 DEF Fresh, Recalls

LEMMA PutIsFresh ==
  ASSUME NEW E, NEW list \in Lists(E), OneEach(list), NEW id \in Ids, NEW perms,
         \A e \in E : e.last_timestamp \in Nat /\ e.last_activity \in Nat,
         NewClient(id, perms) \in E
  PROVE  Fresh(list, putClient(list, id, perms))
<1> DEFINE put == putClient(list, id, perms)
           at  == SlotFor(list, id)
<1>1. \A i \in Used(list) : list.clients[i].last_timestamp \in Nat
  BY SlotsAreNumbers DEF Lists
<1>2. CASE id \in Members(list)
  BY <1>1, <1>2, SameIsFresh DEF putClient
<1>3. CASE id \notin Members(list)
  <2>1. /\ put.clients = [list.clients EXCEPT ![at] = NewClient(id, perms)]
        /\ put.num = IF list.num < MaxClients THEN list.num + 1 ELSE list.num
        /\ list.clients \in [Slots -> E] /\ NewClient(id, perms).id = id
    BY <1>3 DEF putClient, Lists, NewClient
  <2>2. at = IF list.num < MaxClients THEN list.num ELSE Oldest(list)
    BY <1>3 DEF SlotFor
  <2>3. put \in Lists(E) /\ put.clients[at].id = id /\ at \in Used(put)
    BY PutKeeps
  <2>4. \A j \in Used(put) : j # at => j \in Used(list) /\ put.clients[j] = list.clients[j]
    BY <2>1, <2>2, SlotsAreNumbers DEF Used, Slots
  <2> HIDE DEF put, at
  <2>5. \A j \in Used(put) : j # at => put.clients[j].id # id
    BY <1>3, <2>4 DEF Members
  <2>6. OneEach(put)
    BY <2>3, <2>4, <2>5 DEF OneEach
  <2>7. Recalls(list, put)
    BY <1>1, <1>3, <2>3, <2>4 DEF Recalls
  <2> QED
    BY <2>6, <2>7 DEF Fresh, put
<1> QED
  BY <1>2, <1>3

LEMMA WithIsFresh ==
  ASSUME NEW E, \A e \in E : e.last_timestamp \in Nat,
         NEW list \in Lists(E), NEW mid \in Lists(E), Fresh(list, mid),
         NEW c \in Members(mid), NEW e, e.id = c, e.last_timestamp \in Nat,
         mid.clients[IndexOf(mid, {c})].last_timestamp <= e.last_timestamp
  PROVE  Fresh(list, With(mid, c, e))
<1> DEFINE at  == IndexOf(mid, {c})
           new == With(mid, c, e)
<1>1. at \in Used(mid) /\ mid.clients[at].id = c
  BY ClientIsFound
<1>2. mid.clients \in [Slots -> E] /\ Used(mid) \subseteq Slots
      /\ mid \in [clients: [Slots -> E], num: 0 .. MaxClients]
  BY SlotsAreNumbers DEF Lists
<1>3. new.clients = [mid.clients EXCEPT ![at] = e] /\ new.num = mid.num
  <2>1. new = [mid EXCEPT !.clients[at] = e]
    BY DEF With
  <2> HIDE DEF at, new
  <2> QED
    BY <1>2, <2>1
<1> HIDE DEF at, new
<1>4. \A j \in Used(mid) : mid.clients[j].last_timestamp \in Nat
  BY <1>2
<1>5. mid.clients[at].last_timestamp <= e.last_timestamp
  BY DEF at
<1>6. \A j \in Used(mid) : /\ new.clients[j].id = mid.clients[j].id
                           /\ new.clients[j].last_timestamp \in Nat
                           /\ mid.clients[j].last_timestamp <= new.clients[j].last_timestamp
  <2> TAKE j \in Used(mid)
  <2>1. CASE j = at
    BY <1>1, <1>2, <1>3, <1>5, <2>1
  <2>2. CASE j # at
    BY <1>2, <1>3, <1>4, <2>2
  <2> QED
    BY <2>1, <2>2
<1> QED
  BY <1>3, <1>6, GrowingIsFresh DEF new

LEMMA DeleteIsFresh ==
  ASSUME NEW E, \A e \in E : e.last_timestamp \in Nat,
         NEW list \in Lists(E), NEW mid \in Lists(E), Fresh(list, mid),
         NEW key, key \cap Members(mid) # {}
  PROVE  Fresh(list, Delete(mid, key))
<1> DEFINE d   == IndexOf(mid, key)
           new == Delete(mid, key)
           Was(j) == IF d <= j THEN j + 1 ELSE j
<1>1. d \in Used(mid) /\ d \in Nat
  BY ClientIsFound, SlotsAreNumbers
<1>2. /\ new.clients = [i \in Slots |-> IF d <= i /\ i + 1 < mid.num
                                       THEN mid.clients[i + 1] ELSE mid.clients[i]]
      /\ new.num = mid.num - 1
  BY DEF Delete
<1> HIDE DEF d, new
<1>3. ASSUME NEW j \in Used(new)
      PROVE  Was(j) \in Used(mid) /\ new.clients[j] = mid.clients[Was(j)] /\ j \in Nat
  <2>1. j \in Slots /\ j \in Nat /\ j < mid.num - 1
    BY <1>2, <1>3, SlotsAreNumbers DEF Used
  <2>2. j + 1 \in Used(mid) /\ j \in Used(mid) /\ j + 1 < mid.num
    BY <2>1, SlotsAreNumbers DEF Used, Slots
  <2>3. new.clients[j] = IF d <= j /\ j + 1 < mid.num
                         THEN mid.clients[j + 1] ELSE mid.clients[j]
    BY <1>2, <2>1
  <2> QED
    BY <2>1, <2>2, <2>3
<1>4. OneEach(new)
  <2> SUFFICES ASSUME NEW i \in Used(new), NEW j \in Used(new),
                      new.clients[i].id = new.clients[j].id
               PROVE  i = j
    BY DEF OneEach
  <2>1. Was(i) = Was(j)
    BY <1>3 DEF Fresh, OneEach
  <2> QED
    BY <1>1, <1>3, <2>1
<1>5. Recalls(list, new)
  BY <1>3 DEF Fresh, Recalls
<1> QED
  BY <1>4, <1>5 DEF Fresh, new

LEMMA PermissionsAreFresh ==
  ASSUME RoomInv, NEW mid \in Lists(Good), Fresh(acl, mid),
         Members(mid) = Members(acl), NEW key \in SUBSET Ids, NEW perms, MayApply(mid, key, perms),
         \A e \in Good : e.last_timestamp \in Nat /\ e.last_activity \in Nat
  PROVE  Fresh(acl, applyPermissions(mid, key, perms))
<1>1. acl \in Lists(Good)
  BY DEF RoomInv
<1>2. CASE Role(perms) = Guest
  BY <1>1, <1>2, DeleteIsFresh DEF MayApply, applyPermissions
<1>3. CASE Role(perms) # Guest
  <2> DEFINE id  == CHOOSE id \in key : TRUE
             put == putClient(mid, id, Guest)
             at  == SlotFor(mid, id)
             new == applyPermissions(mid, key, perms)
  <2>1. id \in Ids
    <3>1. key # {}
      BY <1>3, FS_EmptySet DEF MayApply
    <3> QED
      BY <3>1
  <2>2. new = [put EXCEPT !.clients[at].permissions = perms]
    BY <1>3 DEF applyPermissions
  <2> HIDE DEF id
  <2>3. NewClient(id, Guest) \in Good
    BY <2>1, NewIsGood
  <2>4. put \in Lists(Good) /\ at \in Used(put)
    BY <2>1, <2>3, PutKeeps
  <2>5. Fresh(mid, put)
    BY <2>1, <2>3, PutIsFresh DEF Fresh
  <2>6. Fresh(acl, put)
    <3>1. CASE id \in Members(mid)
      BY <3>1 DEF put, putClient
    <3>2. CASE id \notin Members(mid)
      <4> SUFFICES ASSUME NEW j \in Used(put), put.clients[j].id \in Members(acl)
                   PROVE  \E i \in Used(acl) :
                            /\ acl.clients[i].id = put.clients[j].id
                            /\ acl.clients[i].last_timestamp <= put.clients[j].last_timestamp
        BY <2>5 DEF Fresh, Recalls
      <4>1. PICK m \in Used(mid) :
              /\ mid.clients[m].id = put.clients[j].id
              /\ mid.clients[m].last_timestamp <= put.clients[j].last_timestamp
        BY <2>5 DEF Fresh, Recalls
      <4>2. mid.clients[m].id \in Members(acl)
        BY <4>1
      <4>3. PICK i \in Used(acl) :
              /\ acl.clients[i].id = mid.clients[m].id
              /\ acl.clients[i].last_timestamp <= mid.clients[m].last_timestamp
        BY <4>2 DEF Fresh, Recalls
      <4>4. /\ acl.clients[i] \in Good /\ mid.clients[m] \in Good /\ put.clients[j] \in Good
        BY <1>1, <2>4, SlotsAreNumbers DEF Lists
      <4>5. /\ acl.clients[i].last_timestamp \in Nat /\ mid.clients[m].last_timestamp \in Nat
            /\ put.clients[j].last_timestamp \in Nat
        BY <4>4
      <4> HIDE DEF put
      <4> QED
        BY <4>1, <4>3, <4>5
    <3> QED
      BY <3>1, <3>2
  <2> HIDE DEF put, at, new
  <2>7. put \in [clients: [Slots -> Good], num: 0 .. MaxClients] /\ Used(put) \subseteq Slots
    BY <2>4, SlotsAreNumbers DEF Lists
  <2>8. /\ new.num = put.num
        /\ new.clients = [put.clients EXCEPT ![at] = [put.clients[at] EXCEPT !.permissions = perms]]
    BY <2>2, <2>7
  <2>9. \A j \in Used(put) : /\ new.clients[j].id = put.clients[j].id
                             /\ new.clients[j].last_timestamp \in Nat
                             /\ put.clients[j].last_timestamp <= new.clients[j].last_timestamp
    <3>1. \A e \in Good : /\ [e EXCEPT !.permissions = perms].id = e.id
                          /\ [e EXCEPT !.permissions = perms].last_timestamp = e.last_timestamp
      BY DEF Good, ClientInfo
    <3> QED
      BY <2>4, <2>7, <2>8, <3>1
  <2> QED
    BY <1>1, <2>4, <2>6, <2>8, <2>9, GrowingIsFresh DEF new
<1> QED
  BY <1>2, <1>3

(* Inductive, as long as the authors of the posts in the ring keep their   *)
(* entries: whoever has a post there is known with a time stamp that is    *)
(* not older, so that a text that is posted is a newer one than all.       *)
OnceInv ==
  /\ OneEach(acl)
  /\ \A k, m \in 1 .. Len(file) : file[k].id = file[m].id => k = m
  /\ \A k \in Ring : posts[k].author \in Ids => posts[k].author \in Members(acl)
  /\ \A i \in Used(acl), k \in Ring :
       posts[k].author = acl.clients[i].id => posts[k].text <= acl.clients[i].last_timestamp
  /\ PostedOnce

(* The list does not lose the author of a post that is in the ring, unless *)
(* the ring is lost too.                                                   *)
AuthorsStay ==
  \A k \in Ring : posts[k].author \in Members(acl) =>
    posts[k].author \in Members(acl') \/ posts' = [p \in Ring |-> NoPost]

LEMMA GoodStamps ==
  \A e \in Good : e.last_timestamp \in Nat /\ e.last_activity \in Nat
BY DEF Good, ClientInfo

LEMMA ListStamps ==
  ASSUME RoomInv
  PROVE  /\ acl \in Lists(Good)
         /\ \A i \in Used(acl) : /\ acl.clients[i] \in Good /\ acl.clients[i].id \in Ids
                                 /\ acl.clients[i].last_timestamp \in Nat
<1>1. acl \in Lists(Good)
  BY DEF RoomInv
<1> QED
  BY <1>1, GoodStamps, SlotsAreNumbers DEF Lists

LEMMA OnceStart == Init => OnceInv
<1> SUFFICES ASSUME Init
             PROVE  OnceInv
  OBVIOUS
<1>1. Used(acl) = {}
  BY ACLAssumption DEF Init, EmptyList, Used, Slots
<1>2. \A k \in Ring : posts[k].author = NoId
  BY DEF Init, NoPost
<1> QED
  BY <1>1, <1>2, ACLAssumption DEF OnceInv, OneEach, PostedOnce, Init

(* A step that adds no post and writes no file. *)
LEMMA FreshKeepsOnce ==
  ASSUME RoomInv, RoomInv', OnceInv, Fresh(acl, acl'), AuthorsStay,
         UNCHANGED <<posts, file>>
  PROVE  OnceInv'
<1>1. CASE posts' = [p \in Ring |-> NoPost]
  <2>1. \A k \in Ring : posts'[k].author = NoId
    BY <1>1 DEF NoPost
  <2>2. \A i \in Used(acl)' : acl'.clients[i].id \in Ids
    BY ListStamps DEF RoomInv, Lists
  <2> QED
    BY <2>1, <2>2, ACLAssumption DEF OnceInv, Fresh, PostedOnce
<1>2. CASE posts' # [p \in Ring |-> NoPost]
  <2>1. \A k \in Ring : posts[k].author \in Ids => posts[k].author \in Members(acl')
    BY <1>2 DEF OnceInv, AuthorsStay
  <2>2. ASSUME NEW j \in Used(acl'), NEW k \in Ring, posts[k].author = acl'.clients[j].id
        PROVE  posts[k].text <= acl'.clients[j].last_timestamp
    <3>1. acl'.clients[j].id \in Ids /\ acl'.clients[j].last_timestamp \in Nat
      <4>1. acl' \in AccessLists(Acks)
        BY DEF RoomInv, TypeOK
      <4>2. j \in Slots
        BY DEF Used
      <4>3. acl'.clients[j] \in ClientInfo(Acks)
        BY <4>1, <4>2 DEF AccessLists
      <4>4. acl'.clients[j].id \in Ids
        BY DEF RoomInv, Lists
      <4> QED
        BY <4>3, <4>4 DEF ClientInfo
    <3>2. posts[k].author \in Members(acl)
      BY <2>2, <3>1 DEF OnceInv
    <3>3. PICK i \in Used(acl) :
            /\ acl.clients[i].id = acl'.clients[j].id
            /\ acl.clients[i].last_timestamp <= acl'.clients[j].last_timestamp
      BY <2>2, <3>2 DEF Fresh, Recalls
    <3>4. posts[k].text <= acl.clients[i].last_timestamp
      BY <2>2, <3>3 DEF OnceInv
    <3>5. posts[k].text \in Nat /\ acl.clients[i].last_timestamp \in Nat
      BY ListStamps DEF RoomInv, TypeOK, Post
    <3> QED
      BY <3>1, <3>3, <3>4, <3>5
  <2> QED
    BY <2>1, <2>2 DEF OnceInv, Fresh, PostedOnce
<1> QED
  BY <1>1, <1>2

LEMMA AclSameIsFresh ==
  ASSUME RoomInv, OnceInv
  PROVE  Fresh(acl, acl)
BY ListStamps, SameIsFresh DEF OnceInv

(* A change to the entry of c, with no older time stamp. *)
LEMMA EntryIsFresh ==
  ASSUME RoomInv, OnceInv, NEW c \in Members(acl), NEW e, e.id = c,
         e.last_timestamp \in Nat, Entry(c).last_timestamp <= e.last_timestamp
  PROVE  Fresh(acl, With(acl, c, e))
<1>1. acl \in Lists(Good) /\ Fresh(acl, acl) /\ \A x \in Good : x.last_timestamp \in Nat
  BY ListStamps, AclSameIsFresh, GoodStamps
<1>2. acl.clients[IndexOf(acl, {c})].last_timestamp <= e.last_timestamp
  BY DEF Entry
<1> HIDE DEF Entry
<1> QED
  BY <1>1, <1>2, WithIsFresh

LEMMA HeardIsFresh ==
  ASSUME RoomInv, OnceInv, NEW c \in Members(acl), NEW ts \in Nat, NEW t,
         ts >= Entry(c).last_timestamp
  PROVE  /\ Fresh(acl, With(acl, c, Heard(Entry(c), ts, t)))
         /\ Heard(Entry(c), ts, t).id = c /\ Heard(Entry(c), ts, t).last_timestamp = ts
<1>1. Entry(c) \in Good /\ Entry(c).id = c
  BY EntryIsGood
<1>2. Entry(c) \in ClientInfo(Acks)
  BY <1>1 DEF Good
<1>3. Heard(Entry(c), ts, t).id = c /\ Heard(Entry(c), ts, t).last_timestamp = ts
  BY <1>1, <1>2 DEF Heard, ClientInfo
<1>4. Entry(c).last_timestamp <= ts
  BY <1>2 DEF ClientInfo
<1> QED
  BY <1>3, <1>4, EntryIsFresh

LEMMA LoginIsFresh ==
  ASSUME RoomInv, OnceInv, NEW c \in Ids, NEW ts \in Stamps, NEW since, NEW password \in Passwords,
         Login(c, ts, since, password)
  PROVE  Fresh(acl, acl')
<1> DEFINE put == putClient(acl, c, Guest)
           old == put.clients[IndexOf(put, {c})]
<1>1. NewClient(c, Guest) \in Good /\ acl \in Lists(Good) /\ ts \in Nat
  BY NewIsGood, ListStamps, RoomAssumption
<1>2. put \in Lists(Good) /\ c \in Members(put)
  BY <1>1, GoodStamps, PutKeeps
<1>3. Fresh(acl, put)
  BY <1>1, GoodStamps, PutIsFresh DEF OnceInv
<1>4. old \in Good /\ old.id = c
  BY <1>2, ClientIsFound, SlotsAreNumbers DEF Lists
<1>5. PICK role \in RoleFor(password) :
        IF ts <= old.last_timestamp
        THEN acl' = put
        ELSE acl' = With(put, c, LoggedIn(old, ts, since, role))
  BY DEF Login
<1> HIDE DEF put, old
<1>6. CASE ts <= old.last_timestamp
  BY <1>3, <1>5, <1>6
<1>7. CASE ~(ts <= old.last_timestamp)
  <2> DEFINE e == LoggedIn(old, ts, since, role)
  <2>1. old \in ClientInfo(Acks)
    BY <1>4 DEF Good
  <2>2. e.id = c /\ e.last_timestamp = ts
    BY <1>4, <2>1 DEF LoggedIn, ClientInfo
  <2>3. put.clients[IndexOf(put, {c})].last_timestamp <= ts
    BY <1>1, <1>7, <2>1 DEF old, ClientInfo
  <2> HIDE DEF e
  <2>4. \A x \in Good : x.last_timestamp \in Nat
    BY GoodStamps
  <2>5. Fresh(acl, With(put, c, e))
    BY <1>1, <1>2, <1>3, <2>2, <2>3, <2>4, WithIsFresh
  <2> QED
    BY <1>5, <1>7, <2>5 DEF e
<1> QED
  BY <1>6, <1>7

LEMMA PathIsFresh ==
  ASSUME RoomInv, OnceInv, NEW c \in Members(acl)
  PROVE  /\ Fresh(acl, With(acl, c, Reached(Entry(c))))
         /\ With(acl, c, Reached(Entry(c))) \in Lists(Good)
<1>1. Entry(c) \in Good /\ Entry(c).id = c /\ c \in Ids
  BY EntryIsGood
<1>2. Entry(c) \in ClientInfo(Acks)
  BY <1>1 DEF Good
<1>3. Reached(Entry(c)).id = c /\ Reached(Entry(c)).last_timestamp = Entry(c).last_timestamp
      /\ Entry(c).last_timestamp \in Nat
  BY <1>1, <1>2 DEF Reached, ClientInfo
<1>4. With(acl, c, Reached(Entry(c))) \in Lists(Good)
  BY <1>1, ReachedIsGood, EntryReplaced
<1> QED
  BY <1>3, <1>4, EntryIsFresh

LEMMA RequestIsFresh ==
  ASSUME RoomInv, OnceInv, NEW c \in Ids, NEW ts \in Stamps, NEW keepAlive, NEW since,
         Request(c, ts, keepAlive, since)
  PROVE  Fresh(acl, acl')
<1> DEFINE h == Heard(Entry(c), ts, now)
<1>1. c \in Members(acl) /\ ts >= Entry(c).last_timestamp /\ ts \in Nat
  BY RoomAssumption DEF Request
<1>2. Entry(c) \in ClientInfo(Acks) /\ Entry(c).id = c
  BY <1>1, EntryIsGood DEF Good
<1>3. PICK e : /\ acl' = With(acl, c, e)
               /\ \/ e = h
                  \/ e = [h EXCEPT !.pending_ack = NoAck]
                  \/ e = [h EXCEPT !.pending_ack = NoAck, !.sync_since = since]
  <2>1. acl' = With(acl, c, IF keepAlive
           THEN [h EXCEPT !.pending_ack = NoAck, !.sync_since = IF since > 0 THEN since ELSE @]
           ELSE h)
    BY DEF Request
  <2>2. CASE keepAlive /\ since > 0
    BY <2>1, <2>2
  <2>3. CASE keepAlive /\ ~(since > 0)
    <3>1. [h EXCEPT !.pending_ack = NoAck, !.sync_since = @] = [h EXCEPT !.pending_ack = NoAck]
      BY <1>2 DEF Heard, ClientInfo
    <3> QED
      BY <2>1, <2>3, <3>1
  <2>4. CASE ~keepAlive
    BY <2>1, <2>4
  <2> QED
    BY <2>2, <2>3, <2>4
<1>4. e.id = c /\ e.last_timestamp = ts
  BY <1>2, <1>3 DEF Heard, ClientInfo
<1>5. Entry(c).last_timestamp <= ts
  BY <1>1, <1>2 DEF ClientInfo
<1> QED
  BY <1>1, <1>3, <1>4, <1>5, EntryIsFresh

LEMMA CommandIsFresh ==
  ASSUME RoomInv, OnceInv, NEW c \in Ids, NEW ts \in Stamps, NEW cmd \in Commands,
         CommandArrives(c, ts, cmd[1], cmd[2])
  PROVE  Fresh(acl, acl')
<1>1. c \in Members(acl) /\ ts >= Entry(c).last_timestamp /\ ts \in Nat
      /\ cmd[1] \in SUBSET Ids /\ cmd[2] \in Roles
  BY RoomAssumption DEF CommandArrives
<1>2. PICK t : t = last_unique'
  OBVIOUS
<1> DEFINE h    == Heard(Entry(c), ts, t)
           list == With(acl, c, h)
<1>3. t \in Nat
  BY <1>2, UniqueIsNew DEF RoomInv, TypeOK, CommandArrives
<1>4. Fresh(acl, list) /\ h.id = c
  BY <1>1, HeardIsFresh
<1>5. h \in Good
  BY <1>1, <1>3, EntryIsGood, HeardIsGood
<1>6. list \in Lists(Good) /\ Members(list) = Members(acl)
  BY <1>1, <1>4, <1>5, WithKeeps DEF RoomInv
<1>7. MayApply(acl, cmd[1], cmd[2]) <=> MayApply(list, cmd[1], cmd[2])
  BY <1>6 DEF MayApply
<1>8. \/ MayApply(acl, cmd[1], cmd[2]) /\ acl' = applyPermissions(list, cmd[1], cmd[2])
      \/ acl' = list
  BY <1>2 DEF CommandArrives
<1> HIDE DEF list
<1> QED
  BY <1>1, <1>4, <1>6, <1>7, <1>8, PermissionsAreFresh, GoodStamps

LEMMA SetPermIsFresh ==
  ASSUME RoomInv, OnceInv, NEW cmd \in Commands, SetPerm(cmd[1], cmd[2])
  PROVE  Fresh(acl, acl')
<1>1. cmd[1] \in SUBSET Ids /\ acl \in Lists(Good) /\ Fresh(acl, acl)
  BY RoomAssumption, ListStamps, AclSameIsFresh
<1> QED
  BY <1>1, PermissionsAreFresh, GoodStamps DEF SetPerm

(* Changes that touch neither whose an entry is nor its time stamp.        *)
LEMMA TouchedIsFresh ==
  ASSUME RoomInv, OnceInv, NEW new, new.num = acl.num,
         \A j \in Slots : /\ new.clients[j].id = acl.clients[j].id
                         /\ new.clients[j].last_timestamp = acl.clients[j].last_timestamp
  PROVE  Fresh(acl, new)
<1>1. acl \in Lists(Good) /\ Fresh(acl, acl) /\ \A x \in Good : x.last_timestamp \in Nat
  BY ListStamps, AclSameIsFresh, GoodStamps
<1>2. \A j \in Used(acl) : /\ new.clients[j].id = acl.clients[j].id
                           /\ new.clients[j].last_timestamp \in Nat
                           /\ acl.clients[j].last_timestamp <= new.clients[j].last_timestamp
  BY ListStamps DEF Used
<1> QED
  BY <1>1, <1>2, GrowingIsFresh

LEMMA PushIsFresh ==
  ASSUME RoomInv, OnceInv, NEW T, NEW n \in Attempts, NEW created \in BOOLEAN,
         PushTurn(T, n, created)
  PROVE  Fresh(acl, acl')
<1> DEFINE list == TimedOut(T)
           at   == next_client_idx
           e    == list.clients[at]
<1>1. acl \in [clients: [Slots -> ClientInfo(Acks)], num: 0 .. MaxClients] /\ at \in Slots
  BY DEF RoomInv, TypeOK, AccessLists
<1>2. /\ list = [acl EXCEPT !.clients =
                   [i \in Slots |-> IF i \in T THEN Late(acl.clients[i]) ELSE acl.clients[i]]]
      /\ list.num = acl.num
      /\ list.clients = [i \in Slots |-> IF i \in T THEN Late(acl.clients[i]) ELSE acl.clients[i]]
  BY <1>1 DEF TimedOut
<1>3. \A x \in ClientInfo(Acks) : /\ Late(x).id = x.id /\ Late(x).last_timestamp = x.last_timestamp
                                  /\ Late(x) \in ClientInfo(Acks)
  <2> TAKE x \in ClientInfo(Acks)
  <2>1. x.push_failures + 1 \in Nat /\ NoAck \in Acks \cup {NoAck}
    BY DEF ClientInfo
  <2>2. Late(x) = [x EXCEPT !.push_failures = x.push_failures + 1, !.pending_ack = NoAck]
    BY DEF Late
  <2> QED
    BY <2>1, <2>2 DEF ClientInfo
<1>4. /\ list \in [clients: [Slots -> ClientInfo(Acks)], num: 0 .. MaxClients]
      /\ \A j \in Slots : /\ list.clients[j].id = acl.clients[j].id
                          /\ list.clients[j].last_timestamp = acl.clients[j].last_timestamp
  BY <1>1, <1>2, <1>3
<1>5. \/ acl' = list
      \/ \E stamp, ack : acl' = [list EXCEPT !.clients[at] =
                             [e EXCEPT !.push_post_timestamp = stamp, !.pending_ack = ack]]
  <2> HIDE DEF list
  <2> QED
    BY DEF list, PushTurn, pushPostToClient
<1> HIDE DEF list, at
<1>6. CASE acl' = list
  BY <1>2, <1>4, <1>6, TouchedIsFresh
<1>7. ASSUME NEW stamp, NEW ack,
             acl' = [list EXCEPT !.clients[at] =
                       [e EXCEPT !.push_post_timestamp = stamp, !.pending_ack = ack]]
      PROVE  Fresh(acl, acl')
  <2>1. acl'.num = acl.num
    BY <1>2, <1>4, <1>7
  <2>2. acl'.clients = [list.clients EXCEPT ![at] =
                          [e EXCEPT !.push_post_timestamp = stamp, !.pending_ack = ack]]
    BY <1>4, <1>7
  <2>3. e \in ClientInfo(Acks)
    BY <1>1, <1>4
  <2>4. /\ [e EXCEPT !.push_post_timestamp = stamp, !.pending_ack = ack].id = e.id
        /\ [e EXCEPT !.push_post_timestamp = stamp, !.pending_ack = ack].last_timestamp
             = e.last_timestamp
    BY <2>3 DEF ClientInfo
  <2>5. \A j \in Slots : /\ acl'.clients[j].id = acl.clients[j].id
                        /\ acl'.clients[j].last_timestamp = acl.clients[j].last_timestamp
    BY <1>4, <2>2, <2>4
  <2> QED
    BY <2>1, <2>5, TouchedIsFresh
<1> QED
  BY <1>5, <1>6, <1>7

LEMMA AckTouches ==
  ASSUME NEW list \in Lists(Good), NEW ack
  PROVE  /\ processAck(list, ack).num = list.num
         /\ \A j \in Slots :
              /\ processAck(list, ack).clients[j].id = list.clients[j].id
              /\ processAck(list, ack).clients[j].last_timestamp = list.clients[j].last_timestamp
<1> DEFINE i == Least(Owing(list, ack))
<1>1. list \in [clients: [Slots -> Good], num: 0 .. MaxClients]
  BY DEF Lists
<1>2. CASE Owing(list, ack) = {}
  BY <1>2 DEF processAck
<1>3. CASE Owing(list, ack) # {}
  <2>1. i \in Slots
    <3>1. Owing(list, ack) \subseteq Slots /\ Owing(list, ack) \subseteq Nat
      BY SlotsAreNumbers DEF Owing
    <3> QED
      BY <1>3, <3>1, LeastIsLeast
  <2>2. processAck(list, ack) = [list EXCEPT !.clients[i] = Acked(list.clients[i])]
    BY <1>3 DEF processAck
  <2>3. \A x \in Good : Acked(x).id = x.id /\ Acked(x).last_timestamp = x.last_timestamp
    BY DEF Acked, Good, ClientInfo
  <2> HIDE DEF i
  <2> QED
    BY <1>1, <2>1, <2>2, <2>3
<1> QED
  BY <1>2, <1>3

LEMMA AnswerIsFresh ==
  ASSUME RoomInv, OnceInv, NEW p \in air, AnswerArrives(p)
  PROVE  Fresh(acl, acl')
<1>1. \/ acl' = processAck(acl, p.ack)
      \/ /\ p.client \in Members(acl)
         /\ acl' = processAck(With(acl, p.client, Reached(Entry(p.client))), p.ack)
      \/ acl' = acl
  BY DEF AnswerArrives
<1>2. CASE acl' = processAck(acl, p.ack)
  BY <1>2, ListStamps, AckTouches, TouchedIsFresh
<1>3. ASSUME p.client \in Members(acl),
             acl' = processAck(With(acl, p.client, Reached(Entry(p.client))), p.ack)
      PROVE  Fresh(acl, acl')
  <2> DEFINE mid == With(acl, p.client, Reached(Entry(p.client)))
  <2>1. Fresh(acl, mid) /\ mid \in Lists(Good)
    BY <1>3, PathIsFresh
  <2>2. acl' = processAck(mid, p.ack)
    BY <1>3
  <2> HIDE DEF mid
  <2>3. /\ acl'.num = mid.num
        /\ \A j \in Slots : /\ acl'.clients[j].id = mid.clients[j].id
                            /\ acl'.clients[j].last_timestamp = mid.clients[j].last_timestamp
    BY <2>1, <2>2, AckTouches
  <2>4. \A j \in Used(mid) : mid.clients[j] \in Good /\ j \in Slots
    BY <2>1, SlotsAreNumbers DEF Lists
  <2>5. \A j \in Used(mid) : /\ acl'.clients[j].id = mid.clients[j].id
                             /\ acl'.clients[j].last_timestamp \in Nat
                             /\ mid.clients[j].last_timestamp <= acl'.clients[j].last_timestamp
    BY <2>3, <2>4, GoodStamps
  <2>6. acl \in Lists(Good) /\ \A x \in Good : x.last_timestamp \in Nat
    BY ListStamps, GoodStamps
  <2> QED
    BY <2>1, <2>3, <2>5, <2>6, GrowingIsFresh
<1>4. CASE acl' = acl
  BY <1>4, AclSameIsFresh
<1> QED
  BY <1>1, <1>2, <1>3, <1>4

(* What is written names a client once. *)
LEMMA SavedOnce ==
  ASSUME RoomInv, OnceInv, NEW k \in 1 .. Len(Saved(acl)), NEW m \in 1 .. Len(Saved(acl)),
         Saved(acl)[k].id = Saved(acl)[m].id
  PROVE  k = m
<1> DEFINE A == Admins(acl)
<1>1. A \subseteq Used(acl) /\ A \subseteq Slots /\ A \in SUBSET Nat /\ IsFiniteSet(Slots)
  BY ListStamps, SlotsAreNumbers DEF Admins
<1>2. IsFiniteSet(A) /\ Cardinality(A) \in Nat
  BY <1>1, FS_Subset, FS_CardinalityType
<1>3. Saved(acl) = [i \in 1 .. Cardinality(A) |-> acl.clients[Nth(A, i)]]
  BY DEF Saved
<1> HIDE DEF A
<1>4. Len(Saved(acl)) = Cardinality(A)
  BY <1>2, <1>3
<1>5. /\ Nth(A, k) \in A /\ Cardinality({j \in A : j <= Nth(A, k)}) = k
      /\ Nth(A, m) \in A /\ Cardinality({j \in A : j <= Nth(A, m)}) = m
  BY <1>1, <1>2, <1>4, NthIsThere
<1>6. Nth(A, k) = Nth(A, m)
  BY ZenonT(60), <1>1, <1>3, <1>4, <1>5 DEF OnceInv, OneEach
<1> QED
  BY <1>5, <1>6

LEMMA SaveKeepsOnce ==
  ASSUME RoomInv, OnceInv, SaveClients
  PROVE  OnceInv'
<1>1. acl' = acl /\ posts' = posts /\ (file' = Saved(acl) \/ file' = file)
  BY DEF SaveClients, ring
<1>2. \A k, m \in 1 .. Len(file') : file'[k].id = file'[m].id => k = m
  BY <1>1, SavedOnce DEF OnceInv
<1> QED
  BY <1>1, <1>2 DEF OnceInv, PostedOnce

LEMMA RestartKeepsOnce ==
  ASSUME RoomInv, RoomInv', OnceInv, NEW written \in 0 .. MaxClients,
         NEW kept \in BOOLEAN, Restart(written, kept)
  PROVE  OnceInv'
<1>1. /\ file' = IF written < Len(Saved(acl)) THEN SubSeq(Saved(acl), 1, written) ELSE file
      /\ acl' = Loaded(file')
      /\ posts' = [k \in Ring |-> NoPost]
  BY DEF Restart
<1>2. Saved(acl) \in Seq({acl.clients[i] : i \in Used(acl)}) /\ Len(Saved(acl)) \in Nat
  BY ListStamps, SavedKeeps
<1>3. \A k, m \in 1 .. Len(file') : file'[k].id = file'[m].id => k = m
  <2>1. CASE written < Len(Saved(acl))
    <3>1. /\ Len(file') = written
          /\ \A i \in 1 .. written : file'[i] = Saved(acl)[i]
      <4>1. file' = SubSeq(Saved(acl), 1, written)
        BY <1>1, <2>1
      <4> HIDE DEF Saved
      <4> QED
        BY <1>2, <2>1, <4>1
    <3>2. written \in Nat /\ \A i \in 1 .. written : i \in 1 .. Len(Saved(acl))
      BY <1>2, <2>1
    <3> QED
      BY <3>1, <3>2, SavedOnce
  <2>2. CASE ~(written < Len(Saved(acl)))
    BY <1>1, <2>2 DEF OnceInv
  <2> QED
    BY <2>1, <2>2
<1>4. file' \in Seq(ClientInfo(Acks)) /\ Len(file') \in Nat /\ Len(file') <= MaxClients
  BY DEF RoomInv, TypeOK
<1>5. \A i \in Slots : i \in Nat /\ i < MaxClients
  BY ACLAssumption DEF Slots
<1>6. ASSUME NEW i \in Used(acl')
      PROVE  i \in Nat /\ i + 1 \in 1 .. Len(file') /\ acl'.clients[i].id = file'[i + 1].id
  <2>1. acl'.num = Len(file') /\ i \in Slots /\ i \in Nat /\ i < Len(file')
    <3>1. acl'.num = IF Len(file') < MaxClients THEN Len(file') ELSE MaxClients
      BY <1>1 DEF Loaded
    <3>2. acl'.num = Len(file')
      BY <1>4, <3>1, ACLAssumption
    <3>3. i \in Slots /\ i < acl'.num
      BY DEF Used
    <3> QED
      BY <1>5, <3>2, <3>3
  <2>2. acl'.clients[i] =
          [NewClient(file'[i + 1].id, file'[i + 1].permissions) EXCEPT
             !.sync_since = file'[i + 1].sync_since, !.out_path = file'[i + 1].out_path]
    BY <1>1, <2>1 DEF Loaded
  <2> QED
    BY <1>4, <2>1, <2>2 DEF NewClient
<1>7. OneEach(acl')
  <2> SUFFICES ASSUME NEW i \in Used(acl'), NEW j \in Used(acl'),
                      acl'.clients[i].id = acl'.clients[j].id
               PROVE  i = j
    BY DEF OneEach
  <2>1. /\ i + 1 \in 1 .. Len(file') /\ j + 1 \in 1 .. Len(file')
        /\ file'[i + 1].id = file'[j + 1].id
    BY <1>6
  <2>2. i + 1 = j + 1
    BY <1>3, <2>1
  <2> QED
    BY <1>6, <2>2
<1>8. \A k \in Ring : posts'[k].author = NoId
  BY <1>1 DEF NoPost
<1>9. \A i \in Used(acl') : acl'.clients[i].id \in Ids
  BY DEF RoomInv, Lists
<1> QED
  BY <1>3, <1>7, <1>8, <1>9, ACLAssumption DEF OnceInv, PostedOnce

(* A text that is posted is newer than all of its author's in the ring. *)
LEMMA TextKeepsOnce ==
  ASSUME RoomInv, RoomInv', OnceInv, AuthorsStay,
         NEW c \in Ids, NEW ts \in Stamps, TextArrives(c, ts)
  PROVE  OnceInv'
<1>1. c \in Members(acl) /\ ts \in Nat /\ ts >= Entry(c).last_timestamp /\ file' = file
  BY RoomAssumption DEF TextArrives, disk
<1> DEFINE old == Entry(c)
           new == Heard(old, ts, Unique(last_unique))
           at  == IndexOf(acl, {c})
           n   == next_post_idx
<1>2. acl' = With(acl, c, new)
  BY DEF TextArrives
<1>3. Fresh(acl, acl') /\ new.id = c /\ new.last_timestamp = ts
  BY <1>1, <1>2, HeardIsFresh
<1>4. CASE UNCHANGED ring
  BY <1>1, <1>3, <1>4, FreshKeepsOnce DEF ring
<1>5. CASE ~IsRetry(old, ts) /\ addPost(c, ts)
  <2>1. /\ posts \in [Ring -> Post] /\ n \in Ring /\ acl \in Lists(Good)
    BY ListStamps DEF RoomInv, TypeOK
  <2>2. \E stamp : posts' = [posts EXCEPT ![n] = [author |-> c, text |-> ts, post_timestamp |-> stamp]]
    BY <1>5 DEF addPost
  <2>3. /\ posts'[n].author = c /\ posts'[n].text = ts
        /\ \A k \in Ring : k # n => posts'[k] = posts[k]
    BY <2>1, <2>2
  <2>4. /\ at \in Used(acl) /\ acl.clients[at].id = c /\ old = acl.clients[at]
        /\ old.last_timestamp \in Nat /\ old.last_timestamp < ts
    <3>1. at \in Used(acl) /\ acl.clients[at].id = c /\ old = acl.clients[at]
      BY <1>1, <2>1, ClientIsFound DEF Entry
    <3>2. old.last_timestamp \in Nat /\ ts # old.last_timestamp
      BY <1>5, <3>1, ListStamps DEF IsRetry
    <3> QED
      BY <1>1, <3>1, <3>2
  <2> HIDE DEF old, new, at, n
  <2>5. ASSUME NEW k \in Ring, posts[k].author = c
        PROVE  posts[k].text \in Nat /\ posts[k].text < ts
    <3>1. posts[k].text <= acl.clients[at].last_timestamp /\ posts[k].text \in Nat
      BY <2>1, <2>4, <2>5 DEF OnceInv, Post
    <3> QED
      BY <1>1, <2>4, <3>1
  <2>6. posts' # [p \in Ring |-> NoPost]
    BY <2>1, <2>3, ACLAssumption DEF NoPost
  <2>7. \A k \in Ring : posts[k].author \in Ids => posts[k].author \in Members(acl')
    BY <2>6 DEF OnceInv, AuthorsStay
  <2>8. Members(acl') = Members(acl) /\ \A i \in Used(acl') : acl'.clients[i].id \in Ids
    <3>1. \A i \in Used(acl') : acl'.clients[i].id \in Ids
      BY DEF RoomInv, Lists
    <3>2. new \in Good
      <4>1. Unique(last_unique) \in Nat
        BY UniqueIsNew DEF RoomInv, TypeOK
      <4> QED
        BY <1>1, <4>1, EntryIsGood, HeardIsGood DEF new, old
    <3> QED
      BY <1>1, <1>2, <1>3, <2>1, <3>1, <3>2, WithKeeps
  <2>9. \A k \in Ring : posts'[k].author \in Ids => posts'[k].author \in Members(acl')
    BY <1>1, <2>3, <2>7, <2>8
  <2>10. ASSUME NEW j \in Used(acl'), NEW k \in Ring, posts'[k].author = acl'.clients[j].id
         PROVE  posts'[k].text <= acl'.clients[j].last_timestamp
    <3>1. j \in Slots /\ acl'.clients[j].id \in Members(acl) /\ acl'.clients[j].id \in Ids
      BY <2>8 DEF Used, Members
    <3>2. acl'.clients[j].last_timestamp \in Nat
      <4>1. acl' \in AccessLists(Acks)
        BY DEF RoomInv, TypeOK
      <4>2. acl'.clients[j] \in ClientInfo(Acks)
        BY <3>1, <4>1 DEF AccessLists
      <4> QED
        BY <4>2 DEF ClientInfo
    <3>3. CASE acl'.clients[j].id = c
      <4>1. acl'.clients[j] = new
        <5>1. acl' = [acl EXCEPT !.clients[at] = new]
          BY <1>2 DEF With, at
        <5>2. /\ acl \in [clients: [Slots -> Good], num: 0 .. MaxClients] /\ at \in Slots
          BY <2>1, <2>4, SlotsAreNumbers DEF Lists
        <5>3. acl'.clients = [acl.clients EXCEPT ![at] = new] /\ acl'.num = acl.num
          BY <5>1, <5>2
        <5>4. j = at
          <6>1. j \in Used(acl)
            BY <5>3 DEF Used
          <6>2. acl'.clients[at] = new /\ at \in Used(acl')
            BY <2>4, <5>2, <5>3 DEF Used
          <6> QED
            BY <1>3, <3>3, <6>2 DEF Fresh, OneEach
        <5> QED
          BY <5>2, <5>3, <5>4
      <4>2. posts'[k].text \in Nat /\ posts'[k].text <= ts
        BY <1>1, <2>3, <2>5, <2>10, <3>3
      <4> QED
        BY <1>3, <4>1, <4>2
    <3>4. CASE acl'.clients[j].id # c
      <4>1. k # n /\ posts'[k] = posts[k]
        BY <2>3, <2>10, <3>4
      <4>2. PICK i \in Used(acl) :
              /\ acl.clients[i].id = acl'.clients[j].id
              /\ acl.clients[i].last_timestamp <= acl'.clients[j].last_timestamp
        BY <1>3, <3>1 DEF Fresh, Recalls
      <4>3. posts[k].text <= acl.clients[i].last_timestamp
        BY <2>10, <4>1, <4>2 DEF OnceInv
      <4>4. posts[k].text \in Nat /\ acl.clients[i].last_timestamp \in Nat
        BY <2>1, ListStamps DEF Post
      <4> QED
        BY <3>2, <4>1, <4>2, <4>3, <4>4
    <3> QED
      BY <3>3, <3>4
  <2>11. PostedOnce'
    <3> SUFFICES ASSUME NEW j \in Ring, NEW k \in Ring, j # k, posts'[j].author \in Ids,
                        posts'[j].author = posts'[k].author, posts'[j].text = posts'[k].text
                 PROVE  FALSE
      BY DEF PostedOnce
    <3>1. CASE j = n
      BY <1>1, <2>3, <2>5, <3>1
    <3>2. CASE k = n
      BY <1>1, <2>3, <2>5, <3>2
    <3>3. CASE j # n /\ k # n
      BY <2>3, <3>3 DEF OnceInv, PostedOnce
    <3> QED
      BY <3>1, <3>2, <3>3
  <2> QED
    BY <1>1, <1>3, <2>9, <2>10, <2>11 DEF OnceInv, Fresh
<1>6. UNCHANGED ring \/ (~IsRetry(old, ts) /\ addPost(c, ts))
  BY DEF TextArrives
<1> QED
  BY <1>4, <1>5, <1>6

LEMMA NextKeepsOnce ==
  ASSUME RoomInv, RoomInv', OnceInv, AuthorsStay, [Next]_vars
  PROVE  OnceInv'
<1>1. ASSUME NEW c \in Ids, NEW ts \in Stamps, BlankLogin(c, ts)
      PROVE  OnceInv'
  BY <1>1, AclSameIsFresh, FreshKeepsOnce DEF BlankLogin, ring, disk
<1>2. ASSUME NEW c \in Ids, PathArrives(c)
      PROVE  OnceInv'
  BY <1>2, PathIsFresh, FreshKeepsOnce DEF PathArrives, ring, disk
<1>3. ASSUME NEW c \in Ids, NEW ts \in Stamps, NEW since, NEW password \in Passwords,
             Login(c, ts, since, password)
      PROVE  OnceInv'
  <2>1. Fresh(acl, acl')
    BY <1>3, LoginIsFresh
  <2>2. UNCHANGED <<posts, file>>
    BY <1>3 DEF Login, ring
  <2> QED
    BY <2>1, <2>2, FreshKeepsOnce
<1>4. ASSUME NEW c \in Ids, NEW ts \in Stamps, NEW since, NEW keepAlive,
             Request(c, ts, keepAlive, since)
      PROVE  OnceInv'
  <2>1. Fresh(acl, acl')
    BY <1>4, RequestIsFresh
  <2>2. UNCHANGED <<posts, file>>
    BY <1>4 DEF Request, ring, disk
  <2> QED
    BY <2>1, <2>2, FreshKeepsOnce
<1>5. ASSUME NEW c \in Ids, NEW ts \in Stamps, TextArrives(c, ts)
      PROVE  OnceInv'
  BY <1>5, TextKeepsOnce
<1>6. ASSUME NEW c \in Ids, NEW ts \in Stamps, NEW cmd \in Commands,
             CommandArrives(c, ts, cmd[1], cmd[2])
      PROVE  OnceInv'
  <2>1. Fresh(acl, acl')
    BY <1>6, CommandIsFresh
  <2>2. UNCHANGED <<posts, file>>
    BY <1>6 DEF CommandArrives, ring
  <2> QED
    BY <2>1, <2>2, FreshKeepsOnce
<1>7. ASSUME NEW cmd \in Commands, SetPerm(cmd[1], cmd[2])
      PROVE  OnceInv'
  BY <1>7, SetPermIsFresh, FreshKeepsOnce DEF SetPerm, ring
<1>8. ASSUME NEW T, NEW n \in Attempts, NEW created \in BOOLEAN, PushTurn(T, n, created)
      PROVE  OnceInv'
  <2>1. Fresh(acl, acl')
    BY <1>8, PushIsFresh
  <2>2. UNCHANGED <<posts, file>>
    BY <1>8 DEF PushTurn, ring, disk
  <2> QED
    BY <2>1, <2>2, FreshKeepsOnce
<1>9. CASE SaveClients
  BY <1>9, SaveKeepsOnce
<1>10. ASSUME NEW p \in air, PushArrives(p)
       PROVE  OnceInv'
  BY <1>10, AclSameIsFresh, FreshKeepsOnce DEF PushArrives, ring, disk
<1>11. ASSUME NEW p \in air, AnswerArrives(p)
       PROVE  OnceInv'
  BY <1>11, AnswerIsFresh, FreshKeepsOnce DEF AnswerArrives, ring, disk
<1>12. CASE Lose
  BY <1>12, AclSameIsFresh, FreshKeepsOnce DEF Lose, ring, disk
<1>13. CASE Tick
  BY <1>13, AclSameIsFresh, FreshKeepsOnce DEF Tick, ring, disk
<1>14. ASSUME NEW written \in 0 .. MaxClients, NEW kept \in BOOLEAN, Restart(written, kept)
       PROVE  OnceInv'
  BY <1>14, RestartKeepsOnce
<1>15. CASE UNCHANGED vars
  BY <1>15, AclSameIsFresh, FreshKeepsOnce DEF vars, ring, disk
<1> QED
  BY <1>1, <1>2, <1>3, <1>4, <1>5, <1>6, <1>7, <1>8, <1>9, <1>10, <1>11, <1>12, <1>13, <1>14, <1>15
  DEF Next, FromClient, Arrive

(* A text that a client sends again, because its ACK got lost, is posted   *)
(* once, however often it comes and whatever else happens in between, as   *)
(* long as who has posts in the ring stays on the access list (is_retry in *)
(* onPeerDataRecv, putClient).                                             *)
THEOREM RetriesArePostedOnce == Spec /\ [][AuthorsStay]_vars => []PostedOnce
<1>1. RoomInv /\ RoomInv' /\ OnceInv /\ [Next]_vars /\ [AuthorsStay]_vars => OnceInv'
  <2> SUFFICES ASSUME RoomInv, RoomInv', OnceInv, [Next]_vars, [AuthorsStay]_vars
               PROVE  OnceInv'
    OBVIOUS
  <2>1. AuthorsStay
    BY DEF vars, AuthorsStay
  <2> QED
    BY <2>1, NextKeepsOnce
<1>2. OnceInv => PostedOnce
  BY DEF OnceInv
<1> QED
  BY <1>1, <1>2, OnceStart, RoomInvHolds, PTL DEF Spec

=============================================================================
