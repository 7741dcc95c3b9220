----------------------------- MODULE RoomServer -----------------------------
(***************************************************************************)
(* The room server (examples/simple_room_server/MyMesh.cpp) and the        *)
(* clients that log in to it (the room part of BaseChatMesh).              *)
(*                                                                         *)
(* Clients post texts.  The server keeps the last ones in a ring and takes *)
(* turns over its clients, pushing to each the oldest post it has not yet  *)
(* acknowledged.  What a client has is known by the time stamp of the      *)
(* newest post it got, and the clock that stamps may fall back at a        *)
(* restart.                                                                *)
(*                                                                         *)
(* What clients send is handled in the step that sends it, with any of the *)
(* time stamps and any of the 'since' values they had so far, so that it   *)
(* may also have been under way for long.  Pushes and what they cause      *)
(* (ACKs, paths) stay on the air until they are delivered or lost.         *)
(***************************************************************************)
EXTENDS ClientACL

CONSTANTS
  MaxPosts,     \* MAX_UNSYNCED_POSTS
  SyncDelay,    \* POST_SYNC_DELAY_SECS
  Attempts,     \* values of attempt & 3
  MaxFailures,  \* failures after which a client is left alone
  ReadOnlyAllowed, \* prefs.allow_read_only
  Stamps,       \* bound: time stamps of clients, by their clocks
  Commands,     \* setperm commands: <<set of keys, permissions>>
  Budgets       \* bound: how often each kind of event may happen, in each scenario

Post   == [author: Ids \cup {NoId}, text: Nat, post_timestamp: Nat]
NoPost == [author |-> NoId, text |-> 0, post_timestamp |-> 0]
Ring   == 0 .. MaxPosts - 1

(* A push, by what its ACK is a hash of: client, post and attempt. *)
Acks == Ids \X Post \X Attempts

(* What clients send is counted for each client, time stamp and kind;       *)
(* "loss" is a packet that is lost, late or not created.                   *)
Passwords == {"admin", "room", "other"}
Kinds == (Ids \X Stamps \X (Passwords \cup {"blank", "text", "request", "command"}))
           \cup ({"path", "console", "loss", "boot"} \X {0})

ASSUME RoomAssumption ==
  /\ MaxPosts \in Nat \ {0}
  /\ 0 \in Attempts
  /\ SyncDelay \in Nat /\ MaxFailures \in Nat
  /\ NoAck \notin Acks
  /\ ReadOnlyAllowed \in BOOLEAN
  /\ Stamps \subseteq Nat
  /\ Budgets \subseteq [Kinds -> Nat]
  /\ Commands \subseteq (SUBSET Ids) \X Roles

VARIABLES
  acl,              \* the access list
  posts,            \* the ring: [author, text, post_timestamp]
  next_post_idx,
  next_client_idx,  \* whose turn it is
  now, last_unique, \* the server's clock, and getCurrentTimeUnique()
  horizon,          \* history: the latest time stamp given before the last start
  dirty,            \* a write of the access list is due
  file,             \* the access list as last written
  air,              \* packets under way
  heard,            \* pushes each client has received: <<post, attempt>>
  left              \* of the budget

ring    == <<posts, next_post_idx>>
clock   == <<now, last_unique, horizon>>
disk    == <<dirty, file>>
network == <<air, heard>>
vars    == <<acl, ring, next_client_idx, clock, disk, network, left>>

(* A push of a post, and the answer to it: an ACK, inside a PATH if the     *)
(* push came by flood.                                                     *)
Push(c, post, n, flood) == [kind |-> "push", client |-> c, ack |-> <<c, post, n>>, flood |-> flood]
Answer(push)            == [push EXCEPT !.kind = "answer"]
Packets == [kind: {"push", "answer"}, client: Ids, ack: Acks, flood: BOOLEAN]

Init ==
  /\ acl = EmptyList
  /\ posts = [k \in Ring |-> NoPost]
  /\ next_post_idx = 0 /\ next_client_idx = 0
  /\ now = 1 /\ last_unique = 0 /\ horizon = 0
  /\ dirty = FALSE /\ file = <<>>
  /\ air = {}
  /\ heard = [c \in Ids |-> {}]
  /\ left \in Budgets

Use(kind, n) == left[kind] >= n /\ left' = [left EXCEPT ![kind] = @ - n]
Input(kind)  == Use(kind, 1)

Entry(c) == acl.clients[IndexOf(acl, {c})]

(* Access list with the entry of c replaced. *)
With(list, c, entry) == [list EXCEPT !.clients[IndexOf(list, {c})] = entry]

Unique(last) == IF now <= last THEN last + 1 ELSE now

-----------------------------------------------------------------------------
(* Clients: logins, texts, requests, commands. *)

(* The posts c has.  It claims the time stamp of the newest, or of what    *)
(* was the newest when it sent this or before its contact was added again. *)
Got(c)    == {h[1] : h \in heard[c]}
Claims(c) == {post.post_timestamp : post \in Got(c)} \cup {0}

(* The role a password gives, none if it is wrong. *)
RoleFor(password) ==
  CASE password = "admin" -> {Admin}
    [] password = "room"  -> {ReadWrite}
    [] OTHER              -> IF ReadOnlyAllowed THEN {Guest} ELSE {}

LoggedIn(entry, ts, since, role) ==
  [entry EXCEPT !.last_timestamp = ts, !.sync_since = since, !.pending_ack = NoAck,
                !.push_failures = 0, !.last_activity = now, !.permissions = role]

(* onAnonDataRecv with a password.                                         *)
Login(c, ts, since, password) ==
  /\ Input(<<c, ts, password>>)
  /\ \E role \in RoleFor(password) :
       LET put == putClient(acl, c, Guest)
           old == put.clients[IndexOf(put, {c})]
       IN  IF ts <= old.last_timestamp
           THEN /\ acl' = put
                /\ UNCHANGED <<dirty, last_unique>>
           ELSE /\ acl' = With(put, c, LoggedIn(old, ts, since, role))
                /\ dirty' = TRUE
                /\ last_unique' = Unique(last_unique)
  /\ UNCHANGED <<ring, next_client_idx, now, horizon, file, network>>

(* onAnonDataRecv with a blank password: enough for who is on the list,    *)
(* and changes nothing there, whatever its time stamp.                     *)
BlankLogin(c, ts) ==
  /\ Input(<<c, ts, "blank">>)
  /\ c \in Members(acl)
  /\ last_unique' = Unique(last_unique)
  /\ UNCHANGED <<acl, ring, next_client_idx, now, horizon, disk, network>>

(* onPeerPathRecv: a client returns the path of a login response.          *)
Reached(entry) == [entry EXCEPT !.out_path = TRUE, !.last_activity = now]

PathArrives(c) ==
  /\ Input(<<"path", 0>>)
  /\ c \in Members(acl)
  /\ acl' = With(acl, c, Reached(Entry(c)))
  /\ UNCHANGED <<ring, next_client_idx, clock, disk, network>>

(* onPeerDataRecv with a text: posted unless it has the time stamp of the  *)
(* last packet, and acknowledged in both cases.                            *)
NeverRetry(entry, ts) == FALSE

IsRetry(entry, ts)  == ts = entry.last_timestamp
MayPost(entry)      == entry.permissions # Guest

Heard(entry, ts, t) ==
  [entry EXCEPT !.last_timestamp = ts, !.last_activity = t, !.push_failures = 0]

addPostWithoutWrap(c, ts) ==
  /\ posts' = [posts EXCEPT ![next_post_idx] =
                 [author |-> c, text |-> ts, post_timestamp |-> last_unique']]
  /\ next_post_idx' = next_post_idx + 1

addPost(c, ts) ==
  /\ posts' = [posts EXCEPT ![next_post_idx] =
                 [author |-> c, text |-> ts, post_timestamp |-> last_unique']]
  /\ next_post_idx' = (next_post_idx + 1) % MaxPosts

TextArrives(c, ts) ==
  /\ Input(<<c, ts, "text">>)
  /\ c \in Members(acl)
  /\ ts >= Entry(c).last_timestamp
  /\ LET received == Unique(last_unique)
     IN  /\ acl' = With(acl, c, Heard(Entry(c), ts, received))
         /\ IF MayPost(Entry(c)) /\ ~IsRetry(Entry(c), ts)
            THEN last_unique' = Unique(received) /\ addPost(c, ts)
            ELSE last_unique' = received /\ UNCHANGED ring
  /\ UNCHANGED <<next_client_idx, now, horizon, disk, network>>

(* onPeerDataRecv with a request.  Only KEEP_ALIVE by a direct route tells *)
(* a 'since' (none: 0) and ends the wait for an ACK.                       *)
Request(c, ts, keepAlive, since) ==
  /\ Input(<<c, ts, "request">>)
  /\ c \in Members(acl)
  /\ ts >= Entry(c).last_timestamp
  /\ LET e == Heard(Entry(c), ts, now)
     IN  acl' = With(acl, c,
           IF keepAlive
           THEN [e EXCEPT !.pending_ack = NoAck,
                          !.sync_since = IF since > 0 THEN since ELSE @]
           ELSE e)
  /\ UNCHANGED <<ring, next_client_idx, clock, disk, network>>

(* onPeerDataRecv with a command, done for admins and not done again. *)
CommandArrives(c, ts, key, perms) ==
  /\ Input(<<c, ts, "command">>)
  /\ c \in Members(acl)
  /\ ts >= Entry(c).last_timestamp
  /\ last_unique' = Unique(last_unique)
  /\ LET list == With(acl, c, Heard(Entry(c), ts, last_unique'))
     IN  IF Entry(c).permissions = Admin /\ ~IsRetry(Entry(c), ts) /\ MayApply(acl, key, perms)
         THEN acl' = applyPermissions(list, key, perms) /\ dirty' = TRUE
         ELSE acl' = list /\ dirty' = dirty
  /\ UNCHANGED <<ring, next_client_idx, now, horizon, file, network>>

(* handleCommand "setperm" on the console of the server. *)
SetPerm(key, perms) ==
  /\ Input(<<"console", 0>>)
  /\ MayApply(acl, key, perms)
  /\ acl' = applyPermissions(acl, key, perms)
  /\ dirty' = TRUE
  /\ UNCHANGED <<ring, next_client_idx, clock, file, network>>

-----------------------------------------------------------------------------
(* loop(): one turn of pushing. *)

Waiting == {i \in Used(acl) : acl.clients[i].pending_ack # NoAck}

(* Clients whose answer can still come. *)
Answering == {i \in Waiting : \E p \in air : p.ack = acl.clients[i].pending_ack}

Late(entry) == [entry EXCEPT !.push_failures = @ + 1, !.pending_ack = NoAck]
TimedOut(T) ==
  [acl EXCEPT !.clients =
     [i \in Slots |-> IF i \in T THEN Late(acl.clients[i]) ELSE acl.clients[i]]]

(* Not waiting for an ACK, heard of since the start, and answering. *)
MayPushTo(entry) ==
  /\ entry.pending_ack = NoAck
  /\ entry.last_activity # 0
  /\ entry.push_failures < MaxFailures

IsFor(post, entry) ==
  /\ now >= post.post_timestamp + SyncDelay
  /\ post.post_timestamp > entry.sync_since
  /\ post.author # entry.id

(* The posts for an entry, found from next_post_idx on.  The mutant stops   *)
(* before the last one.                                                    *)
RingPos(k)       == (next_post_idx + k) % MaxPosts
UnsyncedButLast(entry) == {k \in Ring : k + 1 \in Ring /\ IsFor(posts[RingPos(k)], entry)}
Unsynced(entry)  == {k \in Ring : IsFor(posts[RingPos(k)], entry)}
NewestPost(entry) ==
  posts[RingPos(CHOOSE k \in Unsynced(entry) : \A j \in Unsynced(entry) : j <= k)]

NextPost(entry)  == posts[RingPos(Least(Unsynced(entry)))]

(* pushPostToClient; created is FALSE if the pool has no packet. *)
pushPostToClient(list, i, post, n, created) ==
  LET e == list.clients[i]
  IN  /\ acl' = [list EXCEPT !.clients[i] =
                   [e EXCEPT !.push_post_timestamp = post.post_timestamp,
                             !.pending_ack = IF created THEN <<e.id, post, n>>
                                             ELSE NoAck]]
      /\ air' = IF created THEN air \cup {Push(e.id, post, n, ~e.out_path)}
                ELSE air

(* What is lost in a turn: answers that come too late, a packet the pool   *)
(* does not have, a push that its client has seen with this attempt.       *)
Losses(T, entry, n, created) ==
  Cardinality(T \cap Answering)
    + Cardinality({x \in {"pool"} : ~created})
    + Cardinality({h \in heard[entry.id] : h = <<NextPost(entry), n>>})

(* Attempts matter by being equal or not, so the first of a post is 0. *)
PushedBefore(id, post) == \/ post \in Got(id)
                          \/ \E p \in air : p.ack[1] = id /\ p.ack[2] = post

(* T are the clients whose ACK is overdue. *)
PushTurn(T, n, created) ==
  /\ acl.num > 0
  /\ T \subseteq Waiting
  /\ LET list  == TimedOut(T)
         entry == list.clients[next_client_idx]
     IN  IF MayPushTo(entry) /\ Unsynced(entry) # {}
         THEN /\ n = 0 \/ PushedBefore(entry.id, NextPost(entry))
              /\ Use(<<"loss", 0>>, Losses(T, entry, n, created))
              /\ pushPostToClient(list, next_client_idx, NextPost(entry), n, created)
         ELSE /\ created /\ n = 0
              /\ Use(<<"loss", 0>>, Cardinality(T \cap Answering))
              /\ acl' = list /\ air' = air
  /\ next_client_idx' = (next_client_idx + 1) % acl.num
  /\ UNCHANGED <<ring, clock, disk, heard>>

(* loop(): the lazy write of the access list, kept if a start is to come. *)
SaveClients ==
  /\ dirty
  /\ dirty' = FALSE
  /\ file' = IF left[<<"boot", 0>>] > 0 THEN Saved(acl) ELSE file
  /\ UNCHANGED <<acl, ring, next_client_idx, clock, network, left>>

-----------------------------------------------------------------------------
(* Packets arrive. *)

(* BaseChatMesh::onPeerDataRecv with a signed text, at the client; it does *)
(* not get there if Mesh has seen the packet.                              *)
PushArrives(p) ==
  /\ p.kind = "push"
  /\ LET c == p.client  h == <<p.ack[2], p.ack[3]>>
     IN  /\ heard' = [heard EXCEPT ![c] = @ \cup {h}]
         /\ air' = (air \ {p}) \cup {q \in {Answer(p)} : h \notin heard[c]}
  /\ UNCHANGED <<acl, ring, next_client_idx, clock, disk, left>>

Owing(list, ack) == {i \in Used(list) : list.clients[i].pending_ack = ack}

Acked(entry) == [entry EXCEPT !.pending_ack = NoAck, !.push_failures = 0,
                              !.sync_since = entry.push_post_timestamp]

processAck(list, ack) ==
  IF Owing(list, ack) = {} THEN list
  ELSE LET i == Least(Owing(list, ack))
       IN  [list EXCEPT !.clients[i] = Acked(list.clients[i])]

(* onAckRecv, or onPeerPathRecv, which wants a known sender. *)
AnswerArrives(p) ==
  /\ p.kind = "answer"
  /\ acl' = IF ~p.flood THEN processAck(acl, p.ack)
            ELSE IF p.client \in Members(acl)
            THEN processAck(With(acl, p.client, Reached(Entry(p.client))), p.ack)
            ELSE acl
  /\ air' = air \ {p}
  /\ UNCHANGED <<ring, next_client_idx, clock, disk, heard, left>>

Arrive == \E p \in air : PushArrives(p) \/ AnswerArrives(p)

Lose ==
  /\ Use(<<"loss", 0>>, 1)
  /\ \E p \in air : air' = air \ {p}
  /\ UNCHANGED <<acl, ring, next_client_idx, clock, disk, heard>>

-----------------------------------------------------------------------------
(* Seconds pass, or the clock is set forwards (commands refuse to set it   *)
(* back): then nothing happens between.  How much later than SyncDelay     *)
(* past the last stamp, and than the stamps before the last start, it gets *)
(* makes no difference to any step.                                        *)
Tick ==
  /\ now < last_unique + SyncDelay \/ now <= horizon
  /\ now' = now + 1
  /\ UNCHANGED <<acl, ring, next_client_idx, last_unique, horizon, disk, network, left>>

(* A restart: posts are lost, the list is read back.  The clock is kept by *)
(* a clock chip or over a warm start; at power-on without a chip it falls  *)
(* back to where it started from when the board was new.  written is how   *)
(* much of the list a write that the restart interrupts gets to.           *)
Restart(written, kept) ==
  /\ Use(<<"boot", 0>>, 1)
  /\ file' = IF written < Len(Saved(acl)) THEN SubSeq(Saved(acl), 1, written) ELSE file
  /\ written < Len(Saved(acl)) => dirty
  /\ acl' = Loaded(file')
  /\ posts' = [k \in Ring |-> NoPost]
  /\ next_post_idx' = 0 /\ next_client_idx' = 0
  /\ now' = IF kept THEN now ELSE 1
  /\ last_unique' = 0
  /\ horizon' = IF last_unique > horizon THEN last_unique ELSE horizon
  /\ dirty' = FALSE
  /\ UNCHANGED network

FromClient(c) ==
  \/ PathArrives(c)
  \/ \E ts \in Stamps :
       \/ \E since \in Claims(c), password \in Passwords : Login(c, ts, since, password)
       \/ BlankLogin(c, ts)
       \/ TextArrives(c, ts)
       \/ \E since \in Claims(c), keepAlive \in BOOLEAN : Request(c, ts, keepAlive, since)
       \/ \E cmd \in Commands : CommandArrives(c, ts, cmd[1], cmd[2])

Next ==
  \/ \E c \in Ids : FromClient(c)
  \/ \E cmd \in Commands : SetPerm(cmd[1], cmd[2])
  \/ \E T \in SUBSET Slots, n \in Attempts, created \in BOOLEAN : PushTurn(T, n, created)
  \/ SaveClients
  \/ Arrive
  \/ Lose
  \/ Tick
  \/ \E written \in 0 .. MaxClients, kept \in BOOLEAN : Restart(written, kept)

Spec == Init /\ [][Next]_vars

(* loop() is called for ever and times out exactly whom no answer is on    *)
(* its way to; what is on the air arrives; time passes.  Clients, losses,  *)
(* restarts and writes need not happen.                                    *)
Fairness ==
  /\ WF_vars(\E n \in Attempts : PushTurn(Waiting \ Answering, n, TRUE))
  /\ WF_vars(Arrive)
  /\ WF_vars(Tick)

FairSpec == Spec /\ Fairness

-----------------------------------------------------------------------------
(* Properties *)

(* Types of the state of server and clients. *)
TypeOK ==
  /\ acl \in AccessLists(Acks)
  /\ posts \in [Ring -> Post] /\ next_post_idx \in Ring
  /\ next_client_idx \in Slots
  /\ now \in Nat \ {0} /\ last_unique \in Nat /\ horizon \in Nat
  /\ dirty \in BOOLEAN
  /\ file \in Seq(ClientInfo(Acks)) /\ Len(file) <= MaxClients
  /\ air \subseteq Packets
  /\ heard \in [Ids -> SUBSET (Post \X Attempts)]
  /\ left \in [Kinds -> Nat]

(* What the server takes a client to have, the client has: sync_since      *)
(* passes over no post of another client that is still in the ring, even   *)
(* if pushes time out, late ACKs come in, the ring overwrites posts and    *)
(* the clock falls back at a restart (processAck, loop).  It is said of    *)
(* the posts with later time stamps than any before the last start: while  *)
(* the clock is behind those, sync_since, which is read back from the file *)
(* or claimed at the next login, does pass over new posts.                 *)
NoPostSkipped ==
  \A i \in Used(acl), k \in Ring :
    LET e == acl.clients[i]
    IN  posts[k].post_timestamp \in horizon + 1 .. e.sync_since /\ posts[k].author # e.id
          => posts[k] \in Got(e.id)

(* A text that a client sends again, because the ACK got lost, is posted   *)
(* once, as long as the client's entry stays on the list (is_retry in      *)
(* onPeerDataRecv).                                                        *)
PostedOnce ==
  \A j, k \in Ring : j # k /\ posts[j].author \in Ids
    => <<posts[j].author, posts[j].text>> # <<posts[k].author, posts[k].text>>

(* Without a restart or a command that deletes it, an administrator's      *)
(* entry goes only when there is nobody else to give way (putClient).      *)
AdminsStay ==
  [][ left'[<<"boot", 0>>] = left[<<"boot", 0>>] /\ acl'.num >= acl.num =>
        \A i \in Used(acl) : acl.clients[i].permissions = Admin =>
           \/ acl.clients[i].id \in Members(acl')
           \/ \A j \in Slots : acl.clients[j].permissions = Admin ]_vars

(* In the end, every client that the server has heard of has every post of *)
(* the others that is still in the ring, those excepted that were stamped  *)
(* while the clock was behind where it was before the last start (loop).   *)
Listening(c) == c \in Members(acl) /\ Entry(c).last_activity # 0
Synced(c) ==
  \A k \in Ring : \/ posts[k].author \in {c, NoId}
                  \/ posts[k].post_timestamp <= horizon
                  \/ posts[k] \in Got(c)

PostsReachClients == <>[](\A c \in Ids : Listening(c) => Synced(c))

=============================================================================
