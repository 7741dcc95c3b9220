------------------------------ MODULE ClientACL ------------------------------
(***************************************************************************)
(* The access list (helpers/ClientACL.cpp) of room servers, repeaters and  *)
(* sensors, as operators on [clients, num]: the whole array and the number *)
(* of its entries.  Slots from num on keep what they held, which programs  *)
(* that index the array without asking for num can see.                    *)
(*                                                                         *)
(* A public key is an identity; a command that gives only the first bytes  *)
(* of a key names the set of identities that begin with them.              *)
(***************************************************************************)
EXTENDS Naturals, FiniteSets, Sequences

CONSTANTS
  Ids,          \* public keys
  NoId,         \* the key of a slot never used
  MaxClients,   \* MAX_CLIENTS
  NoAck         \* pending_ack == 0

ASSUME ACLAssumption ==
  /\ NoId \notin Ids
  /\ MaxClients \in Nat \ {0}

Slots == 0 .. MaxClients - 1

Guest     == 0
ReadOnly  == 1
ReadWrite == 2
Admin     == 3
Roles     == {Guest, ReadOnly, ReadWrite, Admin}

(* Permissions hold a role and, in their highest bits, the alerts wanted.  *)
AlertsLo    == 64
AlertsHi    == 128
Permissions == {role + flags : role \in Roles,
                flags \in {0, AlertsLo, AlertsHi, AlertsLo + AlertsHi}}
Role(perms)    == perms % 4
WantsLo(perms) == (perms \div AlertsLo) % 2 = 1
WantsHi(perms) == perms \div AlertsHi = 1

ClientInfo(Acks) ==
  [id: Ids \cup {NoId}, permissions: Permissions, out_path: BOOLEAN,
   last_timestamp: Nat, last_activity: Nat,
   sync_since: Nat, pending_ack: Acks \cup {NoAck},
   push_post_timestamp: Nat, push_failures: Nat]

AccessLists(Acks) == [clients: [Slots -> ClientInfo(Acks)], num: 0 .. MaxClients]

(* memset(c, 0), the id and no path. *)
NewClient(id, perms) ==
  [id |-> id, permissions |-> perms, out_path |-> FALSE,
   last_timestamp |-> 0, last_activity |-> 0,
   sync_since |-> 0, pending_ack |-> NoAck,
   push_post_timestamp |-> 0, push_failures |-> 0]

EmptyList == [clients |-> [i \in Slots |-> NewClient(NoId, Guest)], num |-> 0]

Used(acl)    == {i \in Slots : i < acl.num}
Members(acl) == {acl.clients[i].id : i \in Used(acl)}

Least(S) == CHOOSE i \in S : \A j \in S : i <= j

(* getClient: the first entry whose key is among those given. *)
IndexOf(acl, key) == Least({i \in Used(acl) : acl.clients[i].id \in key})

(* Those a newcomer may push out: the least active that are no admins. *)
OldestOfAll(acl) ==
  Least({i \in Used(acl) : \A j \in Used(acl) :
           acl.clients[i].last_activity <= acl.clients[j].last_activity})

Oldest(acl) ==
  LET evictable == {i \in Used(acl) : Role(acl.clients[i].permissions) # Admin}
      least     == {i \in evictable : \A j \in evictable :
                      acl.clients[i].last_activity <= acl.clients[j].last_activity}
  IN  IF evictable = {} THEN MaxClients - 1 ELSE Least(least)

(* putClient: the entry of id, new if there was none. *)
SlotFor(acl, id) ==
  IF id \in Members(acl)       THEN IndexOf(acl, {id})
  ELSE IF acl.num < MaxClients THEN acl.num
  ELSE Oldest(acl)

putClient(acl, id, perms) ==
  IF id \in Members(acl) THEN acl
  ELSE [clients |-> [acl.clients EXCEPT ![SlotFor(acl, id)] = NewClient(id, perms)],
        num     |-> IF acl.num < MaxClients THEN acl.num + 1 ELSE acl.num]

(* The entries behind the deleted one move up; the last slot keeps a copy. *)
Delete(acl, key) ==
  LET d == IndexOf(acl, key)
  IN  [clients |-> [i \in Slots |-> IF d <= i /\ i + 1 < acl.num
                                    THEN acl.clients[i + 1] ELSE acl.clients[i]],
       num |-> acl.num - 1]

(* applyPermissions: a guest is deleted, by any part of its key; another   *)
(* role needs the whole key.                                               *)
MayApply(acl, key, perms) ==
  IF Role(perms) = Guest THEN key \cap Members(acl) # {} ELSE Cardinality(key) = 1

applyPermissions(acl, key, perms) ==
  IF Role(perms) = Guest THEN Delete(acl, key)
  ELSE LET id  == CHOOSE id \in key : TRUE
           put == putClient(acl, id, Guest)
       IN  [put EXCEPT !.clients[SlotFor(acl, id)].permissions = perms]

(* save with a filter for admins, in their order, and load: the transient  *)
(* fields are lost.                                                        *)
Admins(acl) == {i \in Used(acl) : Role(acl.clients[i].permissions) = Admin}
Nth(S, k)   == CHOOSE i \in S : Cardinality({j \in S : j <= i}) = k
Saved(acl)  == [k \in 1 .. Cardinality(Admins(acl)) |-> acl.clients[Nth(Admins(acl), k)]]

Loaded(file) ==
  [clients |-> [i \in Slots |->
     IF i < Len(file)
     THEN [NewClient(file[i + 1].id, file[i + 1].permissions) EXCEPT
             !.sync_since = file[i + 1].sync_since, !.out_path = file[i + 1].out_path]
     ELSE NewClient(NoId, Guest)],
   num |-> IF Len(file) < MaxClients THEN Len(file) ELSE MaxClients]
=============================================================================
