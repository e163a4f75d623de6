----------------------------- MODULE FileAccess -----------------------------
(***************************************************************************)
(* May this file be trusted: the permission rules of safefileio and of the *)
(* directory check, and the group membership they rest on, which is cached *)
(* and may change while the program runs.                                  *)
(*                                                                         *)
(* A decision that needs the members of a group is a query. It looks in    *)
(* the cache, enumerates the group on a miss and stores what it found; the *)
(* clock may advance and the user database may change in between. Each     *)
(* user of the cache (safefileio, the directory check) has its own.        *)
(*                                                                         *)
(* A node is [kind, uid, gid, mode]; mode holds the bits "uw", "gw", "ow"  *)
(* and "sticky".                                                           *)
(***************************************************************************)
EXTENDS Naturals, Sequences, SequencesExt, FiniteSets, TLC

CONSTANTS Users, Root, Groups, RootGroup,
          CacheTimeout,     \* lifetime of a cached membership
          CleanupInterval,  \* misses between two cleanups
          MaxTime,          \* bound: when the clock stops
          EnumTime,         \* bound: ticks during one enumeration
          Parent            \* directory -> its parent; the root is its own

\* DefaultCacheTimeout is a positive duration; an enumeration takes a bounded number of ticks.
ASSUME TimesAssumption == CacheTimeout \in Nat \ {0} /\ EnumTime \in Nat /\ MaxTime \in Nat

VARIABLES
  now,      \* the clock
  members,  \* group -> its line in the user database: whether there is one, who it lists, whose primary group it is
  who,      \* the process: its real user, policy and SUDO_UID
  node,     \* file or directory -> what lstat tells
  cache,    \* instance -> group -> members found, when, and until when they count
  misses,   \* instance -> misses since the last cleanup
  query,    \* the membership being asked for
  grants    \* decisions that rest on a membership

accessVars == <<now, members, who, node, cache, misses, query, grants>>

Instances == {"files", "dirs"}
NoQuery == [stage |-> "none"]
NoEntry == [members |-> {}, at |-> 0, expiry |-> 0]

AccessInit ==
  /\ now = 0
  /\ cache = [i \in Instances |-> [g \in Groups |-> NoEntry]]
  /\ misses = [i \in Instances |-> 0]
  /\ query = NoQuery
  /\ grants = {}

----------------------------------------------------------------------------
(* Whose permission counts.                                                *)
NoUser == "nobody"

\* SUDO_UID is consulted only by a tool that asks for it and only when it runs as root.
ResolvePermissionCheckUID ==
  IF who.policy # "SudoUIDAware" \/ who.real # Root \/ who.sudo = {} THEN who.real
  ELSE IF who.sudo \subseteq Users THEN CHOOSE u \in who.sudo : TRUE
  ELSE NoUser

\* The user database. A group without a line of its own has no members.
FindGroupByGID(gid) == IF members[gid].listed THEN {members[gid].explicit} ELSE {}
FindUsersWithPrimaryGID(gid) == members[gid].primary
EnumeratedMembers(gid) ==
  IF FindGroupByGID(gid) = {} THEN {} ELSE (UNION FindGroupByGID(gid)) \cup FindUsersWithPrimaryGID(gid)
\* What the system says of one user, without the cache.
InGroupNow(uid, gid) == uid \in members[gid].explicit \cup members[gid].primary

----------------------------------------------------------------------------
(* The rules. Each gives "yes", "no", or the question to ask of the group. *)
Ask(inst, uid, gid, want) == [stage |-> "check", inst |-> inst, uid |-> uid, gid |-> gid, want |-> want,
                              found |-> {}, at |-> 0, ticks |-> 0]

\* Go keeps setuid, setgid and sticky outside the bits that are compared with the maximum for reading.
MaxAllowedReadPerms == {"uw", "gw"}
CanCurrentUserSafelyReadFile(n) ==
  LET uid == ResolvePermissionCheckUID
      perm == n.mode \ {"sticky"}
  IN IF uid = NoUser \/ "ow" \in perm \/ ~(perm \subseteq MaxAllowedReadPerms) THEN "no"
     ELSE IF "gw" \in perm /\ ~InGroupNow(uid, n.gid) THEN "member"
     ELSE "yes"

CanUserSafelyWriteFile(uid, n) ==
  CASE "ow" \in n.mode -> "no"
    [] "ow" \notin n.mode /\ "gw" \in n.mode -> IF uid # n.uid THEN "no" ELSE "sole"
    [] OTHER -> IF "uw" \in n.mode /\ uid = n.uid THEN "yes" ELSE "no"

IsTrustedGroup(gid) == gid = RootGroup

\* Root's directories are accepted whatever their group.
ValidateGroupWriteTrustingRoot(n) == IF n.uid = Root THEN "yes" ELSE CanUserSafelyWriteFile(who.real, n)
ValidateGroupWritePermissions(n) ==
  IF n.uid = Root /\ IsTrustedGroup(n.gid) THEN "yes" ELSE CanUserSafelyWriteFile(who.real, n)

OwnerAcceptable(n) == "uw" \in n.mode => n.uid \in {Root, who.real}

ValidateDirectoryComponentPermissions(n) ==
  LET group == IF "gw" \in n.mode /\ ("ow" \notin n.mode \/ "sticky" \notin n.mode)
               THEN ValidateGroupWritePermissions(n) ELSE "yes"
  IN IF "ow" \in n.mode /\ "sticky" \notin n.mode THEN "no"
     ELSE IF group = "yes" /\ ~OwnerAcceptable(n) THEN "no"
     ELSE group

----------------------------------------------------------------------------
(* GetGroupMembers, from the question of one of its callers to the answer. *)

\* Each caller asks one question at a time and goes on with the answer.
AskGroup(inst, uid, gid, want) ==
  /\ query = NoQuery
  /\ query' = Ask(inst, uid, gid, want)
  /\ UNCHANGED <<now, members, who, node, cache, misses, grants>>

TakeAnswer ==
  /\ query.stage \in {"granted", "denied"}
  /\ query' = NoQuery
  /\ UNCHANGED <<now, members, who, node, cache, misses, grants>>

Fresh(entry) == now < entry.expiry
ClearExpiredCache(entries) == [g \in Groups |-> IF now > entries[g].expiry THEN NoEntry ELSE entries[g]]

Satisfied(q, found) == IF q.want = "member" THEN q.uid \in found ELSE found = {q.uid}
Grant(q, found, at) == [uid |-> q.uid, gid |-> q.gid, want |-> q.want, found |-> found, at |-> at, when |-> now]

\* The answer, and the decision taken on it.
Answer(q, found, at) ==
  /\ query' = [q EXCEPT !.stage = IF Satisfied(q, found) THEN "granted" ELSE "denied"]
  /\ grants' = IF Satisfied(q, found) THEN grants \cup {Grant(q, found, at)} ELSE grants

CacheHit ==
  /\ query.stage = "check"
  /\ Fresh(cache[query.inst][query.gid])
  /\ LET e == cache[query.inst][query.gid] IN Answer(query, e.members, e.at)
  /\ UNCHANGED <<now, members, who, node, cache, misses>>

\* Under the lock: the periodic cleanup, then the enumeration, which may fail.
EnumerateGroupMembers ==
  /\ query.stage = "check"
  /\ ~Fresh(cache[query.inst][query.gid])
  /\ LET cleanup == misses[query.inst] + 1 >= CleanupInterval
     IN /\ misses' = [misses EXCEPT ![query.inst] = IF cleanup THEN 0 ELSE @ + 1]
        /\ cache' = IF cleanup THEN [cache EXCEPT ![query.inst] = ClearExpiredCache(@)] ELSE cache
  /\ \/ query' = [query EXCEPT !.stage = "store", !.found = EnumeratedMembers(query.gid), !.at = now]
     \/ query' = [query EXCEPT !.stage = "denied"]
  /\ UNCHANGED <<now, members, who, node, grants>>

\* The entry that is stored, its lifetime counted from now.
EntryCountedFromHere(q) == [members |-> q.found, at |-> q.at, expiry |-> now + CacheTimeout + CacheTimeout]
EntryStored(q) == [members |-> q.found, at |-> q.at, expiry |-> now + CacheTimeout]

StoreMembers ==
  /\ query.stage = "store"
  /\ cache' = [cache EXCEPT ![query.inst][query.gid] = EntryStored(query)]
  /\ Answer(query, query.found, query.at)
  /\ UNCHANGED <<now, members, who, node, misses>>

----------------------------------------------------------------------------
(* The rest of the system.                                                 *)
Tick ==
  /\ now < MaxTime
  /\ query.stage = "store" => query.ticks < EnumTime
  /\ now' = now + 1
  /\ query' = IF query.stage = "store" THEN [query EXCEPT !.ticks = @ + 1] ELSE query
  /\ UNCHANGED <<members, who, node, cache, misses, grants>>

ChangeMembership ==
  /\ \E g \in {x \in Groups \ {RootGroup} : members[x].listed}, u \in Users \ {Root} :
       members' = [members EXCEPT ![g].explicit = IF u \in @ THEN @ \ {u} ELSE @ \cup {u}]
  /\ UNCHANGED <<now, who, node, cache, misses, query, grants>>

----------------------------------------------------------------------------
(* The component by itself, with any callers and any user database. The    *)
(* steps of Startup, which is one system of callers, are steps of it or    *)
(* leave accessVars alone.                                                 *)
Databases == [Groups -> [listed : BOOLEAN, explicit : SUBSET Users, primary : SUBSET Users]]

AccessNext ==
  \/ \E inst \in Instances, uid \in Users, gid \in Groups, want \in {"member", "sole"} :
       AskGroup(inst, uid, gid, want)
  \/ CacheHit \/ EnumerateGroupMembers \/ StoreMembers \/ TakeAnswer
  \/ Tick \/ ChangeMembership

AccessSpec == AccessInit /\ members \in Databases /\ [][AccessNext]_accessVars

----------------------------------------------------------------------------
\* A decision that rests on a group rests on an enumeration of its members that is in favour of the
\* user and that began no longer ago than the lifetime of the cache and the time one enumeration may
\* take: a removal or an addition older than that is never overlooked (GetGroupMembers).
AccessByRecentMembership ==
  \A g \in grants : /\ g.when - g.at < CacheTimeout + EnumTime
                    /\ IF g.want = "member" THEN g.uid \in g.found ELSE g.found = {g.uid}
=============================================================================
